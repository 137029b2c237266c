------------------------- MODULE FileToReportProofs -------------------------
(***************************************************************************)
(* The export, the conversion, its selection, and what the reports say of  *)
(* the conversion; and the pictures.                                       *)
(*                                                                         *)
(* What an export keeps whatever fails around it, for any database, any    *)
(* number of reports, attempts, exports and mishaps: nothing in the folder *)
(* is replaced, whatever has the name of a report is a whole report, the   *)
(* reports of one export were read from one state of the database, and the *)
(* workbook lists the CSV files that were saved; and when it ends, each of *)
(* its reports was saved or is listed as failed, once.  The inductive      *)
(* invariant follows the temporary file through _atomic_write: there is    *)
(* none before it is reserved, it belongs to the report at the head of the *)
(* queue, and `complete` is what vouches for it, on every way into the     *)
(* rename.  The workbook is the last report, so nothing is saved after it  *)
(* that it should have listed.                                             *)
(*                                                                         *)
(* What a conversion keeps (from "Selections" on), for any files that      *)
(* satisfy FilesAssumption, any ranges, limits and number of mishaps: rows,*)
(* counts, claim and pictures tell the same story, and nothing new is left *)
(* out.  Its invariant, ConversionInv, ties the rows made so far to the    *)
(* place in the plan and each row to the frame of its target; that a later *)
(* moment never has an earlier picture is a fact about Captured, proved    *)
(* from the entry points of the decoder.                                   *)
(*                                                                         *)
(* That the selection is the request ("The written range" on), of which    *)
(* Requested is the invariant: the plan is the one asked for.              *)
(*                                                                         *)
(* What the reports say (from "What the sheets take" on), for any limit of *)
(* a sheet and any number of pages in a request.  A sheet is a recursion   *)
(* over its rows, solved by SheetTells.  Telltale lists what a recorded    *)
(* database has of the conversion it is about; that this survives every    *)
(* step until the export begins (Truthful) makes the notes a matter of the *)
(* rows alone: a row without notes is one of a complete attempt.           *)
(*                                                                         *)
(* What the pictures are (from "Sides and shapes" on), for any picture and *)
(* any limits: each JPEG in the folder is what process_image makes of its  *)
(* page.  Sides are rounded once when the density is corrected and once    *)
(* more when the picture is made smaller; the bounds on the shape are      *)
(* inequalities between products, multiplied out one factor at a time.     *)
(* The search for the quality knows at every turn that what it has passed  *)
(* below fits and that what it has left above does not.                    *)
(***************************************************************************)
EXTENDS FileToReport, OrderedProofs, SequenceTheorems

Writing == {"reserve", "write", "name", "rename", "trouble"}
Resting == {"none", "closed", "open", "stamp", "over", "refused", "dead"}
Workbooks == {"Workbook", "Recovery"}
Names == {"Results", "Master Registry", "Page Log", "LLM Requests", "LLM Answers"} \cup Workbooks

\* The report at hand has been written, whole and from the snapshot.
Complete ==
  /\ temporary.whole /\ temporary.report = report
  /\ temporary.seen = Len(snapshot.files)
  /\ report \in Workbooks => temporary.csvs = SavedCsvs

Phases ==
  /\ phase \in Writing \cup Resting
  /\ phase = "none" => folder = << >>
  /\ phase \in {"name", "rename"} => complete
  /\ phase \in {"reserve", "write"} => ~ complete
  /\ phase \in Writing => attempt \in 0 .. EXPORT_WRITE_ATTEMPTS - 1

\* A workbook is the last report of its export.
Queued ==
  /\ queue \in Seq(Names)
  /\ phase \in Writing \cup {"stamp"} => queue # << >>
  /\ \A i \in 1 .. Len(queue) : queue[i] \in Workbooks => i = Len(queue)

Outcome ==
  /\ outcome = [saved |-> outcome.saved, failed |-> outcome.failed, notices |-> outcome.notices]
  /\ phase \in {"none", "closed", "open", "stamp"} => outcome.saved = {}
  /\ (\E s \in outcome.saved : s[1] \in Workbooks) => phase \notin Writing

Temporary ==
  /\ phase \in Resting \cup {"reserve"} => temporary = NoFile
  /\ phase \in Writing /\ complete => Complete
  /\ phase = "rename" => target[1] = report
  /\ litter \subseteq {"undeletable", "killed"}

IInv == Phases /\ Queued /\ Outcome /\ Temporary /\ WholeUnderFinalName /\ SavedReportsAgree

-----------------------------------------------------------------------------
(* The parts of an action that several of them share.                      *)

\* The reports do not change while the folder grows by a name, by nothing the
\* snapshot is taken from, and nothing is saved.
LEMMA FolderGrows ==
  ASSUME IInv, NEW name, name \notin DOMAIN folder, NEW content,
         folder' = Put(name, content), UNCHANGED snapshot, outcome'.saved = outcome.saved,
         content = Foreign \/ (content.whole /\ content.report = name[1])
  PROVE  WholeUnderFinalName' /\ SavedReportsAgree'
<1>1. DOMAIN folder' = DOMAIN folder \cup {name}
  BY DEF Put
<1>2. folder'[name] = content
  BY DEF Put
<1>3. \A n \in DOMAIN folder : folder'[n] = folder[n]
  BY DEF Put
<1>4. WholeUnderFinalName'
  BY <1>1, <1>2, <1>3 DEF IInv, WholeUnderFinalName
<1>5. SavedCsvs' = SavedCsvs
  BY DEF SavedCsvs
<1>6. SavedReportsAgree'
  BY <1>1, <1>3, <1>5 DEF IInv, SavedReportsAgree
<1> QED BY <1>4, <1>6

\* Files that nobody touches stay what they are.
LEMMA ReportsStay ==
  ASSUME IInv, UNCHANGED <<folder, snapshot>>, outcome'.saved = outcome.saved
  PROVE  WholeUnderFinalName' /\ SavedReportsAgree'
<1>1. SavedCsvs' = SavedCsvs
  BY DEF SavedCsvs
<1>2. SavedReportsAgree'
  BY <1>1 DEF IInv, SavedReportsAgree
<1>3. WholeUnderFinalName'
  BY DEF IInv, WholeUnderFinalName
<1> QED BY <1>2, <1>3

\* A step that leaves the export alone keeps the invariant.
LEMMA NothingMoves ==
  ASSUME IInv, UNCHANGED <<snapshot, folder, temporary, litter, phase, queue, job, outcome>>
  PROVE  IInv'
<1>1. report' = report /\ SavedCsvs' = SavedCsvs
  BY DEF report, SavedCsvs
<1>2. Complete' <=> Complete
  BY <1>1 DEF Complete
<1>3. Phases' /\ Queued' /\ Outcome'
  BY DEF IInv, Phases, Queued, Outcome, job
<1>4. Temporary'
  BY <1>1, <1>2 DEF IInv, Temporary, job
<1>5. WholeUnderFinalName' /\ SavedReportsAgree'
  BY ReportsStay
<1> QED BY <1>3, <1>4, <1>5 DEF IInv

\* A complete temporary file stays complete.
LEMMA CompleteStays ==
  ASSUME Complete, UNCHANGED <<temporary, queue, snapshot, outcome>>
  PROVE  Complete'
<1>1. SavedCsvs' = SavedCsvs
  BY DEF SavedCsvs
<1>2. report' = report /\ temporary' = temporary /\ snapshot' = snapshot
  BY DEF report
<1> QED BY <1>1, <1>2 DEF Complete

\* A failure is noted and nothing else.
LEMMA FailureNoted ==
  ASSUME Outcome, NEW failure,
         outcome' = [outcome EXCEPT !.failed = Append(@, failure)]
  PROVE  /\ outcome'.saved = outcome.saved
         /\ outcome' = [saved |-> outcome'.saved, failed |-> outcome'.failed,
                        notices |-> outcome'.notices]
<1>1. outcome = [saved |-> outcome.saved, failed |-> outcome.failed, notices |-> outcome.notices]
  BY DEF Outcome
<1> DEFINE o == outcome
<1>2. outcome' = [saved |-> o.saved, failed |-> Append(o.failed, failure), notices |-> o.notices]
  BY <1>1
<1> QED BY <1>2

\* The notices of the workbook are noted and nothing else.
LEMMA NoticesNoted ==
  ASSUME Outcome, NEW notices,
         outcome' = IF report = "Workbook" THEN [outcome EXCEPT !.notices = @ \cup notices] ELSE outcome
  PROVE  /\ outcome'.saved = outcome.saved
         /\ outcome' = [saved |-> outcome'.saved, failed |-> outcome'.failed,
                        notices |-> outcome'.notices]
<1>1. outcome = [saved |-> outcome.saved, failed |-> outcome.failed, notices |-> outcome.notices]
  BY DEF Outcome
<1> DEFINE o == outcome
<1>2. CASE report = "Workbook"
  <2>1. outcome' = [saved |-> o.saved, failed |-> o.failed, notices |-> o.notices \cup notices]
    BY <1>1, <1>2
  <2> QED BY <2>1
<1>3. CASE report # "Workbook"
  BY <1>1, <1>3
<1> QED BY <1>2, <1>3

\* What is left of the queue keeps a workbook last.
LEMMA RestQueued ==
  ASSUME Queued, phase \in Writing, NEW category
  PROVE  /\ Rest(category) \in Seq(Names)
         /\ \A i \in 1 .. Len(Rest(category)) :
              Rest(category)[i] \in Workbooks => i = Len(Rest(category))
         /\ Tail(queue) \in Seq(Names)
         /\ \A i \in 1 .. Len(Tail(queue)) : Tail(queue)[i] \in Workbooks => i = Len(Tail(queue))
         /\ report \in Workbooks => Tail(queue) = << >>
<1>1. queue \in Seq(Names) /\ queue # << >>
  BY DEF Queued
<1>2. /\ Tail(queue) \in Seq(Names) /\ Len(Tail(queue)) = Len(queue) - 1
      /\ \A i \in 1 .. Len(Tail(queue)) : Tail(queue)[i] = queue[i + 1]
  BY <1>1, HeadTailProperties
<1>3. Len(queue) \in Nat \ {0} /\ Len(Tail(queue)) \in Nat
  BY <1>1, <1>2, EmptySeq, LenProperties
<1>4. \A i \in 1 .. Len(Tail(queue)) : Tail(queue)[i] \in Workbooks => i = Len(Tail(queue))
  <2> SUFFICES ASSUME NEW i \in 1 .. Len(Tail(queue)), Tail(queue)[i] \in Workbooks
               PROVE  i = Len(Tail(queue))
    OBVIOUS
  <2>1. i + 1 \in 1 .. Len(queue)
    BY <1>2, <1>3
  <2>2. queue[i + 1] \in Workbooks
    BY <1>2
  <2>3. i + 1 = Len(queue)
    BY <2>1, <2>2 DEF Queued
  <2> QED BY <2>3, <1>2, <1>3
<1>5. report \in Workbooks => Tail(queue) = << >>
  <2> SUFFICES ASSUME queue[1] \in Workbooks PROVE Tail(queue) = << >>
    BY <1>1, <1>3 DEF report
  <2>1. 1 \in 1 .. Len(queue)
    BY <1>3
  <2>2. 1 = Len(queue)
    BY <2>1 DEF Queued
  <2>3. Len(Tail(queue)) = 0
    BY <2>2, <1>2
  <2> QED BY <2>3, <1>2, EmptySeq
<1>6. /\ <<"Recovery">> \in Seq(Names) /\ Len(<<"Recovery">>) = 1
  BY DEF Names, Workbooks
<1>7. Rest(category) = <<"Recovery">> \/ Rest(category) = Tail(queue)
  BY DEF Rest
<1>8. \A i \in 1 .. Len(<<"Recovery">>) : i = Len(<<"Recovery">>)
  BY <1>6
<1>9. /\ Rest(category) \in Seq(Names)
      /\ \A i \in 1 .. Len(Rest(category)) :
           Rest(category)[i] \in Workbooks => i = Len(Rest(category))
  <2>1. CASE Rest(category) = <<"Recovery">>
    BY <2>1, <1>6, <1>8
  <2>2. CASE Rest(category) = Tail(queue)
    BY <2>2, <1>2, <1>4
  <2> QED BY <2>1, <2>2, <1>7
<1> QED BY <1>2, <1>4, <1>5, <1>9

\* The next job begins with no file of the last one.
LEMMA JobEnds ==
  ASSUME IInv, phase \in Writing, NEW rest \in Seq(Names),
         \A i \in 1 .. Len(rest) : rest[i] \in Workbooks => i = Len(rest),
         NextJob(rest), temporary' = NoFile, litter' \subseteq litter \cup {"undeletable"}
  PROVE  /\ Phases' /\ Queued' /\ Temporary'
         /\ phase' \in {"over", "reserve"}
         /\ phase' = "reserve" => rest # << >>
<1>1. /\ queue' = rest /\ attempt' = 0 /\ ~ complete'
      /\ phase' \in {"over", "reserve"} /\ (phase' = "reserve" => rest # << >>)
  BY DEF NextJob
<1>2. 0 \in 0 .. EXPORT_WRITE_ATTEMPTS - 1
  BY ExportAssumption
<1>3. Phases'
  BY <1>1, <1>2 DEF Phases, Writing, Resting
<1>4. Queued'
  BY <1>1 DEF Queued, Writing
<1>5. Temporary'
  BY <1>1 DEF IInv, Temporary, Writing, Resting
<1> QED BY <1>1, <1>3, <1>4, <1>5

\* The workbook is written after every CSV file.
LEMMA WorkbookLast ==
  ASSUME NEW d
  PROVE  LET q == Csvs(d) \o <<"Workbook">>
         IN  /\ q \in Seq(Names) /\ q # << >>
             /\ \A i \in 1 .. Len(q) : q[i] \in Workbooks => i = Len(q)
<1> DEFINE q == Csvs(d) \o <<"Workbook">>
           Reports == Names \ Workbooks
<1>1. /\ <<"Results", "Master Registry", "Page Log">> \in Seq(Reports)
      /\ <<"LLM Requests", "LLM Answers">> \in Seq(Reports) /\ << >> \in Seq(Reports)
  BY DEF Names, Workbooks
<1>2. (IF d.ai THEN <<"LLM Requests", "LLM Answers">> ELSE << >>) \in Seq(Reports)
  BY <1>1
<1>3. Csvs(d) \in Seq(Reports)
  BY <1>1, <1>2, ConcatProperties DEF Csvs
<1>a. Csvs(d) \in Seq(Names)
  BY <1>3, SeqMonotonic, Reports \subseteq Names
<1>b. <<"Workbook">> \in Seq(Names) /\ Len(<<"Workbook">>) = 1
  BY DEF Names, Workbooks
<1>4. Csvs(d) \in Seq(Names) /\ <<"Workbook">> \in Seq(Names) /\ Len(<<"Workbook">>) = 1
  BY <1>a, <1>b
<1>5. /\ q \in Seq(Names) /\ Len(q) = Len(Csvs(d)) + 1
      /\ \A i \in 1 .. Len(q) : i <= Len(Csvs(d)) => q[i] = Csvs(d)[i]
  BY <1>4, ConcatProperties
<1>6. Len(Csvs(d)) \in Nat /\ \A i \in 1 .. Len(Csvs(d)) : Csvs(d)[i] \notin Workbooks
  BY <1>3, LenProperties, ElementOfSeq
<1>7. q # << >>
  BY <1>5, <1>6, EmptySeq
<1>8. \A i \in 1 .. Len(q) : q[i] \in Workbooks => i = Len(q)
  BY <1>5, <1>6
<1> QED BY <1>5, <1>7, <1>8

-----------------------------------------------------------------------------
(* Each step keeps the invariant.                                          *)

\* Nothing is written at first.
LEMMA InitKeeps == FileToReportInit => IInv
<1> SUFFICES ASSUME FileToReportInit PROVE IInv
  OBVIOUS
<1>1. Phases
  BY DEF FileToReportInit, Phases, Writing, Resting
<1>2. Queued
  <2>1. queue = << >> /\ phase = "none"
    BY DEF FileToReportInit
  <2>2. << >> \in Seq(Names) /\ Len(<< >>) = 0
    BY EmptySeq
  <2>3. \A i \in 1 .. 0 : FALSE
    OBVIOUS
  <2> QED BY <2>1, <2>2, <2>3 DEF Queued, Writing
<1>3. Outcome
  BY DEF FileToReportInit, Outcome, NoOutcome
<1>4. Temporary
  BY DEF FileToReportInit, Temporary, Resting, Writing
<1>5. WholeUnderFinalName /\ SavedReportsAgree
  <2>1. folder = << >> /\ outcome.saved = {}
    BY DEF FileToReportInit, NoOutcome
  <2> QED BY <2>1 DEF WholeUnderFinalName, SavedReportsAgree
<1> QED BY <1>1, <1>2, <1>3, <1>4, <1>5 DEF IInv

\* The steps of _export between the reports.
LEMMA ExportKeeps ==
  ASSUME IInv,
         StartExport \/ ConfigurationMissing \/ ReadConfiguration \/ ExportFails \/ ChooseStamp
  PROVE  IInv'
<1>1. CASE StartExport
  <2>1. phase' = "open" /\ phase \in {"closed", "over", "refused"} /\ outcome' = NoOutcome
        /\ UNCHANGED <<snapshot, folder, temporary, litter, queue>>
    BY <1>1 DEF StartExport
  <2>2. Phases' /\ Queued' /\ Temporary'
    BY <2>1 DEF IInv, Phases, Queued, Temporary, Writing, Resting
  <2>3. outcome' = [saved |-> {}, failed |-> << >>, notices |-> {}]
    BY <2>1 DEF NoOutcome
  <2>4. Outcome'
    BY <2>3 DEF Outcome
  <2>5. WholeUnderFinalName' /\ SavedReportsAgree'
    BY <2>1, <2>3 DEF IInv, WholeUnderFinalName, SavedReportsAgree
  <2> QED BY <2>2, <2>4, <2>5 DEF IInv
<1>2. CASE ReadConfiguration
  <2>1. /\ phase' = "stamp" /\ phase = "open" /\ queue' = Csvs(db) \o <<"Workbook">>
        /\ UNCHANGED <<folder, temporary, litter, outcome>>
    BY <1>2 DEF ReadConfiguration
  <2>2. /\ queue' \in Seq(Names) /\ queue' # << >>
        /\ \A i \in 1 .. Len(queue') : queue'[i] \in Workbooks => i = Len(queue')
    BY <2>1, WorkbookLast
  <2>3. Phases' /\ Queued' /\ Temporary' /\ Outcome'
    BY <2>1, <2>2 DEF IInv, Phases, Queued, Temporary, Outcome, Writing, Resting
  <2>4. outcome'.saved = {}
    BY <2>1 DEF IInv, Outcome
  <2>5. WholeUnderFinalName' /\ SavedReportsAgree'
    BY <2>1, <2>4 DEF IInv, WholeUnderFinalName, SavedReportsAgree
  <2> QED BY <2>3, <2>5 DEF IInv
<1>3. CASE ExportFails
  <2>1. phase' = "over" /\ phase \in {"open", "stamp", "reserve"} /\ queue' = << >>
        /\ UNCHANGED <<snapshot, folder, temporary, litter>>
    BY <1>3 DEF ExportFails, OutsideOfReports
  <2>2. Phases' /\ Queued' /\ Temporary'
    BY <2>1, EmptySeq DEF IInv, Phases, Queued, Temporary, Writing, Resting
  <2>3. outcome'.saved = outcome.saved
        /\ outcome' = [saved |-> outcome'.saved, failed |-> outcome'.failed, notices |-> outcome'.notices]
    BY <1>3, FailureNoted DEF ExportFails, IInv
  <2>4. Outcome'
    BY <2>1, <2>3 DEF Outcome, Writing
  <2>5. WholeUnderFinalName' /\ SavedReportsAgree'
    BY <2>1, <2>3, ReportsStay
  <2> QED BY <2>2, <2>4, <2>5 DEF IInv
<1>4. CASE ChooseStamp
  <2>1. phase' = "reserve" /\ phase = "stamp" /\ attempt' = 0 /\ ~ complete'
        /\ UNCHANGED <<snapshot, folder, temporary, litter, queue, outcome>>
    BY <1>4 DEF ChooseStamp
  <2>2. 0 \in 0 .. EXPORT_WRITE_ATTEMPTS - 1
    BY ExportAssumption
  <2>3. Phases' /\ Queued' /\ Temporary'
    BY <2>1, <2>2 DEF IInv, Phases, Queued, Temporary, Writing, Resting
  <2>4. outcome.saved = {}
    BY <2>1 DEF IInv, Outcome
  <2>5. Outcome'
    BY <2>1, <2>4 DEF IInv, Outcome
  <2>6. WholeUnderFinalName' /\ SavedReportsAgree'
    BY <2>1, ReportsStay
  <2> QED BY <2>3, <2>5, <2>6 DEF IInv
<1>5. CASE ConfigurationMissing
  <2>1. phase' = "refused" /\ phase = "open"
        /\ UNCHANGED <<snapshot, folder, temporary, litter, queue, outcome>>
    BY <1>5 DEF ConfigurationMissing
  <2>2. Phases' /\ Queued' /\ Temporary' /\ Outcome'
    BY <2>1 DEF IInv, Phases, Queued, Temporary, Outcome, Writing, Resting
  <2>3. WholeUnderFinalName' /\ SavedReportsAgree'
    BY <2>1, ReportsStay
  <2> QED BY <2>2, <2>3 DEF IInv
<1> QED BY <1>1, <1>2, <1>3, <1>4, <1>5

\* Writing the temporary file.
LEMMA WriteKeeps ==
  ASSUME IInv, Reserve \/ Write
  PROVE  IInv'
<1>1. CASE Reserve
  <2>1. /\ phase' = "write" /\ phase = "reserve"
        /\ UNCHANGED <<snapshot, folder, queue, attempt, complete, outcome>>
    BY <1>1 DEF Reserve, job
  <2>2. Phases' /\ Queued' /\ Outcome'
    BY <2>1 DEF IInv, Phases, Queued, Outcome, Writing, Resting
  <2>3. litter' = litter
    BY <1>1, <2>1 DEF IInv, Temporary, Reserve
  <2>4. Temporary'
    BY <2>1, <2>3 DEF IInv, Phases, Temporary, Resting
  <2>5. WholeUnderFinalName' /\ SavedReportsAgree'
    BY <2>1, ReportsStay
  <2> QED BY <2>2, <2>4, <2>5 DEF IInv
<1>2. CASE Write
  <2>1. /\ phase' = "name" /\ phase = "write" /\ complete'
        /\ UNCHANGED <<snapshot, folder, queue, attempt, litter>>
    BY <1>2 DEF Write
  <2>2. Phases' /\ Queued'
    BY <2>1 DEF IInv, Phases, Queued, Writing, Resting
  <2>3. /\ outcome'.saved = outcome.saved
        /\ outcome' = [saved |-> outcome'.saved, failed |-> outcome'.failed, notices |-> outcome'.notices]
    BY <1>2, NoticesNoted DEF Write, IInv
  <2>4. Outcome'
    BY <2>1, <2>3 DEF IInv, Outcome, Writing
  <2>5. SavedCsvs' = SavedCsvs /\ report' = report
    BY <2>1, <2>3 DEF SavedCsvs, report
  <2>6. temporary' = [report |-> report, whole |-> TRUE, seen |-> Len(snapshot.files),
                      csvs |-> IF report \in Workbooks THEN SavedCsvs ELSE {}]
    BY <1>2 DEF Write, Seen, Workbooks
  <2>7. Complete'
    BY <2>1, <2>5, <2>6 DEF Complete
  <2>8. Temporary'
    BY <2>1, <2>7 DEF IInv, Temporary, Resting
  <2>9. WholeUnderFinalName' /\ SavedReportsAgree'
    BY <2>1, <2>3, ReportsStay
  <2> QED BY <2>2, <2>4, <2>8, <2>9 DEF IInv
<1> QED BY <1>1, <1>2

\* The choice of a name, and the attempts that begin with it again.
LEMMA NameKeeps ==
  ASSUME IInv, Name
  PROVE  IInv'
<1>1. /\ phase' = "rename" /\ phase = "name"
      /\ UNCHANGED <<snapshot, folder, temporary, litter, queue, attempt, complete, outcome>>
  BY DEF Name
<1>2. Phases' /\ Queued' /\ Outcome'
  BY <1>1 DEF IInv, Phases, Queued, Outcome, Writing, Resting
<1>3. target'[1] = report /\ report' = report
  <2>1. \E marks : target' = <<report, marks>>
    BY DEF Name
  <2> QED BY <2>1, <1>1 DEF report
<1>4. Complete'
  BY <1>1, CompleteStays DEF IInv, Phases, Temporary, Writing
<1>5. Temporary'
  BY <1>1, <1>3, <1>4 DEF IInv, Temporary, Resting
<1>6. WholeUnderFinalName' /\ SavedReportsAgree'
  BY <1>1, ReportsStay
<1> QED BY <1>2, <1>5, <1>6 DEF IInv

\* A report under its final name is whole, because only a complete file is renamed.
LEMMA RenameKeeps ==
  ASSUME IInv, Rename
  PROVE  IInv'
<1>1. /\ phase = "rename" /\ phase \in Writing /\ target \notin DOMAIN folder
      /\ folder' = Put(target, temporary) /\ temporary' = NoFile /\ NextJob(Tail(queue))
      /\ outcome' = [outcome EXCEPT !.saved = @ \cup {target}]
      /\ UNCHANGED <<snapshot, litter>>
  BY DEF Rename, Writing
<1>2. Complete /\ target[1] = report
  BY <1>1 DEF IInv, Phases, Temporary
<1>3. Phases' /\ Queued' /\ Temporary' /\ phase' \in {"over", "reserve"}
      /\ (phase' = "reserve" => Tail(queue) # << >>)
  BY <1>1, RestQueued, JobEnds DEF IInv
<1>4. /\ outcome'.saved = outcome.saved \cup {target}
      /\ outcome' = [saved |-> outcome'.saved, failed |-> outcome'.failed, notices |-> outcome'.notices]
  <2>1. outcome = [saved |-> outcome.saved, failed |-> outcome.failed, notices |-> outcome.notices]
    BY DEF IInv, Outcome
  <2> DEFINE o == outcome
  <2>2. outcome' = [saved |-> o.saved \cup {target}, failed |-> o.failed, notices |-> o.notices]
    BY <1>1, <2>1
  <2> QED BY <2>2
<1>5. \A s \in outcome.saved : s[1] \notin Workbooks
  BY <1>1 DEF IInv, Outcome
<1>6. report \in Workbooks => phase' = "over"
  BY <1>3, <1>1, RestQueued DEF IInv
<1>7. Outcome'
  BY <1>2, <1>3, <1>4, <1>5, <1>6 DEF Outcome, Writing
<1>8. WholeUnderFinalName'
  <2>1. DOMAIN folder' = DOMAIN folder \cup {target} /\ folder'[target] = temporary
        /\ \A n \in DOMAIN folder : folder'[n] = folder[n]
    BY <1>1 DEF Put
  <2>2. temporary.whole /\ temporary.report = target[1]
    BY <1>2 DEF Complete
  <2> QED BY <2>1, <2>2 DEF IInv, WholeUnderFinalName
<1>9. SavedReportsAgree'
  <2>1. DOMAIN folder' = DOMAIN folder \cup {target} /\ folder'[target] = temporary
        /\ \A n \in DOMAIN folder : folder'[n] = folder[n]
    BY <1>1 DEF Put
  <2>2. temporary.seen = Len(snapshot'.files)
    BY <1>1, <1>2 DEF Complete
  <2>3. target[1] \in Workbooks => SavedCsvs' = SavedCsvs /\ temporary.csvs = SavedCsvs'
    <3>1. target[1] \in Workbooks => SavedCsvs' = SavedCsvs
      BY <1>4 DEF SavedCsvs, Workbooks
    <3> QED BY <3>1, <1>2 DEF Complete
  <2>4. \A s \in outcome.saved : s \in DOMAIN folder /\ folder[s].seen = Len(snapshot'.files)
    BY <1>1 DEF IInv, SavedReportsAgree
  <2>5. ASSUME NEW s \in outcome'.saved
        PROVE  /\ s \in DOMAIN folder' /\ folder'[s].seen = Len(snapshot'.files)
               /\ s[1] \in Workbooks => folder'[s].csvs = SavedCsvs'
    <3>1. CASE s = target
      BY <3>1, <2>1, <2>2, <2>3
    <3>2. CASE s \in outcome.saved
      BY <3>2, <2>1, <2>4, <1>5
    <3> QED BY <3>1, <3>2, <1>4
  <2> QED BY <2>5 DEF SavedReportsAgree, Workbooks
<1> QED BY <1>3, <1>7, <1>8, <1>9 DEF IInv

\* A job that is given up leaves no file, and its failure is the outcome.
LEMMA GivenUpKeeps ==
  ASSUME IInv, phase \in Writing, NEW category, Removed, GiveUp(category)
  PROVE  IInv'
<1>1. temporary' = NoFile /\ litter' \subseteq litter \cup {"undeletable"}
  BY DEF Removed
<1>2. Rest(category) \in Seq(Names) /\ NextJob(Rest(category)) /\ UNCHANGED <<snapshot, folder>>
      /\ \A i \in 1 .. Len(Rest(category)) : Rest(category)[i] \in Workbooks => i = Len(Rest(category))
  BY RestQueued DEF GiveUp, IInv
<1>3. Phases' /\ Queued' /\ Temporary' /\ phase' \in {"over", "reserve"}
  BY <1>1, <1>2, JobEnds
<1>4. /\ outcome'.saved = outcome.saved
      /\ outcome' = [saved |-> outcome'.saved, failed |-> outcome'.failed, notices |-> outcome'.notices]
  BY FailureNoted DEF GiveUp, IInv
<1>5. \A s \in outcome.saved : s[1] \notin Workbooks
  BY DEF IInv, Outcome
<1>6. Outcome'
  BY <1>3, <1>4, <1>5 DEF Outcome
<1>7. WholeUnderFinalName' /\ SavedReportsAgree'
  BY <1>2, <1>4, ReportsStay
<1> QED BY <1>3, <1>6, <1>7 DEF IInv

\* What fails, and what is tried again.
LEMMA TroubleKeeps ==
  ASSUME IInv, DataFails \/ Trouble \/ Locked \/ JobRefused \/ NameTaken
  PROVE  IInv'
<1>1. CASE DataFails
  <2>1. phase \in Writing /\ Removed /\ GiveUp("data")
    BY <1>1 DEF DataFails, Writing
  <2> QED BY <2>1, GivenUpKeeps
<1>2. CASE Trouble
  <2>1. /\ phase' = "trouble" /\ phase \in {"reserve", "write", "name", "rename"}
        /\ UNCHANGED <<snapshot, folder, queue, attempt, complete, outcome>>
    BY <1>2 DEF Trouble, job
  <2>2. /\ litter' = litter
        /\ phase # "reserve" => temporary' = temporary
    BY <1>2, <2>1 DEF Trouble
  <2>3. Phases' /\ Queued' /\ Outcome'
    BY <2>1 DEF IInv, Phases, Queued, Outcome, Writing, Resting
  <2>4. complete' => Complete'
    <3>1. SUFFICES ASSUME complete PROVE Complete'
      BY <2>1
    <3>2. phase # "reserve" /\ Complete
      BY <2>1, <3>1 DEF IInv, Phases, Temporary, Writing
    <3> QED BY <3>2, <2>1, <2>2, CompleteStays
  <2>5. Temporary'
    BY <2>1, <2>2, <2>4 DEF IInv, Temporary, Resting
  <2>6. WholeUnderFinalName' /\ SavedReportsAgree'
    BY <2>1, ReportsStay
  <2> QED BY <2>3, <2>5, <2>6 DEF IInv
<1>3. CASE Locked
  <2>1. /\ phase = "trouble" /\ phase' = (IF complete THEN "name" ELSE "reserve")
        /\ attempt' = attempt + 1 /\ ~ LastAttempt
        /\ UNCHANGED <<snapshot, folder, queue, complete, outcome>>
    BY <1>3 DEF Locked, TryAgain
  <2>2. attempt' \in 0 .. EXPORT_WRITE_ATTEMPTS - 1
    <3>1. attempt \in 0 .. EXPORT_WRITE_ATTEMPTS - 1
      BY <2>1 DEF IInv, Phases, Writing
    <3>2. ~ (attempt + 1 >= EXPORT_WRITE_ATTEMPTS) /\ attempt' = attempt + 1
      BY <2>1 DEF LastAttempt
    <3> QED BY <3>1, <3>2, ExportAssumption
  <2>3. Phases'
    BY <2>1, <2>2 DEF IInv, Phases, Writing, Resting
  <2>4. Queued' /\ Outcome'
    BY <2>1 DEF IInv, Queued, Outcome, Writing
  <2>5. ASSUME complete PROVE Temporary'
    <3>1. phase' = "name" /\ UNCHANGED <<temporary, litter>>
      BY <1>3, <2>1, <2>5 DEF Locked, TryAgain
    <3>2. Complete'
      BY <2>1, <2>5, <3>1, CompleteStays DEF IInv, Temporary, Writing
    <3> QED BY <2>1, <3>1, <3>2 DEF IInv, Temporary, Resting
  <2>6. ASSUME ~ complete PROVE Temporary'
    <3>1. phase' = "reserve" /\ ~ complete' /\ temporary' = NoFile
          /\ litter' \subseteq litter \cup {"undeletable"}
      BY <1>3, <2>1, <2>6 DEF Locked, TryAgain, Removed
    <3> QED BY <3>1 DEF IInv, Temporary, Resting
  <2>7. WholeUnderFinalName' /\ SavedReportsAgree'
    BY <2>1, ReportsStay
  <2> QED BY <2>3, <2>4, <2>5, <2>6, <2>7 DEF IInv
<1>4. CASE JobRefused
  <2>1. phase \in Writing /\ Removed /\ (GiveUp("locked") \/ GiveUp("disk_full"))
    BY <1>4 DEF JobRefused, Writing
  <2> QED BY <2>1, GivenUpKeeps
<1>5. CASE NameTaken
  <2>1. phase = "rename" /\ phase \in Writing
    BY <1>5 DEF NameTaken, Writing
  <2>2. CASE LastAttempt
    BY <1>5, <2>1, <2>2, GivenUpKeeps DEF NameTaken
  <2>3. CASE ~ LastAttempt
    <3>1. /\ phase' = "name" /\ attempt' = attempt + 1
          /\ UNCHANGED <<snapshot, folder, temporary, litter, queue, complete, outcome>>
      BY <1>5, <2>3 DEF NameTaken
    <3>2. attempt' \in 0 .. EXPORT_WRITE_ATTEMPTS - 1
      <4>1. attempt \in 0 .. EXPORT_WRITE_ATTEMPTS - 1
        BY <2>1 DEF IInv, Phases
      <4>2. ~ (attempt + 1 >= EXPORT_WRITE_ATTEMPTS) /\ attempt' = attempt + 1
        BY <2>3, <3>1 DEF LastAttempt
      <4> QED BY <4>1, <4>2, ExportAssumption
    <3>3. Phases'
      BY <2>1, <3>1, <3>2 DEF IInv, Phases, Writing, Resting
    <3>4. Queued' /\ Outcome'
      BY <2>1, <3>1 DEF IInv, Queued, Outcome, Writing
    <3>5. Complete'
      BY <2>1, <3>1, CompleteStays DEF IInv, Phases, Temporary
    <3>6. Temporary'
      BY <3>1, <3>5 DEF IInv, Temporary, Resting
    <3>7. WholeUnderFinalName' /\ SavedReportsAgree'
      BY <3>1, ReportsStay
    <3> QED BY <3>3, <3>4, <3>6, <3>7 DEF IInv
  <2> QED BY <2>2, <2>3
<1> QED BY <1>1, <1>2, <1>3, <1>4, <1>5

\* Other programs, another window and the end of the process.
LEMMA SurroundingsKeep ==
  ASSUME IInv, AnotherProgramWrites \/ AnotherRunCommits \/ Killed
  PROVE  IInv'
<1>1. CASE AnotherProgramWrites
  <2>1. /\ \E name : name \notin DOMAIN folder /\ folder' = Put(name, Foreign)
        /\ phase \in Writing /\ phase' = phase
        /\ UNCHANGED <<snapshot, temporary, litter, queue, target, attempt, complete, outcome>>
    BY <1>1 DEF AnotherProgramWrites, job, Writing
  <2>2. phase # "none"
    BY <2>1 DEF Writing
  <2>3. Phases' /\ Queued' /\ Outcome'
    BY <2>1, <2>2 DEF IInv, Phases, Queued, Outcome
  <2>4. (complete /\ phase \in Writing) => Complete'
    BY <2>1, CompleteStays DEF IInv, Temporary
  <2>5. report' = report
    BY <2>1 DEF report
  <2>6. Temporary'
    BY <2>1, <2>4, <2>5 DEF IInv, Temporary
  <2>7. WholeUnderFinalName' /\ SavedReportsAgree'
    BY <2>1, FolderGrows
  <2> QED BY <2>3, <2>6, <2>7 DEF IInv
<1>2. CASE AnotherRunCommits
  <2>1. UNCHANGED <<snapshot, folder, temporary, litter, phase, queue, job, outcome>>
    BY <1>2 DEF AnotherRunCommits
  <2> QED BY <2>1, NothingMoves
<1>3. CASE Killed
  <2>1. /\ phase' = "dead" /\ temporary' = NoFile /\ litter' \subseteq litter \cup {"killed"}
        /\ UNCHANGED <<snapshot, folder, queue, outcome>>
    BY <1>3 DEF Killed
  <2>2. Phases' /\ Queued' /\ Outcome' /\ Temporary'
    BY <2>1 DEF IInv, Phases, Queued, Outcome, Temporary, Writing, Resting
  <2>3. WholeUnderFinalName' /\ SavedReportsAgree'
    BY <2>1, ReportsStay
  <2> QED BY <2>2, <2>3 DEF IInv
<1> QED BY <1>1, <1>2, <1>3

\* The records of the batch loop, which come before any export.
LEMMA RecordsKeep ==
  ASSUME IInv, Recorded \/ Damaged
  PROVE  IInv'
<1>1. CASE Recorded
  <2>1. /\ phase = "none" /\ phase' = "closed"
        /\ UNCHANGED <<snapshot, temporary, litter, queue, job, outcome>>
        /\ \E names : folder' = [name \in names |-> [report |-> name[1], whole |-> TRUE, seen |-> 0, csvs |-> {}]]
    BY <1>1 DEF Recorded
  <2>2. Phases' /\ Queued' /\ Outcome' /\ Temporary'
    BY <2>1 DEF IInv, Phases, Queued, Outcome, Temporary, Writing, Resting, job
  <2>3. \A name \in DOMAIN folder' : folder'[name].whole /\ folder'[name].report = name[1]
    <3>1. PICK names : folder' = [name \in names |-> [report |-> name[1], whole |-> TRUE, seen |-> 0, csvs |-> {}]]
      BY <2>1
    <3> QED BY <3>1
  <2>4. outcome'.saved = {}
    BY <2>1 DEF IInv, Outcome
  <2>5. WholeUnderFinalName'
    BY <2>3 DEF WholeUnderFinalName
  <2>6. SavedReportsAgree'
    BY <2>4 DEF SavedReportsAgree
  <2> QED BY <2>2, <2>5, <2>6 DEF IInv
<1>2. CASE Damaged
  <2>1. UNCHANGED <<snapshot, folder, temporary, litter, phase, queue, job, outcome>>
    BY <1>2 DEF Damaged
  <2> QED BY <2>1, NothingMoves
<1> QED BY <1>1, <1>2

\* Every step keeps the invariant of the export.
LEMMA StepKeeps == IInv /\ [FileToReportNext]_<<conversionVars, exportVars>> => IInv'
<1> SUFFICES ASSUME IInv, [FileToReportNext]_<<conversionVars, exportVars>> PROVE IInv'
  OBVIOUS
<1>1. CASE UNCHANGED exportVars
  BY <1>1, NothingMoves DEF exportVars
<1>2. CASE ExportNext
  BY <1>2, ExportKeeps, WriteKeeps, NameKeeps, RenameKeeps, TroubleKeeps, SurroundingsKeep DEF ExportNext
<1>3. CASE Recorded \/ Damaged
  BY <1>3, RecordsKeep
<1> QED BY <1>1, <1>2, <1>3 DEF FileToReportNext

\* The inductive invariant of an export, whatever other programs and other runs do to its folder and its records.
THEOREM ExportInvariance == FileToReportSpec => []IInv
  BY InitKeeps, StepKeeps, PTL DEF FileToReportSpec

\* What stands under the name of a report is the whole of it, and the reports of one
\* export were read from one state of the database and are listed by its workbook
\* (_atomic_write renames only what is complete; _export reads in one transaction).
THEOREM WholeReports == FileToReportSpec => []ReportsAreWhole
<1>1. IInv => ReportsAreWhole
  BY DEF IInv, ReportsAreWhole
<1> QED BY <1>1, ExportInvariance, PTL

\* Every retry, refusal and way out of _atomic_write gets rid of its temporary file, or
\* tells that it could not.
THEOREM NoTemporaryLeft == FileToReportSpec => []NoTemporaryForgotten
<1>1. IInv => NoTemporaryForgotten
  BY DEF IInv, Temporary, NoTemporaryForgotten, Resting
<1> QED BY <1>1, ExportInvariance, PTL

\* The shape of the export's state: what is named or renamed is complete, and the attempts
\* stay within EXPORT_WRITE_ATTEMPTS.
THEOREM ExportTypes == FileToReportSpec => []ExportTypeOK
<1>1. ASSUME IInv PROVE ExportTypeOK
  <2>1. phase \in Writing \cup Resting /\ litter \subseteq {"undeletable", "forgotten", "killed"}
    BY <1>1 DEF IInv, Phases, Temporary
  <2>2. phase \in {"name", "rename"} => complete /\ temporary.whole
    BY <1>1 DEF IInv, Phases, Temporary, Complete, Writing
  <2>3. phase \in Writing => queue # << >> /\ attempt \in 0 .. EXPORT_WRITE_ATTEMPTS - 1
    BY <1>1 DEF IInv, Phases, Queued
  <2> QED BY <2>1, <2>2, <2>3 DEF ExportTypeOK, Writing, Resting
<1> QED BY <1>1, ExportInvariance, PTL

\* "Reports are never overwritten": no step replaces or removes a file of the folder.
THEOREM NeverOverwritten == FileToReportSpec => NothingOverwritten
<1> DEFINE Kept == \A name \in DOMAIN folder : name \in DOMAIN folder' /\ folder'[name] = folder[name]
<1>1. ASSUME IInv, [FileToReportNext]_<<conversionVars, exportVars>> PROVE [Kept]_exportVars
  <2>1. CASE UNCHANGED folder
    BY <2>1
  <2>2. ASSUME NEW name, name \notin DOMAIN folder, NEW content, folder' = Put(name, content) PROVE Kept
    BY <2>2 DEF Put
  <2>3. CASE Rename
    BY <2>3, <2>2 DEF Rename
  <2>4. CASE AnotherProgramWrites
    BY <2>4, <2>2 DEF AnotherProgramWrites
  <2>5. CASE Recorded
    <3>1. folder = << >>
      BY <1>1, <2>5 DEF Recorded, IInv, Phases
    <3> QED BY <3>1
  <2>6. CASE ExportNext /\ ~ Rename /\ ~ AnotherProgramWrites
    <3>1. UNCHANGED folder
      BY <2>6 DEF ExportNext, StartExport, ConfigurationMissing, ReadConfiguration, ExportFails, ChooseStamp, Reserve, Write,
         Name, NameTaken, DataFails, GiveUp, Trouble, Locked, TryAgain, JobRefused, AnotherRunCommits, Killed
    <3> QED BY <3>1
  <2>7. CASE Damaged \/ UNCHANGED exportVars
    BY <2>7 DEF Damaged, exportVars
  <2> QED BY <1>1, <2>1, <2>3, <2>4, <2>5, <2>6, <2>7 DEF FileToReportNext
<1> QED BY <1>1, ExportInvariance, PTL DEF FileToReportSpec, NothingOverwritten

-----------------------------------------------------------------------------
(* The accounting.  While reports are left to write, those still queued    *)
(* have no outcome and those that are not have one (Settled); a job takes  *)
(* its report out of the queue and gives it one outcome in the same step,  *)
(* and the recovery workbook is queued in the step that notes why it is    *)
(* needed.  When the queue is empty, all of it is Accounted; an export     *)
(* that fails as a whole did so before its reports (Unbegun) or in place   *)
(* of its recovery workbook.                                               *)

In(s, r) == \E i \in 1 .. Len(s) : s[i] = r
NoneTwice(s) == \A i, j \in 1 .. Len(s) : s[i] = s[j] => i = j

Left(r) == In(queue, r)
Due == ToSet(Csvs(snapshot)) \cup {"Workbook"}

DataFailed == \E i \in DOMAIN outcome.failed : outcome.failed[i] = <<"Workbook", "data">>

SavedAs(r) == {s \in outcome.saved : s[1] = r}
FailedAs(r) == {i \in DOMAIN outcome.failed : outcome.failed[i][1] = r}
Failures == (Names \cup {"Export"}) \X {"write_failed", "data", "locked", "disk_full"}

Settled ==
  /\ \A r \in Due : Outcomes(r) = IF Left(r) THEN 0 ELSE 1
  /\ Outcomes("Recovery") = IF DataFailed /\ ~ Left("Recovery") THEN 1 ELSE 0
  /\ Left("Recovery") => DataFailed
  /\ DataFailed => ~ Left("Workbook")
  /\ NoneTwice(queue)
  /\ Outcomes("Export") = 0

Unbegun == outcome.saved = {} /\ Len(outcome.failed) = 1 /\ outcome.failed[1][1] = "Export"
Accounted ==
  /\ \A r \in Due : Outcomes(r) = 1
  /\ Outcomes("Recovery") + Outcomes("Export") = IF DataFailed THEN 1 ELSE 0

Counting ==
  /\ IsFiniteSet(outcome.saved) /\ outcome.failed \in Seq(Failures)
  /\ phase \in {"none", "closed", "open", "stamp"} => outcome.failed = << >>
  /\ phase \in Writing \cup {"stamp"} => Settled
  /\ phase = "over" => Unbegun \/ Accounted

-----------------------------------------------------------------------------
(* How many outcomes a report has.                                         *)

\* What has happened to a report is counted by its saved names and its failures.
LEMMA OutcomesCount ==
  ASSUME Counting, NEW r
  PROVE  /\ IsFiniteSet(SavedAs(r)) /\ IsFiniteSet(FailedAs(r))
         /\ Cardinality(SavedAs(r)) \in Nat /\ Cardinality(FailedAs(r)) \in Nat
         /\ Outcomes(r) = Cardinality(SavedAs(r)) + Cardinality(FailedAs(r))
<1>1. IsFiniteSet(SavedAs(r))
  BY FS_Subset DEF Counting, SavedAs
<1>2. IsFiniteSet(FailedAs(r))
  <2>1. DOMAIN outcome.failed = 1 .. Len(outcome.failed) /\ Len(outcome.failed) \in Nat
    BY LenProperties DEF Counting
  <2>2. IsFiniteSet(1 .. Len(outcome.failed))
    BY <2>1, FS_Interval
  <2> QED BY <2>1, <2>2, FS_Subset DEF FailedAs
<1>3. Cardinality(SavedAs(r)) \in Nat /\ Cardinality(FailedAs(r)) \in Nat
  BY <1>1, <1>2, FS_CardinalityType
<1> QED BY <1>1, <1>2, <1>3 DEF Outcomes, SavedAs, FailedAs

\* A saved report counts once more, and only it.
LEMMA SavedCounted ==
  ASSUME Counting, NEW name, name \notin outcome.saved,
         outcome'.saved = outcome.saved \cup {name}, outcome'.failed = outcome.failed
  PROVE  /\ IsFiniteSet(outcome'.saved)
         /\ \A r : Outcomes(r)' = Outcomes(r) + (IF r = name[1] THEN 1 ELSE 0)
<1>1. IsFiniteSet(outcome'.saved)
  BY FS_AddElement DEF Counting
<1> SUFFICES ASSUME NEW r PROVE Outcomes(r)' = Outcomes(r) + (IF r = name[1] THEN 1 ELSE 0)
  BY <1>1
<1>2. Outcomes(r)' = Cardinality(SavedAs(r)') + Cardinality(FailedAs(r))
  BY DEF Outcomes, SavedAs, FailedAs
<1>3. CASE r = name[1]
  <2>1. SavedAs(r)' = SavedAs(r) \cup {name} /\ name \notin SavedAs(r)
    BY <1>3 DEF SavedAs
  <2>2. Cardinality(SavedAs(r)') = Cardinality(SavedAs(r)) + 1
    BY <2>1, OutcomesCount, FS_AddElement
  <2> QED BY <1>2, <1>3, <2>2, OutcomesCount
<1>4. CASE r # name[1]
  <2>1. SavedAs(r)' = SavedAs(r)
    BY <1>4 DEF SavedAs
  <2> QED BY <1>2, <1>4, <2>1, OutcomesCount
<1> QED BY <1>3, <1>4

\* So does one that failed.
LEMMA FailureCounted ==
  ASSUME Counting, NEW failure \in Failures,
         outcome'.failed = Append(outcome.failed, failure), outcome'.saved = outcome.saved
  PROVE  /\ outcome'.failed \in Seq(Failures)
         /\ \A r : Outcomes(r)' = Outcomes(r) + (IF r = failure[1] THEN 1 ELSE 0)
         /\ DataFailed' <=> DataFailed \/ failure = <<"Workbook", "data">>
<1> DEFINE f == outcome.failed
           n == Len(outcome.failed)
<1>1. /\ outcome'.failed \in Seq(Failures) /\ Len(outcome'.failed) = n + 1
      /\ \A i \in 1 .. n : outcome'.failed[i] = f[i]
      /\ outcome'.failed[n + 1] = failure
  BY AppendProperties DEF Counting
<1>2. n \in Nat /\ DOMAIN f = 1 .. n /\ DOMAIN outcome'.failed = 1 .. n + 1
  BY <1>1, LenProperties DEF Counting
<1>3. DOMAIN outcome'.failed = DOMAIN f \cup {n + 1} /\ n + 1 \notin DOMAIN f
  BY <1>2
<1>4. ASSUME NEW r PROVE Outcomes(r)' = Outcomes(r) + (IF r = failure[1] THEN 1 ELSE 0)
  <2>1. Outcomes(r)' = Cardinality(SavedAs(r)) + Cardinality(FailedAs(r)')
    BY DEF Outcomes, SavedAs, FailedAs
  <2>2. CASE r = failure[1]
    <3>1. FailedAs(r)' = FailedAs(r) \cup {n + 1} /\ n + 1 \notin FailedAs(r)
      BY <2>2, <1>1, <1>2, <1>3 DEF FailedAs
    <3>2. Cardinality(FailedAs(r)') = Cardinality(FailedAs(r)) + 1
      BY <3>1, OutcomesCount, FS_AddElement
    <3> QED BY <2>1, <2>2, <3>2, OutcomesCount
  <2>3. CASE r # failure[1]
    <3>1. FailedAs(r)' = FailedAs(r)
      BY <2>3, <1>1, <1>2, <1>3 DEF FailedAs
    <3> QED BY <2>1, <2>3, <3>1, OutcomesCount
  <2> QED BY <2>2, <2>3
<1>5. DataFailed' <=> DataFailed \/ failure = <<"Workbook", "data">>
  BY <1>1, <1>2, <1>3 DEF DataFailed
<1> QED BY <1>1, <1>4, <1>5

-----------------------------------------------------------------------------
(* The queue of an export.                                                 *)

\* When its job ends, a report alone leaves the queue.
LEMMA TailLeft ==
  ASSUME IInv, Settled, phase \in Writing
  PROVE  /\ Left(report)
         /\ \A r : In(Tail(queue), r) <=> Left(r) /\ r # report
         /\ NoneTwice(Tail(queue))
<1>1. queue \in Seq(Names) /\ queue # << >>
  BY DEF IInv, Queued
<1>2. /\ Tail(queue) \in Seq(Names) /\ Len(Tail(queue)) = Len(queue) - 1
      /\ \A i \in 1 .. Len(Tail(queue)) : Tail(queue)[i] = queue[i + 1]
  BY <1>1, HeadTailProperties
<1>3. Len(queue) \in Nat \ {0} /\ report = queue[1]
  BY <1>1, EmptySeq, LenProperties DEF report
<1>4. Left(report)
  BY <1>3 DEF Left, In
<1>5. \A i, j \in 1 .. Len(queue) : queue[i] = queue[j] => i = j
  BY DEF Settled, NoneTwice
<1>6. ASSUME NEW i \in 1 .. Len(Tail(queue))
      PROVE  i + 1 \in 1 .. Len(queue) /\ i + 1 # 1 /\ Tail(queue)[i] = queue[i + 1]
  BY <1>2, <1>3
<1>7. ASSUME NEW i \in 1 .. Len(queue), i # 1
      PROVE  i - 1 \in 1 .. Len(Tail(queue)) /\ Tail(queue)[i - 1] = queue[i]
  BY <1>2, <1>3, <1>7
<1>8. ASSUME NEW r PROVE In(Tail(queue), r) <=> Left(r) /\ r # report
  <2>1. ASSUME NEW i \in 1 .. Len(Tail(queue)), Tail(queue)[i] = r PROVE Left(r) /\ r # report
    <3>1. i + 1 \in 1 .. Len(queue) /\ i + 1 # 1 /\ queue[i + 1] = r /\ 1 \in 1 .. Len(queue)
      BY <1>3, <1>6, <2>1
    <3> QED BY <3>1, <1>3, <1>5 DEF Left, In
  <2>2. ASSUME NEW i \in 1 .. Len(queue), queue[i] = r, r # report
        PROVE  \E k \in 1 .. Len(Tail(queue)) : Tail(queue)[k] = r
    BY <1>3, <1>7, <2>2
  <2> QED BY <2>1, <2>2 DEF Left, In
<1>9. ASSUME NEW i \in 1 .. Len(Tail(queue)), NEW j \in 1 .. Len(Tail(queue)),
             Tail(queue)[i] = Tail(queue)[j]
      PROVE  i = j
  <2>1. i + 1 = j + 1
    BY <1>5, <1>6, <1>9
  <2> QED BY <2>1, <1>2, <1>3
<1> QED BY <1>4, <1>8, <1>9 DEF NoneTwice

\* Two queues that share nothing make one without repetition.
LEMMA ConcatDistinct ==
  ASSUME NEW S, NEW s \in Seq(S), NEW t \in Seq(S), NoneTwice(s), NoneTwice(t),
         \A r : ~ (In(s, r) /\ In(t, r))
  PROVE  NoneTwice(s \o t) /\ \A r : In(s \o t, r) <=> In(s, r) \/ In(t, r)
<1> DEFINE u == s \o t
           m == Len(s)
           n == Len(t)
<1>1. m \in Nat /\ n \in Nat
  BY LenProperties
<1>2. Len(u) = m + n /\ \A i \in 1 .. m + n : u[i] = IF i <= m THEN s[i] ELSE t[i - m]
  BY ConcatProperties
<1> HIDE DEF u
<1>3. ASSUME NEW i \in 1 .. Len(u)
      PROVE  \/ i \in 1 .. m /\ u[i] = s[i]
             \/ i - m \in 1 .. n /\ u[i] = t[i - m]
  BY <1>1, <1>2
<1>4. \A i \in 1 .. m : i \in 1 .. Len(u) /\ u[i] = s[i]
  BY <1>1, <1>2
<1>5. \A i \in 1 .. n : i + m \in 1 .. Len(u) /\ u[i + m] = t[i]
  BY <1>1, <1>2
<1>6. \A r : In(u, r) <=> In(s, r) \/ In(t, r)
  BY <1>3, <1>4, <1>5 DEF In
<1>7. ASSUME NEW i \in 1 .. Len(u), NEW j \in 1 .. Len(u), u[i] = u[j] PROVE i = j
  <2>1. CASE i \in 1 .. m /\ u[i] = s[i] /\ j \in 1 .. m /\ u[j] = s[j]
    BY <1>7, <2>1 DEF NoneTwice
  <2>2. CASE i - m \in 1 .. n /\ u[i] = t[i - m] /\ j - m \in 1 .. n /\ u[j] = t[j - m]
    <3>1. i - m = j - m
      BY <1>7, <2>2 DEF NoneTwice
    <3> QED BY <3>1, <1>1
  <2>3. CASE i \in 1 .. m /\ u[i] = s[i] /\ j - m \in 1 .. n /\ u[j] = t[j - m]
    BY <1>7, <2>3 DEF In
  <2>4. CASE i - m \in 1 .. n /\ u[i] = t[i - m] /\ j \in 1 .. m /\ u[j] = s[j]
    BY <1>7, <2>4 DEF In
  <2> QED BY <1>3, <2>1, <2>2, <2>3, <2>4
<1> QED BY <1>6, <1>7 DEF NoneTwice, u

\* The queue an export begins with holds what is due, once, in any order.
LEMMA WholeQueue ==
  ASSUME NEW d
  PROVE  LET q == Csvs(d) \o <<"Workbook">>
         IN  /\ NoneTwice(q)
             /\ \A r : In(q, r) <=> r \in ToSet(Csvs(d)) \cup {"Workbook"}
             /\ "Recovery" \notin ToSet(Csvs(d)) /\ "Export" \notin ToSet(Csvs(d))
<1> DEFINE first == <<"Results", "Master Registry", "Page Log">>
           second == <<"LLM Requests", "LLM Answers">>
           last == <<"Workbook">>
           Reports == {"Results", "Master Registry", "Page Log", "LLM Requests", "LLM Answers"}
           c == Csvs(d)
<1>1. /\ first \in Seq(Names) /\ second \in Seq(Names) /\ last \in Seq(Names) /\ << >> \in Seq(Names)
  BY DEF Names, Workbooks
<1>2. /\ Len(first) = 3 /\ first[1] = "Results" /\ first[2] = "Master Registry" /\ first[3] = "Page Log"
      /\ Len(second) = 2 /\ second[1] = "LLM Requests" /\ second[2] = "LLM Answers"
      /\ Len(last) = 1 /\ last[1] = "Workbook" /\ Len(<< >>) = 0
  OBVIOUS
<1>3. c = first \o second \/ c = first \o << >>
  BY DEF Csvs
<1> HIDE DEF first, second, last, c
<1>4. 1 .. Len(first) = {1, 2, 3} /\ 1 .. Len(second) = {1, 2} /\ 1 .. Len(last) = {1} /\ 1 .. Len(<< >>) = {}
  <2>1. 1 .. 3 = {1, 2, 3} /\ 1 .. 2 = {1, 2} /\ 1 .. 1 = {1} /\ 1 .. 0 = {}
    OBVIOUS
  <2> QED BY <2>1, <1>2, Zenon
<1>5. NoneTwice(first) /\ NoneTwice(second) /\ NoneTwice(last) /\ NoneTwice(<< >>)
  <2>1. \A i, j \in {1, 2, 3} : first[i] = first[j] => i = j
    BY <1>2
  <2>2. \A i, j \in {1, 2} : second[i] = second[j] => i = j
    BY <1>2
  <2>3. NoneTwice(first)
    BY <1>4, <2>1, Zenon DEF NoneTwice
  <2>4. NoneTwice(second)
    BY <1>4, <2>2, Zenon DEF NoneTwice
  <2>5. NoneTwice(last)
    BY <1>4, Zenon DEF NoneTwice
  <2>6. NoneTwice(<< >>)
    BY <1>2, <1>4 DEF NoneTwice
  <2> QED BY <2>3, <2>4, <2>5, <2>6
<1>6. \A r : /\ In(first, r) <=> r \in {"Results", "Master Registry", "Page Log"}
             /\ In(second, r) <=> r \in {"LLM Requests", "LLM Answers"}
             /\ In(last, r) <=> r = "Workbook"
             /\ ~ In(<< >>, r)
  BY <1>2, <1>4 DEF In
<1>7. \A r : ~ (In(first, r) /\ In(second, r)) /\ ~ (In(first, r) /\ In(<< >>, r))
  BY <1>6
<1>8. NoneTwice(c) /\ c \in Seq(Names) /\ \A r : In(c, r) => r \in Reports
  <2>1. CASE c = first \o second
    <3>1. NoneTwice(c) /\ \A r : In(c, r) <=> In(first, r) \/ In(second, r)
      BY <1>1, <1>5, <1>7, <2>1, ConcatDistinct
    <3>2. c \in Seq(Names)
      BY <1>1, <2>1, ConcatProperties
    <3> QED BY <3>1, <3>2, <1>6
  <2>2. CASE c = first \o << >>
    <3>1. c = first
      BY <1>1, <2>2, ConcatEmptySeq
    <3> QED BY <3>1, <1>1, <1>5, <1>6
  <2> QED BY <1>3, <2>1, <2>2
<1>9. \A r : ~ (In(c, r) /\ In(last, r))
  BY <1>6, <1>8
<1>10. NoneTwice(c \o last) /\ \A r : In(c \o last, r) <=> In(c, r) \/ In(last, r)
  BY <1>1, <1>5, <1>8, <1>9, ConcatDistinct
<1>11. \A r : r \in ToSet(c) <=> In(c, r)
  <2>1. DOMAIN c = 1 .. Len(c)
    BY <1>8, LenProperties
  <2> QED BY <2>1 DEF ToSet, In
<1>12. \A r : In(c \o last, r) <=> r \in ToSet(c) \cup {"Workbook"}
  BY <1>6, <1>10, <1>11
<1>13. "Recovery" \notin ToSet(c) /\ "Export" \notin ToSet(c)
  <2>1. "Recovery" \notin Reports /\ "Export" \notin Reports
    OBVIOUS
  <2> HIDE DEF Reports
  <2> QED BY <1>8, <1>11, <2>1
<1> QED BY <1>10, <1>12, <1>13 DEF c, last

-----------------------------------------------------------------------------
(* A job gives its report its one outcome.                                 *)

\* The workbook is always due, its recovery never, nor is the export itself.
LEMMA DueNames == "Workbook" \in Due /\ "Recovery" \notin Due /\ "Export" \notin Due
  BY WholeQueue DEF Due

\* A job that ends with one outcome for its report settles it.
LEMMA JobSettles ==
  ASSUME IInv, Counting, phase \in Writing, UNCHANGED snapshot,
         \A r : Outcomes(r)' = Outcomes(r) + (IF r = report THEN 1 ELSE 0),
         \/ queue' = Tail(queue) /\ (DataFailed' <=> DataFailed)
         \/ queue' = <<"Recovery">> /\ report = "Workbook" /\ DataFailed'
  PROVE  Settled'
<1>1. Settled
  BY DEF Counting
<1>2. /\ Left(report) /\ NoneTwice(Tail(queue))
      /\ \A r : In(Tail(queue), r) <=> Left(r) /\ r # report
  BY <1>1, TailLeft
<1>3. Due' = Due /\ "Workbook" \in Due /\ "Recovery" \notin Due
  BY DueNames DEF Due
<1>10. Outcomes("Export")' = 0
  <2>1. report \in Names
    BY HeadTailProperties DEF IInv, Queued, report
  <2>2. "Export" \notin Names
    BY DEF Names, Workbooks
  <2>3. Outcomes("Export") = 0
    BY <1>1 DEF Settled
  <2>4. "Export" # report
    BY <2>1, <2>2
  <2> QED BY <2>3, <2>4
<1>4. CASE queue' = Tail(queue) /\ (DataFailed' <=> DataFailed)
  <2>1. \A r : Left(r)' <=> Left(r) /\ r # report
    BY <1>2, <1>4 DEF Left
  <2>2. ASSUME NEW r \in Due PROVE Outcomes(r)' = IF Left(r)' THEN 0 ELSE 1
    <3>1. Outcomes(r) = IF Left(r) THEN 0 ELSE 1
      BY <1>1 DEF Settled
    <3>2. Outcomes(r)' = Outcomes(r) + (IF r = report THEN 1 ELSE 0)
      OBVIOUS
    <3>3. CASE r = report
      BY <3>1, <3>2, <3>3, <1>2, <2>1
    <3>4. CASE r # report
      BY <3>1, <3>2, <3>4, <2>1
    <3> QED BY <3>3, <3>4
  <2>3. Outcomes("Recovery")' = IF DataFailed' /\ ~ Left("Recovery")' THEN 1 ELSE 0
    <3>1. Outcomes("Recovery") = IF DataFailed /\ ~ Left("Recovery") THEN 1 ELSE 0
      BY <1>1 DEF Settled
    <3>2. Outcomes("Recovery")' = Outcomes("Recovery") + (IF "Recovery" = report THEN 1 ELSE 0)
      OBVIOUS
    <3>3. Left("Recovery") => DataFailed
      BY <1>1 DEF Settled
    <3>4. CASE report = "Recovery"
      BY <3>1, <3>2, <3>3, <3>4, <1>2, <1>4, <2>1
    <3>5. CASE report # "Recovery"
      BY <3>1, <3>2, <3>5, <1>4, <2>1
    <3> QED BY <3>4, <3>5
  <2>4. (Left("Recovery")' => DataFailed') /\ (DataFailed' => ~ Left("Workbook")')
    BY <1>1, <1>4, <2>1 DEF Settled
  <2>5. NoneTwice(queue)'
    BY <1>2, <1>4
  <2>6. \A r \in Due' : Outcomes(r)' = IF Left(r)' THEN 0 ELSE 1
    BY <2>2, <1>3
  <2> QED BY <1>10, <2>3, <2>4, <2>5, <2>6 DEF Settled
<1>5. CASE queue' = <<"Recovery">> /\ report = "Workbook" /\ DataFailed'
  <2>1. Tail(queue) = << >>
    BY <1>5, RestQueued DEF IInv, Workbooks
  <2>2. \A r : Left(r) <=> r = "Workbook"
    <3>1. \A r : ~ In(Tail(queue), r)
      <4>1. Len(Tail(queue)) = 0
        BY <2>1, EmptySeq
      <4> QED BY <4>1 DEF In
    <3> QED BY <3>1, <1>2, <1>5
  <2>3. Len(queue') = 1 /\ queue'[1] = "Recovery"
    BY <1>5
  <2>4. \A r : Left(r)' <=> r = "Recovery"
    <3>1. 1 .. 1 = {1}
      OBVIOUS
    <3>2. 1 .. Len(queue') = {1}
      BY <2>3, <3>1, Zenon
    <3> QED BY <2>3, <3>2 DEF Left, In
  <2>5. ASSUME NEW r \in Due PROVE Outcomes(r)' = IF Left(r)' THEN 0 ELSE 1
    <3>1. Outcomes(r) = IF Left(r) THEN 0 ELSE 1
      BY <1>1 DEF Settled
    <3>2. Outcomes(r)' = Outcomes(r) + (IF r = report THEN 1 ELSE 0)
      OBVIOUS
    <3>3. ~ Left(r)' /\ (Left(r) <=> r = report)
      BY <2>2, <2>4, <1>3, <1>5
    <3>4. CASE r = report
      BY <3>1, <3>2, <3>3, <3>4
    <3>5. CASE r # report
      BY <3>1, <3>2, <3>3, <3>5
    <3> QED BY <3>4, <3>5
  <2>6. Outcomes("Recovery")' = 0
    <3>1. Outcomes("Recovery") = IF DataFailed /\ ~ Left("Recovery") THEN 1 ELSE 0
      BY <1>1 DEF Settled
    <3>2. Outcomes("Recovery")' = Outcomes("Recovery") + (IF "Recovery" = report THEN 1 ELSE 0)
      OBVIOUS
    <3>3. ~ DataFailed
      BY <1>1, <2>2 DEF Settled
    <3>4. Outcomes("Recovery") = 0
      BY <3>1, <3>3
    <3>5. "Recovery" # report
      BY <1>5
    <3> QED BY <3>2, <3>4, <3>5
  <2>7. NoneTwice(queue)'
    <3>1. ASSUME NEW i \in 1 .. Len(queue'), NEW j \in 1 .. Len(queue') PROVE i = j
      BY <2>3
    <3> QED BY <3>1 DEF NoneTwice
  <2>8. \A r \in Due' : Outcomes(r)' = IF Left(r)' THEN 0 ELSE 1
    BY <2>5, <1>3
  <2>9. Left("Recovery")' /\ ~ Left("Workbook")'
    BY <2>4
  <2> QED BY <1>5, <1>10, <2>6, <2>7, <2>8, <2>9 DEF Settled
<1> QED BY <1>4, <1>5

\* With nothing left to write, what is settled is all there is.
LEMMA AllAccounted ==
  ASSUME Settled', queue' = << >>
  PROVE  Accounted'
<1>1. \A r : ~ Left(r)'
  BY EmptySeq DEF Left, In
<1>2. /\ \A r \in Due' : Outcomes(r)' = 1
      /\ Outcomes("Recovery")' = IF DataFailed' THEN 1 ELSE 0
      /\ Outcomes("Export")' = 0
  BY <1>1 DEF Settled
<1> QED BY <1>2 DEF Accounted

\* A job that is given up.
LEMMA GivenUpCounts ==
  ASSUME IInv, Counting, phase \in Writing,
         NEW category \in {"write_failed", "data", "locked", "disk_full"}, GiveUp(category)
  PROVE  Counting'
<1> DEFINE failure == <<report, category>>
<1>1. /\ outcome' = [outcome EXCEPT !.failed = Append(@, failure)]
      /\ NextJob(Rest(category)) /\ UNCHANGED <<folder, snapshot>>
  BY DEF GiveUp
<1>2. outcome'.failed = Append(outcome.failed, failure) /\ outcome'.saved = outcome.saved
  <2>1. outcome = [saved |-> outcome.saved, failed |-> outcome.failed, notices |-> outcome.notices]
    BY DEF IInv, Outcome
  <2> DEFINE o == outcome
  <2>2. outcome' = [saved |-> o.saved, failed |-> Append(o.failed, failure), notices |-> o.notices]
    BY <1>1, <2>1
  <2> QED BY <2>2
<1>3. report \in Names
  BY HeadTailProperties DEF IInv, Queued, report
<1>4. failure \in Failures /\ failure[1] = report
  BY <1>3 DEF Failures
<1> HIDE DEF failure
<1>5. /\ outcome'.failed \in Seq(Failures)
      /\ \A r : Outcomes(r)' = Outcomes(r) + (IF r = report THEN 1 ELSE 0)
      /\ DataFailed' <=> DataFailed \/ failure = <<"Workbook", "data">>
  BY <1>2, <1>4, FailureCounted
<1>6. \/ queue' = Tail(queue) /\ (DataFailed' <=> DataFailed)
      \/ queue' = <<"Recovery">> /\ report = "Workbook" /\ DataFailed'
  <2>1. queue' = Rest(category)
    BY <1>1 DEF NextJob
  <2>2. failure = <<"Workbook", "data">> <=> report = "Workbook" /\ category = "data"
    BY DEF failure
  <2> QED BY <2>1, <2>2, <1>5 DEF Rest
<1>7. Settled'
  BY <1>1, <1>5, <1>6, JobSettles
<1>8. phase' \in {"over", "reserve"} /\ (phase' = "over" => queue' = << >>)
  BY <1>1 DEF NextJob
<1> QED BY <1>2, <1>5, <1>7, <1>8, AllAccounted DEF Counting

\* A job that is done.
LEMMA RenameCounts ==
  ASSUME IInv, Counting, Rename
  PROVE  Counting'
<1>1. /\ phase = "rename" /\ phase \in Writing /\ target \notin DOMAIN folder
      /\ NextJob(Tail(queue)) /\ UNCHANGED snapshot
      /\ outcome' = [outcome EXCEPT !.saved = @ \cup {target}]
  BY DEF Rename, Writing
<1>2. outcome'.saved = outcome.saved \cup {target} /\ outcome'.failed = outcome.failed
  <2>1. outcome = [saved |-> outcome.saved, failed |-> outcome.failed, notices |-> outcome.notices]
    BY DEF IInv, Outcome
  <2> DEFINE o == outcome
  <2>2. outcome' = [saved |-> o.saved \cup {target}, failed |-> o.failed, notices |-> o.notices]
    BY <1>1, <2>1
  <2> QED BY <2>2
<1>3. target \notin outcome.saved /\ target[1] = report
  BY <1>1 DEF IInv, SavedReportsAgree, Temporary
<1>4. /\ IsFiniteSet(outcome'.saved)
      /\ \A r : Outcomes(r)' = Outcomes(r) + (IF r = report THEN 1 ELSE 0)
  BY <1>2, <1>3, SavedCounted
<1>5. queue' = Tail(queue) /\ (DataFailed' <=> DataFailed)
  BY <1>1, <1>2 DEF NextJob, DataFailed
<1>6. Settled'
  BY <1>1, <1>4, <1>5, JobSettles
<1>7. phase' \in {"over", "reserve"} /\ (phase' = "over" => queue' = << >>)
  BY <1>1 DEF NextJob
<1> QED BY <1>2, <1>4, <1>6, <1>7, AllAccounted DEF Counting

\* No report ends in the other steps of a job, nor around it.
LEMMA NoneEnds ==
  ASSUME Counting, UNCHANGED <<queue, snapshot>>,
         outcome'.saved = outcome.saved, outcome'.failed = outcome.failed,
         \/ phase \in Writing \cup {"stamp"} /\ phase' \in Writing \cup {"dead"}
         \/ phase' = phase \/ phase' = "dead"
  PROVE  Counting'
<1>1. (Settled' <=> Settled) /\ (Accounted' <=> Accounted)
  <2>1. \A r : Outcomes(r)' = Outcomes(r) /\ (Left(r)' <=> Left(r))
    BY DEF Outcomes, Left, In
  <2>2. Due' = Due /\ (DataFailed' <=> DataFailed) /\ (NoneTwice(queue)' <=> NoneTwice(queue))
    BY DEF Due, DataFailed, NoneTwice
  <2> QED BY <2>1, <2>2 DEF Settled, Accounted
<1>2. Unbegun' <=> Unbegun
  BY DEF Unbegun
<1> QED BY <1>1, <1>2 DEF Counting, Writing

\* The steps of _export.
LEMMA ExportCounts ==
  ASSUME IInv, Counting,
         StartExport \/ ConfigurationMissing \/ ReadConfiguration \/ ExportFails \/ ChooseStamp
  PROVE  Counting'
<1>1. CASE StartExport
  <2>1. phase' = "open" /\ outcome' = [saved |-> {}, failed |-> << >>, notices |-> {}]
    BY <1>1 DEF StartExport, NoOutcome
  <2>2. IsFiniteSet(outcome'.saved) /\ outcome'.failed = << >>
    BY <2>1, FS_EmptySet
  <2>3. << >> \in Seq(Failures)
    BY EmptySeq
  <2> QED BY <2>1, <2>2, <2>3 DEF Counting, Writing
<1>2. CASE ReadConfiguration
  <2>1. /\ phase' = "stamp" /\ phase = "open" /\ queue' = Csvs(db) \o <<"Workbook">>
        /\ snapshot' = db /\ UNCHANGED outcome
    BY <1>2 DEF ReadConfiguration
  <2>2. outcome.saved = {} /\ outcome.failed = << >>
    BY <2>1 DEF IInv, Outcome, Counting
  <2>3. ASSUME NEW r PROVE Outcomes(r)' = 0
    <3>1. DOMAIN << >> = {}
      OBVIOUS
    <3>2. SavedAs(r)' = {} /\ FailedAs(r)' = {}
      BY <2>1, <2>2, <3>1 DEF SavedAs, FailedAs
    <3>3. Outcomes(r)' = Cardinality(SavedAs(r)') + Cardinality(FailedAs(r)')
      BY DEF Outcomes, SavedAs, FailedAs
    <3> QED BY <3>2, <3>3, FS_EmptySet
  <2>4. ~ DataFailed'
    <3>1. DOMAIN << >> = {}
      OBVIOUS
    <3> QED BY <2>1, <2>2, <3>1 DEF DataFailed
  <2>5. NoneTwice(queue)' /\ (\A r : Left(r)' <=> r \in Due') /\ "Recovery" \notin Due'
    BY <2>1, WholeQueue DEF Left, Due
  <2>6. Settled'
    BY <2>3, <2>4, <2>5 DEF Settled
  <2> QED BY <2>1, <2>2, <2>6 DEF Counting
<1>3. CASE ExportFails
  <2> DEFINE failure == <<"Export", "write_failed">>
  <2>1. phase' = "over" /\ outcome' = [outcome EXCEPT !.failed = Append(@, failure)]
    BY <1>3 DEF ExportFails
  <2>2. outcome'.failed = Append(outcome.failed, failure) /\ outcome'.saved = outcome.saved
    <3>1. outcome = [saved |-> outcome.saved, failed |-> outcome.failed, notices |-> outcome.notices]
      BY DEF IInv, Outcome
    <3> DEFINE o == outcome
    <3>2. outcome' = [saved |-> o.saved, failed |-> Append(o.failed, failure), notices |-> o.notices]
      BY <2>1, <3>1
    <3> QED BY <3>2
  <2>3. failure \in Failures /\ failure[1] = "Export"
    BY DEF Failures
  <2>4. failure # <<"Workbook", "data">>
    OBVIOUS
  <2> HIDE DEF failure
  <2>5. /\ outcome'.failed \in Seq(Failures)
        /\ \A r : Outcomes(r)' = Outcomes(r) + (IF r = "Export" THEN 1 ELSE 0)
        /\ DataFailed' <=> DataFailed
    BY <2>2, <2>3, <2>4, FailureCounted
  <2>6. ASSUME phase \in {"open", "stamp"} PROVE Unbegun'
    <3>1. outcome.saved = {} /\ outcome.failed = << >>
      BY <2>6 DEF IInv, Outcome, Counting
    <3>2. outcome'.saved = {} /\ Len(outcome'.failed) = 1 /\ outcome'.failed[1] = failure
      BY <2>2, <3>1
    <3> QED BY <2>3, <3>2 DEF Unbegun
  <2>7. ASSUME phase = "reserve", report = "Recovery" PROVE Accounted'
    <3>1. Settled
      BY <2>7 DEF Counting, Writing
    <3>2. Tail(queue) = << >>
      BY <2>7, RestQueued DEF IInv, Workbooks, Writing
    <3>3. \A r : Left(r) <=> r = "Recovery"
      <4>1. Len(Tail(queue)) = 0
        BY <3>2, EmptySeq
      <4>2. \A r : ~ In(Tail(queue), r)
        BY <4>1 DEF In
      <4> QED BY <2>7, <3>1, <4>2, TailLeft DEF Writing
    <3>4. DataFailed /\ Outcomes("Recovery") = 0 /\ Outcomes("Export") = 0
      BY <3>1, <3>3 DEF Settled
    <3>5. "Recovery" \notin Due /\ "Export" \notin Due
      BY DueNames
    <3>6. \A r \in Due : Outcomes(r) = 1
      BY <3>1, <3>3, <3>5 DEF Settled
    <3>7. Due' = Due
      BY <1>3 DEF ExportFails, Due
    <3>8. \A r \in Due' : Outcomes(r)' = 1
      <4> SUFFICES ASSUME NEW r \in Due PROVE Outcomes(r)' = 1
        BY <3>7
      <4>1. Outcomes(r)' = Outcomes(r) + (IF r = "Export" THEN 1 ELSE 0) /\ r # "Export"
        BY <2>5, <3>5
      <4> QED BY <3>6, <4>1
    <3>9. Outcomes("Recovery")' = 0 /\ Outcomes("Export")' = 1
      <4>1. /\ Outcomes("Recovery")' = Outcomes("Recovery") + (IF "Recovery" = "Export" THEN 1 ELSE 0)
            /\ Outcomes("Export")' = Outcomes("Export") + (IF "Export" = "Export" THEN 1 ELSE 0)
        BY <2>5
      <4> QED BY <3>4, <4>1
    <3> QED BY <2>5, <3>4, <3>8, <3>9 DEF Accounted
  <2>8. Unbegun' \/ Accounted'
    BY <1>3, <2>6, <2>7 DEF ExportFails, OutsideOfReports
  <2>9. IsFiniteSet(outcome'.saved)
    BY <2>2 DEF Counting
  <2> QED BY <2>1, <2>5, <2>8, <2>9 DEF Counting, Writing
<1>4. CASE ChooseStamp
  <2>1. phase' = "reserve" /\ phase = "stamp" /\ UNCHANGED <<snapshot, queue, outcome>>
    BY <1>4 DEF ChooseStamp
  <2> QED BY <2>1, NoneEnds DEF Writing
<1>5. CASE ConfigurationMissing
  <2>1. phase = "open" /\ phase' = "refused" /\ UNCHANGED outcome
    BY <1>5 DEF ConfigurationMissing
  <2> QED BY <2>1 DEF Counting, Writing
<1> QED BY <1>1, <1>2, <1>3, <1>4, <1>5

\* Every step keeps the count.
LEMMA StepCounts ==
  ASSUME IInv, Counting, [FileToReportNext]_<<conversionVars, exportVars>>
  PROVE  Counting'
<1>1. CASE StartExport \/ ConfigurationMissing \/ ReadConfiguration \/ ExportFails \/ ChooseStamp
  BY <1>1, ExportCounts
<1>2. CASE Rename
  BY <1>2, RenameCounts
<1>3. CASE DataFails \/ JobRefused \/ (NameTaken /\ LastAttempt)
  <2>1. phase \in Writing /\ \E c \in {"write_failed", "data", "locked", "disk_full"} : GiveUp(c)
    BY <1>3 DEF DataFails, JobRefused, NameTaken, Writing
  <2> QED BY <2>1, GivenUpCounts
<1>4. CASE Write
  <2>1. phase' = "name" /\ phase = "write" /\ UNCHANGED <<snapshot, queue>>
    BY <1>4 DEF Write
  <2>2. outcome'.saved = outcome.saved /\ outcome'.failed = outcome.failed
    <3>1. outcome = [saved |-> outcome.saved, failed |-> outcome.failed, notices |-> outcome.notices]
      BY DEF IInv, Outcome
    <3> DEFINE o == outcome
    <3>2. CASE report = "Workbook"
      <4>1. outcome' = [outcome EXCEPT !.notices = @ \cup Notices(snapshot)]
        BY <1>4, <3>2 DEF Write
      <4>2. outcome' = [saved |-> o.saved, failed |-> o.failed, notices |-> o.notices \cup Notices(snapshot)]
        BY <4>1, <3>1
      <4> QED BY <4>2
    <3>3. CASE report # "Workbook"
      BY <1>4, <3>3 DEF Write
    <3> QED BY <3>2, <3>3
  <2> QED BY <2>1, <2>2, NoneEnds DEF Writing
<1>5. CASE Reserve \/ Name \/ Trouble \/ Locked \/ (NameTaken /\ ~ LastAttempt)
  <2>1. phase \in Writing /\ phase' \in Writing /\ UNCHANGED <<snapshot, queue, outcome>>
    BY <1>5 DEF Reserve, Name, Trouble, Locked, TryAgain, NameTaken, Writing
  <2> QED BY <2>1, NoneEnds
<1>6. CASE AnotherProgramWrites \/ AnotherRunCommits \/ Killed \/ Damaged \/ UNCHANGED exportVars
  <2>1. phase' \in {phase, "dead"} /\ UNCHANGED <<snapshot, queue, outcome>>
    BY <1>6 DEF AnotherProgramWrites, AnotherRunCommits, Killed, Damaged, exportVars
  <2> QED BY <2>1, NoneEnds
<1>7. CASE Recorded
  <2>1. phase = "none" /\ phase' = "closed" /\ UNCHANGED outcome
    BY <1>7 DEF Recorded
  <2> QED BY <2>1 DEF Counting, Writing
<1> QED BY <1>1, <1>2, <1>3, <1>4, <1>5, <1>6, <1>7 DEF FileToReportNext, ExportNext

\* Nothing is counted at first.
LEMMA InitCounts == FileToReportInit => Counting
<1> SUFFICES ASSUME FileToReportInit PROVE Counting
  OBVIOUS
<1>1. phase = "none" /\ outcome.saved = {} /\ outcome.failed = << >>
  BY DEF FileToReportInit, NoOutcome
<1>2. << >> \in Seq(Failures) /\ IsFiniteSet({})
  BY EmptySeq, FS_EmptySet
<1> QED BY <1>1, <1>2 DEF Counting, Writing

\* When an export is over, each report is saved or listed as failed, once, a workbook that
\* failed on its data is followed by the recovery workbook or by the failure of the export
\* as a whole, which otherwise comes before any report; and no temporary file is forgotten
\* (_export and _atomic_write).
THEOREM EveryReportOnce == FileToReportSpec => []ExportAccounts
<1>1. IInv /\ Counting => ExportAccounts
  <2> SUFFICES ASSUME IInv, Counting PROVE ExportAccounts
    OBVIOUS
  <2>1. NoTemporaryForgotten
    BY DEF IInv, Temporary, NoTemporaryForgotten, Resting
  <2>2. EveryReportAccounted
    BY DEF Counting, EveryReportAccounted, Unbegun, Accounted, DataFailed, Due
  <2> QED BY <2>1, <2>2 DEF ExportAccounts
<1>2. IInv /\ Counting /\ [FileToReportNext]_<<conversionVars, exportVars>> => Counting'
  BY StepCounts
<1>3. FileToReportSpec => []Counting
  BY <1>2, InitCounts, ExportInvariance, PTL DEF FileToReportSpec
<1> QED BY <1>1, <1>3, ExportInvariance, PTL

-----------------------------------------------------------------------------
(* Selections: where they lie, and that they are finite                    *)

\* A fraction of a distance does not leave it.
LEMMA Fraction ==
  ASSUME NEW d \in Nat, NEW k \in Nat \ {0}, NEW i \in 0 .. k
  PROVE  (d * i) \div k \in 0 .. d
<1>1. d * i \in Nat /\ d * k \in Nat /\ d * i <= d * k
  OBVIOUS
<1> DEFINE q == (d * i) \div k
<1>2. q \in Int /\ k * q <= d * i
  BY <1>1
<1>3. q >= 0
  BY <1>1
<1> HIDE DEF q
<1>4. q <= d
  <2> SUFFICES ASSUME q >= d + 1 PROVE FALSE
    BY <1>2
  <2>1. k * q >= k * (d + 1)
    BY <1>2
  <2>2. k * (d + 1) = d * k + k
    OBVIOUS
  <2> QED BY <1>1, <1>2, <2>1, <2>2
<1> QED BY <1>2, <1>3, <1>4 DEF q

\* np.linspace stays between its ends.
LEMMA LinspaceLies ==
  ASSUME NEW first \in Int, NEW last \in Int, first <= last, NEW count \in Nat \ {0}
  PROVE  Linspace(first, last, count) \subseteq first .. last
<1>1. CASE count = 1
  BY <1>1 DEF Linspace
<1>2. CASE count # 1
  <2>1. ASSUME NEW i \in 0 .. count - 1
        PROVE  first + ((last - first) * i) \div (count - 1) \in first .. last
    <3>1. last - first \in Nat /\ count - 1 \in Nat \ {0}
      BY <1>2
    <3>2. ((last - first) * i) \div (count - 1) \in 0 .. last - first
      BY <3>1, Fraction
    <3> DEFINE q == ((last - first) * i) \div (count - 1)
    <3>3. q \in 0 .. last - first
      BY <3>2
    <3> HIDE DEF q
    <3>4. first + q \in first .. last
      BY <3>3
    <3> QED BY <3>4 DEF q
  <2> QED BY <1>2, <2>1 DEF Linspace
<1> QED BY <1>1, <1>2

\* A sample of the places 0, 1, .. is made of such places.
LEMMA SummaryLies ==
  ASSUME NEW total \in Nat, NEW limit \in Nat \ {0}
  PROVE  calculate_summary_indices(0, total, limit) \subseteq 0 .. total - 1
<1>1. CASE total = 0 \/ total <= limit
  BY <1>1 DEF calculate_summary_indices
<1>2. CASE total # 0 /\ ~ (total <= limit)
  <2>1. Linspace(0, total - 1, limit) \subseteq 0 .. total - 1
    BY <1>2, LinspaceLies
  <2> QED BY <1>2, <2>1 DEF calculate_summary_indices
<1> QED BY <1>1, <1>2

\* A typed part, as the settings let it pass.
Typable(part) ==
  part.from \in Nat \cup {Absent} /\ part.to \in Nat \cup {Absent} /\ part.dash \in BOOLEAN

\* The pages a typed range selects are pages of the file.
LEMMA IndicesLie ==
  ASSUME NEW typed, \A part \in typed : Typable(part) /\ ~ Refused(part), NEW total \in Nat
  PROVE  calculate_indices(Compile(typed), total).indices \subseteq 0 .. total - 1
<1>1. ASSUME NEW seg \in Compile(typed)
      PROVE  seg.start \in Nat /\ seg.end \in Int
  <2>1. CASE typed = {}
    BY <2>1 DEF Compile, Absent
  <2>2. CASE typed # {}
    <3>1. PICK part \in typed : seg = Segment(part)
      BY <2>2 DEF Compile
    <3>2. Typable(part) /\ ~ Refused(part)
      OBVIOUS
    <3>3. seg.start = (IF part.from = Absent THEN 0 ELSE part.from - 1)
          /\ seg.end = (IF part.dash THEN part.to ELSE part.from)
      BY <3>1 DEF Segment
    <3> QED BY <3>1, <3>2, <3>3 DEF Typable, Refused, Absent
  <2> QED BY <2>1, <2>2
<1>2. ASSUME NEW seg \in Compile(typed) PROVE Covered(seg, total) \subseteq 0 .. total - 1
  BY <1>1 DEF Covered, Outside
<1> QED BY <1>2 DEF calculate_indices

-----------------------------------------------------------------------------
(* The moments of a video *)

\* Moments taken at a step lie in their segment, cut to the budget or not.
LEMMA SamplesLie ==
  ASSUME NEW start \in Int, NEW end \in Int, start < end,
         NEW step \in Nat \ {0}, NEW budget \in Nat \ {0}
  PROVE  calculate_sampling_times(start, end, step, budget).times \subseteq start .. end
<1> DEFINE k == (end - start) \div step
           all == Steps(start, end, step)
<1>1. k \in Nat /\ k * step <= end - start
  OBVIOUS
<1> HIDE DEF k
<1>2. ASSUME NEW i \in 0 .. k PROVE start + i * step \in start .. end
  <2>1. i * step \in Nat /\ i * step <= k * step
    BY <1>1
  <2> QED BY <1>1, <2>1
<1>3. all = {start + i * step : i \in 0 .. k}
  BY DEF Steps, k
<1>4. Cardinality(all) <= k + 1
  <2> DEFINE f == [i \in 0 .. k |-> start + i * step]
  <2>1. f \in Surjection(0 .. k, all)
    BY <1>3 DEF Surjection
  <2>2. IsFiniteSet(0 .. k) /\ Cardinality(0 .. k) = k + 1
    BY <1>1, FS_Interval
  <2> HIDE DEF f, all
  <2> QED BY <2>1, <2>2, FS_Surjection
<1>5. Cardinality(all) > budget => \A i \in 0 .. budget - 1 : i \in 0 .. k
  <2>1. IsFiniteSet(all)
    <3>1. all \subseteq start .. end
      BY <1>2, <1>3
    <3> HIDE DEF all
    <3> QED BY <3>1, FS_Interval, FS_Subset
  <2>2. Cardinality(all) \in Nat
    BY <2>1, FS_CardinalityType
  <2> HIDE DEF all
  <2> QED BY <1>1, <1>4, <2>2
<1>6. all \subseteq start .. end
  BY <1>2, <1>3
<1>7. Cardinality(all) > budget => {start + i * step : i \in 0 .. budget - 1} \subseteq start .. end
  <2> HIDE DEF all
  <2> QED BY <1>2, <1>5
<1>8. calculate_sampling_times(start, end, step, budget).times \in
        {all} \cup (IF Cardinality(all) > budget
                    THEN {{start + i * step : i \in 0 .. budget - 1}} ELSE {})
  BY DEF calculate_sampling_times
<1> HIDE DEF all
<1> QED BY <1>6, <1>7, <1>8

\* The moments asked for lie within the video.
LEMMA TimesLie ==
  ASSUME NEW typed, \A part \in typed : Typable(part),
         NEW duration \in Int, NEW content_end \in Int, NEW mode
  PROVE  get_target_times(CompileTimes(typed), duration, mode, content_end).times \subseteq 0 .. duration
<1>1. ASSUME NEW seg \in CompileTimes(typed)
      PROVE  seg.start \in Nat /\ seg.end \in Int
  <2>1. CASE typed = {}
    BY <2>1 DEF CompileTimes, Absent
  <2>2. CASE typed # {}
    <3>1. PICK part \in typed : seg = TimeSegment(part)
      BY <2>2 DEF CompileTimes
    <3>2. Typable(part)
      OBVIOUS
    <3>3. seg.start = (IF part.from = Absent THEN 0 ELSE part.from)
          /\ seg.end = (IF part.dash THEN part.to ELSE part.from)
      BY <3>1 DEF TimeSegment
    <3> QED BY <3>2, <3>3 DEF Typable, Absent
  <2> QED BY <2>1, <2>2
<1>2. ASSUME NEW seg \in CompileTimes(typed), ~ Outside(seg, duration)
      PROVE  TimesOf(seg, mode, GenerationEnd(seg, duration, content_end)) \subseteq 0 .. duration
  <2> DEFINE end == GenerationEnd(seg, duration, content_end)
  <2>0. seg.start \in Nat /\ seg.end \in Int /\ seg.start < duration
    BY <1>1, <1>2 DEF Outside
  <2>1. end \in Int /\ end <= duration
    BY <2>0 DEF GenerationEnd, LastAsked
  <2> HIDE DEF end
  <2>2. seg.start .. end \subseteq 0 .. duration
    BY <2>0, <2>1
  <2>3. CASE seg.point
    BY <2>0, <2>3 DEF TimesOf
  <2>4. CASE ~ seg.point /\ mode = "SUMMARY"
    <3>1. calculate_summary_times(seg.start, end, TARGET_TOTAL_FRAMES) \subseteq seg.start .. end
      BY <2>0, <2>1, LinspaceLies, SamplingAssumption DEF calculate_summary_times, SamplingAssumption
    <3> QED BY <2>2, <2>4, <3>1 DEF TimesOf, end
  <2>5. CASE ~ seg.point /\ mode # "SUMMARY"
    <3>1. CASE seg.start < end
      <4>1. Sampled(seg, end).times \subseteq seg.start .. end
        BY <2>0, <2>1, <3>1, SamplesLie, SamplingAssumption DEF Sampled, SamplingAssumption
      <4> QED BY <2>2, <2>5, <4>1 DEF TimesOf, end
    <3>2. CASE ~ (seg.start < end)
      <4>1. Sampled(seg, end).times = {}
        BY <2>0, <2>1, <3>2 DEF Sampled, calculate_sampling_times
      <4> QED BY <2>5, <4>1 DEF TimesOf, end
    <3> QED BY <3>1, <3>2
  <2> QED BY <2>3, <2>4, <2>5
<1> QED BY <1>2 DEF get_target_times

Film(f) == f.kind = "video"
Shots(f) == DOMAIN f.frames

\* What FilesAssumption says of the file at hand.
LEMMA AFile ==
  ASSUME NEW f \in Files
  PROVE  /\ f.kind \in {"document", "image", "animation", "video", "unknown", "empty"}
         /\ Len(f.frames) \in Nat /\ Shots(f) = 1 .. Len(f.frames)
         /\ \A i \in Shots(f) :
              /\ f.frames[i].scene \in Int /\ f.frames[i].at \in Int
              /\ f.frames[i].timed \in BOOLEAN /\ f.frames[i].counted \in BOOLEAN
              /\ f.frames[i].key \in BOOLEAN
         /\ \A part \in f.typed : Typable(part)
         /\ ~ Film(f) => \A part \in f.typed : ~ Refused(part)
         /\ f.header.container \in Int /\ f.header.stream \in Int /\ f.header.start_time \in Int
         /\ f.header.fps \in Nat
         /\ Film(f) => \A i \in Shots(f) : f.frames[i].counted => f.frames[i].at # Absent
         /\ Film(f) => \A i, k \in Shots(f) :
              i < k /\ f.frames[i].timed /\ f.frames[k].timed => f.frames[i].at <= f.frames[k].at
<1> DEFINE Frame == [scene : Int, at : Int, timed : BOOLEAN, counted : BOOLEAN, key : BOOLEAN]
           frames == f.frames
<1>1. frames \in Seq(Frame)
  BY FilesAssumption DEF FilesAssumption
<1>2. \A i \in DOMAIN frames : frames[i] \in Frame
  <2> HIDE DEF Frame, frames
  <2> QED BY <1>1
<1>3. Len(frames) \in Nat /\ DOMAIN frames = 1 .. Len(frames)
  <2> HIDE DEF Frame, frames
  <2> QED BY <1>1
<1>4. \A part \in f.typed : Typable(part)
  BY FilesAssumption DEF FilesAssumption, Typable
<1>5. {f.header.container, f.header.stream, f.header.start_time} \subseteq Int /\ f.header.fps \in Nat
  BY FilesAssumption DEF FilesAssumption
<1>6. /\ f.kind \in {"document", "image", "animation", "video", "unknown", "empty"}
      /\ ~ Film(f) => \A part \in f.typed : ~ Refused(part)
      /\ Film(f) => \A i \in Shots(f) : f.frames[i].counted => f.frames[i].at # Absent
      /\ Film(f) => \A i, k \in Shots(f) :
           i < k /\ f.frames[i].timed /\ f.frames[k].timed => f.frames[i].at <= f.frames[k].at
  BY FilesAssumption DEF FilesAssumption, Film, Shots
<1> QED BY <1>2, <1>3, <1>4, <1>5, <1>6 DEF Shots

-----------------------------------------------------------------------------
(* The plan of a conversion *)

Rising(seq) == \A i, k \in DOMAIN seq : i < k => seq[i] < seq[k]

\* Targets lie in the file and follow each other; a film that has any has a picture with a time.
PlanOK(f, seq) ==
  /\ seq \in Seq(Int) /\ Rising(seq)
  /\ ~ Film(f) => \A i \in DOMAIN seq : seq[i] \in Shots(f)
  /\ Film(f) /\ seq # << >> => \E i \in Shots(f) : f.frames[i].at # Absent

\* A selection put in order is a rising sequence of its elements.
LEMMA InOrderIsRising ==
  ASSUME NEW low \in Int, NEW high \in Int, NEW S \in SUBSET (low .. high)
  PROVE  /\ InOrder(S) \in Seq(Int) /\ Rising(InOrder(S))
         /\ Len(InOrder(S)) = Cardinality(S) /\ Cardinality(S) \in Nat
         /\ \A i \in DOMAIN InOrder(S) : InOrder(S)[i] \in S
         /\ InOrder(S) = << >> <=> S = {}
<1>1. IsFiniteSet(S) /\ S \in SUBSET Int
  <2>1. low .. high \subseteq Int
    OBVIOUS
  <2> QED BY <2>1, FS_Interval, FS_Subset
<1>2. Cardinality(S) \in Nat /\ (Cardinality(S) = 0 <=> S = {})
  BY <1>1, FS_CardinalityType, FS_EmptySet
<1> DEFINE seq == InOrder(S)
           n == Cardinality(S)
<1>3. seq \in [1 .. n -> S] /\ \A i, j \in 1 .. n : i < j => seq[i] < seq[j]
  BY <1>1, InOrderSorts
<1>4. n \in Nat /\ (n = 0 <=> S = {})
  BY <1>2
<1> HIDE DEF seq, n
<1>5. seq \in Seq(Int) /\ Len(seq) = n /\ DOMAIN seq = 1 .. n
  <2>1. \A x \in S : x \in Int
    BY <1>1
  <2>2. seq \in [1 .. n -> Int]
    BY <1>3, <2>1
  <2> QED BY <1>4, <2>2
<1>6. seq = << >> <=> n = 0
  BY <1>4, <1>5
<1>7. Rising(seq)
  BY <1>3, <1>5 DEF Rising
<1>8. \A i \in DOMAIN seq : seq[i] \in S
  BY <1>3, <1>5
<1> QED BY <1>4, <1>5, <1>6, <1>7, <1>8 DEF seq, n

\* Opening a file that has pages begins with a plan.
LEMMA PagesPlanned ==
  ASSUME NEW f \in Files, ~ Film(f), NEW S \in SUBSET Shots(f)
  PROVE  PlanOK(f, InOrder(S)) /\ (InOrder(S) = << >> <=> S = {})
<1>1. S \in SUBSET (1 .. Len(f.frames)) /\ Len(f.frames) \in Int /\ 1 \in Int
  BY AFile
<1>2. /\ InOrder(S) \in Seq(Int) /\ Rising(InOrder(S))
      /\ \A i \in DOMAIN InOrder(S) : InOrder(S)[i] \in S
      /\ InOrder(S) = << >> <=> S = {}
  BY <1>1, InOrderIsRising
<1> QED BY <1>2, Zenon DEF PlanOK

\* The pages of a document, cut at its limit.
LEMMA DocumentPlanned ==
  ASSUME file \in Files, OpenDocument
  PROVE  \E S, status : Begin(S, status) /\ PlanOK(file, InOrder(S)) /\ (InOrder(S) = << >> <=> S = {})
<1> DEFINE asked == calculate_indices(Compile(file.typed), Total)
           kept == First(asked.indices, DOCUMENT_MAX_PAGES)
           S == {i + 1 : i \in kept}
<1>1. asked.indices \subseteq 0 .. Total - 1
  BY AFile, IndicesLie DEF OpenDocument, Film, Total
<1>2. ~ Film(file) /\ Total \in Nat /\ Shots(file) = 1 .. Total
  BY AFile DEF OpenDocument, Film, Total
<1>3. S \subseteq Shots(file)
  <2>1. kept \subseteq 0 .. Total - 1
    BY <1>1 DEF First
  <2> HIDE DEF kept
  <2>2. \A i \in kept : i + 1 \in 1 .. Total
    BY <1>2, <2>1
  <2> QED BY <1>2, <2>2
<1>4. \E status : Begin(S, status)
  BY DEF OpenDocument
<1> HIDE DEF S
<1> QED BY <1>2, <1>3, <1>4, PagesPlanned

\* The pictures of an image file.
LEMMA ImagePlanned ==
  ASSUME file \in Files, OpenImage
  PROVE  \E S, status : Begin(S, status) /\ PlanOK(file, InOrder(S)) /\ (InOrder(S) = << >> <=> S = {})
<1> DEFINE total == IF file.mpo THEN 1 ELSE Total
           asked == IF total = 1 THEN [indices |-> {0}, status |-> "ok"]
                    ELSE calculate_indices(Compile(file.typed), total)
           S == {i + 1 : i \in asked.indices}
<1>2. ~ Film(file) /\ Total \in Nat /\ Shots(file) = 1 .. Total /\ Total > 0
  BY AFile DEF OpenImage, Film, Total
<1>1. asked.indices \subseteq 0 .. Total - 1
  <2>1. CASE total = 1
    BY <1>2, <2>1
  <2>2. CASE total # 1
    <3>1. total = Total
      BY <2>2
    <3>2. calculate_indices(Compile(file.typed), Total).indices \subseteq 0 .. Total - 1
      BY <1>2, AFile, IndicesLie
    <3> QED BY <2>2, <3>1, <3>2
  <2> QED BY <2>1, <2>2
<1>3. S \subseteq Shots(file)
  <2> HIDE DEF asked
  <2>2. \A i \in asked.indices : i + 1 \in 1 .. Total
    BY <1>1, <1>2
  <2> QED BY <1>2, <2>2
<1>4. \E status : Begin(S, status)
  BY DEF OpenImage
<1> HIDE DEF S
<1> QED BY <1>2, <1>3, <1>4, PagesPlanned

\* The pictures of an animation, thinned out.
LEMMA AnimationPlanned ==
  ASSUME file \in Files, OpenAnimation
  PROVE  \E S, status : Begin(S, status) /\ PlanOK(file, InOrder(S)) /\ (InOrder(S) = << >> <=> S = {})
<1> DEFINE asked == calculate_indices(Compile(file.typed), Total)
           pool == InOrder(asked.indices)
           chosen == calculate_summary_indices(0, Len(pool), ANIMATION_TARGET_TOTAL_FRAMES)
           S == {pool[i + 1] + 1 : i \in chosen}
<1>1. asked.indices \subseteq 0 .. Total - 1
  BY AFile, IndicesLie DEF OpenAnimation, Film, Total
<1>2. ~ Film(file) /\ Total \in Nat /\ Shots(file) = 1 .. Total
  BY AFile DEF OpenAnimation, Film, Total
<1>3. /\ pool \in Seq(Int) /\ \A i \in DOMAIN pool : pool[i] \in asked.indices
  <2>1. 0 \in Int /\ Total - 1 \in Int /\ asked.indices \in SUBSET (0 .. Total - 1)
    BY <1>1, <1>2
  <2> HIDE DEF asked
  <2> QED BY <2>1, InOrderIsRising
<1>4. chosen \subseteq 0 .. Len(pool) - 1
  <2>1. Len(pool) \in Nat
    BY <1>3
  <2> HIDE DEF pool
  <2> QED BY <2>1, SummaryLies, ConversionAssumption DEF ConversionAssumption
<1>5. S \subseteq Shots(file)
  <2> HIDE DEF asked, pool, chosen
  <2>1. \A i \in chosen : i + 1 \in DOMAIN pool
    BY <1>3, <1>4
  <2>2. \A i \in chosen : pool[i + 1] \in 0 .. Total - 1
    BY <2>1, <1>1, <1>3
  <2>3. \A i \in chosen : pool[i + 1] + 1 \in 1 .. Total
    BY <1>2, <2>2
  <2> QED BY <1>2, <2>3
<1>6. \E status : Begin(S, status)
  BY DEF OpenAnimation
<1> HIDE DEF S
<1> QED BY <1>2, <1>5, <1>6, PagesPlanned

\* The longest a scan of the header and the packets makes a film.
LEMMA DurationType ==
  ASSUME file \in Files, Film(file), NEW count \in 0 .. Total, ~ Unplayable(count)
  PROVE  Duration(count) \in Int /\ ContentEnd(count) \in Int
         /\ \E i \in Shots(file) : file.frames[i].at # Absent
<1>1. Total \in Nat /\ Shots(file) = 1 .. Total
      /\ file.header.container \in Int /\ file.header.stream \in Int /\ file.header.start_time \in Int
      /\ file.header.fps \in Nat
      /\ \A i \in Shots(file) : /\ file.frames[i].at \in Int
                                /\ file.frames[i].counted => file.frames[i].at # Absent
  BY AFile DEF Total
<1>2. Timed(count) \subseteq 1 .. Total /\ Timed(count) # {} /\ Packets(count) \subseteq 1 .. Total
  BY <1>1 DEF Timed, Packets, Unplayable
<1>3. IsFiniteSet(Timed(count)) /\ Cardinality(Packets(count)) \in Nat
  <2>1. IsFiniteSet(1 .. Total)
    BY <1>1, FS_Interval
  <2>2. IsFiniteSet(Timed(count)) /\ IsFiniteSet(Packets(count))
    BY <1>2, <2>1, FS_Subset, Zenon
  <2> QED BY <2>2, FS_CardinalityType
<1>4. file.header.fps > 0
  BY <1>1 DEF Unplayable, header
<1>5. Duration(count) \in Int
  <2>1. Cardinality(Packets(count)) \div file.header.fps \in Int
    BY <1>1, <1>3, <1>4
  <2> QED BY <1>1, <2>1 DEF Duration, header
<1>6. ContentEnd(count) \in Int
  <2> DEFINE ends == {file.frames[i].at : i \in Timed(count)}
             f == [i \in Timed(count) |-> file.frames[i].at]
  <2>1. ends \in SUBSET Int /\ ends # {}
    BY <1>1, <1>2
  <2>2. IsFiniteSet(ends)
    <3>1. f \in Surjection(Timed(count), ends)
      BY DEF Surjection
    <3> HIDE DEF f, ends
    <3> QED BY <1>3, <3>1, FS_Surjection
  <2>3. PICK last \in ends : \A y \in ends : y <= last
    <3> HIDE DEF ends
    <3> QED BY <2>1, <2>2, HasGreatest
  <2>4. Max(ends) \in ends
    <3> HIDE DEF ends
    <3>1. \A x, y \in ends : x <= y <=> y >= x
      BY <2>1
    <3>2. \E x \in ends : \A y \in ends : x >= y
      BY <2>3, <3>1
    <3> QED BY <3>2 DEF Max
  <2>5. Max(ends) \in Int
    <3> HIDE DEF ends
    <3> QED BY <2>1, <2>4
  <2>6. ContentEnd(count) = Larger(0, Max(ends) - file.header.start_time)
    <3>1. ends # {}
      BY <2>1
    <3> QED BY <3>1 DEF ContentEnd, header
  <2> HIDE DEF ends
  <2> QED BY <1>1, <2>5, <2>6 DEF Larger
<1>7. \E i \in Shots(file) : file.frames[i].at # Absent
  BY <1>1, <1>2 DEF Timed
<1> QED BY <1>5, <1>6, <1>7

\* The moments of a video.
LEMMA VideoPlanned ==
  ASSUME file \in Files, OpenVideo
  PROVE  Abort \/ \E S, status : Begin(S, status) /\ PlanOK(file, InOrder(S))
                                 /\ (InOrder(S) = << >> <=> S = {})
<1> SUFFICES ASSUME ~ Abort
             PROVE  \E S, status : Begin(S, status) /\ PlanOK(file, InOrder(S))
                                   /\ (InOrder(S) = << >> <=> S = {})
  OBVIOUS
<1>1. PICK count \in 0 .. Total : ~ Unplayable(count) /\ Begin(Asked(count).times, Asked(count).status)
  BY DEF OpenVideo
<1> DEFINE S == Asked(count).times
<1>2. Duration(count) \in Int /\ ContentEnd(count) \in Int
      /\ \E i \in Shots(file) : file.frames[i].at # Absent
  BY <1>1, DurationType DEF OpenVideo, Film
<1>3. S \subseteq 0 .. Duration(count)
  BY <1>2, AFile, TimesLie DEF Asked
<1>4. Film(file)
  BY DEF OpenVideo, Film
<1>5. Begin(S, Asked(count).status)
  BY <1>1
<1> HIDE DEF S
<1>6. PlanOK(file, InOrder(S)) /\ (InOrder(S) = << >> <=> S = {})
  <2>1. 0 \in Int /\ Duration(count) \in Int /\ S \in SUBSET (0 .. Duration(count))
    BY <1>2, <1>3
  <2>2. /\ InOrder(S) \in Seq(Int) /\ Rising(InOrder(S))
        /\ InOrder(S) = << >> <=> S = {}
    BY <2>1, InOrderIsRising
  <2> QED BY <1>2, <1>4, <2>2, Zenon DEF PlanOK
<1> QED BY <1>5, <1>6

-----------------------------------------------------------------------------
(* The rows of a conversion *)

Statuses == {"ok", "skipped", "failure"}
Rows == [page : Int, status : Statuses, frame : Int, time : Int, tone : {"", "plain", "mapped"}]

\* How many rows are those of targets: the row of an abort is not.
Good == IF summary.claim = "error" THEN Len(rows) - 1 ELSE Len(rows)

PlannedAt(i) == IF Film(file) THEN i ELSE targets[i]

\* The row is one of the i-th target.
Fits(i, row) ==
  /\ row \in Rows /\ row.page = PlannedAt(i) /\ row.frame \in {0, FrameOf(i)}
  /\ row.status # "failure" => row.frame = FrameOf(i)
  /\ Film(file) /\ row.frame # 0 => row.time = CaptureSeconds(row.frame)

Similar(a, b) ==
  LET d == file.frames[a].scene - file.frames[b].scene IN d * d <= SCENE_SENSITIVITY

Fitting == \A i \in 1 .. Good : Fits(i, rows[i])

Of(status) == {i \in 1 .. Good : rows[i].status = status}
Counted ==
  /\ tally \in [Statuses -> Nat]
  /\ \A s \in Statuses : IsFiniteSet(Of(s)) /\ tally[s] = Cardinality(Of(s))
  /\ tally["ok"] + tally["skipped"] + tally["failure"] = Good

Kept ==
  /\ \A j, k \in jpegs : j.name = k.name => j = k
  /\ \A i \in 1 .. Good : rows[i].status = "ok" => \E j \in jpegs : Holds(j, rows[i])

Compared ==
  /\ last_saved # 0 => \E k \in 1 .. Good : rows[k].status = "ok" /\ rows[k].frame = last_saved
  /\ \A i \in 1 .. Good : rows[i].status = "skipped" =>
       \E k \in 1 .. i - 1 : rows[k].status = "ok" /\ Similar(rows[i].frame, rows[k].frame)

Toned ==
  /\ plain \in BOOLEAN
  /\ \A i \in 1 .. Good : rows[i].tone = "plain" => plain
  /\ \A i, k \in 1 .. Good : i < k /\ rows[i].tone = "plain" => rows[k].tone # "mapped"

Made == Good \in Nat /\ Fitting /\ Counted /\ Kept /\ Compared /\ Toned

\* What a step that adds the row of a target does.
Yields(row) ==
  /\ Fits(Good + 1, row)
  /\ rows' = Append(rows, row) /\ tally' = [tally EXCEPT ![row.status] = @ + 1]
  /\ \/ jpegs' = jpegs /\ row.status # "ok"
     \/ \E whole \in BOOLEAN : /\ jpegs' = Written(row.page, row.time, row.frame, whole)
                               /\ row.status = "ok" => whole
  /\ \/ row.status = "ok" /\ last_saved' = row.frame
     \/ row.status # "ok" /\ last_saved' = last_saved
  /\ row.status = "skipped" => last_saved # 0 /\ Similar(row.frame, last_saved)
  /\ plain' \in BOOLEAN /\ (plain => plain')
  /\ row.tone = "plain" => plain'
  /\ row.tone = "mapped" => ~ plain

\* What a target stands for does not change.
LEMMA PlanStays ==
  ASSUME UNCHANGED <<file, targets>>
  PROVE  /\ \A i : FrameOf(i)' = FrameOf(i)
         /\ \A i : PlannedAt(i)' = PlannedAt(i)
         /\ \A frame : CaptureSeconds(frame)' = CaptureSeconds(frame)
         /\ \A a, b : Similar(a, b)' <=> Similar(a, b)
         /\ \A i, row : Fits(i, row)' <=> Fits(i, row)
<1>1. \A i : FrameOf(i)' = FrameOf(i)
  BY DEF FrameOf, Captured, NotBefore, Decoded, Entry, Total, header
<1>2. \A i : PlannedAt(i)' = PlannedAt(i)
  BY DEF PlannedAt, Film
<1>3. \A frame : CaptureSeconds(frame)' = CaptureSeconds(frame)
  BY DEF CaptureSeconds, header
<1>4. \A a, b : Similar(a, b)' <=> Similar(a, b)
  BY DEF Similar
<1>5. \A i, row : Fits(i, row)' <=> Fits(i, row)
  BY <1>1, <1>2, <1>3 DEF Fits, Film
<1> QED BY <1>1, <1>2, <1>3, <1>4, <1>5

\* A row that is not of a target, or no row, changes nothing of the rest.
LEMMA MadeStays ==
  ASSUME Made, UNCHANGED <<file, targets, jpegs, last_saved, tally, plain>>,
         Good' = Good, \A i \in 1 .. Good : rows'[i] = rows[i]
  PROVE  Made'
<1>1. Fitting'
  BY PlanStays DEF Made, Fitting
<1>2. Counted'
  <2>1. \A s : Of(s)' = Of(s)
    BY DEF Of
  <2> QED BY <2>1 DEF Made, Counted
<1>3. Kept'
  <2>1. \A j, row : Holds(j, row)' <=> Holds(j, row)
    BY DEF Holds
  <2> QED BY <2>1 DEF Made, Kept
<1>4. Compared'
  <2>1. \A i \in 1 .. Good : \A k \in 1 .. i - 1 : k \in 1 .. Good
    BY DEF Made
  <2> QED BY <2>1, PlanStays DEF Made, Compared
<1>5. Toned'
  BY DEF Made, Toned
<1> QED BY <1>1, <1>2, <1>3, <1>4, <1>5 DEF Made

\* There is nothing to say before the first row.
Blanks == /\ rows = << >> /\ jpegs = {} /\ last_saved = 0 /\ plain = FALSE
          /\ tally = [s \in Statuses |-> 0] /\ summary.claim = ""

\* Before the first row all of it holds.
LEMMA MadeAtFirst ==
  ASSUME Blanks
  PROVE  Made /\ Good = 0
<1>1. Good = 0
  BY DEF Blanks, Good
<1>2. 1 .. Good = {}
  BY <1>1
<1>3. Fitting /\ Kept /\ Compared /\ Toned
  BY <1>2 DEF Fitting, Kept, Compared, Toned, Blanks
<1>4. Counted
  <2>1. \A s \in Statuses : Of(s) = {}
    BY <1>2 DEF Of
  <2>2. tally \in [Statuses -> Nat] /\ \A s \in Statuses : tally[s] = 0
    BY DEF Blanks
  <2>3. "ok" \in Statuses /\ "skipped" \in Statuses /\ "failure" \in Statuses
    BY DEF Statuses
  <2> QED BY <1>1, <2>1, <2>2, <2>3, FS_EmptySet DEF Counted
<1> QED BY <1>1, <1>3, <1>4 DEF Made

-----------------------------------------------------------------------------
(* One more row *)

\* A target has the frame that is decoded for it, and its page is no other's.
LEMMA PagesDiffer ==
  ASSUME PlanOK(file, targets), NEW i \in DOMAIN targets, NEW k \in DOMAIN targets, i < k
  PROVE  PlannedAt(i) # PlannedAt(k)
<1>1. targets[i] \in Int /\ targets[k] \in Int /\ targets[i] < targets[k]
  BY DEF PlanOK, Rising
<1>2. i \in Int /\ k \in Int
  BY DEF PlanOK
<1> QED BY <1>1, <1>2 DEF PlannedAt

\* The new row is the last one.
LEMMA RowAdded ==
  ASSUME Made, rows \in Seq(Rows), summary.claim # "error", summary'.claim # "error",
         UNCHANGED <<file, targets>>, NEW row, Yields(row)
  PROVE  /\ rows' \in Seq(Rows) /\ Good' = Good + 1 /\ Good \in Nat
         /\ \A i \in 1 .. Good : rows'[i] = rows[i]
         /\ rows'[Good + 1] = row
         /\ 1 .. Good' = (1 .. Good) \cup {Good + 1}
<1>1. row \in Rows
  BY DEF Yields, Fits
<1>2. rows' = Append(rows, row)
  BY DEF Yields
<1>3. Good = Len(rows) /\ Good' = Len(rows')
  BY DEF Good
<1> HIDE DEF Rows
<1>4. rows' \in Seq(Rows) /\ Len(rows') = Len(rows) + 1 /\ rows'[Len(rows) + 1] = row
      /\ Len(rows) \in Nat /\ \A i \in 1 .. Len(rows) : rows'[i] = rows[i]
  BY <1>1, <1>2
<1>5. 1 .. Len(rows) + 1 = (1 .. Len(rows)) \cup {Len(rows) + 1}
  BY <1>4
<1> QED BY <1>3, <1>4, <1>5

\* Rows fit their targets, and tones do not return.
LEMMA YieldFits ==
  ASSUME Made, rows \in Seq(Rows), summary.claim # "error", summary'.claim # "error",
         UNCHANGED <<file, targets>>, NEW row, Yields(row)
  PROVE  Fitting' /\ Toned'
<1>1. /\ Good' = Good + 1 /\ Good \in Nat /\ 1 .. Good' = (1 .. Good) \cup {Good + 1}
      /\ \A i \in 1 .. Good : rows'[i] = rows[i]
      /\ rows'[Good + 1] = row
  BY RowAdded
<1>2. Fits(Good + 1, row)
  BY DEF Yields
<1>3. Fitting'
  <2>1. \A i \in 1 .. Good : Fits(i, rows[i])
    BY DEF Made, Fitting
  <2> QED BY <1>1, <1>2, <2>1, PlanStays DEF Fitting
<1>4. Toned'
  <2>1. /\ plain' \in BOOLEAN /\ (plain => plain')
        /\ row.tone = "plain" => plain'
        /\ row.tone = "mapped" => ~ plain
    BY DEF Yields
  <2>2. \A i \in 1 .. Good' : rows'[i].tone = "plain" => plain'
    BY <1>1, <2>1 DEF Made, Toned
  <2>3. ASSUME NEW i \in 1 .. Good', NEW k \in 1 .. Good', i < k, rows'[i].tone = "plain"
        PROVE  rows'[k].tone # "mapped"
    <3>1. i \in 1 .. Good
      BY <1>1, <2>3
    <3>2. rows[i].tone = "plain" /\ plain
      BY <1>1, <2>3, <3>1 DEF Made, Toned
    <3>3. CASE k \in 1 .. Good
      BY <1>1, <2>3, <3>1, <3>2, <3>3 DEF Made, Toned
    <3>4. CASE k = Good + 1
      BY <1>1, <2>1, <3>2, <3>4
    <3> QED BY <1>1, <3>3, <3>4
  <2> QED BY <2>1, <2>2, <2>3 DEF Toned
<1> QED BY <1>3, <1>4

\* One count rises by one.
LEMMA YieldCounts ==
  ASSUME Made, rows \in Seq(Rows), summary.claim # "error", summary'.claim # "error",
         UNCHANGED <<file, targets>>, NEW row, Yields(row)
  PROVE  Counted'
<1>1. /\ Good' = Good + 1 /\ Good \in Nat /\ 1 .. Good' = (1 .. Good) \cup {Good + 1}
      /\ \A i \in 1 .. Good : rows'[i] = rows[i]
      /\ rows'[Good + 1] = row
  BY RowAdded
<1>2. row.status \in Statuses /\ tally' = [tally EXCEPT ![row.status] = @ + 1]
  BY DEF Yields, Fits, Rows
<1>3. /\ tally \in [Statuses -> Nat]
      /\ \A s \in Statuses : IsFiniteSet(Of(s)) /\ tally[s] = Cardinality(Of(s))
      /\ tally["ok"] + tally["skipped"] + tally["failure"] = Good
  BY DEF Made, Counted
<1>4. /\ tally' \in [Statuses -> Nat]
      /\ tally'[row.status] = tally[row.status] + 1
      /\ \A s \in Statuses \ {row.status} : tally'[s] = tally[s]
  BY <1>2, <1>3
<1>5. Of(row.status)' = Of(row.status) \cup {Good + 1} /\ Good + 1 \notin Of(row.status)
  <2>1. Good + 1 \notin 1 .. Good
    BY <1>1
  <2> QED BY <1>1, <2>1 DEF Of
<1>6. \A s \in Statuses \ {row.status} : Of(s)' = Of(s)
  BY <1>1 DEF Of
<1>7. \A s \in Statuses : IsFiniteSet(Of(s))' /\ tally'[s] = Cardinality(Of(s))'
  <2>1. /\ IsFiniteSet(Of(row.status) \cup {Good + 1})
        /\ Cardinality(Of(row.status) \cup {Good + 1}) = Cardinality(Of(row.status)) + 1
    BY <1>2, <1>3, <1>5, FS_AddElement
  <2> QED BY <1>2, <1>3, <1>4, <1>5, <1>6, <2>1
<1>8. tally'["ok"] + tally'["skipped"] + tally'["failure"] = Good'
  <2>1. tally["ok"] \in Nat /\ tally["skipped"] \in Nat /\ tally["failure"] \in Nat
    BY <1>3 DEF Statuses
  <2>2. \A s \in Statuses : tally'[s] = tally[s] + (IF s = row.status THEN 1 ELSE 0)
    BY <1>2, <1>3, <1>4
  <2>3. /\ tally'["ok"] = tally["ok"] + (IF row.status = "ok" THEN 1 ELSE 0)
        /\ tally'["skipped"] = tally["skipped"] + (IF row.status = "skipped" THEN 1 ELSE 0)
        /\ tally'["failure"] = tally["failure"] + (IF row.status = "failure" THEN 1 ELSE 0)
    BY <2>2 DEF Statuses
  <2>4. row.status \in {"ok", "skipped", "failure"}
    BY <1>2 DEF Statuses
  <2> QED BY <1>1, <1>3, <2>1, <2>3, <2>4
<1> QED BY <1>4, <1>7, <1>8 DEF Counted

\* Writing the picture of one target overwrites that of no other.
LEMMA YieldKeepsPictures ==
  ASSUME Made, rows \in Seq(Rows), summary.claim # "error", summary'.claim # "error",
         PlanOK(file, targets), Good + 1 \in DOMAIN targets,
         UNCHANGED <<file, targets>>, NEW row, Yields(row)
  PROVE  Kept'
<1>1. /\ Good' = Good + 1 /\ Good \in Nat /\ 1 .. Good' = (1 .. Good) \cup {Good + 1}
      /\ \A i \in 1 .. Good : rows'[i] = rows[i]
      /\ rows'[Good + 1] = row
  BY RowAdded
<1>2. /\ \A j, k \in jpegs : j.name = k.name => j = k
      /\ \A i \in 1 .. Good : rows[i].status = "ok" => \E j \in jpegs : Holds(j, rows[i])
  BY DEF Made, Kept
<1>3. \A j, r : Holds(j, r)' <=> Holds(j, r)
  BY DEF Holds
<1>4. CASE jpegs' = jpegs /\ row.status # "ok"
  BY <1>1, <1>2, <1>3, <1>4 DEF Kept
<1>5. ASSUME NEW whole \in BOOLEAN, jpegs' = Written(row.page, row.time, row.frame, whole),
             row.status = "ok" => whole
      PROVE  Kept'
  <2> DEFINE name == Named(row.page, row.time)
  <2>1. PICK new : /\ new.name = name /\ new.frame = row.frame /\ new.whole = whole
                   /\ jpegs' = {j \in jpegs : j.name # name} \cup {new}
    BY <1>5 DEF Written
  <2>2. \A j, k \in jpegs' : j.name = k.name => j = k
    BY <1>2, <2>1
  <2>3. ASSUME NEW i \in 1 .. Good, rows[i].status = "ok"
        PROVE  \E j \in jpegs' : Holds(j, rows[i])
    <3>1. PICK j \in jpegs : Holds(j, rows[i])
      BY <1>2, <2>3
    <3>2. rows[i].page = PlannedAt(i) /\ row.page = PlannedAt(Good + 1)
      BY DEF Made, Fitting, Fits, Yields
    <3>3. i \in DOMAIN targets /\ i < Good + 1
      BY <1>1 DEF PlanOK
    <3>4. rows[i].page # row.page
      BY <3>2, <3>3, PagesDiffer
    <3>5. j.name # name
      BY <3>1, <3>4 DEF Holds, Named
    <3> QED BY <2>1, <3>1, <3>5
  <2>4. row.status = "ok" => \E j \in jpegs' : Holds(j, row)
    BY <1>5, <2>1 DEF Holds
  <2> QED BY <1>1, <1>3, <2>2, <2>3, <2>4 DEF Kept
<1> QED BY <1>4, <1>5 DEF Yields

\* What is left out resembles a picture saved.
LEMMA YieldCompares ==
  ASSUME Made, rows \in Seq(Rows), summary.claim # "error", summary'.claim # "error",
         UNCHANGED <<file, targets>>, NEW row, Yields(row)
  PROVE  Compared'
<1>1. /\ Good' = Good + 1 /\ Good \in Nat /\ 1 .. Good' = (1 .. Good) \cup {Good + 1}
      /\ \A i \in 1 .. Good : rows'[i] = rows[i]
      /\ rows'[Good + 1] = row
  BY RowAdded
<1>2. /\ \/ row.status = "ok" /\ last_saved' = row.frame
         \/ row.status # "ok" /\ last_saved' = last_saved
      /\ row.status = "skipped" => last_saved # 0 /\ Similar(row.frame, last_saved)
  BY DEF Yields
<1>3. /\ last_saved # 0 => \E k \in 1 .. Good : rows[k].status = "ok" /\ rows[k].frame = last_saved
      /\ \A i \in 1 .. Good : rows[i].status = "skipped" =>
           \E k \in 1 .. i - 1 : rows[k].status = "ok" /\ Similar(rows[i].frame, rows[k].frame)
  BY DEF Made, Compared
<1>4. last_saved' # 0 => \E k \in 1 .. Good' : rows'[k].status = "ok" /\ rows'[k].frame = last_saved'
  BY <1>1, <1>2, <1>3
<1>5. ASSUME NEW i \in 1 .. Good', rows'[i].status = "skipped"
      PROVE  \E k \in 1 .. i - 1 : rows'[k].status = "ok" /\ Similar(rows'[i].frame, rows'[k].frame)
  <2>1. CASE i \in 1 .. Good
    <3>1. rows'[i] = rows[i]
      BY <1>1, <2>1
    <3>2. PICK k \in 1 .. i - 1 : rows[k].status = "ok" /\ Similar(rows[i].frame, rows[k].frame)
      BY <1>3, <1>5, <2>1, <3>1
    <3>3. k \in 1 .. Good
      BY <1>1, <2>1
    <3>4. rows'[k] = rows[k]
      BY <1>1, <3>3
    <3> QED BY <3>1, <3>2, <3>4
  <2>2. CASE i = Good + 1
    <3>1. last_saved # 0 /\ Similar(row.frame, last_saved)
      BY <1>1, <1>2, <1>5, <2>2
    <3>2. PICK k \in 1 .. Good : rows[k].status = "ok" /\ rows[k].frame = last_saved
      BY <1>3, <3>1
    <3>3. k \in 1 .. i - 1
      BY <1>1, <2>2
    <3>4. rows'[k] = rows[k] /\ rows'[i] = row
      BY <1>1, <2>2
    <3> QED BY <3>1, <3>2, <3>3, <3>4
  <2> QED BY <1>1, <2>1, <2>2
<1>6. \A a, b : Similar(a, b)' <=> Similar(a, b)
  BY PlanStays
<1> QED BY <1>4, <1>5, <1>6 DEF Compared

\* So a row more keeps all of it.
LEMMA YieldKeeps ==
  ASSUME Made, rows \in Seq(Rows), summary.claim # "error", summary'.claim # "error",
         PlanOK(file, targets), Good + 1 \in DOMAIN targets,
         UNCHANGED <<file, targets>>, NEW row, Yields(row)
  PROVE  Made' /\ rows' \in Seq(Rows) /\ Good' = Good + 1
<1>1. Good' = Good + 1 /\ Good \in Nat /\ rows' \in Seq(Rows)
  BY RowAdded
<1>2. Fitting' /\ Toned' /\ Counted' /\ Kept' /\ Compared'
  BY YieldFits, YieldCounts, YieldKeepsPictures, YieldCompares
<1> QED BY <1>1, <1>2 DEF Made

-----------------------------------------------------------------------------
(* The frame of a target *)

\* The first and the last of some pictures.
LEMMA MinMax ==
  ASSUME NEW n \in Nat, NEW S \in SUBSET (1 .. n), S # {}
  PROVE  /\ Min(S) \in S /\ \A y \in S : Min(S) <= y
         /\ Max(S) \in S /\ \A y \in S : Max(S) >= y
<1>1. IsFiniteSet(S) /\ S \in SUBSET Int
  <2>1. 1 .. n \in SUBSET Int /\ IsFiniteSet(1 .. n)
    BY FS_Interval
  <2> QED BY <2>1, FS_Subset
<1>2. \E x \in S : \A y \in S : x <= y
  BY <1>1, HasLeast
<1>3. \E x \in S : \A y \in S : x >= y
  BY <1>1, HasGreatest
<1> QED BY <1>2, <1>3 DEF Min, Max

\* A seek finds a picture that has a time, and every picture with a time not before
\* the moment sought comes out of the decoder.
LEMMA SeekFinds ==
  ASSUME file \in Files, NEW pts \in Int, \E i \in Shots(file) : file.frames[i].at # Absent
  PROVE  /\ Entry(pts) \in 1 .. Total /\ Decoded(pts) \subseteq 1 .. Total /\ Decoded(pts) # {}
         /\ NotBefore(pts) \subseteq Decoded(pts) /\ Captured(pts) \in Decoded(pts)
<1> DEFINE keys == {i \in 1 .. Total : file.frames[i].key /\ file.frames[i].at \in 0 .. pts}
<1>1. Total \in Nat /\ Shots(file) = 1 .. Total /\ \A i \in 1 .. Total : file.frames[i].at \in Int
  BY AFile DEF Total
<1>t. Total \in Nat
  BY <1>1
<1>2. keys \in SUBSET (1 .. Total)
  OBVIOUS
<1>3. Entry(pts) = IF keys = {} THEN 1 ELSE Max(keys)
  BY DEF Entry
<1>4. PICK some \in 1 .. Total : file.frames[some].at # Absent
  BY <1>1
<1>5. Entry(pts) \in 1 .. Total /\ (keys # {} => Entry(pts) \in keys)
  <2>1. CASE keys = {}
    BY <1>1, <1>3, <1>4, <2>1
  <2>2. CASE keys # {}
    <3>1. Max(keys) \in keys
      <4> HIDE DEF keys
      <4> QED BY <1>t, <1>2, <2>2, MinMax, Zenon
    <3> HIDE DEF keys
    <3> QED BY <1>2, <1>3, <2>2, <3>1
  <2> QED BY <2>1, <2>2
<1>6. Decoded(pts) \in SUBSET (1 .. Total)
  BY <1>1, <1>5 DEF Decoded
<1>7. Decoded(pts) # {}
  <2>1. CASE keys = {}
    <3>1. Entry(pts) = 1
      BY <1>3, <2>1
    <3> QED BY <1>4, <3>1 DEF Decoded
  <2>2. CASE keys # {}
    <3>1. Entry(pts) \in keys
      BY <1>5, <2>2
    <3>2. file.frames[Entry(pts)].at # Absent
      BY <1>1, <3>1 DEF Absent
    <3>3. Entry(pts) \in Entry(pts) .. Total
      BY <1>1, <1>5
    <3> QED BY <3>2, <3>3 DEF Decoded
  <2> QED BY <2>1, <2>2
<1>8. NotBefore(pts) \in SUBSET Decoded(pts)
  BY DEF NotBefore
<1>9. Captured(pts) \in Decoded(pts)
  <2>1. CASE NotBefore(pts) # {}
    <3>1. NotBefore(pts) \in SUBSET (1 .. Total)
      BY <1>6, <1>8
    <3>2. Min(NotBefore(pts)) \in NotBefore(pts)
      BY <1>t, <2>1, <3>1, MinMax, Zenon
    <3> QED BY <1>8, <2>1, <3>2 DEF Captured
  <2>2. CASE NotBefore(pts) = {}
    <3>1. Max(Decoded(pts)) \in Decoded(pts)
      BY <1>t, <1>6, <1>7, MinMax, Zenon
    <3> QED BY <2>2, <3>1 DEF Captured
  <2> QED BY <2>1, <2>2
<1> QED BY <1>5, <1>6, <1>7, <1>8, <1>9

\* A later moment has no earlier picture.
LEMMA SeekRises ==
  ASSUME file \in Files, NEW p \in Int, NEW q \in Int, p <= q,
         \E i \in Shots(file) : file.frames[i].at # Absent
  PROVE  Captured(p) <= Captured(q)
<1> DEFINE Keys(pts) == {i \in 1 .. Total : file.frames[i].key /\ file.frames[i].at \in 0 .. pts}
<1>1. Total \in Nat /\ \A i \in 1 .. Total : file.frames[i].at \in Int
  BY AFile DEF Total
<1>t. Total \in Nat
  BY <1>1
<1>2. /\ Entry(p) \in 1 .. Total /\ Decoded(p) \in SUBSET (1 .. Total) /\ Decoded(p) # {}
      /\ NotBefore(p) \in SUBSET Decoded(p) /\ Captured(p) \in Decoded(p)
      /\ Entry(q) \in 1 .. Total /\ Decoded(q) \in SUBSET (1 .. Total) /\ Decoded(q) # {}
      /\ NotBefore(q) \in SUBSET Decoded(q) /\ Captured(q) \in Decoded(q)
  BY SeekFinds
<1>3. Entry(p) <= Entry(q)
  <2>1. Keys(p) \subseteq Keys(q) /\ Keys(q) \in SUBSET (1 .. Total)
    BY <1>1
  <2>2. Entry(p) = (IF Keys(p) = {} THEN 1 ELSE Max(Keys(p)))
        /\ Entry(q) = (IF Keys(q) = {} THEN 1 ELSE Max(Keys(q)))
    BY DEF Entry
  <2>3. CASE Keys(p) = {}
    BY <1>2, <2>2, <2>3
  <2>4. CASE Keys(p) # {}
    <3> HIDE DEF Keys
    <3>1. Keys(q) # {} /\ Keys(p) \in SUBSET (1 .. Total)
      BY <2>1, <2>4
    <3>2. Max(Keys(p)) \in Keys(p)
      BY <1>t, <2>4, <3>1, MinMax, Zenon
    <3>3. Max(Keys(q)) >= Max(Keys(p))
      <4>1. Max(Keys(p)) \in Keys(q) /\ Keys(q) \in SUBSET (1 .. Total)
        BY <2>1, <3>2
      <4> QED BY <1>t, <3>1, <4>1, MinMax, Zenon
    <3>4. Max(Keys(q)) \in Keys(q)
      BY <1>t, <2>1, <3>1, MinMax, Zenon
    <3>5. Max(Keys(q)) \in Int /\ Max(Keys(p)) \in Int
      BY <2>1, <3>1, <3>2, <3>4
    <3> QED BY <2>2, <2>4, <3>1, <3>3, <3>5
  <2> QED BY <2>3, <2>4
<1>4. Decoded(q) \subseteq Decoded(p)
  <2>1. \A i \in Entry(q) .. Total : i \in Entry(p) .. Total
    BY <1>1, <1>2, <1>3
  <2> QED BY <2>1 DEF Decoded
<1>5. NotBefore(q) \subseteq NotBefore(p)
  <2>1. ASSUME NEW i \in NotBefore(q) PROVE i \in NotBefore(p)
    <3>1. i \in Decoded(p) /\ file.frames[i].at >= q
      BY <1>4 DEF NotBefore
    <3>2. file.frames[i].at \in Int
      BY <1>1, <1>2, <3>1
    <3>3. file.frames[i].at >= p
      BY <3>1, <3>2
    <3> QED BY <3>1, <3>3 DEF NotBefore
  <2> QED BY <2>1
<1>6. CASE NotBefore(q) # {}
  <2>1. NotBefore(p) # {}
    BY <1>5, <1>6
  <2>2. NotBefore(p) \in SUBSET (1 .. Total) /\ NotBefore(q) \in SUBSET (1 .. Total)
    BY <1>2
  <2>3. Min(NotBefore(q)) \in NotBefore(q)
    BY <1>t, <1>6, <2>2, MinMax, Zenon
  <2>4. Min(NotBefore(p)) <= Min(NotBefore(q))
    <3>1. Min(NotBefore(q)) \in NotBefore(p) /\ NotBefore(p) \in SUBSET (1 .. Total)
      BY <1>5, <2>2, <2>3
    <3> QED BY <1>t, <2>1, <3>1, MinMax, Zenon
  <2> QED BY <1>6, <2>1, <2>4 DEF Captured
<1>7. CASE NotBefore(q) = {}
  <2>1. Captured(q) = Max(Decoded(q))
    BY <1>7 DEF Captured
  <2>2. Max(Decoded(q)) \in Decoded(q) /\ \A y \in Decoded(q) : Max(Decoded(q)) >= y
    BY <1>t, <1>2, MinMax, Zenon
  <2>3. CASE Captured(p) \in Decoded(q)
    BY <1>2, <2>1, <2>2, <2>3
  <2>4. CASE Captured(p) \notin Decoded(q)
    <3>1. Captured(p) < Entry(q)
      BY <1>1, <1>2, <2>4 DEF Decoded
    <3>2. Captured(q) >= Entry(q)
      BY <1>1, <1>2 DEF Decoded
    <3>3. Captured(p) \in Int /\ Captured(q) \in Int /\ Entry(q) \in Int
      BY <1>2
    <3> QED BY <3>1, <3>2, <3>3
  <2> QED BY <2>3, <2>4
<1> QED BY <1>6, <1>7

\* A target stands for a picture of the file.
LEMMA FrameLies ==
  ASSUME file \in Files, PlanOK(file, targets), NEW i \in DOMAIN targets
  PROVE  /\ FrameOf(i) \in Shots(file) /\ FrameOf(i) \in Int \ {0}
         /\ PlannedAt(i) \in Int
<1>1. Total \in Nat /\ Shots(file) = 1 .. Total /\ file.header.start_time \in Int
  BY AFile DEF Total
<1>2. targets[i] \in Int /\ targets # << >> /\ i \in Int
  BY DEF PlanOK
<1>3. FrameOf(i) \in Shots(file)
  <2>1. CASE Film(file)
    <3>1. \E k \in Shots(file) : file.frames[k].at # Absent
      BY <1>2, <2>1 DEF PlanOK
    <3>2. targets[i] + header.start_time \in Int
      BY <1>1, <1>2 DEF header
    <3>3. Captured(targets[i] + header.start_time) \in 1 .. Total
      BY <3>1, <3>2, SeekFinds
    <3> QED BY <1>1, <2>1, <3>3 DEF FrameOf, Film
  <2>2. CASE ~ Film(file)
    BY <2>2 DEF FrameOf, Film, PlanOK
  <2> QED BY <2>1, <2>2
<1>4. PlannedAt(i) \in Int
  BY <1>2 DEF PlannedAt
<1> QED BY <1>1, <1>3, <1>4

\* The time of a picture is a number.
LEMMA SecondsType ==
  ASSUME file \in Files, NEW frame \in Shots(file)
  PROVE  CaptureSeconds(frame) \in Int
<1>1. file.header.start_time \in Int /\ file.frames[frame].at \in Int
  BY AFile
<1> QED BY <1>1 DEF CaptureSeconds, header, Larger

\* Pictures that have a pts have rising times.
LEMMA SecondsRise ==
  ASSUME file \in Files, Film(file), NEW a \in Shots(file), NEW b \in Shots(file), a <= b,
         file.frames[a].timed, file.frames[b].timed
  PROVE  CaptureSeconds(a) <= CaptureSeconds(b)
<1>1. /\ Shots(file) \in SUBSET Int /\ file.header.start_time \in Int
      /\ file.frames[a].at \in Int /\ file.frames[b].at \in Int
  BY AFile
<1>2. file.frames[a].at <= file.frames[b].at
  <2>1. CASE a = b
    BY <1>1, <2>1
  <2>2. CASE a < b
    BY <2>2, AFile
  <2> QED BY <1>1, <2>1, <2>2
<1> QED BY <1>1, <1>2 DEF CaptureSeconds, header, Larger

-----------------------------------------------------------------------------
(* The invariant of a conversion *)

Moving == file.kind = "animation"
AbortRow == Row(1, "failure", 0, Absent, "")

\* The rows and the place in the plan go together: an animation is read picture by picture,
\* everything else target by target.
Placed ==
  /\ Good <= Len(targets)
  /\ stage = "pages" /\ ~ Moving => next = Good + 1 /\ Good < Len(targets)
  /\ stage = "pages" /\ Moving =>
       next \in 1 .. Total /\ \A i \in DOMAIN targets : targets[i] < next <=> i <= Good
  /\ (stage = "close" \/ Finished) /\ ~ Moving => Good = Len(targets)

Summarised ==
  /\ stage # "ended" => summary.claim = ""
  /\ summary.claim = "error" => rows # << >> /\ rows[Len(rows)] = AbortRow
  /\ Finished => summary.claim = Claim

ConversionInv ==
  /\ file \in Files /\ stage \in {"open", "pages", "close", "ended", "stopped"}
  /\ PlanOK(file, targets) /\ rows \in Seq(Rows) /\ Made
  /\ stage = "open" => Blanks /\ next = 1
  /\ Placed /\ Summarised

\* What depends on the file stays with it.
LEMMA FileStays ==
  ASSUME UNCHANGED file
  PROVE  (Film(file)' <=> Film(file)) /\ (Moving' <=> Moving) /\ Total' = Total
         /\ (PlanOK(file, targets)' <=> PlanOK(file, targets'))
BY DEF Film, Moving, Total, PlanOK, Rising, Shots

\* At first nothing is made.
LEMMA ConversionBegins == ConversionInit => ConversionInv
<1> SUFFICES ASSUME ConversionInit PROVE ConversionInv
  OBVIOUS
<1>1. /\ file \in Files /\ stage = "open" /\ targets = << >> /\ next = 1 /\ rows = << >>
      /\ Blanks
  BY DEF ConversionInit, Blanks, NoSummary, Statuses
<1>2. Made /\ Good = 0
  BY <1>1, MadeAtFirst
<1>3. PlanOK(file, targets)
  <2>1. targets \in Seq(Int) /\ DOMAIN targets = {}
    BY <1>1
  <2> QED BY <1>1, <2>1 DEF PlanOK, Rising
<1>4. Placed
  <2>1. Len(targets) = 0
    BY <1>1
  <2> QED BY <1>1, <1>2, <2>1 DEF Placed, Finished
<1>5. Summarised
  BY <1>1 DEF Summarised, Blanks, Finished
<1>6. rows \in Seq(Rows)
  <2> HIDE DEF Rows
  <2> QED BY <1>1
<1> QED BY <1>1, <1>2, <1>3, <1>4, <1>5, <1>6 DEF ConversionInv

\* The row of an abort is added behind those of the targets.
LEMMA AbortKeeps ==
  ASSUME ConversionInv, stage # "ended", Abort
  PROVE  ConversionInv'
<1>1. /\ rows' = Append(rows, AbortRow) /\ summary'.claim = "error" /\ stage' = "ended"
      /\ UNCHANGED <<file, targets, jpegs, last_saved, tally, plain>>
  BY DEF Abort, AbortRow, plan
<1>2. AbortRow \in Rows
  BY DEF AbortRow, Row, Rows, Statuses, Absent
<1>3. /\ rows' \in Seq(Rows) /\ Len(rows') = Len(rows) + 1 /\ rows'[Len(rows')] = AbortRow
      /\ rows' # << >> /\ \A i \in 1 .. Len(rows) : rows'[i] = rows[i]
      /\ Len(rows) \in Nat
  <2> HIDE DEF Rows
  <2> DEFINE r == AbortRow
  <2> HIDE DEF r
  <2>1. rows \in Seq(Rows) /\ r \in Rows /\ rows' = Append(rows, r)
    BY <1>1, <1>2 DEF ConversionInv, r
  <2> QED BY <2>1 DEF r
<1>4. Good = Len(rows) /\ Good' = Good
  <2>1. summary.claim = ""
    BY DEF ConversionInv, Summarised
  <2>2. Good' = Len(rows') - 1
    BY <1>1 DEF Good
  <2>3. Good = Len(rows)
    BY <2>1 DEF Good
  <2> QED BY <1>3, <2>2, <2>3
<1>5. Made'
  BY <1>1, <1>3, <1>4, MadeStays DEF ConversionInv
<1>6. ~ Finished'
  BY <1>1 DEF Finished
<1>7. Placed'
  BY <1>1, <1>4, <1>6 DEF ConversionInv, Placed
<1>8. Summarised'
  BY <1>1, <1>3, <1>6 DEF Summarised, AbortRow, Row
<1>9. PlanOK(file, targets)'
  BY <1>1, FileStays DEF ConversionInv
<1> QED BY <1>1, <1>3, <1>5, <1>7, <1>8, <1>9 DEF ConversionInv

\* The plan is made and the work begins, or there is none.
LEMMA BeginKeeps ==
  ASSUME ConversionInv, stage = "open", NEW S, NEW status, Begin(S, status), PlanOK(file, InOrder(S)),
         InOrder(S) = << >> <=> S = {}
  PROVE  ConversionInv'
<1>1. /\ targets' = InOrder(S) /\ stage' = IF S = {} THEN "close" ELSE "pages"
      /\ UNCHANGED <<file, next, rows, jpegs, last_saved, tally, plain, summary>>
  BY DEF Begin, cursor, made
<1>2. Blanks /\ next = 1
  BY DEF ConversionInv
<1>3. Blanks'
  BY <1>1, <1>2 DEF Blanks
<1>4. Made' /\ Good' = 0
  <2>1. Good' = 0
    BY <1>3 DEF Blanks, Good
  <2>2. 1 .. Good' = {}
    BY <2>1
  <2>3. Fitting' /\ Kept' /\ Compared' /\ Toned'
    BY <1>3, <2>2 DEF Fitting, Kept, Compared, Toned, Blanks
  <2>4. Counted'
    <3>1. \A s \in Statuses : Of(s)' = {}
      BY <2>2 DEF Of
    <3>2. tally' \in [Statuses -> Nat] /\ \A s \in Statuses : tally'[s] = 0
      BY <1>3 DEF Blanks
    <3>3. "ok" \in Statuses /\ "skipped" \in Statuses /\ "failure" \in Statuses
      BY DEF Statuses
    <3>4. \A s \in Statuses : IsFiniteSet(Of(s)') /\ tally'[s] = Cardinality(Of(s)')
      BY <3>1, <3>2, FS_EmptySet
    <3>5. tally'["ok"] + tally'["skipped"] + tally'["failure"] = Good'
      BY <2>1, <3>2, <3>3
    <3> QED BY <3>2, <3>4, <3>5 DEF Counted
  <2> QED BY <2>1, <2>3, <2>4 DEF Made
<1>5. PlanOK(file, targets)'
  BY <1>1, FileStays
<1>6. /\ targets' \in Seq(Int) /\ Len(targets') \in Nat /\ DOMAIN targets' = 1 .. Len(targets')
      /\ Len(targets') = 0 <=> S = {}
  <2>1. InOrder(S) \in Seq(Int)
    BY DEF PlanOK
  <2> QED BY <1>1, <2>1
<1>7. ~ Finished'
  BY <1>1 DEF Finished
<1>8. stage' = "pages" /\ Moving' =>
        next' \in 1 .. Total' /\ \A i \in DOMAIN targets' : targets'[i] < next' <=> i <= Good'
  <2> SUFFICES ASSUME stage' = "pages", Moving'
               PROVE  next' \in 1 .. Total' /\ \A i \in DOMAIN targets' : targets'[i] < next' <=> i <= Good'
    OBVIOUS
  <2>1. ~ Film(file) /\ Total \in Nat /\ Shots(file) = 1 .. Total /\ Total' = Total /\ next' = 1
    BY <1>1, <1>2, AFile, FileStays DEF ConversionInv, Moving, Film, Total
  <2>2. \A i \in DOMAIN targets' : targets'[i] \in 1 .. Total
    BY <1>1, <2>1 DEF PlanOK
  <2>3. 1 \in DOMAIN targets'
    BY <1>1, <1>6
  <2>4. Total \in Nat \ {0}
    BY <2>1, <2>2, <2>3
  <2>5. \A i \in DOMAIN targets' : targets'[i] >= 1 /\ i >= 1
    BY <1>6, <2>1, <2>2
  <2>6. \A i \in DOMAIN targets' : ~ (targets'[i] < 1) /\ ~ (i <= 0)
    <3>1. \A i \in DOMAIN targets' : targets'[i] \in Int /\ i \in Int
      BY <1>6, <2>1, <2>2
    <3> QED BY <2>5, <3>1
  <2> QED BY <1>4, <2>1, <2>4, <2>6
<1>9. Placed'
  <2>1. stage' = "pages" => S # {}
    BY <1>1
  <2>2. stage' = "close" => S = {}
    BY <1>1
  <2> QED BY <1>1, <1>2, <1>4, <1>6, <1>7, <1>8, <2>1, <2>2 DEF Placed
<1>10. Summarised'
  BY <1>3, <1>7 DEF Summarised, Blanks
<1>11. stage' \in {"pages", "close"}
  BY <1>1
<1>12. file' \in Files /\ rows' \in Seq(Rows)
  BY <1>1 DEF ConversionInv
<1> QED BY <1>4, <1>5, <1>9, <1>10, <1>11, <1>12 DEF ConversionInv

\* Nothing is made, and the place in the plan stays right.
LEMMA QuietKeeps ==
  ASSUME ConversionInv, stage # "ended", UNCHANGED <<file, plan, made>>,
         stage' \in {"pages", "close", "ended", "stopped"}, Placed', Summarised',
         summary.claim # "error", summary'.claim # "error"
  PROVE  ConversionInv'
<1>1. UNCHANGED <<file, targets, rows, jpegs, last_saved, tally, plain>>
  BY DEF plan, made
<1>2. Good' = Good
  BY <1>1 DEF Good
<1>3. Made'
  BY <1>1, <1>2, MadeStays DEF ConversionInv
<1>4. PlanOK(file, targets)'
  BY <1>1, FileStays DEF ConversionInv
<1> QED BY <1>1, <1>3, <1>4 DEF ConversionInv

\* A row of the target whose turn it is.
LEMMA OneMoreRow ==
  ASSUME ConversionInv, stage = "pages", Good < Len(targets), NEW row, Yields(row),
         UNCHANGED <<file, plan, summary>>, stage' \in {"pages", "close"},
         stage' = "pages" /\ ~ Moving => next' = Good + 2 /\ Good + 1 < Len(targets),
         stage' = "pages" /\ Moving =>
           next' \in 1 .. Total /\ \A i \in DOMAIN targets : targets[i] < next' <=> i <= Good + 1,
         stage' = "close" /\ ~ Moving => Good + 1 = Len(targets)
  PROVE  ConversionInv'
<1>1. UNCHANGED <<file, targets, summary>> /\ summary.claim = ""
  BY DEF plan, ConversionInv, Summarised
<1>2. Good \in Nat /\ Len(targets) \in Nat /\ DOMAIN targets = 1 .. Len(targets)
  BY DEF ConversionInv, Made, PlanOK
<1>3. Good + 1 \in DOMAIN targets
  <2> DEFINE g == Good
             n == Len(targets)
  <2>1. g \in Nat /\ n \in Nat /\ g < n
    BY <1>2
  <2> HIDE DEF g, n
  <2>2. g + 1 \in 1 .. n
    BY <2>1
  <2> QED BY <1>2, <2>2 DEF g, n
<1>4. Made' /\ rows' \in Seq(Rows) /\ Good' = Good + 1
  <2>1. summary.claim # "error" /\ summary'.claim # "error"
    BY <1>1
  <2> QED BY <1>1, <1>3, <2>1, YieldKeeps DEF ConversionInv
<1>5. PlanOK(file, targets)'
  BY <1>1, FileStays DEF ConversionInv
<1>6. ~ Finished'
  BY DEF Finished
<1>7. Placed'
  <2>1. (Moving' <=> Moving) /\ Total' = Total
    BY <1>1, FileStays
  <2>2. targets' = targets
    BY <1>1
  <2>3. Good + 1 <= Len(targets)
    <3> DEFINE g == Good
               n == Len(targets)
    <3>1. g \in Nat /\ n \in Nat /\ g < n
      BY <1>2
    <3> HIDE DEF g, n
    <3>2. g + 1 <= n
      BY <3>1
    <3> QED BY <3>2 DEF g, n
  <2>4. Good' <= Len(targets')
    BY <1>4, <2>2, <2>3
  <2>5. stage' = "pages" /\ ~ Moving' => next' = Good' + 1 /\ Good' < Len(targets')
    BY <1>2, <1>4, <2>1, <2>2
  <2>6. stage' = "pages" /\ Moving' =>
          next' \in 1 .. Total' /\ \A i \in DOMAIN targets' : targets'[i] < next' <=> i <= Good'
    BY <1>4, <2>1, <2>2
  <2>7. (stage' = "close" \/ Finished') /\ ~ Moving' => Good' = Len(targets')
    BY <1>4, <1>6, <2>1, <2>2
  <2> QED BY <2>4, <2>5, <2>6, <2>7 DEF Placed
<1>8. Summarised'
  BY <1>1, <1>6 DEF Summarised
<1> QED BY <1>1, <1>4, <1>5, <1>7, <1>8 DEF ConversionInv

-----------------------------------------------------------------------------
(* Whose turn it is *)

\* The next target of a document, an image or a video.
LEMMA TargetTurn ==
  ASSUME ConversionInv, stage = "pages", ~ Moving
  PROVE  /\ next = Good + 1 /\ next \in DOMAIN targets /\ Good < Len(targets)
         /\ StepOn(Len(targets)) =>
              /\ stage' \in {"pages", "close"} /\ UNCHANGED <<file, plan, summary>>
              /\ stage' = "pages" => next' = Good + 2 /\ Good + 1 < Len(targets)
              /\ stage' = "close" => Good + 1 = Len(targets)
<1>1. Good \in Nat /\ Len(targets) \in Nat /\ DOMAIN targets = 1 .. Len(targets)
  BY DEF ConversionInv, Made, PlanOK
<1>2. next = Good + 1 /\ Good < Len(targets)
  BY DEF ConversionInv, Placed
<1>3. ASSUME StepOn(Len(targets))
      PROVE  /\ stage' \in {"pages", "close"} /\ UNCHANGED <<file, plan, summary>>
             /\ next' = next + 1 /\ (stage' = "pages" <=> next # Len(targets))
  BY <1>3 DEF StepOn
<1> DEFINE g == Good
           n == Len(targets)
<1>4. g \in Nat /\ n \in Nat /\ DOMAIN targets = 1 .. n /\ next = g + 1 /\ g < n
  BY <1>1, <1>2
<1>5. StepOn(n) => next' = next + 1 /\ stage' \in {"pages", "close"} /\ (stage' = "pages" <=> next # n)
  BY <1>3
<1> HIDE DEF g, n
<1>6. next \in DOMAIN targets
  BY <1>4
<1>7. StepOn(n) => /\ stage' = "pages" => next' = g + 2 /\ g + 1 < n
                   /\ stage' = "close" => g + 1 = n
  BY <1>4, <1>5
<1> QED BY <1>2, <1>3, <1>6, <1>7 DEF g, n

\* The next picture of an animation, which may be a target.
LEMMA FrameTurn ==
  ASSUME ConversionInv, stage = "pages", Moving
  PROVE  /\ IsTarget => Good < Len(targets) /\ Good + 1 \in DOMAIN targets /\ targets[Good + 1] = next
         /\ StepOn(Total) => stage' \in {"pages", "close"} /\ UNCHANGED <<file, plan, summary>>
         /\ StepOn(Total) /\ stage' = "pages" =>
              /\ next' \in 1 .. Total
              /\ IsTarget => \A i \in DOMAIN targets : targets[i] < next' <=> i <= Good + 1
              /\ ~ IsTarget => \A i \in DOMAIN targets : targets[i] < next' <=> i <= Good
<1>1. Good \in Nat /\ Len(targets) \in Nat /\ DOMAIN targets = 1 .. Len(targets)
      /\ \A i \in DOMAIN targets : targets[i] \in Int
  BY DEF ConversionInv, Made, PlanOK
<1>2. /\ next \in 1 .. Total /\ Total \in Nat
      /\ \A i \in DOMAIN targets : targets[i] < next <=> i <= Good
  BY AFile DEF ConversionInv, Placed, Total
<1>3. \A i, k \in DOMAIN targets : i < k => targets[i] < targets[k]
  BY DEF ConversionInv, PlanOK, Rising
<1>4. IsTarget <=> \E j \in DOMAIN targets : targets[j] = next
  BY DEF IsTarget, ToSet
<1>5. ASSUME IsTarget
      PROVE  Good < Len(targets) /\ Good + 1 \in DOMAIN targets /\ targets[Good + 1] = next
  <2>1. PICK j \in DOMAIN targets : targets[j] = next
    BY <1>4, <1>5
  <2>2. ~ (j <= Good)
    BY <1>1, <1>2, <2>1
  <2>3. Good + 1 \in DOMAIN targets /\ Good < Len(targets)
    BY <1>1, <2>2
  <2>4. ~ (Good + 1 < j)
    <3>1. ~ (targets[Good + 1] < next)
      BY <1>1, <1>2, <2>3
    <3> QED BY <1>3, <2>1, <2>3, <3>1
  <2>5. j = Good + 1
    BY <1>1, <2>2, <2>4
  <2> QED BY <2>1, <2>3, <2>5
<1>6. ASSUME StepOn(Total), stage' = "pages"
      PROVE  next' = next + 1 /\ next' \in 1 .. Total
  BY <1>2, <1>6 DEF StepOn
<1>7. ASSUME StepOn(Total), stage' = "pages", IsTarget, NEW i \in DOMAIN targets
      PROVE  targets[i] < next' <=> i <= Good + 1
  <2>1. targets[Good + 1] = next /\ Good + 1 \in DOMAIN targets
    BY <1>5, <1>7
  <2>2. targets[i] < next' <=> targets[i] < next \/ targets[i] = next
    BY <1>1, <1>2, <1>6, <1>7
  <2>3. targets[i] = next <=> i = Good + 1
    <3>1. i < Good + 1 \/ i = Good + 1 \/ Good + 1 < i
      BY <1>1
    <3>2. i < Good + 1 => targets[i] < next
      BY <1>3, <2>1
    <3>3. Good + 1 < i => next < targets[i]
      BY <1>3, <2>1
    <3> QED BY <1>1, <1>2, <2>1, <3>1, <3>2, <3>3
  <2> QED BY <1>1, <1>2, <2>2, <2>3
<1>8. ASSUME StepOn(Total), stage' = "pages", ~ IsTarget, NEW i \in DOMAIN targets
      PROVE  targets[i] < next' <=> i <= Good
  <2>1. targets[i] # next
    BY <1>4, <1>8
  <2> QED BY <1>1, <1>2, <1>6, <1>8, <2>1
<1>9. StepOn(Total) => stage' \in {"pages", "close"} /\ UNCHANGED <<file, plan, summary>>
  BY DEF StepOn
<1> QED BY <1>5, <1>6, <1>7, <1>8, <1>9

-----------------------------------------------------------------------------
(* The rows the pipelines yield *)

\* Tones while a row is made: once given up, given up for good.
Hued(tone) ==
  /\ plain' \in BOOLEAN /\ (plain => plain')
  /\ tone = "plain" => plain'
  /\ tone = "mapped" => ~ plain

\* A row without tones, where they are not touched.
LEMMA HueStays ==
  ASSUME ConversionInv, UNCHANGED plain
  PROVE  Hued("")
BY DEF ConversionInv, Made, Toned, Hued

\* Tone mapping is given up, or is not.
LEMMA HueFalls ==
  ASSUME ConversionInv, NEW off \in BOOLEAN, plain' = off, MayFallBack(off)
  PROVE  Hued("") /\ Hued(Tone(off)) /\ Tone(off) \in {"", "plain", "mapped"}
<1>1. plain \in BOOLEAN
  BY DEF ConversionInv, Made, Toned
<1>2. plain => off
  BY <1>1 DEF MayFallBack
<1>3. Tone(off) \in {"", "plain", "mapped"} /\ (Tone(off) = "plain" => off) /\ (Tone(off) = "mapped" => ~ off)
  BY DEF Tone
<1> QED BY <1>2, <1>3 DEF Hued

\* Or it is given up although no picture comes of it.
LEMMA HueRisen ==
  ASSUME ConversionInv, NEW off \in BOOLEAN, plain' = plain \/ plain' = (plain \/ off)
  PROVE  Hued("")
<1>1. plain \in BOOLEAN
  BY DEF ConversionInv, Made, Toned
<1>2. plain' \in BOOLEAN /\ (plain => plain')
  BY <1>1
<1> QED BY <1>1, <1>2 DEF ConversionInv, Made, Toned, Hued

\* A row about the frame of a target, and one about none.
LEMMA RowFits ==
  ASSUME ConversionInv, NEW i \in DOMAIN targets, NEW status \in Statuses, NEW time \in Int,
         NEW tone \in {"", "plain", "mapped"}, Film(file) => time = CaptureSeconds(FrameOf(i))
  PROVE  Fits(i, Row(PlannedAt(i), status, FrameOf(i), time, tone))
<1>1. PlannedAt(i) \in Int /\ FrameOf(i) \in Int
  BY FrameLies DEF ConversionInv
<1> DEFINE row == Row(PlannedAt(i), status, FrameOf(i), time, tone)
<1>2. row \in Rows
  BY <1>1 DEF Row, Rows
<1>3. row.page = PlannedAt(i) /\ row.frame = FrameOf(i) /\ row.time = time
  BY DEF Row
<1>4. Fits(i, row)
  <2> HIDE DEF row
  <2> QED BY <1>2, <1>3 DEF Fits
<1> QED BY <1>4

\* A row about no frame fits any target.
LEMMA EmptyRowFits ==
  ASSUME ConversionInv, NEW i \in DOMAIN targets
  PROVE  Fits(i, Row(PlannedAt(i), "failure", 0, Absent, ""))
<1>1. PlannedAt(i) \in Int
  BY FrameLies DEF ConversionInv
<1> DEFINE row == Row(PlannedAt(i), "failure", 0, Absent, "")
<1>2. row \in Rows
  BY <1>1 DEF Row, Rows, Statuses, Absent
<1>3. row.page = PlannedAt(i) /\ row.frame = 0 /\ row.status = "failure"
  BY DEF Row
<1>4. Fits(i, row)
  <2> HIDE DEF row
  <2> QED BY <1>2, <1>3 DEF Fits
<1> QED BY <1>4

\* A picture saved is a row with its file.
LEMMA SavedYields ==
  ASSUME NEW page, NEW time, NEW frame, NEW tone, Saved(page, time, frame, tone), Hued(tone),
         Fits(Good + 1, Row(page, "ok", frame, time, tone))
  PROVE  Yields(Row(page, "ok", frame, time, tone))
<1> DEFINE row == Row(page, "ok", frame, time, tone)
<1>1. row.page = page /\ row.status = "ok" /\ row.frame = frame /\ row.time = time /\ row.tone = tone
  BY DEF Row
<1>2. /\ jpegs' = Written(page, time, frame, TRUE) /\ last_saved' = frame
      /\ rows' = Append(rows, row) /\ tally' = [tally EXCEPT ![row.status] = @ + 1]
  BY DEF Saved, Yield
<1>3. Fits(Good + 1, row)
  OBVIOUS
<1>4. Yields(row)
  <2> HIDE DEF row
  <2> QED BY <1>1, <1>2, <1>3 DEF Yields, Hued
<1> QED BY <1>4

\* A picture lost is a row.
LEMMA LostYields ==
  ASSUME NEW page, Lost(page), Hued(""), Fits(Good + 1, Row(page, "failure", 0, Absent, ""))
  PROVE  Yields(Row(page, "failure", 0, Absent, ""))
<1> DEFINE row == Row(page, "failure", 0, Absent, "")
<1>1. row.status = "failure" /\ row.tone = ""
  BY DEF Row
<1>2. /\ jpegs' = jpegs /\ last_saved' = last_saved
      /\ rows' = Append(rows, row) /\ tally' = [tally EXCEPT ![row.status] = @ + 1]
  BY DEF Lost, Yield
<1>3. Fits(Good + 1, row) /\ row.status # "ok" /\ row.status # "skipped"
  BY <1>1
<1>4. Yields(row)
  <2> HIDE DEF row
  <2> QED BY <1>1, <1>2, <1>3 DEF Yields, Hued
<1> QED BY <1>4

\* A picture that could not be written is a row that does not vouch for the file.
LEMMA NotSavedYields ==
  ASSUME NEW page, NEW time, NEW frame, NotSaved(page, time, frame), Hued(""),
         Fits(Good + 1, Row(page, "failure", frame, time, ""))
  PROVE  Yields(Row(page, "failure", frame, time, ""))
<1> DEFINE row == Row(page, "failure", frame, time, "")
<1>1. row.page = page /\ row.status = "failure" /\ row.frame = frame /\ row.time = time /\ row.tone = ""
  BY DEF Row
<1>2. /\ jpegs' = jpegs \/ jpegs' = Written(page, time, frame, FALSE)
      /\ last_saved' = last_saved
      /\ rows' = Append(rows, row) /\ tally' = [tally EXCEPT ![row.status] = @ + 1]
  BY DEF NotSaved, Yield
<1>3. Fits(Good + 1, row) /\ row.status # "ok" /\ row.status # "skipped" /\ FALSE \in BOOLEAN
  BY <1>1
<1>4. Yields(row)
  <2> HIDE DEF row
  <2> QED BY <1>1, <1>2, <1>3 DEF Yields, Hued
<1> QED BY <1>4

\* The last picture saved is one of the file.
LEMMA LastSavedLies ==
  ASSUME ConversionInv, last_saved # 0
  PROVE  last_saved \in Shots(file)
<1>1. PICK k \in 1 .. Good : rows[k].status = "ok" /\ rows[k].frame = last_saved
  BY DEF ConversionInv, Made, Compared
<1>2. rows[k].frame = FrameOf(k)
  BY <1>1 DEF ConversionInv, Made, Fitting, Fits
<1>3. k \in DOMAIN targets
  BY DEF ConversionInv, Made, Placed, PlanOK
<1> QED BY <1>1, <1>2, <1>3, FrameLies DEF ConversionInv

\* A frame is static only beside one that was saved.
LEMMA StaticIsSimilar ==
  ASSUME ConversionInv, NEW frame \in Shots(file), ~ Distinct(frame)
  PROVE  last_saved # 0 /\ Similar(frame, last_saved)
<1> DEFINE d == file.frames[frame].scene - file.frames[last_saved].scene
<1>1. last_saved # 0
  BY DEF Distinct
<1>2. last_saved \in Shots(file) /\ file \in Files
  BY <1>1, LastSavedLies DEF ConversionInv
<1>3. file.frames[frame].scene \in Int /\ file.frames[last_saved].scene \in Int
  BY <1>2, AFile
<1>4. d \in Int
  BY <1>3
<1>5. ~ (d * d > SCENE_SENSITIVITY)
  BY <1>1 DEF Distinct
<1>6. \A x \in Int : ~ (x * x > SCENE_SENSITIVITY) => x * x <= SCENE_SENSITIVITY
  BY ConversionAssumption DEF ConversionAssumption
<1>7. d * d <= SCENE_SENSITIVITY
  <2> HIDE DEF d
  <2> QED BY <1>4, <1>5, <1>6
<1> QED BY <1>1, <1>7 DEF Similar

\* A picture left out is a row that names one like it.
LEMMA StaticYields ==
  ASSUME ConversionInv, NEW page, NEW time, NEW frame \in Shots(file), ~ Distinct(frame),
         Yield(Row(page, "skipped", frame, time, "")), UNCHANGED <<jpegs, last_saved>>, Hued(""),
         Fits(Good + 1, Row(page, "skipped", frame, time, ""))
  PROVE  Yields(Row(page, "skipped", frame, time, ""))
<1> DEFINE row == Row(page, "skipped", frame, time, "")
<1>1. row.status = "skipped" /\ row.tone = "" /\ row.frame = frame
  BY DEF Row
<1>2. rows' = Append(rows, row) /\ tally' = [tally EXCEPT ![row.status] = @ + 1]
  BY DEF Yield
<1>3. Fits(Good + 1, row) /\ row.status # "ok" /\ row.tone # "plain" /\ row.tone # "mapped"
  BY <1>1
<1>4. last_saved # 0 /\ Similar(frame, last_saved)
  BY StaticIsSimilar
<1>5. Yields(row)
  <2> HIDE DEF row
  <2> QED BY <1>1, <1>2, <1>3, <1>4 DEF Yields, Hued
<1> QED BY <1>5

-----------------------------------------------------------------------------
(* The steps of the pipelines *)

\* Opening a file makes a plan or aborts.
LEMMA OpeningKeeps ==
  ASSUME ConversionInv, Rejected \/ OpenFails \/ NoPages \/ OpenDocument \/ OpenImage \/ OpenAnimation \/ OpenVideo
  PROVE  ConversionInv'
<1>1. stage = "open" /\ file \in Files
  BY DEF Rejected, OpenFails, NoPages, OpenDocument, OpenImage, OpenAnimation, OpenVideo, ConversionInv
<1>2. CASE Abort
  BY <1>1, <1>2, AbortKeeps
<1>3. CASE \E S, status : Begin(S, status) /\ PlanOK(file, InOrder(S)) /\ (InOrder(S) = << >> <=> S = {})
  BY <1>1, <1>3, BeginKeeps
<1>4. Rejected \/ OpenFails \/ NoPages => Abort
  BY DEF Rejected, OpenFails, NoPages
<1>5. OpenVideo => Abort \/ \E S, status : Begin(S, status) /\ PlanOK(file, InOrder(S))
                                           /\ (InOrder(S) = << >> <=> S = {})
  BY <1>1, VideoPlanned
<1>6. OpenDocument \/ OpenImage \/ OpenAnimation =>
        \E S, status : Begin(S, status) /\ PlanOK(file, InOrder(S)) /\ (InOrder(S) = << >> <=> S = {})
  BY <1>1, DocumentPlanned, ImagePlanned, AnimationPlanned
<1> QED BY <1>2, <1>3, <1>4, <1>5, <1>6

\* A page of a document or an image.
LEMMA PagesKeep ==
  ASSUME ConversionInv, PageSaved \/ PageFails
  PROVE  ConversionInv'
<1>1. stage = "pages" /\ ~ Moving /\ ~ Film(file) /\ StepOn(Len(targets)) /\ UNCHANGED plain
  BY DEF PageSaved, PageFails, Paged, Moving, Film
<1>2. /\ next = Good + 1 /\ next \in DOMAIN targets /\ Good < Len(targets)
      /\ stage' \in {"pages", "close"} /\ UNCHANGED <<file, plan, summary>>
      /\ stage' = "pages" => next' = Good + 2 /\ Good + 1 < Len(targets)
      /\ stage' = "close" => Good + 1 = Len(targets)
  BY <1>1, TargetTurn
<1>3. PlannedAt(next) = targets[next] /\ FrameOf(next) = targets[next]
  BY <1>1 DEF PlannedAt, FrameOf, Film
<1>4. Hued("")
  BY <1>1, HueStays
<1>5. \A status \in Statuses : Fits(Good + 1, Row(targets[next], status, targets[next], Absent, ""))
  <2> TAKE status \in Statuses
  <2>1. Absent \in Int
    BY DEF Absent
  <2>2. Fits(next, Row(PlannedAt(next), status, FrameOf(next), Absent, ""))
    BY <1>1, <1>2, <2>1, RowFits
  <2> QED BY <1>2, <1>3, <2>2
<1>6. Fits(Good + 1, Row(targets[next], "failure", 0, Absent, ""))
  <2>1. Fits(next, Row(PlannedAt(next), "failure", 0, Absent, ""))
    BY <1>2, EmptyRowFits
  <2> QED BY <1>2, <1>3, <2>1
<1>7. "ok" \in Statuses /\ "failure" \in Statuses
  BY DEF Statuses
<1>8. \E row : Yields(row)
  <2>1. CASE PageSaved
    <3>1. Saved(targets[next], Absent, targets[next], "")
      BY <2>1 DEF PageSaved
    <3> QED BY <1>4, <1>5, <1>7, <3>1, SavedYields
  <2>2. CASE PageFails
    <3>1. Lost(targets[next]) \/ NotSaved(targets[next], Absent, targets[next])
      BY <2>2 DEF PageFails
    <3> QED BY <1>4, <1>5, <1>6, <1>7, <3>1, LostYields, NotSavedYields
  <2> QED BY <2>1, <2>2
<1> QED BY <1>1, <1>2, <1>8, OneMoreRow

\* A target of an animation.
LEMMA FramesKeep ==
  ASSUME ConversionInv, FrameStatic \/ FrameSaved \/ FrameFails \/ (FrameCorrupt /\ IsTarget)
  PROVE  ConversionInv'
<1>1. stage = "pages" /\ Moving /\ ~ Film(file) /\ IsTarget /\ UNCHANGED plain
      /\ UNCHANGED <<file, plan, summary>>
      /\ (StepOn(Total) \/ stage' = "close")
  BY DEF FrameStatic, FrameSaved, FrameFails, FrameCorrupt, Decoding, Moving, Film, StepOn
<1>2. /\ Good < Len(targets) /\ Good + 1 \in DOMAIN targets /\ targets[Good + 1] = next
      /\ StepOn(Total) => stage' \in {"pages", "close"}
      /\ StepOn(Total) /\ stage' = "pages" =>
           next' \in 1 .. Total /\ \A i \in DOMAIN targets : targets[i] < next' <=> i <= Good + 1
  BY <1>1, FrameTurn
<1>3. PlannedAt(Good + 1) = next /\ FrameOf(Good + 1) = next
  BY <1>1, <1>2 DEF PlannedAt, FrameOf, Film
<1>4. Hued("")
  BY <1>1, HueStays
<1>5. \A status \in Statuses : Fits(Good + 1, Row(next, status, next, Absent, ""))
  <2> TAKE status \in Statuses
  <2>1. Absent \in Int
    BY DEF Absent
  <2>2. Fits(Good + 1, Row(PlannedAt(Good + 1), status, FrameOf(Good + 1), Absent, ""))
    BY <1>1, <1>2, <2>1, RowFits
  <2> QED BY <1>3, <2>2
<1>6. Fits(Good + 1, Row(next, "failure", 0, Absent, ""))
  <2>1. Fits(Good + 1, Row(PlannedAt(Good + 1), "failure", 0, Absent, ""))
    BY <1>2, EmptyRowFits
  <2> QED BY <1>3, <2>1
<1>7. "ok" \in Statuses /\ "failure" \in Statuses /\ "skipped" \in Statuses
  BY DEF Statuses
<1>8. next \in Shots(file)
  BY <1>2, <1>3, FrameLies DEF ConversionInv
<1>9. \E row : Yields(row)
  <2>1. CASE FrameStatic
    <3>1. ~ Distinct(next) /\ Yield(Row(next, "skipped", next, Absent, "")) /\ UNCHANGED <<jpegs, last_saved>>
      BY <2>1 DEF FrameStatic, Static
    <3> QED BY <1>4, <1>5, <1>7, <1>8, <3>1, StaticYields
  <2>2. CASE FrameSaved
    <3>1. Saved(next, Absent, next, "")
      BY <2>2 DEF FrameSaved
    <3> QED BY <1>4, <1>5, <1>7, <3>1, SavedYields
  <2>3. CASE FrameFails \/ (FrameCorrupt /\ IsTarget)
    <3>1. Lost(next) \/ NotSaved(next, Absent, next)
      BY <2>3 DEF FrameFails, FrameCorrupt
    <3> QED BY <1>4, <1>5, <1>6, <1>7, <3>1, LostYields, NotSavedYields
  <2> QED BY <2>1, <2>2, <2>3
<1>10. stage' \in {"pages", "close"}
       /\ (stage' = "pages" => StepOn(Total))
  BY <1>1, <1>2
<1> QED BY <1>1, <1>2, <1>9, <1>10, OneMoreRow

\* A target of a video.
LEMMA ScenesKeep ==
  ASSUME ConversionInv, EndOfStream \/ SceneStatic \/ SceneSaved \/ SceneFails
  PROVE  ConversionInv'
<1>1. stage = "pages" /\ ~ Moving /\ Film(file) /\ StepOn(Len(targets))
  BY DEF EndOfStream, SceneStatic, SceneSaved, SceneFails, Seeking, Moving, Film
<1>2. /\ next = Good + 1 /\ next \in DOMAIN targets /\ Good < Len(targets)
      /\ stage' \in {"pages", "close"} /\ UNCHANGED <<file, plan, summary>>
      /\ stage' = "pages" => next' = Good + 2 /\ Good + 1 < Len(targets)
      /\ stage' = "close" => Good + 1 = Len(targets)
  BY <1>1, TargetTurn
<1>3. PlannedAt(next) = next /\ FrameOf(next) = Sought
  BY <1>1 DEF PlannedAt, FrameOf, Film, Sought
<1>4. Sought \in Shots(file)
  BY <1>2, <1>3, FrameLies DEF ConversionInv
<1>5. \A status \in Statuses, tone \in {"", "plain", "mapped"} :
        Fits(Good + 1, Row(next, status, Sought, CaptureSeconds(Sought), tone))
  <2> TAKE status \in Statuses, tone \in {"", "plain", "mapped"}
  <2>1. CaptureSeconds(Sought) \in Int
    BY <1>4, SecondsType DEF ConversionInv
  <2>2. Fits(next, Row(PlannedAt(next), status, FrameOf(next), CaptureSeconds(Sought), tone))
    BY <1>2, <1>3, <2>1, RowFits
  <2> QED BY <1>2, <1>3, <2>2
<1>6. Fits(Good + 1, Row(next, "failure", 0, Absent, ""))
  <2>1. Fits(next, Row(PlannedAt(next), "failure", 0, Absent, ""))
    BY <1>2, EmptyRowFits
  <2> QED BY <1>2, <1>3, <2>1
<1>7. "ok" \in Statuses /\ "failure" \in Statuses /\ "skipped" \in Statuses
  BY DEF Statuses
<1>8. \E row : Yields(row)
  <2>1. CASE EndOfStream
    <3>1. Yield(Row(next, "failure", 0, Absent, "")) /\ Mishap /\ UNCHANGED <<jpegs, last_saved, plain>>
      BY <2>1 DEF EndOfStream
    <3>2. Lost(next) /\ Hued("")
      BY <3>1, HueStays DEF Lost
    <3> QED BY <1>6, <3>2, LostYields
  <2>2. CASE SceneStatic
    <3>1. PICK off \in BOOLEAN : plain' = off /\ MayFallBack(off)
      BY <2>2 DEF SceneStatic
    <3>2. Hued("")
      BY <3>1, HueFalls
    <3>3. /\ ~ Distinct(Sought) /\ UNCHANGED <<jpegs, last_saved>>
          /\ Yield(Row(next, "skipped", Sought, CaptureSeconds(Sought), ""))
      BY <2>2 DEF SceneStatic
    <3> QED BY <1>4, <1>5, <1>7, <3>2, <3>3, StaticYields
  <2>3. CASE SceneSaved
    <3>1. PICK off \in BOOLEAN : /\ plain' = off /\ MayFallBack(off)
                                 /\ Saved(next, CaptureSeconds(Sought), Sought, Tone(off))
      BY <2>3 DEF SceneSaved
    <3>2. Hued(Tone(off)) /\ Tone(off) \in {"", "plain", "mapped"}
      BY <3>1, HueFalls
    <3> QED BY <1>5, <1>7, <3>1, <3>2, SavedYields
  <2>4. CASE SceneFails
    <3>1. Lost(next) \/ NotSaved(next, CaptureSeconds(Sought), Sought)
      BY <2>4 DEF SceneFails
    <3>2. PICK off \in BOOLEAN : plain' = plain \/ plain' = (plain \/ off)
      BY <2>4 DEF SceneFails
    <3>3. Hued("")
      BY <3>2, HueRisen
    <3> QED BY <1>5, <1>6, <1>7, <3>1, <3>3, LostYields, NotSavedYields
  <2> QED BY <2>1, <2>2, <2>3, <2>4
<1> QED BY <1>1, <1>2, <1>8, OneMoreRow

\* Steps that yield nothing.
LEMMA OthersKeep ==
  ASSUME ConversionInv, AnimationEndsEarly \/ (FrameCorrupt /\ ~ IsTarget) \/ FramePassed
               \/ DecoderRejects \/ finalize_results \/ CloseFails \/ Stopped
  PROVE  ConversionInv'
<1>1. CASE CloseFails
  BY <1>1, AbortKeeps DEF CloseFails
<1>0. ASSUME UNCHANGED <<file, plan, made>>, stage # "ended"
      PROVE  /\ summary.claim = "" /\ Good <= Len(targets) /\ UNCHANGED targets
             /\ (Moving' <=> Moving) /\ Total' = Total
             /\ summary'.claim # "error" => Good' = Good
  <2>1. UNCHANGED <<file, targets, rows>>
    BY <1>0 DEF plan, made
  <2> QED BY <1>0, <2>1, FileStays DEF ConversionInv, Summarised, Placed, Good
<1>2. CASE AnimationEndsEarly \/ (FrameCorrupt /\ ~ IsTarget)
  <2>1. /\ UNCHANGED <<file, plan, made, summary>> /\ stage = "pages" /\ stage' = "close" /\ Moving
    BY <1>2 DEF AnimationEndsEarly, FrameCorrupt, Decoding, Moving, made
  <2>2. ~ Finished'
    BY <2>1 DEF Finished
  <2>3. summary.claim = "" /\ summary' = summary /\ Good' = Good
    BY <1>0, <2>1
  <2>4. Placed'
    BY <1>0, <2>1, <2>2, <2>3 DEF Placed
  <2>5. Summarised'
    BY <2>2, <2>3 DEF Summarised
  <2> QED BY <2>1, <2>3, <2>4, <2>5, QuietKeeps
<1>3. CASE FramePassed
  <2>1. /\ stage = "pages" /\ Moving /\ ~ IsTarget /\ StepOn(Total) /\ UNCHANGED made
    BY <1>3 DEF FramePassed, Decoding, Moving
  <2>2. /\ stage' \in {"pages", "close"} /\ UNCHANGED <<file, plan, summary>>
        /\ stage' = "pages" =>
             next' \in 1 .. Total /\ \A i \in DOMAIN targets : targets[i] < next' <=> i <= Good
    BY <2>1, FrameTurn
  <2>3. ~ Finished'
    BY <2>2 DEF Finished
  <2>4. summary.claim = "" /\ summary' = summary /\ Good' = Good /\ targets' = targets
        /\ Good <= Len(targets) /\ Moving' /\ Total' = Total
    BY <1>0, <2>1, <2>2
  <2>5. Placed'
    BY <2>2, <2>3, <2>4 DEF Placed
  <2>6. Summarised'
    BY <2>3, <2>4 DEF Summarised
  <2> QED BY <2>1, <2>2, <2>4, <2>5, <2>6, QuietKeeps
<1>4. CASE DecoderRejects
  <2>1. /\ stage = "pages" /\ stage' = stage /\ next' = next /\ ~ Moving
        /\ UNCHANGED <<file, plan, made, summary>>
    BY <1>4 DEF DecoderRejects, Seeking, Moving
  <2>2. ~ Finished'
    BY <2>1 DEF Finished
  <2>3. summary.claim = "" /\ summary' = summary /\ Good' = Good /\ targets' = targets
        /\ Good <= Len(targets) /\ ~ Moving'
    BY <1>0, <2>1
  <2>4. next = Good + 1 /\ Good < Len(targets)
    BY <2>1 DEF ConversionInv, Placed
  <2>5. Placed'
    BY <2>1, <2>2, <2>3, <2>4 DEF Placed
  <2>6. Summarised'
    BY <2>2, <2>3 DEF Summarised
  <2> QED BY <2>1, <2>3, <2>5, <2>6, QuietKeeps
<1>5. CASE finalize_results
  <2>1. /\ stage = "close" /\ stage' = "ended" /\ UNCHANGED <<file, plan, made>>
        /\ summary'.claim = Claim
    BY <1>5 DEF finalize_results
  <2>2. Claim # "error"
    BY DEF Claim
  <2>3. Claim' = Claim
    BY <2>1 DEF Claim, plan, made
  <2>4. summary.claim = "" /\ summary'.claim # "error" /\ Good' = Good /\ targets' = targets
        /\ Good <= Len(targets) /\ (Moving' <=> Moving)
    BY <1>0, <2>1, <2>2
  <2>5. ~ Moving => Good = Len(targets)
    BY <2>1 DEF ConversionInv, Placed
  <2>6. Placed'
    BY <2>1, <2>4, <2>5 DEF Placed
  <2>7. Summarised'
    BY <2>1, <2>3, <2>4 DEF Summarised
  <2> QED BY <2>1, <2>4, <2>6, <2>7, QuietKeeps
<1>6. CASE Stopped
  <2>1. /\ stage # "ended" /\ stage' = "stopped" /\ UNCHANGED <<file, plan, made, summary>>
    BY <1>6 DEF Stopped
  <2>2. ~ Finished'
    BY <2>1 DEF Finished
  <2>3. summary.claim = "" /\ summary' = summary /\ Good' = Good /\ targets' = targets
        /\ Good <= Len(targets)
    BY <1>0, <2>1
  <2>4. Placed'
    BY <2>1, <2>2, <2>3 DEF Placed
  <2>5. Summarised'
    BY <2>2, <2>3 DEF Summarised
  <2> QED BY <2>1, <2>3, <2>4, <2>5, QuietKeeps
<1> QED BY <1>1, <1>2, <1>3, <1>4, <1>5, <1>6

\* Every step of a conversion keeps the invariant.
LEMMA ConversionKeeps ==
  ASSUME ConversionInv, ConversionNext
  PROVE  ConversionInv'
BY OpeningKeeps, PagesKeep, FramesKeep, ScenesKeep, OthersKeep DEF ConversionNext

\* Nothing moves while the reports are written.
LEMMA ConversionRests ==
  ASSUME ConversionInv, UNCHANGED conversionVars
  PROVE  ConversionInv'
<1>1. UNCHANGED <<file, stage, next, targets, rows, jpegs, last_saved, tally, plain, summary>>
  BY DEF conversionVars, plan, made, cursor
<1>2. Good' = Good
  BY <1>1 DEF Good
<1>3. Made'
  BY <1>1, <1>2, MadeStays DEF ConversionInv
<1>4. PlanOK(file, targets)' /\ (Moving' <=> Moving) /\ Total' = Total
  BY <1>1, FileStays DEF ConversionInv
<1>5. Finished' <=> Finished
  BY <1>1 DEF Finished
<1>6. Placed'
  BY <1>1, <1>2, <1>4, <1>5 DEF ConversionInv, Placed
<1>7. Claim' = Claim
  BY <1>1 DEF Claim
<1>8. Summarised'
  BY <1>1, <1>5, <1>7 DEF ConversionInv, Summarised, AbortRow, Row
<1>9. Blanks' <=> Blanks
  BY <1>1 DEF Blanks
<1> QED BY <1>1, <1>3, <1>4, <1>6, <1>8, <1>9 DEF ConversionInv

-----------------------------------------------------------------------------
(* What follows *)

\* Rows that are not of a target are those of an abort, which end the list.
LEMMA RowsAre ==
  ASSUME ConversionInv, NEW i \in DOMAIN rows
  PROVE  /\ i \in 1 .. Len(rows) /\ Len(rows) \in Nat
         /\ \/ i \in 1 .. Good /\ i \in DOMAIN targets /\ Fits(i, rows[i])
            \/ i = Len(rows) /\ summary.claim = "error" /\ rows[i] = AbortRow /\ Good = Len(rows) - 1
<1>1. Len(rows) \in Nat /\ DOMAIN rows = 1 .. Len(rows)
  BY DEF ConversionInv
<1>2. Good \in Nat /\ Good <= Len(targets) /\ DOMAIN targets = 1 .. Len(targets) /\ Len(targets) \in Nat
  BY DEF ConversionInv, Made, Placed, PlanOK
<1>3. i \in 1 .. Good => i \in DOMAIN targets /\ Fits(i, rows[i])
  BY <1>2 DEF ConversionInv, Made, Fitting
<1>4. CASE summary.claim = "error"
  <2>1. Good = Len(rows) - 1 /\ rows[Len(rows)] = AbortRow
    BY <1>4 DEF ConversionInv, Summarised, Good
  <2> QED BY <1>1, <1>3, <1>4, <2>1
<1>5. CASE summary.claim # "error"
  BY <1>1, <1>3, <1>5 DEF Good
<1> QED BY <1>4, <1>5

\* Sequences that agree at their first places have the same beginning.
LEMMA PrefixHolds ==
  ASSUME NEW T, NEW s \in Seq(T), NEW t \in Seq(T), NEW n \in Nat, n <= Len(s), n <= Len(t),
         \A i \in 1 .. n : s[i] = t[i]
  PROVE  SubSeq(s, 1, n) = SubSeq(t, 1, n)
<1>1. /\ SubSeq(s, 1, n) \in Seq(T) /\ SubSeq(t, 1, n) \in Seq(T)
      /\ Len(SubSeq(s, 1, n)) = n /\ Len(SubSeq(t, 1, n)) = n
      /\ \A i \in 1 .. n : SubSeq(s, 1, n)[i] = s[i] /\ SubSeq(t, 1, n)[i] = t[i]
  OBVIOUS
<1> QED BY <1>1, SeqEqual

\* Each target has its row, in order.
LEMMA RowsFollowThePlan == ConversionInv => RowPerTarget
<1> SUFFICES ASSUME ConversionInv PROVE RowPerTarget
  OBVIOUS
<1> DEFINE told == IF summary.claim = "error" THEN Front(Pages) ELSE Pages
<1>1. /\ Len(rows) \in Nat /\ DOMAIN rows = 1 .. Len(rows) /\ rows \in Seq(Rows)
      /\ Good \in Nat /\ Good <= Len(targets)
      /\ DOMAIN targets = 1 .. Len(targets) /\ Len(targets) \in Nat
  BY DEF ConversionInv, Made, Placed, PlanOK
<1>2. \A i \in DOMAIN rows : rows[i].page \in Int
  <2> SUFFICES ASSUME NEW i \in DOMAIN rows PROVE rows[i].page \in Int
    OBVIOUS
  <2>1. \A r \in Rows : r.page \in Int
    BY DEF Rows
  <2>2. rows[i] \in Rows
    <3> HIDE DEF Rows
    <3> QED BY DEF ConversionInv
  <2> QED BY <2>1, <2>2
<1>3. Pages \in Seq(Int) /\ Len(Pages) = Len(rows) /\ \A i \in 1 .. Len(rows) : Pages[i] = rows[i].page
  BY <1>1, <1>2 DEF Pages
<1>4. Planned \in Seq(Int) /\ Len(Planned) = Len(targets)
      /\ \A i \in 1 .. Len(targets) : Planned[i] = PlannedAt(i)
  <2>1. CASE Film(file)
    <3>1. Planned = [i \in 1 .. Len(targets) |-> i]
      BY <1>1, <2>1 DEF Planned, Film
    <3>2. \A i \in 1 .. Len(targets) : i \in Int
      OBVIOUS
    <3>3. Planned \in Seq(Int) /\ Len(Planned) = Len(targets)
      BY <1>1, <3>1, <3>2
    <3> QED BY <2>1, <3>1, <3>3 DEF PlannedAt
  <2>2. CASE ~ Film(file)
    BY <2>2 DEF ConversionInv, PlanOK, Planned, PlannedAt, Film
  <2> QED BY <2>1, <2>2
<1>5. \A i \in 1 .. Good : i \in 1 .. Len(rows) /\ i \in 1 .. Len(targets) /\ rows[i].page = PlannedAt(i)
  <2>1. Good <= Len(rows)
    BY <1>1 DEF Good
  <2> QED BY <1>1, <2>1 DEF ConversionInv, Made, Fitting, Fits
<1>6. told \in Seq(Int) /\ Len(told) = Good /\ \A i \in 1 .. Good : told[i] = Pages[i]
  <2>1. CASE summary.claim = "error"
    <3>1. Good = Len(rows) - 1 /\ rows # << >>
      BY <2>1 DEF ConversionInv, Summarised, Good
    <3>2. told = SubSeq(Pages, 1, Good)
      BY <1>3, <2>1, <3>1 DEF Front
    <3>3. Good <= Len(Pages)
      BY <1>1, <1>3, <3>1
    <3> HIDE DEF told
    <3> QED BY <1>1, <1>3, <3>2, <3>3
  <2>2. CASE summary.claim # "error"
    BY <1>3, <2>2 DEF Good
  <2> QED BY <2>1, <2>2
<1>7. IsPrefix(told, Planned)
  <2>1. \A i \in 1 .. Good : told[i] = Planned[i]
    BY <1>3, <1>4, <1>5, <1>6
  <2>2. Good <= Len(told) /\ Good <= Len(Planned)
    BY <1>1, <1>4, <1>6
  <2> HIDE DEF told
  <2>3. SubSeq(told, 1, Good) = SubSeq(Planned, 1, Good)
    BY <1>1, <1>4, <1>6, <2>1, <2>2, PrefixHolds
  <2> QED BY <1>6, <2>2, <2>3 DEF IsPrefix
<1>8. ASSUME Finished, file.kind # "animation" PROVE Pages = Planned
  <2>1. Good = Len(targets)
    BY <1>8 DEF ConversionInv, Placed, Moving
  <2>2. told = Pages
    BY <1>8 DEF Finished
  <2>3. Len(Pages) = Len(Planned) /\ \A i \in 1 .. Len(Pages) : Pages[i] = Planned[i]
    BY <1>3, <1>4, <1>5, <1>6, <2>1, <2>2
  <2> QED BY <1>3, <1>4, <2>3, SeqEqual
<1> QED BY <1>7, <1>8 DEF RowPerTarget

\* The counts are those of the rows.
LEMMA TotalsHold == ConversionInv => TotalsAddUp
<1> SUFFICES ASSUME ConversionInv, NEW s \in DOMAIN tally
             PROVE  tally[s] = Cardinality({i \in DOMAIN rows : rows[i].status = s
                                              /\ (i = Len(rows) => summary.claim # "error")})
  BY DEF TotalsAddUp
<1>1. s \in Statuses /\ tally[s] = Cardinality(Of(s))
  BY DEF ConversionInv, Made, Counted
<1>2. Len(rows) \in Nat /\ DOMAIN rows = 1 .. Len(rows)
  BY DEF ConversionInv
<1>3. \A i : i \in 1 .. Good <=> i \in DOMAIN rows /\ (i = Len(rows) => summary.claim # "error")
  BY <1>2 DEF Good
<1>4. {i \in DOMAIN rows : rows[i].status = s /\ (i = Len(rows) => summary.claim # "error")} = Of(s)
  BY <1>3 DEF Of
<1> QED BY <1>1, <1>4

\* The claim is true.
LEMMA ClaimHolds == ConversionInv => ClaimIsTrue
<1> SUFFICES ASSUME ConversionInv, Finished PROVE ClaimIsTrue
  BY DEF ClaimIsTrue
<1>1. summary.claim = Claim /\ summary.claim # "error"
  BY DEF ConversionInv, Summarised, Finished
<1>2. /\ Good = Len(rows) /\ Good \in Nat /\ Good <= Len(targets)
      /\ DOMAIN rows = 1 .. Good /\ DOMAIN targets = 1 .. Len(targets) /\ Len(targets) \in Nat
  BY <1>1 DEF ConversionInv, Made, Placed, PlanOK, Good
<1>3. /\ tally["ok"] \in Nat /\ tally["skipped"] \in Nat /\ tally["failure"] \in Nat
      /\ tally["ok"] + tally["skipped"] + tally["failure"] = Good
      /\ \A s \in {"ok", "skipped", "failure"} : tally[s] = Cardinality(Of(s)) /\ IsFiniteSet(Of(s))
  BY DEF ConversionInv, Made, Counted, Statuses
<1>4. \A s \in Statuses : tally[s] = 0 => \A i \in 1 .. Good : rows[i].status # s
  <2> SUFFICES ASSUME NEW s \in Statuses, tally[s] = 0 PROVE \A i \in 1 .. Good : rows[i].status # s
    OBVIOUS
  <2>1. Of(s) = {}
    BY <1>3, FS_EmptySet DEF Statuses
  <2> QED BY <2>1 DEF Of
<1>5. \A i \in 1 .. Good : rows[i].status \in Statuses /\ Fits(i, rows[i])
  BY DEF ConversionInv, Made, Fitting, Fits, Rows
<1>6. ASSUME summary.claim \in {"all saved", "all processed"}, NEW k \in DOMAIN targets
      PROVE  \E i \in DOMAIN rows :
               /\ rows[i].page = Planned[k] /\ rows[i].frame = FrameOf(k)
               /\ \/ rows[i].status = "ok" /\ \E j \in jpegs : Holds(j, rows[i])
                  \/ rows[i].status = "skipped" /\ summary.claim = "all processed"
  <2>1. tally["ok"] + tally["skipped"] = Len(targets)
        /\ (summary.claim = "all saved" => tally["skipped"] = 0)
    BY <1>1, <1>6 DEF Claim
  <2>2. Good = Len(targets) /\ tally["failure"] = 0
    <3> DEFINE a == tally["ok"]
               b == tally["skipped"]
               c == tally["failure"]
               n == Len(targets)
    <3>1. a \in Nat /\ b \in Nat /\ c \in Nat /\ a + b + c = Good /\ a + b = n
          /\ Good \in Nat /\ n \in Nat /\ Good <= n
      BY <1>2, <1>3, <2>1
    <3> HIDE DEF a, b, c, n
    <3>2. Good = n /\ c = 0
      BY <3>1
    <3> QED BY <3>2 DEF c, n
  <2>3. k \in 1 .. Good /\ k \in DOMAIN rows
    BY <1>2, <2>2
  <2>4. rows[k].status # "failure" /\ (summary.claim = "all saved" => rows[k].status # "skipped")
    BY <1>4, <2>1, <2>2, <2>3 DEF Statuses
  <2>5. rows[k].page = PlannedAt(k) /\ rows[k].frame = FrameOf(k) /\ rows[k].status \in Statuses
    BY <1>5, <2>3, <2>4 DEF Fits
  <2>6. PlannedAt(k) = Planned[k]
    BY DEF PlannedAt, Planned, Film
  <2>7. rows[k].status = "ok" => \E j \in jpegs : Holds(j, rows[k])
    BY <2>3 DEF ConversionInv, Made, Kept
  <2> QED BY <1>6, <2>3, <2>4, <2>5, <2>6, <2>7 DEF Statuses
<1>7. ASSUME summary.claim = "none", NEW i \in DOMAIN rows
      PROVE  rows[i].status = "failure"
  <2>1. ~ (tally["ok"] + tally["skipped"] > 0)
    <3> DEFINE valid == tally["ok"] + tally["skipped"]
               expected == Len(targets)
    <3>1. Claim = "none"
      BY <1>1, <1>7
    <3>2. Claim = CASE expected = 0 -> "nothing extracted"
                    [] expected # 0 /\ valid = expected /\ tally["skipped"] = 0 -> "all saved"
                    [] expected # 0 /\ valid = expected /\ tally["skipped"] > 0 -> "all processed"
                    [] expected # 0 /\ valid # expected /\ valid > 0 -> "some"
                    [] OTHER -> "none"
      BY DEF Claim
    <3>3. expected # 0 /\ ~ (valid # expected /\ valid > 0) /\ ~ (valid = expected /\ tally["skipped"] = 0)
          /\ ~ (valid = expected /\ tally["skipped"] > 0)
      BY <3>1, <3>2
    <3> QED BY <1>2, <1>3, <3>3
  <2>2. tally["ok"] = 0 /\ tally["skipped"] = 0
    BY <1>3, <2>1
  <2>3. i \in 1 .. Good
    BY <1>2
  <2>4. rows[i].status # "ok" /\ rows[i].status # "skipped" /\ rows[i].status \in Statuses
    BY <1>4, <1>5, <2>2, <2>3 DEF Statuses
  <2> QED BY <2>4 DEF Statuses
<1> QED BY <1>6, <1>7 DEF ClaimIsTrue

\* Rows that say ok have their picture.
LEMMA PicturesHold == ConversionInv => SavedRowsHaveTheirPicture
<1> SUFFICES ASSUME ConversionInv, NEW i \in DOMAIN rows, rows[i].status = "ok"
             PROVE  /\ Cardinality({j \in jpegs : j.name = Named(rows[i].page, rows[i].time)}) = 1
                    /\ \E j \in jpegs : Holds(j, rows[i])
  BY DEF SavedRowsHaveTheirPicture
<1>1. AbortRow.status # "ok"
  BY DEF AbortRow, Row
<1>2. i \in 1 .. Good
  BY <1>1, RowsAre
<1>3. PICK j \in jpegs : Holds(j, rows[i])
  BY <1>2 DEF ConversionInv, Made, Kept
<1>4. {k \in jpegs : k.name = Named(rows[i].page, rows[i].time)} = {j}
  BY <1>3 DEF ConversionInv, Made, Kept, Holds
<1> QED BY <1>3, <1>4, FS_Singleton

\* Nothing new is left out.
LEMMA ScenesHold == ConversionInv => NothingNewDropped
<1> SUFFICES ASSUME ConversionInv, NEW i \in DOMAIN rows, rows[i].status = "skipped"
             PROVE  \E k \in 1 .. i - 1 :
                      /\ rows[k].status = "ok"
                      /\ LET d == file.frames[rows[i].frame].scene - file.frames[rows[k].frame].scene
                         IN  d * d <= SCENE_SENSITIVITY
  BY DEF NothingNewDropped
<1>1. AbortRow.status # "skipped"
  BY DEF AbortRow, Row
<1>2. i \in 1 .. Good
  BY <1>1, RowsAre
<1>3. PICK k \in 1 .. i - 1 : rows[k].status = "ok" /\ Similar(rows[i].frame, rows[k].frame)
  BY <1>2 DEF ConversionInv, Made, Compared
<1> QED BY <1>3 DEF Similar

\* Pictures follow each other.
LEMMA OrderHolds == ConversionInv => FramesInOrder
<1> SUFFICES ASSUME ConversionInv, Film(file), NEW i \in DOMAIN rows, NEW k \in DOMAIN rows,
                    i < k, rows[i].frame # 0, rows[k].frame # 0
             PROVE  /\ rows[i].frame <= rows[k].frame
                    /\ file.frames[rows[i].frame].timed /\ file.frames[rows[k].frame].timed
                         => rows[i].time <= rows[k].time
  BY DEF FramesInOrder, Film
<1>1. AbortRow.frame = 0
  BY DEF AbortRow, Row
<1>2. /\ i \in DOMAIN targets /\ k \in DOMAIN targets /\ Fits(i, rows[i]) /\ Fits(k, rows[k])
  BY <1>1, RowsAre
<1>3. rows[i].frame = FrameOf(i) /\ rows[k].frame = FrameOf(k)
      /\ rows[i].time = CaptureSeconds(FrameOf(i)) /\ rows[k].time = CaptureSeconds(FrameOf(k))
  BY <1>2 DEF Fits
<1>4. FrameOf(i) \in Shots(file) /\ FrameOf(k) \in Shots(file)
  BY <1>2, FrameLies DEF ConversionInv
<1>5. FrameOf(i) <= FrameOf(k)
  <2>1. targets[i] \in Int /\ targets[k] \in Int /\ targets[i] < targets[k] /\ targets # << >>
    BY <1>2 DEF ConversionInv, PlanOK, Rising
  <2>2. \E n \in Shots(file) : file.frames[n].at # Absent
    BY <2>1 DEF ConversionInv, PlanOK
  <2>3. file.header.start_time \in Int
    BY AFile DEF ConversionInv
  <2> DEFINE p == targets[i] + header.start_time
             q == targets[k] + header.start_time
  <2>4. p \in Int /\ q \in Int /\ p <= q
    BY <2>1, <2>3 DEF header
  <2>5. FrameOf(i) = Captured(p) /\ FrameOf(k) = Captured(q)
    BY DEF FrameOf, Film
  <2> HIDE DEF p, q
  <2> QED BY <2>2, <2>4, <2>5, SeekRises DEF ConversionInv
<1>6. file.frames[FrameOf(i)].timed /\ file.frames[FrameOf(k)].timed
        => CaptureSeconds(FrameOf(i)) <= CaptureSeconds(FrameOf(k))
  BY <1>4, <1>5, SecondsRise DEF ConversionInv
<1> QED BY <1>3, <1>5, <1>6

\* Tones do not return.
LEMMA TonesHold == ConversionInv => TonesNeverReturn
<1> SUFFICES ASSUME ConversionInv, NEW i \in DOMAIN rows, NEW k \in DOMAIN rows, i < k, rows[i].tone = "plain"
             PROVE  rows[k].tone # "mapped"
  BY DEF TonesNeverReturn
<1>1. AbortRow.tone = ""
  BY DEF AbortRow, Row
<1>2. i \in 1 .. Good
  BY <1>1, RowsAre
<1>3. CASE k \in 1 .. Good
  BY <1>2, <1>3 DEF ConversionInv, Made, Toned
<1>4. CASE k \notin 1 .. Good
  BY <1>1, <1>4, RowsAre
<1> QED BY <1>3, <1>4

\* So does every step of the whole.
LEMMA ConversionStep ==
  ASSUME ConversionInv, [FileToReportNext]_<<conversionVars, exportVars>>
  PROVE  ConversionInv'
<1>1. ConversionNext \/ UNCHANGED conversionVars
  BY DEF FileToReportNext
<1> QED BY <1>1, ConversionKeeps, ConversionRests

\* The inductive invariant of a conversion, for any files, limits and number of mishaps.
THEOREM ConversionInvariance == FileToReportSpec => []ConversionInv
<1>1. FileToReportInit => ConversionInv
  BY ConversionBegins DEF FileToReportInit
<1>2. ConversionInv /\ [FileToReportNext]_<<conversionVars, exportVars>> => ConversionInv'
  BY ConversionStep
<1> QED BY <1>1, <1>2, PTL DEF FileToReportSpec

\* Rows, counts, claim and pictures of a conversion tell the same story: each target has its row, in
\* order, whatever failed before it (the loops of the pipelines); finalize_results counts and claims
\* what the rows say, and each row that says ok has its own whole JPEG of that very target.
THEOREM RowsTell == FileToReportSpec => []RowsTellTheConversion
<1>1. ConversionInv => RowsTellTheConversion
  BY RowsFollowThePlan, TotalsHold, ClaimHolds, PicturesHold DEF RowsTellTheConversion
<1> QED BY <1>1, ConversionInvariance, PTL

\* What is left out as static resembles a picture that was saved before it, the pictures of a film
\* follow each other in its order and its time although each is sought anew (_capture_target_image),
\* and tone mapping that was given up stays off.
THEOREM ScenesKept == FileToReportSpec => []ScenesAreKept
<1>1. ConversionInv => ScenesAreKept
  BY ScenesHold, OrderHolds, TonesHold DEF ScenesAreKept
<1> QED BY <1>1, ConversionInvariance, PTL

-----------------------------------------------------------------------------
(* The written range                                                       *)

\* Every number is in a span.
LEMMA SpansCover ==
  ASSUME NEW T \in SUBSET Int, IsFiniteSet(T), NEW step \in Nat \ {0},
         \A x, y \in T : x < y => x + step <= y, NEW t \in T
  PROVE  \E s \in Joined(step, T) : s.from <= t /\ t <= s.to
<1>1. \A x \in T : x \in Int
  OBVIOUS
<1> DEFINE Low == {x \in T : x <= t /\ \A n \in T : x <= n /\ n < t => n + step \in T}
           High == {x \in T : t <= x /\ \A n \in T : t <= n /\ n < x => n + step \in T}
<1>2. Low \in SUBSET Int /\ High \in SUBSET Int /\ IsFiniteSet(Low) /\ IsFiniteSet(High)
  <2>1. Low \in SUBSET T /\ High \in SUBSET T
    OBVIOUS
  <2> HIDE DEF Low, High
  <2> QED BY <2>1, FS_Subset
<1>3. t \in Low /\ t \in High
  BY <1>1
<1>4. PICK a \in Low : \A x \in Low : a <= x
  <2> HIDE DEF Low
  <2> QED BY <1>2, <1>3, HasLeast
<1>5. PICK b \in High : \A x \in High : b >= x
  <2> HIDE DEF High
  <2> QED BY <1>2, <1>3, HasGreatest
<1>6. a \in T /\ a <= t /\ \A n \in T : a <= n /\ n < t => n + step \in T
  BY <1>4
<1>7. b \in T /\ t <= b /\ \A n \in T : t <= n /\ n < b => n + step \in T
  BY <1>5
<1>8. a - step \notin T
  <2> SUFFICES ASSUME a - step \in T PROVE FALSE
    OBVIOUS
  <2>1. ASSUME NEW n \in T, a - step <= n, n < t PROVE n + step \in T
    <3>1. CASE a <= n
      BY <1>6, <2>1, <3>1
    <3>2. CASE n < a
      <4>1. n + step <= a
        BY <1>6, <3>2
      <4>2. n = a - step
        BY <1>1, <1>6, <2>1, <4>1
      <4> QED BY <1>1, <1>6, <4>2
    <3> QED BY <1>1, <1>6, <3>1, <3>2
  <2>2. a - step <= t
    BY <1>1, <1>6
  <2>3. a - step \in Low
    BY <2>1, <2>2
  <2>4. a <= a - step
    BY <1>4, <2>3
  <2> QED BY <1>1, <1>6, <2>4
<1>9. b + step \notin T
  <2> SUFFICES ASSUME b + step \in T PROVE FALSE
    OBVIOUS
  <2>1. ASSUME NEW n \in T, t <= n, n < b + step PROVE n + step \in T
    <3>1. CASE n < b
      BY <1>7, <2>1, <3>1
    <3>2. CASE n = b
      BY <3>2
    <3>3. CASE b < n
      <4>1. b + step <= n
        BY <1>7, <3>3
      <4> QED BY <1>1, <1>7, <2>1, <4>1
    <3> QED BY <1>1, <1>7, <3>1, <3>2, <3>3
  <2>2. t <= b + step
    BY <1>1, <1>7
  <2>3. b + step \in High
    BY <2>1, <2>2
  <2>4. b >= b + step
    BY <1>5, <2>3
  <2> QED BY <1>1, <1>7, <2>4
<1>10. a <= b /\ \A n \in T : a <= n /\ n < b => n + step \in T
  <2>1. a \in Int /\ b \in Int /\ t \in Int
    BY <1>1, <1>6, <1>7
  <2>2. ASSUME NEW n \in T, a <= n, n < b PROVE n + step \in T
    <3>1. n < t \/ t <= n
      BY <1>1, <2>1
    <3> QED BY <1>6, <1>7, <2>2, <3>1
  <2> QED BY <1>6, <1>7, <2>1, <2>2
<1>11. [from |-> a, to |-> b] \in Joined(step, T)
  <2>1. <<a, b>> \in T \X T /\ <<a, b>>[1] = a /\ <<a, b>>[2] = b
    BY <1>6, <1>7
  <2> QED BY <1>8, <1>9, <1>10, <2>1 DEF Joined
<1> QED BY <1>6, <1>7, <1>11

\* A span begins and ends with a number, and a span of pages is full of pages.
LEMMA SpansLie ==
  ASSUME NEW T \in SUBSET Int, NEW step, NEW s \in Joined(step, T)
  PROVE  /\ s.from \in T /\ s.to \in T /\ s.from <= s.to
         /\ step = 1 => \A n \in s.from .. s.to : n \in T
<1>1. PICK p \in T \X T : /\ s = [from |-> p[1], to |-> p[2]] /\ p[1] <= p[2]
                          /\ \A n \in T : p[1] <= n /\ n < p[2] => n + step \in T
  BY DEF Joined
<1> DEFINE a == p[1]
           b == p[2]
<1>2. s.from = a /\ s.to = b /\ a \in T /\ b \in T /\ a <= b
      /\ \A n \in T : a <= n /\ n < b => n + step \in T
  BY <1>1
<1> HIDE DEF a, b
<1>3. a \in Int /\ b \in Int
  BY <1>2
<1>4. ASSUME step = 1 PROVE \A n \in a .. b : n \in T
  <2> DEFINE Missing == {n \in a .. b : n \notin T}
  <2> SUFFICES ASSUME Missing # {} PROVE FALSE
    OBVIOUS
  <2>1. Missing \in SUBSET (a .. b)
    OBVIOUS
  <2>2. a .. b \in SUBSET Int /\ IsFiniteSet(a .. b)
    BY <1>3, FS_Interval
  <2>3. Missing \in SUBSET Int /\ IsFiniteSet(Missing)
    <3> HIDE DEF Missing
    <3> QED BY <2>1, <2>2, FS_Subset
  <2>4. PICK x \in Missing : \A y \in Missing : x <= y
    <3> HIDE DEF Missing
    <3> QED BY <2>3, HasLeast
  <2>5. x \in a .. b /\ x \notin T
    BY <2>4
  <2>6. x # a /\ x - 1 \in a .. b
    BY <1>2, <1>3, <2>5
  <2>7. x - 1 \in T
    <3>1. x - 1 \notin Missing
      BY <1>3, <2>4, <2>5, <2>6
    <3> QED BY <2>6, <3>1
  <2>8. (x - 1) + step \in T
    BY <1>2, <1>3, <2>5, <2>6, <2>7
  <2> QED BY <1>3, <1>4, <2>5, <2>8
<1> QED BY <1>2, <1>4

\* The closest two of several moments.
LEMMA ClosestTwo ==
  ASSUME NEW T \in SUBSET Int, IsFiniteSet(T), ~ (Cardinality(T) < 2)
  PROVE  LET gaps == {p[2] - p[1] : p \in {q \in T \X T : q[1] < q[2]}}
         IN  Min(gaps) \in Nat \ {0} /\ \A x, y \in T : x < y => x + Min(gaps) <= y
<1> DEFINE gaps == {p[2] - p[1] : p \in {q \in T \X T : q[1] < q[2]}}
<1>1. \A x \in T : x \in Int
  OBVIOUS
<1>2. \A x, y \in T : x < y => y - x \in gaps
  <2> SUFFICES ASSUME NEW x \in T, NEW y \in T, x < y PROVE y - x \in gaps
    OBVIOUS
  <2>1. <<x, y>> \in {q \in T \X T : q[1] < q[2]} /\ <<x, y>>[1] = x /\ <<x, y>>[2] = y
    OBVIOUS
  <2> QED BY <2>1
<1>3. \A g \in gaps : \E x, y \in T : x < y /\ g = y - x
  OBVIOUS
<1>4. PICK x \in T, y \in T : x < y
  <2>1. Cardinality(T) \in Nat /\ T # {}
    BY FS_CardinalityType, FS_EmptySet
  <2>2. PICK x \in T : TRUE
    BY <2>1
  <2>3. T # {x}
    BY FS_Singleton
  <2>4. PICK y \in T : y # x
    BY <2>2, <2>3
  <2> QED BY <1>1, <2>2, <2>4
<1>5. PICK low \in T, high \in T : \A z \in T : low <= z /\ z <= high
  <2>1. PICK low \in T : \A z \in T : low <= z
    BY <1>4, HasLeast
  <2>2. PICK high \in T : \A z \in T : high >= z
    BY <1>4, HasGreatest
  <2> QED BY <1>1, <2>1, <2>2
<1>6. gaps \in SUBSET (1 .. high - low)
  <2> SUFFICES ASSUME NEW g \in gaps PROVE g \in 1 .. high - low
    OBVIOUS
  <2>1. PICK a, b \in T : a < b /\ g = b - a
    BY <1>3
  <2>2. low <= a /\ b <= high /\ a \in Int /\ b \in Int /\ low \in Int /\ high \in Int
    BY <1>1, <1>5, <2>1
  <2> QED BY <2>1, <2>2
<1>7. gaps # {}
  BY <1>2, <1>4
<1>8. high - low \in Nat
  <2>1. low \in Int /\ high \in Int /\ low <= high
    BY <1>1, <1>5
  <2> QED BY <2>1
<1> HIDE DEF gaps
<1>9. Min(gaps) \in gaps /\ \A g \in gaps : Min(gaps) <= g
  BY <1>6, <1>7, <1>8, MinMax
<1>10. Min(gaps) \in Nat \ {0}
  <2>1. Min(gaps) \in 1 .. high - low
    BY <1>6, <1>9
  <2> QED BY <1>8, <2>1
<1>11. ASSUME NEW u \in T, NEW v \in T, u < v PROVE u + Min(gaps) <= v
  <2>1. Min(gaps) <= v - u
    BY <1>2, <1>9, <1>11
  <2> QED BY <1>1, <1>10, <2>1
<1> QED BY <1>10, <1>11 DEF gaps

-----------------------------------------------------------------------------
(* The selection and what was typed *)

\* A part with a number in it selects the pages that it names.
LEMMA PartCovers ==
  ASSUME NEW part, Typable(part), ~ Refused(part), part.dash \/ part.from # Absent,
         NEW total \in Nat, NEW i \in Int
  PROVE  i \in Covered(Segment(part), total) <=> i \in 0 .. total - 1 /\ Wants(part, i + 1)
<1> DEFINE seg == Segment(part)
<1>1. seg.start = (IF part.from = Absent THEN 0 ELSE part.from - 1)
      /\ seg.end = (IF part.dash THEN part.to ELSE part.from)
  BY DEF Segment
<1>2. seg.start >= 0 /\ (seg.end # Absent => seg.start < seg.end)
      /\ seg.start \in Int /\ seg.end \in Int
  BY <1>1 DEF Typable, Refused, Absent
<1>3. i \in Covered(seg, total) <=>
        i \in 0 .. total - 1 /\ seg.start <= i /\ (seg.end # Absent => i < seg.end)
  <2> HIDE DEF seg
  <2> QED BY <1>2 DEF Covered, Outside
<1>4. Wants(part, i + 1) <=>
        IF part.dash THEN i + 1 >= part.from /\ (part.to = Absent \/ i + 1 <= part.to)
        ELSE i + 1 = part.from
  BY DEF Wants
<1>5. i \in 0 .. total - 1 =>
        (seg.start <= i /\ (seg.end # Absent => i < seg.end) <=> Wants(part, i + 1))
  <2> HIDE DEF seg
  <2> QED BY <1>1, <1>2, <1>4 DEF Typable, Absent
<1> QED BY <1>3, <1>5

\* The parts typed for a file.
LEMMA ATypedPart ==
  ASSUME NEW f \in Files, NEW part \in f.typed
  PROVE  /\ Typable(part) /\ (~ Film(f) => ~ Refused(part))
         /\ part.dash \/ part.to = Absent
         /\ part # Blank => part.dash \/ part.from # Absent
         /\ part = Blank => ~ part.dash /\ part.from = Absent
<1>1. part \in [from : Nat \cup {Absent}, to : Nat \cup {Absent}, dash : BOOLEAN]
      /\ (part.dash \/ part.to = Absent) /\ (~ Film(f) => ~ Refused(part))
  BY FilesAssumption DEF FilesAssumption, Film
<1>2. Typable(part)
  BY <1>1 DEF Typable
<1>3. part = [from |-> part.from, to |-> part.to, dash |-> part.dash]
  BY <1>1
<1> QED BY <1>1, <1>2, <1>3 DEF Blank

\* The indices that a selection takes are those of the pages wanted.
LEMMA IndicesWanted ==
  ASSUME file \in Files, ~ Film(file), NEW total \in Nat, NEW i \in Int
  PROVE  i \in calculate_indices(Compile(file.typed), total).indices <=>
           /\ i \in 0 .. total - 1
           /\ file.typed = {} \/ \E part \in file.typed : Wants(part, i + 1)
<1> DEFINE segments == Compile(file.typed)
<1>1. i \in calculate_indices(segments, total).indices <=> \E seg \in segments : i \in Covered(seg, total)
  BY DEF calculate_indices
<1>2. CASE file.typed = {}
  <2>1. segments = {[start |-> 0, end |-> Absent]}
    BY <1>2 DEF Compile
  <2>2. i \in Covered([start |-> 0, end |-> Absent], total) <=> i \in 0 .. total - 1
    BY DEF Covered, Outside
  <2> QED BY <1>1, <1>2, <2>1, <2>2
<1>3. CASE file.typed # {}
  <2>1. segments = {Segment(part) : part \in file.typed \ {Blank}}
    BY <1>3 DEF Compile
  <2>2. ASSUME NEW part \in file.typed \ {Blank}
        PROVE  i \in Covered(Segment(part), total) <=> i \in 0 .. total - 1 /\ Wants(part, i + 1)
    BY ATypedPart, PartCovers
  <2>3. ASSUME NEW part \in file.typed, part = Blank, i \in 0 .. total - 1 PROVE ~ Wants(part, i + 1)
    <3>1. ~ part.dash /\ part.from = Absent
      BY <2>3, ATypedPart
    <3> QED BY <2>3, <3>1 DEF Wants, Absent
  <2> HIDE DEF segments
  <2>4. (\E seg \in segments : i \in Covered(seg, total))
          <=> \E part \in file.typed \ {Blank} : i \in Covered(Segment(part), total)
    BY <2>1
  <2>5. i \in calculate_indices(segments, total).indices
          <=> \E part \in file.typed \ {Blank} : i \in 0 .. total - 1 /\ Wants(part, i + 1)
    BY <1>1, <2>2, <2>4
  <2> QED BY <1>3, <2>3, <2>5 DEF segments
<1> QED BY <1>2, <1>3

\* A status of ok tells that no segment lay outside and none was cut.
LEMMA StatusTells ==
  ASSUME NEW typed, NEW total
  PROVE  LET asked == calculate_indices(Compile(typed), total)
         IN  /\ asked.status = "skipped" <=> asked.indices = {}
             /\ asked.status = "ok" =>
                  \A seg \in Compile(typed) : ~ Outside(seg, total) /\ ~ Overlong(seg, total)
BY DEF calculate_indices, RangeStatus

\* Then every number that was typed is a page of the file.
LEMMA OkReaches ==
  ASSUME file \in Files, ~ Film(file), NEW total \in Nat,
         \A seg \in Compile(file.typed) : ~ Outside(seg, total) /\ ~ Overlong(seg, total),
         NEW part \in file.typed
  PROVE  LastNamed(part) <= total
<1>1. Typable(part) /\ (part.dash \/ part.to = Absent)
  BY ATypedPart
<1>2. CASE part = Blank
  BY <1>2 DEF LastNamed, Larger, Blank, Absent
<1>3. CASE part # Blank
  <2>1. Segment(part) \in Compile(file.typed)
    BY <1>3 DEF Compile
  <2> DEFINE seg == Segment(part)
  <2>2. seg.start = (IF part.from = Absent THEN 0 ELSE part.from - 1)
        /\ seg.end = (IF part.dash THEN part.to ELSE part.from)
    BY DEF Segment
  <2>3. ~ Outside(seg, total) /\ ~ Overlong(seg, total)
    BY <2>1
  <2>4. ~ (seg.start >= total) /\ ~ (seg.end # Absent /\ seg.end > total)
    BY <2>3 DEF Outside, Overlong
  <2> HIDE DEF seg
  <2>5. part.from <= total /\ part.to <= total
    BY <1>1, <2>2, <2>4 DEF Typable, Absent
  <2> QED BY <2>5 DEF LastNamed, Larger
<1> QED BY <1>2, <1>3

\* A set in order is still that set; it begins with the least and ends with the greatest.
LEMMA InOrderEnds ==
  ASSUME NEW low \in Int, NEW high \in Int, NEW S \in SUBSET (low .. high)
  PROVE  /\ ToSet(InOrder(S)) = S
         /\ S # {} => /\ Head(InOrder(S)) \in S /\ \A x \in S : Head(InOrder(S)) <= x
                      /\ Last(InOrder(S)) \in S /\ \A x \in S : x <= Last(InOrder(S))
<1> DEFINE s == InOrder(S)
<1>1. S \in SUBSET Int /\ IsFiniteSet(S)
  <2>1. \A x \in S : x \in low .. high
    OBVIOUS
  <2>2. \A x \in S : x \in Int
    BY <2>1
  <2>3. IsFiniteSet(low .. high)
    BY FS_Interval
  <2> QED BY <2>2, <2>3, FS_Subset
<1>2. Cardinality(S) \in Nat
  BY <1>1, FS_CardinalityType
<1>3. /\ s \in [1 .. Cardinality(S) -> S]
      /\ \A i, j \in 1 .. Cardinality(S) : i < j => s[i] < s[j]
      /\ \A x \in S : \E i \in 1 .. Cardinality(S) : s[i] = x
  BY <1>1, InOrderSorts
<1>4. Len(s) = Cardinality(S)
  BY <1>1, InOrderIsRising
<1> HIDE DEF s
<1>5. ToSet(s) = S
  BY <1>3 DEF ToSet
<1>6. ASSUME S # {}
      PROVE  /\ s[1] \in S /\ \A x \in S : s[1] <= x
             /\ s[Len(s)] \in S /\ \A x \in S : x <= s[Len(s)]
  <2>1. PICK y \in S : TRUE
    BY <1>6
  <2>2. 1 \in 1 .. Cardinality(S) /\ Cardinality(S) \in 1 .. Cardinality(S)
    BY <1>2, <1>3, <2>1
  <2>3. s[1] \in S /\ s[Cardinality(S)] \in S
    BY <1>3, <2>2
  <2>4. ASSUME NEW x \in S PROVE s[1] <= x /\ x <= s[Cardinality(S)]
    <3>1. PICK i \in 1 .. Cardinality(S) : s[i] = x
      BY <1>3
    <3>2. x \in Int /\ s[1] \in Int /\ s[Cardinality(S)] \in Int
      BY <1>1, <2>3
    <3>3. i = 1 \/ 1 < i
      OBVIOUS
    <3>4. i = Cardinality(S) \/ i < Cardinality(S)
      BY <1>2
    <3>5. s[1] <= x
      BY <1>3, <2>2, <3>1, <3>2, <3>3
    <3>6. x <= s[Cardinality(S)]
      BY <1>3, <2>2, <3>1, <3>2, <3>4
    <3> QED BY <3>5, <3>6
  <2> QED BY <1>4, <2>3, <2>4
<1>7. S # {} => Head(s) = s[1] /\ Last(s) = s[Len(s)]
  <2>1. s \in Seq(S)
    BY <1>2, <1>3
  <2>2. S # {} => Len(s) # 0
    BY <1>1, <1>4, FS_EmptySet
  <2> QED BY <2>1, <2>2 DEF Last
<1>8. S # {} => /\ Head(s) \in S /\ \A x \in S : Head(s) <= x
                /\ Last(s) \in S /\ \A x \in S : x <= Last(s)
  BY <1>6, <1>7
<1> QED BY <1>5, <1>8 DEF s

\* Pages are counted from one and indices from zero.
LEMMA ShiftCounts ==
  ASSUME NEW T \in SUBSET Int, IsFiniteSet(T)
  PROVE  Cardinality({t + 1 : t \in T}) = Cardinality(T)
<1> DEFINE U == {t + 1 : t \in T}
           f == [t \in T |-> t + 1]
<1>1. \A t \in T : t \in Int
  OBVIOUS
<1>2. f \in Bijection(T, U)
  <2>1. f \in [T -> U] /\ \A t \in T : f[t] = t + 1
    OBVIOUS
  <2>2. \A u \in U : \E t \in T : f[t] = u
    OBVIOUS
  <2> HIDE DEF f, U
  <2>3. ASSUME NEW a \in T, NEW b \in T, f[a] = f[b] PROVE a = b
    <3>1. a \in Int /\ b \in Int /\ a + 1 = b + 1
      BY <1>1, <2>1, <2>3
    <3> QED BY <3>1
  <2>4. f \in Surjection(T, U)
    BY <2>1, <2>2 DEF Surjection
  <2>5. f \in Injection(T, U)
    BY <2>1, <2>3 DEF Injection, IsInjective
  <2> QED BY <2>4, <2>5 DEF Bijection
<1>3. ExistsBijection(T, U)
  BY <1>2 DEF ExistsBijection
<1> HIDE DEF U, f
<1>4. Cardinality(U) = Cardinality(T)
  BY <1>3, FS_Bijection
<1> QED BY <1>4 DEF U

\* The first pages lie behind the first indices.
LEMMA FirstShifts ==
  ASSUME NEW I \in SUBSET Int, IsFiniteSet(I), NEW n
  PROVE  {i + 1 : i \in First(I, n)} = First({i + 1 : i \in I}, n)
<1> DEFINE J == {i + 1 : i \in I}
           Before(T, x) == {j \in T : j < x}
<1>1. \A i \in I : i \in Int
  OBVIOUS
<1>2. ASSUME NEW i \in I PROVE Cardinality(Before(J, i + 1)) = Cardinality(Before(I, i))
  <2>1. Before(J, i + 1) = {t + 1 : t \in Before(I, i)}
    BY <1>1
  <2>2. Before(I, i) \in SUBSET I
    OBVIOUS
  <2>3. Before(I, i) \in SUBSET Int /\ IsFiniteSet(Before(I, i))
    <3> HIDE DEF Before
    <3> QED BY <2>2, FS_Subset
  <2> HIDE DEF Before
  <2>4. Cardinality({t + 1 : t \in Before(I, i)}) = Cardinality(Before(I, i))
    BY <2>3, ShiftCounts
  <2> QED BY <2>1, <2>4
<1>3. First(I, n) = {i \in I : Cardinality(Before(I, i)) < n}
  BY DEF First
<1>4. First(J, n) = {j \in J : Cardinality(Before(J, j)) < n}
  BY DEF First
<1> HIDE DEF Before
<1>5. ASSUME NEW i \in I PROVE i \in First(I, n) <=> i + 1 \in First(J, n)
  BY <1>2, <1>3, <1>4
<1>6. First(I, n) \subseteq I /\ First(J, n) \subseteq J
  BY <1>3, <1>4
<1>7. ASSUME NEW j \in First(J, n) PROVE \E i \in First(I, n) : j = i + 1
  <2>1. PICK i \in I : j = i + 1
    BY <1>6
  <2> QED BY <1>5, <2>1
<1> HIDE DEF J
<1>8. {i + 1 : i \in First(I, n)} = First(J, n)
  BY <1>5, <1>6, <1>7
<1> QED BY <1>8 DEF J

\* A limit of pages leaves the first of them.
LEMMA FirstIsSome ==
  ASSUME NEW I \in SUBSET Int, IsFiniteSet(I), I # {}, NEW n \in Nat \ {0}
  PROVE  First(I, n) # {}
<1>1. PICK x \in I : \A y \in I : x <= y
  BY HasLeast
<1>2. {j \in I : j < x} = {}
  <2>1. \A j \in I : j \in Int
    OBVIOUS
  <2>2. ASSUME NEW j \in I PROVE ~ (j < x)
    <3>1. j \in Int /\ x \in Int /\ x <= j
      BY <1>1, <2>1
    <3> QED BY <3>1
  <2> QED BY <2>2
<1>3. Cardinality({j \in I : j < x}) = 0
  BY <1>2, FS_EmptySet
<1>4. x \in First(I, n)
  BY <1>3 DEF First
<1> QED BY <1>4

\* The pages wanted are those behind the indices taken.
LEMMA WantedTaken ==
  ASSUME file \in Files, ~ Film(file)
  PROVE  LET indices == calculate_indices(Compile(file.typed), Total).indices
         IN  /\ indices \subseteq 0 .. Total - 1 /\ Total \in Nat
             /\ Wanted = {i + 1 : i \in indices}
             /\ indices \in SUBSET Int /\ IsFiniteSet(indices)
<1> DEFINE indices == calculate_indices(Compile(file.typed), Total).indices
<1>1. Total \in Nat
  BY AFile DEF Total
<1>2. indices \subseteq 0 .. Total - 1
  BY <1>1, AFile, IndicesLie
<1>3. ASSUME NEW i \in Int
      PROVE  i \in indices <=> /\ i \in 0 .. Total - 1
                               /\ file.typed = {} \/ \E part \in file.typed : Wants(part, i + 1)
  BY <1>1, IndicesWanted
<1> HIDE DEF indices
<1>4. ASSUME NEW p \in Int PROVE p \in Wanted <=> p - 1 \in indices
  <2>1. p - 1 \in Int /\ (p - 1) + 1 = p
    OBVIOUS
  <2>2. p \in 1 .. Total <=> p - 1 \in 0 .. Total - 1
    BY <1>1
  <2>3. p \in Wanted <=> p \in 1 .. Total /\ (file.typed = {} \/ \E part \in file.typed : Wants(part, p))
    BY DEF Wanted
  <2> QED BY <1>3, <2>1, <2>2, <2>3
<1>5. \A p \in Wanted : p \in Int
  BY DEF Wanted
<1>6. \A i \in indices : i \in Int
  BY <1>2
<1>7. Wanted = {i + 1 : i \in indices}
  <2>1. ASSUME NEW p \in Wanted PROVE \E i \in indices : p = i + 1
    <3>1. p - 1 \in indices /\ p = (p - 1) + 1
      BY <1>4, <1>5
    <3> QED BY <3>1
  <2>2. ASSUME NEW i \in indices PROVE i + 1 \in Wanted
    <3>1. i + 1 \in Int /\ (i + 1) - 1 = i
      BY <1>6
    <3> QED BY <1>4, <3>1
  <2> QED BY <2>1, <2>2
<1>8. IsFiniteSet(indices)
  <2>1. IsFiniteSet(0 .. Total - 1)
    BY <1>1, FS_Interval
  <2> QED BY <1>2, <2>1, FS_Subset
<1> QED BY <1>1, <1>2, <1>6, <1>7, <1>8 DEF indices

-----------------------------------------------------------------------------
(* Samples *)

\* Fractions of a distance that is larger than their number differ.
LEMMA FractionsRise ==
  ASSUME NEW d \in Nat, NEW k \in Nat \ {0}, k <= d, NEW i \in 0 .. k, NEW j \in 0 .. k, i < j
  PROVE  (d * i) \div k < (d * j) \div k
<1> DEFINE p == (d * i) \div k
           q == (d * j) \div k
           a == d * i
           b == d * j
<1>1. a \in Int /\ b \in Int
  OBVIOUS
<1>2. a + d <= b
  <2>1. d * (i + 1) <= d * j
    OBVIOUS
  <2>2. d * (i + 1) = d * i + d
    OBVIOUS
  <2> QED BY <2>1, <2>2
<1> HIDE DEF a, b
<1>3. p = a \div k /\ q = b \div k
  BY DEF a, b
<1>4. p \in Int /\ k * p <= a
  BY <1>1, <1>3
<1>5. q \in Int /\ b < k * q + k
  BY <1>1, <1>3
<1> HIDE DEF p, q
<1>6. k * p + k <= b
  BY <1>1, <1>2, <1>4
<1>7. k * p < k * q
  <2>1. k * p \in Int /\ k * q \in Int
    BY <1>4, <1>5
  <2> QED BY <1>1, <1>5, <1>6, <2>1
<1>8. p < q
  <2> SUFFICES ASSUME q <= p PROVE FALSE
    BY <1>4, <1>5
  <2>1. k * q <= k * p
    BY <1>4, <1>5
  <2>2. k * p \in Int /\ k * q \in Int
    BY <1>4, <1>5
  <2> QED BY <1>7, <2>1, <2>2
<1> QED BY <1>8 DEF p, q

\* Evenly spread places among more of them are as many as asked for, the ends among them.
LEMMA LinspaceCounts ==
  ASSUME NEW last \in Nat, NEW count \in Nat \ {0}, count <= last + 1
  PROVE  /\ Cardinality(Linspace(0, last, count)) = count
         /\ count # 1 => 0 \in Linspace(0, last, count) /\ last \in Linspace(0, last, count)
<1>1. CASE count = 1
  <2>1. Linspace(0, last, count) = {0}
    BY <1>1 DEF Linspace
  <2> QED BY <1>1, <2>1, FS_Singleton
<1>2. CASE count # 1
  <2> DEFINE k == count - 1
             places == 0 .. k
             f == [i \in places |-> (last * i) \div k]
             U == Linspace(0, last, count)
  <2>1. k \in Nat \ {0} /\ k <= last /\ k + 1 = count
    BY <1>2
  <2>2. \A i \in places : f[i] = (last * i) \div k
    OBVIOUS
  <2>3. U = {f[i] : i \in places}
    <3>1. U = {0 + ((last - 0) * i) \div (count - 1) : i \in 0 .. count - 1}
      BY <1>2 DEF Linspace
    <3>2. ASSUME NEW i \in places PROVE 0 + ((last - 0) * i) \div k = f[i]
      <4>1. last - 0 = last
        OBVIOUS
      <4>2. last * i \in Int
        OBVIOUS
      <4> DEFINE a == last * i
      <4>3. a \div k \in Int
        <5> HIDE DEF a
        <5> QED BY <2>1, <4>2 DEF a
      <4>4. f[i] = a \div k
        BY <2>2
      <4> HIDE DEF f
      <4>5. 0 + a \div k = a \div k
        BY <4>3
      <4> QED BY <4>1, <4>4, <4>5
    <3> HIDE DEF f
    <3> QED BY <3>1, <3>2
  <2>4. \A i \in places : f[i] \in 0 .. last
    BY <2>1, Fraction
  <2>5. \A i, j \in places : i < j => f[i] < f[j]
    BY <2>1, FractionsRise
  <2>6. f \in [places -> U]
    BY <2>3
  <2>7. f[0] = 0 /\ f[k] = last
    <3>1. f[0] = (last * 0) \div k /\ f[k] = (last * k) \div k
      BY <2>1
    <3>2. last * 0 = 0 /\ 0 \div k = 0
      BY <2>1
    <3>3. (last * k) \div k = last
      <4> HIDE DEF k
      <4>1. last * k = k * last
        BY <2>1
      <4> DEFINE a == last * k
                 q == a \div k
      <4>2. a \in Int
        BY <2>1
      <4>3. q \in Int /\ k * q <= a /\ a < k * q + k
        <5> HIDE DEF a
        <5> QED BY <2>1, <4>2 DEF a
      <4> HIDE DEF q
      <4>4. k * q <= k * last /\ k * last < k * q + k
        BY <4>1, <4>3
      <4>5. ~ (q < last)
        <5> SUFFICES ASSUME q < last PROVE FALSE
          OBVIOUS
        <5>1. q + 1 <= last
          BY <4>3
        <5>2. k * (q + 1) <= k * last
          BY <2>1, <4>3, <5>1
        <5>3. k * (q + 1) = k * q + k
          BY <2>1, <4>3
        <5>4. k * q \in Int /\ k * last \in Int
          BY <2>1, <4>3
        <5> QED BY <2>1, <4>4, <5>2, <5>3, <5>4
      <4>6. ~ (last < q)
        <5> SUFFICES ASSUME last < q PROVE FALSE
          OBVIOUS
        <5>1. last + 1 <= q
          BY <4>3
        <5>2. k * (last + 1) <= k * q
          BY <2>1, <4>3, <5>1
        <5>3. k * (last + 1) = k * last + k
          BY <2>1, <4>3
        <5>4. k * q \in Int /\ k * last \in Int
          BY <2>1, <4>3
        <5> QED BY <2>1, <4>4, <5>2, <5>3, <5>4
      <4>7. q = last
        BY <4>3, <4>5, <4>6
      <4> QED BY <4>7 DEF q
    <3> QED BY <3>1, <3>2, <3>3
  <2>8. 0 \in places /\ k \in places /\ IsFiniteSet(places) /\ Cardinality(places) = count
    BY <2>1, FS_Interval
  <2> HIDE DEF f, U
  <2>9. f \in Bijection(places, U)
    <3>1. f \in Surjection(places, U)
      BY <2>3, <2>6 DEF Surjection
    <3>2. ASSUME NEW a \in places, NEW b \in places, f[a] = f[b] PROVE a = b
      <4>1. a \in Int /\ b \in Int /\ f[a] \in Int /\ f[b] \in Int
        BY <2>4
      <4>2. ~ (a < b) /\ ~ (b < a)
        BY <2>5, <3>2, <4>1
      <4> QED BY <4>1, <4>2
    <3> HIDE DEF places
    <3>3. f \in Injection(places, U)
      BY <2>6, <3>2 DEF Injection, IsInjective
    <3> QED BY <3>1, <3>3 DEF Bijection
  <2>10. ExistsBijection(places, U)
    BY <2>9 DEF ExistsBijection
  <2>11. Cardinality(U) = count
    <3> HIDE DEF places
    <3> QED BY <2>8, <2>10, FS_Bijection
  <2>12. 0 \in U /\ last \in U
    BY <2>3, <2>7, <2>8
  <2> QED BY <2>11, <2>12 DEF U
<1> QED BY <1>1, <1>2

\* The frames of an animation that are looked at: as many as the target, its ends among them.
LEMMA SummaryCounts ==
  ASSUME NEW total \in Nat, NEW limit \in Nat \ {0}
  PROVE  LET chosen == calculate_summary_indices(0, total, limit)
         IN  /\ chosen \subseteq 0 .. total - 1
             /\ Cardinality(chosen) = IF total < limit THEN total ELSE limit
             /\ Cardinality(chosen) > 1 => 0 \in chosen /\ total - 1 \in chosen
             /\ chosen = {} <=> total = 0
<1> DEFINE chosen == calculate_summary_indices(0, total, limit)
<1>0. chosen \subseteq 0 .. total - 1
  BY SummaryLies
<1>1. Cardinality(0 .. total - 1) = total
  BY FS_Interval
<1>2. CASE total = 0
  <2>1. chosen = {}
    BY <1>2 DEF calculate_summary_indices
  <2>2. Cardinality(chosen) = 0
    BY <2>1, FS_EmptySet
  <2> QED BY <1>0, <1>2, <2>1, <2>2
<1>3. CASE total # 0 /\ total <= limit
  <2>1. chosen = 0 .. total - 1
    BY <1>3 DEF calculate_summary_indices
  <2>2. 0 \in chosen /\ total - 1 \in chosen
    BY <1>3, <2>1
  <2> HIDE DEF chosen
  <2> QED BY <1>0, <1>1, <1>3, <2>1, <2>2 DEF chosen
<1>4. CASE total # 0 /\ ~ (total <= limit)
  <2>1. chosen = Linspace(0, total - 1, limit)
    BY <1>4 DEF calculate_summary_indices
  <2>2. total - 1 \in Nat /\ limit <= (total - 1) + 1
    BY <1>4
  <2>3. Cardinality(chosen) = limit /\ (limit # 1 => 0 \in chosen /\ total - 1 \in chosen)
    BY <2>1, <2>2, LinspaceCounts
  <2> HIDE DEF chosen
  <2>4. chosen # {}
    BY <2>3, FS_EmptySet
  <2> QED BY <1>0, <1>4, <2>3, <2>4 DEF chosen
<1> QED BY <1>2, <1>3, <1>4

-----------------------------------------------------------------------------
(* What opening a file promises of its selection *)

\* The plan seq with this status is the one asked for, as in PagesAreTheRequest.
DocumentAsked(seq, status) ==
  /\ ToSet(seq) = First(Wanted, DOCUMENT_MAX_PAGES)
  /\ status = "ok" => ToSet(seq) = Wanted /\ \A part \in file.typed : LastNamed(part) <= Total
AnimationAsked(seq) ==
  /\ ToSet(seq) \subseteq Wanted
  /\ Len(seq) = IF Cardinality(Wanted) < ANIMATION_TARGET_TOTAL_FRAMES
                THEN Cardinality(Wanted) ELSE ANIMATION_TARGET_TOTAL_FRAMES
  /\ Len(seq) > 1 => Min(Wanted) = Head(seq) /\ Max(Wanted) = Last(seq)
PagesAsked(seq, status) ==
  /\ file.kind = "document" => DocumentAsked(seq, status)
  /\ file.kind = "animation" => AnimationAsked(seq)
  /\ status = "skipped" <=> seq = << >>

\* The moment t lies in this typed segment, as in TargetsHaveContent, m mishaps so far.
InSegment(seg, t, m) ==
  /\ seg.start <= t /\ (seg.end # Absent => t <= seg.end)
  /\ m = 0 => t <= Duration(Total)
  /\ m = 0 /\ ~ seg.point /\ seg.start < ContentEnd(Total) => t <= ContentEnd(Total)
MomentsAsked(seq, m) ==
  Film(file) => \A t \in ToSet(seq) : \E seg \in CompileTimes(file.typed) : InSegment(seg, t, m)

\* A document: the first of the pages wanted, and all of them when the range is ok.
LEMMA DocumentOpens ==
  ASSUME file \in Files, OpenDocument
  PROVE  \E S, status : Begin(S, status) /\ PagesAsked(InOrder(S), status) /\ MomentsAsked(InOrder(S), mishaps')
<1> DEFINE asked == calculate_indices(Compile(file.typed), Total)
           I == asked.indices
           kept == First(I, DOCUMENT_MAX_PAGES)
           S == {i + 1 : i \in kept}
           status == IF kept # I /\ asked.status = "ok" THEN "truncated" ELSE asked.status
<1>1. file.kind = "document" /\ ~ Film(file) /\ Begin(S, status)
  BY DEF OpenDocument, Film
<1>2. /\ I \subseteq 0 .. Total - 1 /\ Total \in Nat /\ Wanted = {i + 1 : i \in I}
      /\ I \in SUBSET Int /\ IsFiniteSet(I)
  BY <1>1, WantedTaken
<1>3. S = First(Wanted, DOCUMENT_MAX_PAGES)
  <2> HIDE DEF I
  <2> QED BY <1>2, FirstShifts
<1>4. /\ asked.status = "skipped" <=> I = {}
      /\ asked.status = "ok" =>
           \A seg \in Compile(file.typed) : ~ Outside(seg, Total) /\ ~ Overlong(seg, Total)
  BY StatusTells
<1>5. kept \subseteq I
  BY DEF First
<1>6. I # {} => kept # {}
  <2>1. DOCUMENT_MAX_PAGES \in Nat \ {0}
    BY ConversionAssumption DEF ConversionAssumption
  <2> HIDE DEF I
  <2> QED BY <1>2, <2>1, FirstIsSome
<1>7. S \in SUBSET (1 .. Total) /\ 1 \in Int /\ Total \in Int
  <2>1. \A i \in kept : i + 1 \in 1 .. Total
    BY <1>2, <1>5
  <2> HIDE DEF kept
  <2> QED BY <1>2, <2>1
<1>8. status = "ok" => kept = I /\ asked.status = "ok"
  OBVIOUS
<1>9. status = "skipped" <=> asked.status = "skipped"
  OBVIOUS
<1>10. S = {} <=> I = {}
  <2>1. S = {} <=> kept = {}
    <3> HIDE DEF kept
    <3> QED OBVIOUS
  <2> QED BY <1>5, <1>6, <2>1
<1>11. kept = I => S = Wanted
  <2> HIDE DEF kept, I
  <2> QED BY <1>2
<1>12. asked.status = "ok" => \A part \in file.typed : LastNamed(part) <= Total
  <2> SUFFICES ASSUME asked.status = "ok", NEW part \in file.typed PROVE LastNamed(part) <= Total
    OBVIOUS
  <2> QED BY <1>1, <1>2, <1>4, OkReaches
<1> HIDE DEF status, S, kept, asked
<1>13. ToSet(InOrder(S)) = S /\ (InOrder(S) = << >> <=> S = {})
  BY <1>7, InOrderEnds, InOrderIsRising
<1>14. PagesAsked(InOrder(S), status)
  BY <1>1, <1>3, <1>4, <1>8, <1>9, <1>10, <1>11, <1>12, <1>13 DEF PagesAsked, DocumentAsked
<1>15. MomentsAsked(InOrder(S), mishaps')
  BY <1>1 DEF MomentsAsked
<1> QED BY <1>1, <1>14, <1>15

\* An image: whatever pictures are taken, none are exactly when the range is skipped.
LEMMA ImageOpens ==
  ASSUME file \in Files, OpenImage
  PROVE  \E S, status : Begin(S, status) /\ PagesAsked(InOrder(S), status) /\ MomentsAsked(InOrder(S), mishaps')
<1> DEFINE total == IF file.mpo THEN 1 ELSE Total
           asked == IF total = 1 THEN [indices |-> {0}, status |-> "ok"]
                    ELSE calculate_indices(Compile(file.typed), total)
           S == {i + 1 : i \in asked.indices}
<1>1. file.kind = "image" /\ ~ Film(file) /\ Begin(S, asked.status)
  BY DEF OpenImage, Film
<1>2. asked.status = "skipped" <=> asked.indices = {}
  <2>1. CASE total = 1
    BY <2>1
  <2>2. CASE total # 1
    BY <2>2, StatusTells
  <2> QED BY <2>1, <2>2
<1>3. S = {} <=> asked.indices = {}
  <2> HIDE DEF asked
  <2> QED OBVIOUS
<1>4. InOrder(S) = << >> <=> S = {}
  <2>1. asked.indices \subseteq 0 .. Total - 1 /\ Total \in Int
    <3>1. Total \in Nat /\ Total > 0
      BY AFile DEF Total, OpenImage
    <3>2. CASE total = 1
      BY <3>1, <3>2
    <3>3. CASE total # 1
      <4>1. total = Total
        BY <3>3
      <4>2. calculate_indices(Compile(file.typed), Total).indices \subseteq 0 .. Total - 1
        BY <1>1, WantedTaken
      <4>3. asked = calculate_indices(Compile(file.typed), Total)
        BY <3>3, <4>1
      <4> QED BY <3>1, <4>2, <4>3
    <3> QED BY <3>1, <3>2, <3>3
  <2> HIDE DEF asked
  <2>2. \A i \in asked.indices : i + 1 \in 1 .. Total
    BY <2>1
  <2>3. S \in SUBSET (1 .. Total) /\ 1 \in Int /\ Total \in Int
    BY <2>1, <2>2
  <2> HIDE DEF S
  <2> QED BY <2>3, InOrderIsRising
<1> HIDE DEF S, asked
<1>5. PagesAsked(InOrder(S), asked.status)
  BY <1>1, <1>2, <1>3, <1>4 DEF PagesAsked
<1>6. MomentsAsked(InOrder(S), mishaps')
  BY <1>1 DEF MomentsAsked
<1> QED BY <1>1, <1>5, <1>6

\* Places of a set in order, seen as the set they pick: as many as there are places.
LEMMA PickedCounts ==
  ASSUME NEW n \in Nat, NEW pool, Rising(pool), DOMAIN pool = 1 .. n, \A i \in 1 .. n : pool[i] \in Int,
         NEW chosen \in SUBSET (0 .. n - 1)
  PROVE  Cardinality({pool[i + 1] + 1 : i \in chosen}) = Cardinality(chosen)
<1> DEFINE U == {pool[i + 1] + 1 : i \in chosen}
           f == [i \in chosen |-> pool[i + 1] + 1]
<1>1. \A i \in chosen : i \in Int /\ i + 1 \in 1 .. n /\ pool[i + 1] \in Int
  <2>1. \A i \in chosen : i \in 0 .. n - 1
    OBVIOUS
  <2>2. \A i \in chosen : i \in Int /\ i + 1 \in 1 .. n
    BY <2>1
  <2> QED BY <2>2
<1>2. f \in [chosen -> U] /\ \A i \in chosen : f[i] = pool[i + 1] + 1
  OBVIOUS
<1>3. \A u \in U : \E i \in chosen : f[i] = u
  OBVIOUS
<1>4. IsFiniteSet(chosen)
  <2>1. IsFiniteSet(0 .. n - 1)
    BY FS_Interval
  <2> QED BY <2>1, FS_Subset
<1> HIDE DEF U, f
<1>5. ASSUME NEW a \in chosen, NEW b \in chosen, a < b PROVE f[a] # f[b]
  <2>1. a + 1 < b + 1 /\ a + 1 \in DOMAIN pool /\ b + 1 \in DOMAIN pool
    BY <1>1, <1>5
  <2>2. pool[a + 1] < pool[b + 1]
    BY <2>1 DEF Rising
  <2>3. pool[a + 1] + 1 # pool[b + 1] + 1
    BY <1>1, <2>2
  <2> QED BY <1>2, <2>3
<1>6. ASSUME NEW a \in chosen, NEW b \in chosen, f[a] = f[b] PROVE a = b
  <2>1. a \in Int /\ b \in Int
    BY <1>1
  <2>2. ~ (a < b) /\ ~ (b < a)
    BY <1>5, <1>6
  <2> QED BY <2>1, <2>2
<1>7. f \in Surjection(chosen, U)
  BY <1>2, <1>3 DEF Surjection
<1>8. f \in Injection(chosen, U)
  BY <1>2, <1>6 DEF Injection, IsInjective
<1>9. f \in Bijection(chosen, U)
  BY <1>7, <1>8 DEF Bijection
<1>10. ExistsBijection(chosen, U)
  BY <1>9 DEF ExistsBijection
<1>11. Cardinality(U) = Cardinality(chosen)
  BY <1>4, <1>10, FS_Bijection
<1> QED BY <1>11 DEF U

\* An animation: evenly from the first frame wanted to the last.
LEMMA AnimationOpens ==
  ASSUME file \in Files, OpenAnimation
  PROVE  \E S, status : Begin(S, status) /\ PagesAsked(InOrder(S), status) /\ MomentsAsked(InOrder(S), mishaps')
<1> DEFINE asked == calculate_indices(Compile(file.typed), Total)
           I == asked.indices
           pool == InOrder(I)
           n == Len(pool)
           chosen == calculate_summary_indices(0, n, ANIMATION_TARGET_TOTAL_FRAMES)
           S == {pool[i + 1] + 1 : i \in chosen}
           T == InOrder(S)
<1>1. file.kind = "animation" /\ ~ Film(file) /\ Begin(S, asked.status)
  BY DEF OpenAnimation, Film
<1>2. /\ I \subseteq 0 .. Total - 1 /\ Total \in Nat /\ Wanted = {i + 1 : i \in I}
      /\ I \in SUBSET Int /\ IsFiniteSet(I)
  BY <1>1, WantedTaken
<1>3. asked.status = "skipped" <=> I = {}
  BY StatusTells
<1> HIDE DEF asked, I
<1>4. I \in SUBSET (0 .. Total - 1) /\ 0 \in Int /\ Total - 1 \in Int
  BY <1>2
<1>5. /\ ToSet(pool) = I
      /\ I # {} => /\ Head(pool) \in I /\ \A x \in I : Head(pool) <= x
                   /\ Last(pool) \in I /\ \A x \in I : x <= Last(pool)
  BY <1>4, InOrderEnds
<1>6. /\ pool \in Seq(Int) /\ Rising(pool) /\ n = Cardinality(I) /\ n \in Nat
      /\ \A i \in DOMAIN pool : pool[i] \in I
      /\ pool = << >> <=> I = {}
  BY <1>4, InOrderIsRising
<1> HIDE DEF pool
<1>7. DOMAIN pool = 1 .. n /\ (I # {} => n # 0 /\ Head(pool) = pool[1] /\ Last(pool) = pool[n])
  BY <1>6 DEF Last
<1>8. Cardinality(Wanted) = n
  BY <1>2, <1>6, ShiftCounts
<1>9. ANIMATION_TARGET_TOTAL_FRAMES \in Nat \ {0}
  BY ConversionAssumption DEF ConversionAssumption
<1> HIDE DEF n
<1>10. /\ chosen \subseteq 0 .. n - 1
       /\ Cardinality(chosen) = IF n < ANIMATION_TARGET_TOTAL_FRAMES THEN n ELSE ANIMATION_TARGET_TOTAL_FRAMES
       /\ Cardinality(chosen) > 1 => 0 \in chosen /\ n - 1 \in chosen
       /\ chosen = {} <=> n = 0
  BY <1>6, <1>9, SummaryCounts
<1> HIDE DEF chosen
<1>11. \A i \in chosen : i + 1 \in 1 .. n /\ pool[i + 1] \in I
  <2>1. \A i \in chosen : i + 1 \in 1 .. n
    BY <1>6, <1>10
  <2> QED BY <1>6, <1>7, <2>1
<1>12. Cardinality(S) = Cardinality(chosen)
  <2>1. \A i \in 1 .. n : pool[i] \in Int
    BY <1>6, <1>7
  <2>2. chosen \in SUBSET (0 .. n - 1)
    BY <1>10
  <2>3. n \in Nat /\ Rising(pool) /\ DOMAIN pool = 1 .. n
    BY <1>6, <1>7
  <2> QED BY <2>1, <2>2, <2>3, PickedCounts
<1>13. S \subseteq Wanted
  BY <1>2, <1>11
<1>14. Wanted \in SUBSET (1 .. Total) /\ 1 \in Int /\ Total \in Int
  BY <1>2
<1>15. S = {} <=> chosen = {}
  OBVIOUS
<1>16. 0 \in chosen => pool[1] + 1 \in S
  <2>1. 0 \in chosen => pool[0 + 1] + 1 \in S
    OBVIOUS
  <2> QED BY <2>1
<1>17. n - 1 \in chosen => pool[n] + 1 \in S
  <2>1. n - 1 \in chosen => pool[(n - 1) + 1] + 1 \in S
    OBVIOUS
  <2>2. (n - 1) + 1 = n
    BY <1>6
  <2> QED BY <2>1, <2>2
<1> HIDE DEF S
<1>18. S \in SUBSET (1 .. Total)
  BY <1>13, <1>14
<1>19. /\ ToSet(T) = S
       /\ S # {} => /\ Head(T) \in S /\ \A x \in S : Head(T) <= x
                    /\ Last(T) \in S /\ \A x \in S : x <= Last(T)
  BY <1>14, <1>18, InOrderEnds
<1>20. Len(T) = Cardinality(S) /\ (T = << >> <=> S = {})
  BY <1>14, <1>18, InOrderIsRising
<1> HIDE DEF T
<1>21. ASSUME Len(T) > 1 PROVE Min(Wanted) = Head(T) /\ Max(Wanted) = Last(T)
  <2>1. 0 \in chosen /\ n - 1 \in chosen
    BY <1>10, <1>12, <1>20, <1>21
  <2>2. pool[1] + 1 \in S /\ pool[n] + 1 \in S
    BY <1>16, <1>17, <2>1
  <2>3. S # {} /\ Wanted # {} /\ I # {}
    BY <1>2, <1>13, <2>2
  <2>4. /\ Min(Wanted) \in Wanted /\ \A y \in Wanted : Min(Wanted) <= y
        /\ Max(Wanted) \in Wanted /\ \A y \in Wanted : Max(Wanted) >= y
    BY <1>2, <1>14, <2>3, MinMax
  <2>5. Head(T) \in Wanted /\ Last(T) \in Wanted /\ Head(T) <= pool[1] + 1 /\ pool[n] + 1 <= Last(T)
    BY <1>13, <1>19, <2>2, <2>3
  <2>6. \A x \in I : pool[1] <= x /\ x <= pool[n]
    BY <1>5, <1>7, <2>3
  <2>7. \A w \in Wanted : w \in Int
    BY <1>14
  <2>8. \A i \in I : i \in Int
    BY <1>2
  <2>9. pool[1] \in Int /\ pool[n] \in Int
    BY <1>5, <1>7, <2>3, <2>8
  <2>10. \A w \in Wanted : pool[1] + 1 <= w /\ w <= pool[n] + 1
    <3> SUFFICES ASSUME NEW w \in Wanted PROVE pool[1] + 1 <= w /\ w <= pool[n] + 1
      OBVIOUS
    <3>1. PICK i \in I : w = i + 1
      BY <1>2
    <3> QED BY <2>6, <2>8, <2>9, <3>1
  <2>11. Min(Wanted) <= Head(T) /\ Head(T) <= Min(Wanted)
    BY <2>4, <2>5, <2>7, <2>9, <2>10
  <2>12. Last(T) <= Max(Wanted) /\ Max(Wanted) <= Last(T)
    BY <2>4, <2>5, <2>7, <2>9, <2>10
  <2>13. Min(Wanted) \in Int /\ Head(T) \in Int /\ Max(Wanted) \in Int /\ Last(T) \in Int
    BY <2>4, <2>5, <2>7
  <2> QED BY <2>11, <2>12, <2>13
<1>22. AnimationAsked(T)
  BY <1>8, <1>10, <1>12, <1>13, <1>19, <1>20, <1>21 DEF AnimationAsked
<1>23. asked.status = "skipped" <=> T = << >>
  BY <1>3, <1>6, <1>7, <1>10, <1>15, <1>20
<1>24. PagesAsked(T, asked.status)
  BY <1>1, <1>22, <1>23 DEF PagesAsked
<1>25. MomentsAsked(T, mishaps')
  BY <1>1 DEF MomentsAsked
<1> QED BY <1>1, <1>24, <1>25 DEF T

\* A typed part of a video is a segment that starts in the video's own time.
LEMMA ATimeSegment ==
  ASSUME NEW f \in Files, NEW seg \in CompileTimes(f.typed)
  PROVE  /\ seg.start \in Nat /\ seg.end \in Int
         /\ seg.point => seg.end = seg.start
<1>1. CASE f.typed = {}
  <2>1. seg = [start |-> 0, end |-> Absent, point |-> FALSE]
    BY <1>1 DEF CompileTimes
  <2>2. seg.start = 0 /\ seg.end = Absent /\ ~ seg.point
    BY <2>1
  <2> QED BY <2>2 DEF Absent
<1>2. CASE f.typed # {}
  <2>1. PICK part \in f.typed \ {Blank} : seg = TimeSegment(part)
    BY <1>2 DEF CompileTimes
  <2>2. seg.start = (IF part.from = Absent THEN 0 ELSE part.from)
        /\ seg.end = (IF part.dash THEN part.to ELSE part.from)
    BY <2>1 DEF TimeSegment
  <2>3. Typable(part) /\ (part.dash \/ part.from # Absent)
    BY ATypedPart
  <2>4. seg.point => ~ part.dash
    BY <2>1, Zenon DEF TimeSegment
  <2>5. seg.start \in Nat /\ seg.end \in Int
    BY <2>2, <2>3 DEF Typable, Absent
  <2>6. ~ part.dash => seg.end = seg.start
    BY <2>2, <2>3
  <2> QED BY <2>4, <2>5, <2>6
<1> QED BY <1>1, <1>2

\* Every moment taken lies in one of the segments, before its end and the last picture.
LEMMA TimesAsked ==
  ASSUME NEW f \in Files, NEW duration \in Int, NEW content_end \in Int, NEW mode,
         NEW t \in get_target_times(CompileTimes(f.typed), duration, mode, content_end).times
  PROVE  \E seg \in CompileTimes(f.typed) :
           /\ seg.start <= t /\ (seg.end # Absent => t <= seg.end)
           /\ t <= duration
           /\ ~ seg.point /\ seg.start < content_end => t <= content_end
<1>1. PICK seg \in CompileTimes(f.typed) :
        ~ Outside(seg, duration) /\ t \in TimesOf(seg, mode, GenerationEnd(seg, duration, content_end))
  BY DEF get_target_times
<1>2. /\ seg.start \in Nat /\ seg.end \in Int
      /\ seg.point => seg.end = seg.start
  BY ATimeSegment
<1>3. seg.start < duration
  BY <1>1, <1>2 DEF Outside
<1>4. CASE seg.point
  <2>1. t = seg.start
    BY <1>1, <1>4 DEF TimesOf
  <2> QED BY <1>2, <1>3, <1>4, <2>1
<1>5. CASE ~ seg.point
  <2> DEFINE end == GenerationEnd(seg, duration, content_end)
  <2>1. /\ end \in Int /\ end <= duration /\ (seg.end # Absent => end <= seg.end)
        /\ seg.start < content_end /\ seg.start < end => end <= content_end
    BY <1>2, <1>3 DEF GenerationEnd, LastAsked
  <2>2. t \in TimesOf(seg, mode, end)
    BY <1>1
  <2> HIDE DEF end
  <2>3. t \in seg.start .. end
    <3>1. CASE mode = "SUMMARY"
      <4>1. calculate_summary_times(seg.start, end, TARGET_TOTAL_FRAMES) \subseteq seg.start .. end
        BY <1>2, <2>1, LinspaceLies, SamplingAssumption DEF calculate_summary_times, SamplingAssumption
      <4> QED BY <1>5, <2>2, <3>1, <4>1 DEF TimesOf
    <3>2. CASE mode # "SUMMARY"
      <4>1. t \in Sampled(seg, end).times
        BY <1>5, <2>2, <3>2 DEF TimesOf
      <4>2. CASE seg.start < end
        <5>1. Sampled(seg, end).times \subseteq seg.start .. end
          BY <1>2, <2>1, <4>2, SamplesLie, SamplingAssumption DEF Sampled, SamplingAssumption
        <5> QED BY <4>1, <5>1
      <4>3. CASE ~ (seg.start < end)
        <5>1. Sampled(seg, end).times = {}
          BY <1>2, <2>1, <4>3 DEF Sampled, calculate_sampling_times
        <5> QED BY <4>1, <5>1
      <4> QED BY <4>2, <4>3
    <3> QED BY <3>1, <3>2
  <2>4. ~ (seg.start < end) => end = t /\ t = seg.start
    BY <1>2, <2>1, <2>3
  <2> QED BY <1>2, <1>3, <2>1, <2>3, <2>4
<1> QED BY <1>2, <1>4, <1>5

\* A video: moments that it has time for.
LEMMA VideoOpens ==
  ASSUME file \in Files, mishaps \in Nat, OpenVideo
  PROVE  Abort \/ \E S, status : /\ Begin(S, status) /\ PagesAsked(InOrder(S), status)
                                 /\ MomentsAsked(InOrder(S), mishaps')
<1> SUFFICES ASSUME ~ Abort
             PROVE  \E S, status : /\ Begin(S, status) /\ PagesAsked(InOrder(S), status)
                                   /\ MomentsAsked(InOrder(S), mishaps')
  OBVIOUS
<1>1. PICK count \in 0 .. Total :
        /\ ~ Unplayable(count) /\ Begin(Asked(count).times, Asked(count).status)
        /\ IF count = Total THEN UNCHANGED mishaps ELSE Mishap
  BY DEF OpenVideo
<1> DEFINE S == Asked(count).times
           status == Asked(count).status
           T == InOrder(S)
<1>2. Duration(count) \in Int /\ ContentEnd(count) \in Int
  BY <1>1, DurationType DEF OpenVideo, Film
<1>3. S \subseteq 0 .. Duration(count)
  BY <1>2, AFile, TimesLie DEF Asked
<1>4. file.kind = "video" /\ Film(file)
  BY DEF OpenVideo, Film
<1>5. mishaps' = 0 => count = Total
  BY <1>1 DEF Mishap
<1>6. \A t \in S : \E seg \in CompileTimes(file.typed) : InSegment(seg, t, mishaps')
  <2> SUFFICES ASSUME NEW t \in S PROVE \E seg \in CompileTimes(file.typed) : InSegment(seg, t, mishaps')
    OBVIOUS
  <2>1. PICK seg \in CompileTimes(file.typed) :
          /\ seg.start <= t /\ (seg.end # Absent => t <= seg.end)
          /\ t <= Duration(count)
          /\ ~ seg.point /\ seg.start < ContentEnd(count) => t <= ContentEnd(count)
    BY <1>2, TimesAsked DEF Asked
  <2>2. InSegment(seg, t, mishaps')
    BY <1>5, <2>1 DEF InSegment
  <2> QED BY <2>2
<1>7. status = "skipped" <=> S = {}
  BY DEF Asked, get_target_times, RangeStatus
<1>8. Begin(S, status)
  BY <1>1
<1> HIDE DEF S, status
<1>9. S \in SUBSET (0 .. Duration(count)) /\ 0 \in Int /\ Duration(count) \in Int
  BY <1>2, <1>3
<1>10. ToSet(T) = S /\ (T = << >> <=> S = {})
  BY <1>9, InOrderEnds, InOrderIsRising
<1> HIDE DEF T
<1>11. PagesAsked(T, status)
  BY <1>4, <1>7, <1>10 DEF PagesAsked
<1>12. MomentsAsked(T, mishaps')
  BY <1>6, <1>10 DEF MomentsAsked
<1> QED BY <1>8, <1>11, <1>12 DEF T

-----------------------------------------------------------------------------
(* The request through the conversion *)

\* The plan is the one asked for from the moment a file is open, and the range is written from it.
Requested ==
  /\ mishaps \in Nat
  /\ Selected => PagesAsked(targets, range_status) /\ MomentsAsked(targets, mishaps)
  /\ Finished => summary.range = RangeText

\* What was asked for stays as long as the file does.
LEMMA AskedStays ==
  ASSUME UNCHANGED file
  PROVE  /\ PagesAsked(targets, range_status)' <=> PagesAsked(targets', range_status')
         /\ MomentsAsked(targets, mishaps)' <=> MomentsAsked(targets', mishaps')
<1>1. Total' = Total
  BY DEF Total
<1>2. Wanted' = Wanted
  BY <1>1 DEF Wanted
<1>3. PagesAsked(targets, range_status)' <=> PagesAsked(targets', range_status')
  BY <1>1, <1>2 DEF PagesAsked, DocumentAsked, AnimationAsked
<1>4. Duration(Total)' = Duration(Total) /\ ContentEnd(Total)' = ContentEnd(Total)
  <2>1. Packets(Total)' = Packets(Total) /\ Timed(Total)' = Timed(Total) /\ header' = header
    BY <1>1 DEF Packets, Timed, header
  <2> QED BY <1>1, <2>1 DEF Duration, ContentEnd
<1>5. MomentsAsked(targets, mishaps)' <=> MomentsAsked(targets', mishaps')
  BY <1>4 DEF MomentsAsked, InSegment, Film
<1> QED BY <1>3, <1>5

\* Nothing is selected before a file is opened.
LEMMA RequestBegins == ConversionInit => Requested
<1> SUFFICES ASSUME ConversionInit PROVE Requested
  OBVIOUS
<1>1. stage = "open" /\ mishaps = 0
  BY DEF ConversionInit
<1>2. ~ Selected /\ ~ Finished
  BY <1>1 DEF Selected, Finished
<1> QED BY <1>1, <1>2 DEF Requested

\* An abort leaves nothing selected.
LEMMA AbortRequests ==
  ASSUME Abort, mishaps' \in Nat
  PROVE  Requested'
<1>1. stage' = "ended" /\ summary'.claim = "error"
  BY DEF Abort
<1> QED BY <1>1 DEF Requested, Selected, Finished

\* A plan that was asked for is what a conversion begins with.
LEMMA BeginRequests ==
  ASSUME mishaps' \in Nat, NEW S, NEW status, Begin(S, status),
         PagesAsked(InOrder(S), status), MomentsAsked(InOrder(S), mishaps')
  PROVE  Requested'
<1>1. UNCHANGED file /\ targets' = InOrder(S) /\ range_status' = status /\ stage' \in {"pages", "close"}
  BY DEF Begin
<1>2. ~ Finished'
  BY <1>1 DEF Finished
<1>3. PagesAsked(targets', range_status') /\ MomentsAsked(targets', mishaps')
  BY <1>1
<1>4. PagesAsked(targets, range_status)' /\ MomentsAsked(targets, mishaps)'
  BY <1>1, <1>3, AskedStays
<1> QED BY <1>2, <1>4 DEF Requested

\* Every way to open a file gives such a plan, or none.
LEMMA OpeningRequests ==
  ASSUME file \in Files, Requested,
         Rejected \/ OpenFails \/ NoPages \/ OpenDocument \/ OpenImage \/ OpenAnimation \/ OpenVideo
  PROVE  Requested'
<1>1. mishaps \in Nat
  BY DEF Requested
<1>2. mishaps' = mishaps \/ mishaps' = mishaps + 1
  BY DEF Rejected, OpenFails, NoPages, OpenDocument, OpenImage, OpenAnimation, OpenVideo, Mishap
<1>3. mishaps' \in Nat
  BY <1>1, <1>2
<1>4. CASE Abort
  BY <1>3, <1>4, AbortRequests
<1>5. CASE \E S, status : Begin(S, status) /\ PagesAsked(InOrder(S), status) /\ MomentsAsked(InOrder(S), mishaps')
  BY <1>3, <1>5, BeginRequests
<1>6. Rejected \/ OpenFails \/ NoPages => Abort
  BY DEF Rejected, OpenFails, NoPages
<1>7. OpenDocument \/ OpenImage \/ OpenAnimation =>
        \E S, status : Begin(S, status) /\ PagesAsked(InOrder(S), status) /\ MomentsAsked(InOrder(S), mishaps')
  BY DocumentOpens, ImageOpens, AnimationOpens
<1>8. OpenVideo => Abort \/ \E S, status : /\ Begin(S, status) /\ PagesAsked(InOrder(S), status)
                                           /\ MomentsAsked(InOrder(S), mishaps')
  BY <1>1, VideoOpens
<1> QED BY <1>4, <1>5, <1>6, <1>7, <1>8

\* Whatever leaves the plan alone keeps the request.
LEMMA PlanKept ==
  ASSUME Requested, UNCHANGED <<file, plan>>, mishaps' = mishaps \/ mishaps' = mishaps + 1,
         Selected' => Selected, Finished' => summary'.range = RangeText
  PROVE  Requested'
<1>1. UNCHANGED <<file, targets, range_status>>
  BY DEF plan
<1>2. mishaps \in Nat /\ mishaps' \in Nat /\ (mishaps' = 0 => mishaps = 0)
  BY DEF Requested
<1>3. ASSUME Selected PROVE PagesAsked(targets', range_status') /\ MomentsAsked(targets', mishaps')
  <2>1. PagesAsked(targets, range_status) /\ MomentsAsked(targets, mishaps)
    BY <1>3 DEF Requested
  <2>2. \A seg, t : InSegment(seg, t, mishaps) => InSegment(seg, t, mishaps')
    BY <1>2 DEF InSegment
  <2>3. MomentsAsked(targets, mishaps')
    BY <2>1, <2>2 DEF MomentsAsked
  <2> QED BY <1>1, <2>1, <2>3
<1>4. RangeText' = RangeText
  BY <1>1 DEF RangeText
<1>5. Finished' => summary'.range = RangeText'
  BY <1>4
<1>6. Selected' => PagesAsked(targets, range_status)' /\ MomentsAsked(targets, mishaps)'
  BY <1>1, <1>3, AskedStays
<1> QED BY <1>2, <1>5, <1>6 DEF Requested

\* Pages, frames and scenes leave it alone.
LEMMA RowsRequest ==
  ASSUME Requested,
         \/ PageSaved \/ PageFails
         \/ AnimationEndsEarly \/ FrameCorrupt \/ FramePassed \/ FrameStatic \/ FrameSaved \/ FrameFails
         \/ EndOfStream \/ DecoderRejects \/ SceneStatic \/ SceneSaved \/ SceneFails
  PROVE  Requested'
<1>1. ASSUME UNCHANGED <<file, plan>>, mishaps' = mishaps \/ mishaps' = mishaps + 1,
             stage = "pages", stage' \in {"pages", "close"}
      PROVE  Requested'
  <2>1. Selected /\ ~ Finished'
    BY <1>1 DEF Selected, Finished
  <2> QED BY <1>1, <2>1, PlanKept
<1>2. ASSUME NEW last, StepOn(last), stage = "pages"
      PROVE  UNCHANGED <<file, plan>> /\ stage' \in {"pages", "close"}
  BY <1>2 DEF StepOn
<1>3. ASSUME NEW page, Lost(page) PROVE mishaps' = mishaps + 1
  BY <1>3 DEF Lost, Mishap
<1>4. ASSUME NEW page, NEW time, NEW frame, NotSaved(page, time, frame) PROVE mishaps' = mishaps + 1
  BY <1>4 DEF NotSaved, Mishap
<1>5. ASSUME NEW off, MayFallBack(off) PROVE mishaps' = mishaps \/ mishaps' = mishaps + 1
  BY <1>5 DEF MayFallBack, Mishap
<1>6. CASE PageSaved \/ PageFails
  <2>1. StepOn(Len(targets)) /\ stage = "pages"
    BY <1>6 DEF PageSaved, PageFails, Paged
  <2>2. mishaps' = mishaps \/ mishaps' = mishaps + 1
    BY <1>3, <1>4, <1>6 DEF PageSaved, PageFails
  <2> QED BY <1>1, <1>2, <2>1, <2>2
<1>7. CASE AnimationEndsEarly \/ FrameCorrupt
  <2>1. UNCHANGED <<file, plan>> /\ stage = "pages" /\ stage' = "close"
    BY <1>7 DEF AnimationEndsEarly, FrameCorrupt, Decoding
  <2>2. mishaps' = mishaps + 1
    BY <1>3, <1>7 DEF AnimationEndsEarly, FrameCorrupt, Mishap
  <2> QED BY <1>1, <2>1, <2>2
<1>8. CASE FramePassed \/ FrameStatic \/ FrameSaved \/ FrameFails
  <2>1. StepOn(Total) /\ stage = "pages"
    BY <1>8 DEF FramePassed, FrameStatic, FrameSaved, FrameFails, Decoding
  <2>2. mishaps' = mishaps \/ mishaps' = mishaps + 1
    BY <1>3, <1>4, <1>8 DEF FramePassed, FrameStatic, FrameSaved, FrameFails, Static
  <2> QED BY <1>1, <1>2, <2>1, <2>2
<1>9. CASE DecoderRejects
  <2>1. UNCHANGED <<file, plan>> /\ stage = "pages" /\ stage' = "pages" /\ mishaps' = mishaps + 1
    BY <1>9 DEF DecoderRejects, Seeking, Mishap
  <2> QED BY <1>1, <2>1
<1>10. CASE EndOfStream \/ SceneStatic \/ SceneSaved \/ SceneFails
  <2>1. StepOn(Len(targets)) /\ stage = "pages"
    BY <1>10 DEF EndOfStream, SceneStatic, SceneSaved, SceneFails, Seeking
  <2>2. mishaps' = mishaps \/ mishaps' = mishaps + 1
    BY <1>3, <1>4, <1>5, <1>10 DEF EndOfStream, SceneStatic, SceneSaved, SceneFails, Mishap
  <2> QED BY <1>1, <1>2, <2>1, <2>2
<1> QED BY <1>6, <1>7, <1>8, <1>9, <1>10

\* The end of a conversion writes the range of the plan.
LEMMA EndRequests ==
  ASSUME Requested, finalize_results \/ CloseFails \/ Stopped
  PROVE  Requested'
<1>1. CASE finalize_results
  <2>1. /\ stage = "close" /\ UNCHANGED <<file, plan, mishaps>> /\ summary'.range = RangeText
    BY <1>1 DEF finalize_results
  <2>2. Selected
    BY <2>1 DEF Selected
  <2> QED BY <2>1, <2>2, PlanKept
<1>2. CASE CloseFails
  <2>1. Abort /\ mishaps' = mishaps + 1 /\ mishaps \in Nat
    BY <1>2 DEF CloseFails, Mishap, Requested
  <2> QED BY <2>1, AbortRequests
<1>3. CASE Stopped
  <2>1. UNCHANGED <<file, plan, mishaps>> /\ stage' = "stopped"
    BY <1>3 DEF Stopped
  <2>2. ~ Selected' /\ ~ Finished'
    BY <2>1 DEF Selected, Finished
  <2> QED BY <2>1, <2>2, PlanKept
<1> QED BY <1>1, <1>2, <1>3

\* No step loses it.
LEMMA RequestKept ==
  ASSUME file \in Files, Requested, [FileToReportNext]_<<conversionVars, exportVars>>
  PROVE  Requested'
<1>1. CASE UNCHANGED conversionVars
  <2>1. UNCHANGED <<file, plan, mishaps, stage, summary>>
    BY <1>1 DEF conversionVars
  <2>2. (Selected' <=> Selected) /\ (Finished' <=> Finished)
    BY <2>1 DEF Selected, Finished
  <2>3. Finished' => summary'.range = RangeText
    BY <2>1, <2>2 DEF Requested
  <2> QED BY <2>1, <2>2, <2>3, PlanKept
<1>2. CASE ConversionNext
  BY <1>2, OpeningRequests, RowsRequest, EndRequests DEF ConversionNext
<1> QED BY <1>1, <1>2 DEF FileToReportNext

\* The moments of a film are within its written range, which begins and ends with moments.
LEMMA TimesReadBack ==
  ASSUME NEW T \in SUBSET Int, IsFiniteSet(T)
  PROVE  /\ \A t \in T : \E s \in format_time_range(T) : s.from <= t /\ t <= s.to
         /\ \A s \in format_time_range(T) : {s.from, s.to} \subseteq T
<1> DEFINE gaps == {p[2] - p[1] : p \in {q \in T \X T : q[1] < q[2]}}
           step == IF Cardinality(T) < 2 THEN 1 ELSE Min(gaps)
<1>1. format_time_range(T) = Joined(step, T)
  BY DEF format_time_range
<1>2. step \in Nat \ {0} /\ \A x, y \in T : x < y => x + step <= y
  <2>1. CASE Cardinality(T) < 2
    <3>1. \A x \in T : x \in Int
      OBVIOUS
    <3>2. step = 1
      BY <2>1
    <3> HIDE DEF step
    <3> QED BY <3>1, <3>2
  <2>2. CASE ~ (Cardinality(T) < 2)
    <3>1. Min(gaps) \in Nat \ {0} /\ \A x, y \in T : x < y => x + Min(gaps) <= y
      BY <2>2, ClosestTwo
    <3>2. step = Min(gaps)
      BY <2>2
    <3> HIDE DEF step, gaps
    <3> QED BY <3>1, <3>2
  <2> QED BY <2>1, <2>2
<1> HIDE DEF step
<1>3. \A t \in T : \E s \in Joined(step, T) : s.from <= t /\ t <= s.to
  BY <1>2, SpansCover
<1>4. \A s \in Joined(step, T) : s.from \in T /\ s.to \in T
  BY SpansLie
<1> QED BY <1>1, <1>3, <1>4

\* The written pages, typed again, select themselves.
LEMMA PagesReadBack ==
  ASSUME NEW total \in Nat, NEW T \in SUBSET (1 .. total), T # {}
  PROVE  {i + 1 : i \in calculate_indices(Compile(Retyped(Joined(1, T))), total).indices} = T
<1> DEFINE spans == Joined(1, T)
           typed == Retyped(spans)
           indices == calculate_indices(Compile(typed), total).indices
<1>1. T \in SUBSET Int /\ IsFiniteSet(T)
  <2>1. \A x \in T : x \in Int
    OBVIOUS
  <2>2. IsFiniteSet(1 .. total)
    BY FS_Interval
  <2> QED BY <2>1, <2>2, FS_Subset
<1>2. \A t \in T : \E s \in spans : s.from <= t /\ t <= s.to
  <2>1. 1 \in Nat \ {0} /\ \A x, y \in T : x < y => x + 1 <= y
    BY <1>1
  <2> QED BY <1>1, <2>1, SpansCover
<1>3. ASSUME NEW s \in spans
      PROVE  s.from \in T /\ s.to \in T /\ s.from <= s.to /\ \A n \in s.from .. s.to : n \in T
  BY <1>1, SpansLie
<1> HIDE DEF spans
<1>4. typed = {[from |-> s.from, to |-> s.to, dash |-> s.from # s.to] : s \in spans}
  BY DEF Retyped
<1> HIDE DEF typed
<1>5. ASSUME NEW s \in spans, NEW i \in Int
      PROVE  LET part == [from |-> s.from, to |-> s.to, dash |-> s.from # s.to]
             IN  /\ part # Blank
                 /\ i \in Covered(Segment(part), total) <=> s.from <= i + 1 /\ i + 1 <= s.to
  <2> DEFINE part == [from |-> s.from, to |-> s.to, dash |-> s.from # s.to]
  <2>1. s.from \in 1 .. total /\ s.to \in 1 .. total /\ s.from <= s.to
    BY <1>3
  <2>2. part.from = s.from /\ part.to = s.to /\ (part.dash <=> s.from # s.to) /\ part.dash \in BOOLEAN
    OBVIOUS
  <2> HIDE DEF part
  <2>3. Typable(part)
    BY <2>1, <2>2 DEF Typable
  <2>4. part.from # Absent /\ part.to # Absent
    BY <2>1, <2>2 DEF Absent
  <2>5. ~ Refused(part)
    <3>1. Segment(part).start = part.from - 1
          /\ Segment(part).end = (IF part.dash THEN part.to ELSE part.from)
      BY <2>4 DEF Segment
    <3>2. Segment(part).end = s.to
      BY <2>1, <2>2, <3>1
    <3> QED BY <2>1, <2>2, <3>1, <3>2 DEF Refused
  <2>6. i \in Covered(Segment(part), total) <=> i \in 0 .. total - 1 /\ Wants(part, i + 1)
    BY <2>3, <2>4, <2>5, PartCovers
  <2>7. Wants(part, i + 1) <=> s.from <= i + 1 /\ i + 1 <= s.to
    BY <2>1, <2>2, <2>4 DEF Wants
  <2>8. part # Blank
    BY <2>4 DEF Blank
  <2>9. i \in Covered(Segment(part), total) <=> s.from <= i + 1 /\ i + 1 <= s.to
    BY <2>1, <2>6, <2>7
  <2> QED BY <2>8, <2>9 DEF part
<1>6. typed # {} /\ Blank \notin typed
  <2>1. spans # {}
    BY <1>2
  <2>2. \A s \in spans : [from |-> s.from, to |-> s.to, dash |-> s.from # s.to] # Blank
    <3> SUFFICES ASSUME NEW s \in spans
                 PROVE  [from |-> s.from, to |-> s.to, dash |-> s.from # s.to] # Blank
      OBVIOUS
    <3>1. 0 \in Int
      OBVIOUS
    <3> QED BY <1>5, <3>1
  <2> QED BY <1>4, <2>1, <2>2
<1>7. Compile(typed) = {Segment(part) : part \in typed}
  <2>1. typed \ {Blank} = typed
    BY <1>6
  <2> QED BY <1>6, <2>1 DEF Compile
<1>8. ASSUME NEW i \in Int PROVE i \in indices <=> i + 1 \in T
  <2>1. i \in indices <=> \E seg \in Compile(typed) : i \in Covered(seg, total)
    BY DEF calculate_indices
  <2>2. i \in indices <=> \E part \in typed : i \in Covered(Segment(part), total)
    BY <1>7, <2>1
  <2>3. i \in indices <=> \E s \in spans :
          i \in Covered(Segment([from |-> s.from, to |-> s.to, dash |-> s.from # s.to]), total)
    BY <1>4, <2>2
  <2>4. i \in indices <=> \E s \in spans : s.from <= i + 1 /\ i + 1 <= s.to
    <3> HIDE DEF indices
    <3> QED BY <1>5, <2>3
  <2>5. ASSUME NEW s \in spans, s.from <= i + 1, i + 1 <= s.to PROVE i + 1 \in T
    <3>1. s.from \in Int /\ s.to \in Int
      BY <1>1, <1>3
    <3>2. i + 1 \in s.from .. s.to
      BY <2>5, <3>1
    <3> QED BY <1>3, <3>2
  <2> HIDE DEF indices
  <2> QED BY <1>2, <2>4, <2>5
<1>9. \A i \in indices : i \in Int
  <2>1. ASSUME NEW i \in indices PROVE i \in Int
    <3>1. PICK part \in typed : i \in Covered(Segment(part), total)
      BY <1>7 DEF calculate_indices
    <3>2. PICK s \in spans : part = [from |-> s.from, to |-> s.to, dash |-> s.from # s.to]
      BY <1>4
    <3>3. s.from \in 1 .. total
      BY <1>3
    <3>4. Segment(part).start = s.from - 1
      BY <3>2, <3>3 DEF Segment, Absent
    <3> QED BY <3>1, <3>3, <3>4 DEF Covered
  <2> QED BY <2>1
<1> HIDE DEF indices
<1>10. {i + 1 : i \in indices} = T
  <2>1. ASSUME NEW i \in indices PROVE i + 1 \in T
    BY <1>8, <1>9
  <2>2. ASSUME NEW t \in T PROVE \E i \in indices : t = i + 1
    <3>1. t \in Int /\ t - 1 \in Int /\ t = (t - 1) + 1
      BY <1>1
    <3>2. t - 1 \in indices
      BY <1>8, <3>1
    <3> QED BY <3>1, <3>2
  <2> QED BY <2>1, <2>2
<1> QED BY <1>10 DEF indices, typed, spans

\* So the recorded range reads back.
LEMMA RangeHolds == ConversionInv /\ Requested => RangeTextReadsBack
<1> SUFFICES ASSUME ConversionInv, Requested, Finished PROVE RangeTextReadsBack
  BY DEF RangeTextReadsBack
<1>1. PlanOK(file, targets) /\ file \in Files
  BY DEF ConversionInv
<1>2. summary.range = RangeText
  BY DEF Requested
<1> DEFINE T == ToSet(targets)
<1>3. targets \in Seq(Int)
  BY <1>1 DEF PlanOK
<1>4. T \in SUBSET Int /\ IsFiniteSet(T)
  <2> DEFINE d == 1 .. Len(targets)
             f == [i \in d |-> targets[i]]
  <2>1. Len(targets) \in Nat /\ DOMAIN targets = d /\ \A i \in d : targets[i] \in Int
    BY <1>3
  <2>2. T = {targets[i] : i \in d}
    BY <2>1 DEF ToSet
  <2>3. f \in Surjection(d, T)
    BY <2>2 DEF Surjection
  <2>4. IsFiniteSet(d)
    BY <2>1, FS_Interval
  <2> HIDE DEF f, d, T
  <2> QED BY <2>1, <2>2, <2>3, <2>4, FS_Surjection
<1>5. CASE file.kind = "video"
  <2>1. summary.range = format_time_range(T)
    BY <1>2, <1>5 DEF RangeText
  <2> HIDE DEF T
  <2>2. /\ \A t \in T : \E s \in summary.range : s.from <= t /\ t <= s.to
        /\ \A s \in summary.range : {s.from, s.to} \subseteq T
    BY <1>4, <2>1, TimesReadBack
  <2> QED BY <1>5, <2>2 DEF RangeTextReadsBack, T
<1>6. CASE file.kind # "video" /\ targets # << >>
  <2>1. Total \in Nat /\ Shots(file) = 1 .. Total
    BY <1>1, AFile DEF Total
  <2>2. T \in SUBSET (1 .. Total)
    <3>1. \A i \in DOMAIN targets : targets[i] \in 1 .. Total
      BY <1>1, <1>6, <2>1 DEF PlanOK, Film
    <3> QED BY <3>1 DEF ToSet
  <2>3. T # {}
    <3>1. 1 \in DOMAIN targets
      BY <1>3, <1>6
    <3> QED BY <3>1 DEF ToSet
  <2>4. summary.range = Joined(1, {i + 1 : i \in {page - 1 : page \in T}})
    BY <1>2, <1>6 DEF RangeText, format_range_string
  <2> HIDE DEF T
  <2>5. {i + 1 : i \in {page - 1 : page \in T}} = T
    <3>1. \A page \in T : page \in Int /\ (page - 1) + 1 = page
      BY <1>4
    <3> QED BY <3>1
  <2>6. {i + 1 : i \in calculate_indices(Compile(Retyped(summary.range)), Total).indices} = T
    BY <2>1, <2>2, <2>3, <2>4, <2>5, PagesReadBack
  <2> QED BY <1>6, <2>6 DEF RangeTextReadsBack, T
<1>7. CASE file.kind # "video" /\ targets = << >>
  BY <1>7 DEF RangeTextReadsBack
<1> QED BY <1>5, <1>6, <1>7

\* And the selection is the request.
LEMMA RequestHolds == ConversionInv /\ Requested => SelectionIsTheRequest
<1> SUFFICES ASSUME ConversionInv, Requested PROVE SelectionIsTheRequest
  OBVIOUS
<1>1. PagesAreTheRequest
  BY DEF Requested, PagesAreTheRequest, PagesAsked, DocumentAsked, AnimationAsked
<1>2. TargetsHaveContent
  BY DEF Requested, TargetsHaveContent, MomentsAsked, InSegment, Film
<1>3. RangeTextReadsBack
  BY RangeHolds
<1> QED BY <1>1, <1>2, <1>3 DEF SelectionIsTheRequest

\* The plan of a conversion is what was typed, for any ranges, files and limits: a document's first
\* pages, an animation's from the first frame wanted to the last, moments for which a video has
\* pictures; a range reported as ok left nothing out; and the range that finalize_results records
\* reads back as the pages or moments that were taken (range_parsers.py).
THEOREM SelectionRequested == FileToReportSpec => []SelectionIsTheRequest
<1>1. FileToReportInit => Requested
  BY RequestBegins DEF FileToReportInit
<1>2. ConversionInv /\ Requested /\ [FileToReportNext]_<<conversionVars, exportVars>> => Requested'
  BY RequestKept DEF ConversionInv
<1>3. ConversionInv /\ Requested => SelectionIsTheRequest
  BY RequestHolds
<1> QED BY <1>1, <1>2, <1>3, ConversionInvariance, PTL DEF FileToReportSpec

-----------------------------------------------------------------------------
(* What the sheets take                                                    *)

\* What a sheet has taken of so many rows: all but the last it has room for, which waits.
TakenSoFar(n) ==
  IF n < EXCEL_MAX_ROWS THEN [shown |-> n, kept |-> n, marked |-> FALSE]
  ELSE IF n = EXCEL_MAX_ROWS
  THEN [shown |-> EXCEL_MAX_ROWS - 1, kept |-> EXCEL_MAX_ROWS - 1, marked |-> FALSE]
  ELSE [shown |-> EXCEL_MAX_ROWS - 1, kept |-> EXCEL_MAX_ROWS - 1, marked |-> TRUE]

\* The rows of a sheet and the omitted ones are all rows, and the mark has room.
LEMMA SheetTells ==
  ASSUME NEW total \in Nat
  PROVE  Sheet(total) =
           IF total <= EXCEL_MAX_ROWS
           THEN [shown |-> total, marked |-> FALSE, omitted |-> 0]
           ELSE [shown |-> EXCEL_MAX_ROWS - 1, marked |-> TRUE,
                 omitted |-> total - (EXCEL_MAX_ROWS - 1)]
<1> DEFINE Take(s, n) ==
             CASE n < EXCEL_MAX_ROWS -> [shown |-> s.shown + 1, kept |-> s.kept + 1, marked |-> s.marked]
               [] n = EXCEL_MAX_ROWS + 1 -> [s EXCEPT !.marked = TRUE]
               [] OTHER -> s
           start == [shown |-> 0, kept |-> 0, marked |-> FALSE]
           taken[n \in Nat] == IF n = 0 THEN start ELSE Take(taken[n - 1], n)
           end == taken[total]
<1>0. EXCEL_MAX_ROWS \in Nat /\ EXCEL_MAX_ROWS > 0
  BY RowsAssumption
<1>1. Sheet(total) =
        [shown   |-> IF total = EXCEL_MAX_ROWS THEN end.shown + 1 ELSE end.shown,
         marked  |-> end.marked,
         omitted |-> IF total > EXCEL_MAX_ROWS THEN total - end.kept ELSE 0]
  BY DEF Sheet
<1>2. TakenSoFar(0) = start
  <2>1. 0 < EXCEL_MAX_ROWS
    BY <1>0
  <2> QED BY <2>1 DEF TakenSoFar
<1>3. ASSUME NEW n \in Nat PROVE Take(TakenSoFar(n), n + 1) = TakenSoFar(n + 1)
  <2>1. CASE n + 1 < EXCEL_MAX_ROWS
    <3>1. n < EXCEL_MAX_ROWS
      BY <1>0, <2>1
    <3>2. TakenSoFar(n) = [shown |-> n, kept |-> n, marked |-> FALSE]
      BY <3>1 DEF TakenSoFar
    <3>3. TakenSoFar(n + 1) = [shown |-> n + 1, kept |-> n + 1, marked |-> FALSE]
      BY <2>1 DEF TakenSoFar
    <3>4. Take([shown |-> n, kept |-> n, marked |-> FALSE], n + 1)
            = [shown |-> n + 1, kept |-> n + 1, marked |-> FALSE]
      <4> DEFINE s == [shown |-> n, kept |-> n, marked |-> FALSE]
      <4>1. s.shown = n /\ s.kept = n
        OBVIOUS
      <4>2. s.marked = FALSE
        BY Zenon
      <4>3. Take(s, n + 1) = [shown |-> s.shown + 1, kept |-> s.kept + 1, marked |-> s.marked]
        <5>1. n + 1 # EXCEL_MAX_ROWS + 1
          BY <1>0, <2>1
        <5> HIDE DEF s
        <5> QED BY <2>1, <5>1, Zenon
      <4> HIDE DEF Take, s
      <4>4. Take(s, n + 1) = [shown |-> n + 1, kept |-> n + 1, marked |-> FALSE]
        BY <4>1, <4>2, <4>3, Zenon
      <4> QED BY <4>4 DEF s
    <3> HIDE DEF Take
    <3> QED BY <3>2, <3>3, <3>4
  <2>2. CASE n + 1 = EXCEL_MAX_ROWS
    <3>1. n < EXCEL_MAX_ROWS /\ ~ (n + 1 < EXCEL_MAX_ROWS) /\ n + 1 # EXCEL_MAX_ROWS + 1
          /\ n = EXCEL_MAX_ROWS - 1
      BY <1>0, <2>2
    <3>2. TakenSoFar(n) = [shown |-> EXCEL_MAX_ROWS - 1, kept |-> EXCEL_MAX_ROWS - 1, marked |-> FALSE]
      BY <3>1 DEF TakenSoFar
    <3>3. TakenSoFar(n + 1) = TakenSoFar(n)
      BY <2>2, <3>1, <3>2 DEF TakenSoFar
    <3>4. Take(TakenSoFar(n), n + 1) = TakenSoFar(n)
      BY <3>1
    <3> QED BY <3>3, <3>4
  <2>3. CASE n = EXCEL_MAX_ROWS
    <3>1. n + 1 = EXCEL_MAX_ROWS + 1 /\ ~ (n < EXCEL_MAX_ROWS) /\ ~ (n + 1 < EXCEL_MAX_ROWS)
          /\ n + 1 # EXCEL_MAX_ROWS
      BY <1>0, <2>3
    <3>2. TakenSoFar(n) = [shown |-> EXCEL_MAX_ROWS - 1, kept |-> EXCEL_MAX_ROWS - 1, marked |-> FALSE]
      BY <2>3, <3>1 DEF TakenSoFar
    <3>3. TakenSoFar(n + 1) = [shown |-> EXCEL_MAX_ROWS - 1, kept |-> EXCEL_MAX_ROWS - 1, marked |-> TRUE]
      BY <3>1 DEF TakenSoFar
    <3>4. Take([shown |-> EXCEL_MAX_ROWS - 1, kept |-> EXCEL_MAX_ROWS - 1, marked |-> FALSE], n + 1)
            = [shown |-> EXCEL_MAX_ROWS - 1, kept |-> EXCEL_MAX_ROWS - 1, marked |-> TRUE]
      BY <3>1
    <3> HIDE DEF Take
    <3> QED BY <3>2, <3>3, <3>4
  <2>4. CASE n > EXCEL_MAX_ROWS
    <3>1. ~ (n < EXCEL_MAX_ROWS) /\ ~ (n + 1 < EXCEL_MAX_ROWS) /\ n # EXCEL_MAX_ROWS
          /\ n + 1 # EXCEL_MAX_ROWS /\ n + 1 # EXCEL_MAX_ROWS + 1
      BY <1>0, <2>4
    <3>2. TakenSoFar(n + 1) = TakenSoFar(n)
      BY <3>1 DEF TakenSoFar
    <3>3. Take(TakenSoFar(n), n + 1) = TakenSoFar(n)
      BY <3>1
    <3> QED BY <3>2, <3>3
  <2>5. n + 1 < EXCEL_MAX_ROWS \/ n + 1 = EXCEL_MAX_ROWS \/ n = EXCEL_MAX_ROWS \/ n > EXCEL_MAX_ROWS
    BY <1>0
  <2> QED BY <2>1, <2>2, <2>3, <2>4, <2>5
<1> DEFINE closed == [n \in Nat |-> TakenSoFar(n)]
<1>4. closed = [n \in Nat |-> IF n = 0 THEN start ELSE Take(closed[n - 1], n)]
  <2>1. ASSUME NEW n \in Nat PROVE TakenSoFar(n) = IF n = 0 THEN start ELSE Take(closed[n - 1], n)
    <3>1. CASE n = 0
      BY <1>2, <3>1
    <3>2. CASE n # 0
      <4>1. n - 1 \in Nat /\ (n - 1) + 1 = n
        BY <3>2
      <4>2. closed[n - 1] = TakenSoFar(n - 1)
        BY <4>1
      <4>3. Take(TakenSoFar(n - 1), (n - 1) + 1) = TakenSoFar((n - 1) + 1)
        BY <1>3, <4>1
      <4> HIDE DEF Take, closed
      <4> QED BY <3>2, <4>1, <4>2, <4>3
    <3> QED BY <3>1, <3>2
  <2> QED BY <2>1
<1>5. taken = [n \in Nat |-> IF n = 0 THEN start ELSE Take(taken[n - 1], n)]
  <2> HIDE DEF Take, start
  <2> QED BY <1>4
<1> HIDE DEF taken, Take, start
<1>6. taken[0] = TakenSoFar(0)
  BY <1>2, <1>5
<1>7. ASSUME NEW n \in Nat, taken[n] = TakenSoFar(n) PROVE taken[n + 1] = TakenSoFar(n + 1)
  <2>1. n + 1 \in Nat /\ n + 1 # 0 /\ (n + 1) - 1 = n
    OBVIOUS
  <2>2. taken[n + 1] = Take(taken[(n + 1) - 1], n + 1)
    BY <1>5, <2>1
  <2> QED BY <1>3, <1>7, <2>1, <2>2
<1> DEFINE T == {n \in Nat : taken[n] = TakenSoFar(n)}
<1>8. 0 \in T /\ \A n \in Nat : n \in T => n + 1 \in T
  BY <1>6, <1>7
<1>9. total \in T
  <2> HIDE DEF T
  <2> QED BY <1>8, Induction
<1>10. end = TakenSoFar(total)
  BY <1>9
<1> HIDE DEF end
<1>11. CASE total < EXCEL_MAX_ROWS
  <2>1. total <= EXCEL_MAX_ROWS /\ total # EXCEL_MAX_ROWS /\ ~ (total > EXCEL_MAX_ROWS)
    BY <1>0, <1>11
  <2> QED BY <1>1, <1>10, <1>11, <2>1 DEF TakenSoFar
<1>12. CASE total = EXCEL_MAX_ROWS
  <2>1. total <= EXCEL_MAX_ROWS /\ ~ (total < EXCEL_MAX_ROWS) /\ ~ (total > EXCEL_MAX_ROWS)
    BY <1>0, <1>12
  <2>2. end.shown + 1 = total /\ end.marked = FALSE
    <3>1. end.shown = EXCEL_MAX_ROWS - 1 /\ end.marked = FALSE
      BY <1>10, <1>12, <2>1 DEF TakenSoFar
    <3> QED BY <1>0, <1>12, <3>1
  <2> QED BY <1>1, <1>12, <2>1, <2>2
<1>13. CASE total > EXCEL_MAX_ROWS
  <2>1. ~ (total <= EXCEL_MAX_ROWS) /\ ~ (total < EXCEL_MAX_ROWS) /\ total # EXCEL_MAX_ROWS
    BY <1>0, <1>13
  <2> QED BY <1>1, <1>10, <1>13, <2>1 DEF TakenSoFar
<1>14. total < EXCEL_MAX_ROWS \/ total = EXCEL_MAX_ROWS \/ total > EXCEL_MAX_ROWS
  BY <1>0
<1> QED BY <1>11, <1>12, <1>13, <1>14

-----------------------------------------------------------------------------
(* Tables                                                                  *)

\* A list of records, as a table of the database is read.
Table(t) == \E n \in Nat : DOMAIN t = 1 .. n /\ t = [i \in 1 .. n |-> t[i]]

\* A table has a length, and finitely many places.
LEMMA TableCounts ==
  ASSUME NEW t, Table(t)
  PROVE  Len(t) \in Nat /\ DOMAIN t = 1 .. Len(t) /\ IsFiniteSet(DOMAIN t)
<1>1. PICK n \in Nat : DOMAIN t = 1 .. n /\ t = [i \in 1 .. n |-> t[i]]
  BY DEF Table
<1>2. Len(t) = n
  BY <1>1
<1>3. IsFiniteSet(1 .. n)
  BY FS_Interval
<1> QED BY <1>1, <1>2, <1>3

\* A sequence is a table.
LEMMA SequenceIsTable ==
  ASSUME NEW S, NEW t \in Seq(S)
  PROVE  Table(t)
<1>1. Len(t) \in Nat /\ DOMAIN t = 1 .. Len(t) /\ t \in [1 .. Len(t) -> S]
  BY LenProperties
<1>2. t = [i \in 1 .. Len(t) |-> t[i]]
  BY <1>1
<1> QED BY <1>1, <1>2 DEF Table

\* And a table a sequence of what is in it.
LEMMA TableIsSequence ==
  ASSUME NEW t, Table(t), NEW S, \A i \in DOMAIN t : t[i] \in S
  PROVE  t \in Seq(S)
<1>1. PICK n \in Nat : DOMAIN t = 1 .. n /\ t = [i \in 1 .. n |-> t[i]]
  BY DEF Table
<1>2. t \in [1 .. n -> S]
  BY <1>1
<1> QED BY <1>2, SeqDef

\* Lists put together are a list of what was in them.
LEMMA FlatList ==
  ASSUME NEW S, NEW n \in Nat, NEW parts \in [1 .. n -> Seq(S)]
  PROVE  FlattenSeq(parts) \in Seq(S)
<1>1. Len(parts) = n /\ DOMAIN parts = 1 .. n
  OBVIOUS
<1>2. CASE n = 0
  <2>1. FlattenSeq(parts) = parts
    BY <1>1, <1>2 DEF FlattenSeq
  <2>2. parts \in [1 .. n -> S]
    BY <1>2
  <2> QED BY <2>1, <2>2, SeqDef
<1>3. CASE n # 0
  <2> DEFINE joined(i, x) ==
               IF i = 1 THEN parts[1] ELSE IF i \in 1 .. n THEN x \o parts[i] ELSE << >>
             step == [i \in Nat |-> [x \in Seq(S) |-> joined(i, x)]]
  <2>0. << >> \in Seq(S) /\ 1 \in 1 .. n /\ parts[1] \in Seq(S)
    <3>1. 1 \in 1 .. n
      BY <1>3
    <3> QED BY <3>1, EmptySeq
  <2>1. step \in [Nat -> [Seq(S) -> Seq(S)]]
    <3>1. ASSUME NEW i \in Nat, NEW x \in Seq(S) PROVE joined(i, x) \in Seq(S)
      <4>1. i \in 1 .. n => x \o parts[i] \in Seq(S)
        BY ConcatProperties
      <4> QED BY <2>0, <4>1
    <3> HIDE DEF joined
    <3> QED BY <3>1
  <2>2. \A i \in Nat : \A x \in Seq(S) : step[i][x] = joined(i, x)
    <3> HIDE DEF joined
    <3> QED OBVIOUS
  <2> HIDE DEF step
  <2>3. PICK g : g \in Recursive(Seq(S), << >>, step)
    BY <2>0, <2>1, Recursion
  <2>4. ASSUME NEW i \in 1 .. n
        PROVE  g[i] \in Seq(S) /\ g[i] = IF i = 1 THEN parts[i] ELSE g[i - 1] \o parts[i]
    <3>1. i \in Nat /\ i # 0 /\ i - 1 \in Nat
      OBVIOUS
    <3>2. g[i] = step[i][g[i - 1]] /\ g[i - 1] \in Seq(S) /\ g[i] \in Seq(S)
      BY <2>3, <3>1 DEF Recursive
    <3>3. g[i] = joined(i, g[i - 1])
      <4> HIDE DEF joined
      <4> QED BY <2>2, <3>1, <3>2
    <3> QED BY <3>2, <3>3
  <2> DEFINE f == [i \in 1 .. n |-> g[i]]
             flatten[i \in 1 .. Len(parts)] ==
               IF i = 1 THEN parts[i] ELSE flatten[i - 1] \o parts[i]
  <2>5. f = [i \in 1 .. Len(parts) |-> IF i = 1 THEN parts[i] ELSE f[i - 1] \o parts[i]]
    <3>1. ASSUME NEW i \in 1 .. n PROVE f[i] = IF i = 1 THEN parts[i] ELSE f[i - 1] \o parts[i]
      <4>1. i # 1 => i - 1 \in 1 .. n
        OBVIOUS
      <4>2. i # 1 => f[i - 1] = g[i - 1]
        BY <4>1
      <4> QED BY <2>4, <4>2
    <3> QED BY <1>1, <3>1
  <2>6. flatten = [i \in 1 .. Len(parts) |-> IF i = 1 THEN parts[i] ELSE flatten[i - 1] \o parts[i]]
    <3> HIDE DEF f
    <3> QED BY <2>5
  <2>7. FlattenSeq(parts) = flatten[Len(parts)]
    BY <1>1, <1>3 DEF FlattenSeq
  <2> HIDE DEF flatten
  <2> DEFINE T == {i \in Nat : i + 1 \in 1 .. n => flatten[i + 1] = g[i + 1]}
  <2>8. 0 \in T
    <3>1. flatten[1] = parts[1] /\ g[1] = parts[1]
      BY <1>1, <2>0, <2>4, <2>6
    <3> QED BY <3>1
  <2>9. ASSUME NEW i \in Nat, i \in T PROVE i + 1 \in T
    <3> SUFFICES ASSUME (i + 1) + 1 \in 1 .. n PROVE flatten[(i + 1) + 1] = g[(i + 1) + 1]
      OBVIOUS
    <3> DEFINE j == (i + 1) + 1
    <3>1. j \in 1 .. n /\ j # 1 /\ j - 1 = i + 1 /\ i + 1 \in 1 .. n
      OBVIOUS
    <3>2. flatten[i + 1] = g[i + 1]
      BY <2>9, <3>1
    <3> HIDE DEF j
    <3>3. flatten[j] = flatten[j - 1] \o parts[j] /\ g[j] = g[j - 1] \o parts[j]
      BY <1>1, <2>4, <2>6, <3>1
    <3>4. flatten[j] = g[j]
      BY <3>1, <3>2, <3>3
    <3> QED BY <3>4 DEF j
  <2>10. \A i \in Nat : i \in T
    <3> HIDE DEF T
    <3> QED BY <2>8, <2>9, Induction
  <2>11. n - 1 \in Nat /\ (n - 1) + 1 = n /\ n \in 1 .. n
    BY <1>3
  <2>12. flatten[n] = g[n]
    BY <2>10, <2>11
  <2>13. g[n] \in Seq(S)
    BY <2>4, <2>11
  <2> QED BY <1>1, <2>7, <2>12, <2>13
<1> QED BY <1>2, <1>3

-----------------------------------------------------------------------------
(* The records of a conversion                                             *)

\* The rows of which a picture can be sent.
Sendable == {i \in DOMAIN rows : rows[i].status = "ok"}

\* A product rises with its factor.
LEMMA TimesRises ==
  ASSUME NEW a \in Int, NEW b \in Int, NEW m \in Nat, a <= b
  PROVE  a * m <= b * m
<1>1. b * m - a * m = (b - a) * m
  OBVIOUS
<1>2. (b - a) * m >= 0
  OBVIOUS
<1>3. a * m \in Int /\ b * m \in Int /\ (b - a) * m \in Int
  OBVIOUS
<1> QED BY <1>1, <1>2, <1>3

\* How many parcels of m are needed for n things.
LEMMA Parcels ==
  ASSUME NEW n \in Nat, NEW m \in Nat \ {0}
  PROVE  LET c == (n + m - 1) \div m IN c \in Nat /\ n <= c * m /\ c * m < n + m
<1> DEFINE t == n + m - 1
           c == t \div m
<1>1. t \in Nat /\ m \in Nat /\ m > 0
  OBVIOUS
<1>2. c \in Int /\ m * c <= t /\ t < m * c + m
  <2> HIDE DEF t
  <2> QED BY <1>1
<1>3. c >= 0
  <2> HIDE DEF t
  <2> QED BY <1>1
<1>4. m * c = c * m
  BY <1>2
<1> HIDE DEF c
<1>5. c * m \in Int
  BY <1>2
<1>6. n <= c * m /\ c * m < n + m
  BY <1>2, <1>4, <1>5
<1> QED BY <1>2, <1>3, <1>6 DEF c

\* The frames that are sent are the rows that say ok.
LEMMA FramesAre ==
  ASSUME rows \in Seq(Rows)
  PROVE  /\ Frames \in Seq(Int) /\ Len(Frames) \in Nat
         /\ \A j \in 1 .. Len(Frames) : Frames[j] \in Sendable
         /\ \A i \in Sendable : \E j \in 1 .. Len(Frames) : Frames[j] = i
<1>1. Len(rows) \in Nat /\ DOMAIN rows = 1 .. Len(rows)
  BY LenProperties
<1>2. Sendable \in SUBSET (1 .. Len(rows)) /\ 1 \in Int /\ Len(rows) \in Int
  BY <1>1 DEF Sendable
<1>3. Frames = InOrder(Sendable)
  BY DEF Frames, Sendable
<1>4. /\ InOrder(Sendable) \in Seq(Int) /\ Len(InOrder(Sendable)) = Cardinality(Sendable)
      /\ Cardinality(Sendable) \in Nat
      /\ \A j \in DOMAIN InOrder(Sendable) : InOrder(Sendable)[j] \in Sendable
  BY <1>2, InOrderIsRising
<1>5. ToSet(InOrder(Sendable)) = Sendable
  BY <1>2, InOrderEnds
<1>6. DOMAIN Frames = 1 .. Len(Frames)
  BY <1>3, <1>4, LenProperties
<1>7. \A i \in Sendable : \E j \in DOMAIN Frames : Frames[j] = i
  BY <1>3, <1>5 DEF ToSet
<1> QED BY <1>3, <1>4, <1>6, <1>7

\* Each request has some of them.
LEMMA RequestsHaveFrames ==
  ASSUME rows \in Seq(Rows)
  PROVE  /\ RequestCount \in Nat
         /\ \A q \in 1 .. RequestCount :
              /\ Table(FramesOf(q)) /\ Len(FramesOf(q)) \in Nat \ {0}
              /\ \A k \in 1 .. Len(FramesOf(q)) : FramesOf(q)[k] \in Sendable
         /\ \A i \in Sendable : \E q \in 1 .. RequestCount : i \in ToSet(FramesOf(q))
<1> DEFINE m == MAX_JPEGS_PER_INFERENCE
           l == Len(Frames)
           c == (l + m - 1) \div m
<1>0. m \in Nat \ {0}
  BY ReportedAssumption
<1>1. /\ Frames \in Seq(Int) /\ l \in Nat
      /\ \A j \in 1 .. l : Frames[j] \in Sendable
      /\ \A i \in Sendable : \E j \in 1 .. l : Frames[j] = i
  BY FramesAre
<1>2. RequestCount = c
  BY DEF RequestCount
<1> DEFINE low(q) == (q - 1) * m + 1
           high(q) == LET e == q * m IN IF e < l THEN e ELSE l
<1>3. \A q : FramesOf(q) = SubSeq(Frames, low(q), high(q))
  BY DEF FramesOf
<1> HIDE DEF m, l
<1>4. c \in Nat /\ l <= c * m /\ c * m < l + m
  BY <1>0, <1>1, Parcels
<1> HIDE DEF c
<1>5. ASSUME NEW q \in 1 .. c
      PROVE  /\ low(q) \in 1 .. l /\ high(q) \in 1 .. l /\ low(q) <= high(q)
             /\ high(q) = q * m \/ high(q) = l
             /\ q * m \in Int /\ low(q) = q * m - m + 1
  <2>1. q * m <= c * m /\ q * m \in Int /\ c * m \in Int
    BY <1>0, <1>4, TimesRises
  <2>2. (q - 1) * m = q * m - m
    BY <1>0
  <2>3. 1 * m <= q * m
    BY <1>0, TimesRises
  <2>4. m <= q * m
    BY <1>0, <2>3
  <2> DEFINE p == q * m
             s == c * m
             w == (q - 1) * m
  <2>5. p \in Int /\ s \in Int /\ p <= s /\ w = p - m /\ m <= p /\ s < l + m
    BY <1>4, <2>1, <2>2, <2>4
  <2> HIDE DEF p, s, w
  <2>6. w + 1 \in 1 .. l /\ (IF p < l THEN p ELSE l) \in 1 .. l /\ w + 1 <= (IF p < l THEN p ELSE l)
    BY <1>0, <1>1, <2>5
  <2>7. low(q) = w + 1 /\ high(q) = IF p < l THEN p ELSE l
    BY DEF p, w
  <2>8. w + 1 = p - m + 1
    BY <1>0, <2>5
  <2> QED BY <2>5, <2>6, <2>7, <2>8 DEF p
<1> HIDE DEF low, high
<1>6. ASSUME NEW q \in 1 .. c
      PROVE  /\ FramesOf(q) \in Seq(Int) /\ Len(FramesOf(q)) = high(q) - low(q) + 1
             /\ \A k \in 1 .. Len(FramesOf(q)) : FramesOf(q)[k] = Frames[low(q) + k - 1]
  <2> DEFINE a == low(q)
             b == high(q)
  <2>1. a \in 1 .. l /\ b \in 1 .. l /\ a <= b /\ Len(Frames) = l
    BY <1>5 DEF l
  <2> HIDE DEF a, b
  <2>2. /\ SubSeq(Frames, a, b) \in Seq(Int) /\ Len(SubSeq(Frames, a, b)) = b - a + 1
        /\ \A k \in 1 .. b - a + 1 : SubSeq(Frames, a, b)[k] = Frames[a + k - 1]
    BY <1>1, <2>1, SubSeqProperties
  <2> QED BY <1>3, <2>2 DEF a, b
<1>7. ASSUME NEW q \in 1 .. c
      PROVE  /\ Table(FramesOf(q)) /\ Len(FramesOf(q)) \in Nat \ {0}
             /\ \A k \in 1 .. Len(FramesOf(q)) : FramesOf(q)[k] \in Sendable
  <2>1. Table(FramesOf(q))
    BY <1>6, SequenceIsTable
  <2>2. Len(FramesOf(q)) \in Nat \ {0}
    BY <1>1, <1>5, <1>6
  <2>3. \A k \in 1 .. Len(FramesOf(q)) : low(q) + k - 1 \in 1 .. l
    BY <1>1, <1>5, <1>6
  <2> QED BY <1>1, <1>6, <2>1, <2>2, <2>3
<1>8. ASSUME NEW i \in Sendable PROVE \E q \in 1 .. c : i \in ToSet(FramesOf(q))
  <2>1. PICK j \in 1 .. l : Frames[j] = i
    BY <1>1
  <2> DEFINE r == (j - 1) \div m
  <2>2. r \in Int /\ m * r <= j - 1 /\ j - 1 < m * r + m /\ r >= 0
    <3>1. j - 1 \in Nat /\ m \in Nat /\ m > 0
      BY <1>0, <1>1
    <3> DEFINE t == j - 1
    <3> HIDE DEF t
    <3>2. t \in Nat
      BY <3>1 DEF t
    <3>3. t \div m \in Int /\ m * (t \div m) <= t /\ t < m * (t \div m) + m /\ t \div m >= 0
      BY <3>1, <3>2
    <3> QED BY <3>3 DEF t
  <2> HIDE DEF r
  <2> DEFINE q == r + 1
  <2>3. q \in Int /\ q * m = m * r + m /\ q >= 1
    BY <1>0, <2>2
  <2>4. q <= c
    <3> SUFFICES ASSUME c <= r PROVE FALSE
      BY <1>4, <2>2
    <3>1. c * m <= r * m /\ r * m = m * r
      BY <1>0, <1>4, <2>2, TimesRises
    <3> DEFINE x == c * m
               y == m * r
    <3>2. x <= y /\ y <= j - 1 /\ l <= x /\ x \in Int /\ y \in Int
      BY <1>0, <1>4, <2>2, <3>1
    <3> HIDE DEF x, y
    <3> QED BY <1>1, <2>1, <3>2
  <2> HIDE DEF q
  <2>5. q \in 1 .. c
    BY <1>4, <2>3, <2>4
  <2> DEFINE k == j - low(q) + 1
             y == m * r
  <2>6. k \in 1 .. Len(FramesOf(q)) /\ low(q) + k - 1 = j
    <3>1. low(q) \in 1 .. l /\ high(q) \in 1 .. l /\ (high(q) = q * m \/ high(q) = l) /\ low(q) = q * m - m + 1
      BY <1>5, <2>5
    <3>2. Len(FramesOf(q)) = high(q) - low(q) + 1
      BY <1>6, <2>5
    <3>3. y \in Int /\ y <= j - 1 /\ j - 1 < y + m /\ q * m = y + m
      BY <1>0, <2>2, <2>3
    <3> HIDE DEF y
    <3>4. low(q) = y + 1 /\ (high(q) = y + m \/ high(q) = l)
      BY <1>0, <3>1, <3>3
    <3>5. j - 1 < high(q)
      BY <1>0, <1>1, <2>1, <3>1, <3>3, <3>4
    <3>6. low(q) <= j
      BY <1>1, <2>1, <3>1, <3>3, <3>4
    <3> DEFINE a == low(q)
               b == high(q)
               n == Len(FramesOf(q))
    <3>7. a \in Int /\ b \in Int /\ n = b - a + 1 /\ j - 1 < b /\ a <= j
      BY <3>1, <3>2, <3>5, <3>6
    <3> HIDE DEF a, b, n
    <3>8. j - a + 1 \in 1 .. n /\ a + (j - a + 1) - 1 = j
      BY <2>1, <3>7
    <3> QED BY <3>8 DEF a, n
  <2>7. FramesOf(q)[k] = i
    BY <1>6, <2>1, <2>5, <2>6
  <2>8. k \in DOMAIN FramesOf(q)
    <3>1. DOMAIN FramesOf(q) = 1 .. Len(FramesOf(q))
      BY <1>6, <2>5, LenProperties
    <3> QED BY <2>6, <3>1
  <2> HIDE DEF k
  <2> QED BY <2>5, <2>7, <2>8 DEF ToSet
<1> QED BY <1>2, <1>4, <1>7, <1>8

\* How an attempt can end, and what an AI can be asked for.
Ends == {"complete", "interrupted", "lost"}
Modes == {"", "table_per_file", "table_per_page"}

\* An answer belongs to a request that succeeded, and to one of the frames it was sent, if to any.
Answering(d, first, x) ==
  /\ {"file", "page"} \subseteq DOMAIN x /\ x.file = Len(d.files) /\ x.request \in DOMAIN d.requests
  /\ d.requests[x.request].status = "ok"
  /\ x.page = 0 \/ \E i \in ToSet(FramesOf(x.request)) : x.page = first + i

\* The tables, and what they tell of the conversion.
Tables(d) ==
  /\ d = [ai |-> d.ai, mode |-> d.mode, files |-> d.files, pages |-> d.pages,
          requests |-> d.requests, answers |-> d.answers, readable |-> d.readable]
  /\ Table(d.files) /\ Table(d.pages) /\ Table(d.requests) /\ Table(d.answers)

Telltale(d, earlier, end, mode, count, bad, status) ==
  LET f == Len(earlier) + 1 IN
  /\ d.ai <=> mode # ""
  /\ d.mode = mode
  /\ d.files = Append(earlier, FileRecord(end))
  /\ d.pages = EarlierPages(earlier) \o [i \in DOMAIN rows |-> PageRecord(f, rows[i])]
  /\ d.requests = Requests(f, count, bad, status)
  /\ \A a \in DOMAIN d.answers : Answering(d, Len(EarlierPages(earlier)), d.answers[a])
  /\ mode = "" => count = 0
  /\ end = "complete" => stage = "ended" /\ (mode # "" => count = RequestCount)

\* What may precede the attempt is short.
LEMMA EarlierAre ==
  ASSUME NEW earlier \in EarlierFiles
  PROVE  /\ Table(earlier) /\ Len(earlier) \in {0, 1}
         /\ Table(EarlierPages(earlier)) /\ Len(EarlierPages(earlier)) \in 0 .. Len(earlier)
         /\ \A i \in DOMAIN EarlierPages(earlier) : EarlierPages(earlier)[i].file = 1
<1>1. CASE earlier = << >>
  <2>1. EarlierPages(earlier) = << >>
    BY <1>1 DEF EarlierPages
  <2>2. << >> \in Seq({}) /\ Len(<< >>) = 0 /\ DOMAIN << >> = {}
    BY EmptySeq
  <2>3. Table(<< >>)
    BY <2>2, SequenceIsTable
  <2> QED BY <1>1, <2>1, <2>2, <2>3
<1>2. CASE earlier # << >>
  <2>1. PICK e : earlier = <<e>>
    BY <1>2 DEF EarlierFiles
  <2>2. \E p : p.file = 1 /\ EarlierPages(earlier) \in {<< >>, <<p>>}
    <3> DEFINE p == [file |-> 1, page |-> 1, status |-> "ok", time |-> NoTime]
    <3>1. EarlierPages(earlier) \in {<< >>, <<p>>}
      BY DEF EarlierPages
    <3>2. p.file = 1
      OBVIOUS
    <3> QED BY <3>1, <3>2
  <2>3. PICK p : p.file = 1 /\ EarlierPages(earlier) \in {<< >>, <<p>>}
    BY <2>2
  <2>4. \A x : Table(<<x>>) /\ Len(<<x>>) = 1 /\ DOMAIN <<x>> = {1} /\ <<x>>[1] = x
    <3> TAKE x
    <3>1. <<x>> \in Seq({x})
      OBVIOUS
    <3>2. Table(<<x>>)
      BY <3>1, SequenceIsTable
    <3>3. Len(<<x>>) = 1 /\ DOMAIN <<x>> = 1 .. 1 /\ <<x>>[1] = x
      OBVIOUS
    <3> QED BY <3>2, <3>3
  <2>5. << >> \in Seq({}) /\ Len(<< >>) = 0 /\ DOMAIN << >> = {}
    BY EmptySeq
  <2>6. Table(<< >>)
    BY <2>5, SequenceIsTable
  <2>7. Table(EarlierPages(earlier)) /\ Len(EarlierPages(earlier)) \in 0 .. 1
        /\ \A i \in DOMAIN EarlierPages(earlier) : EarlierPages(earlier)[i].file = 1
    BY <2>3, <2>4, <2>5, <2>6
  <2> QED BY <2>1, <2>4, <2>7
<1> QED BY <1>1, <1>2

\* One more record.
LEMMA TableGrows ==
  ASSUME NEW t, Table(t), NEW x
  PROVE  /\ Table(Append(t, x)) /\ Len(Append(t, x)) = Len(t) + 1
         /\ Append(t, x)[Len(t) + 1] = x
         /\ \A i \in 1 .. Len(t) : Append(t, x)[i] = t[i]
<1> DEFINE S == {t[i] : i \in DOMAIN t} \cup {x}
<1>1. t \in Seq(S) /\ x \in S
  <2>1. \A i \in DOMAIN t : t[i] \in S
    OBVIOUS
  <2> HIDE DEF S
  <2>2. t \in Seq(S)
    BY <2>1, TableIsSequence
  <2> QED BY <2>2 DEF S
<1> HIDE DEF S
<1>2. Append(t, x) \in Seq(S) /\ Len(Append(t, x)) = Len(t) + 1
      /\ Append(t, x)[Len(t) + 1] = x /\ \A i \in 1 .. Len(t) : Append(t, x)[i] = t[i]
  BY <1>1, AppendProperties
<1> QED BY <1>2, SequenceIsTable

\* Two tables after each other.
LEMMA TablesJoin ==
  ASSUME NEW s, Table(s), NEW t, Table(t)
  PROVE  /\ Table(s \o t) /\ Len(s \o t) = Len(s) + Len(t)
         /\ \A i \in 1 .. Len(s) : (s \o t)[i] = s[i]
         /\ \A i \in 1 .. Len(t) : (s \o t)[Len(s) + i] = t[i]
<1> DEFINE S == {s[i] : i \in DOMAIN s} \cup {t[i] : i \in DOMAIN t}
<1>1. s \in Seq(S) /\ t \in Seq(S)
  <2>1. (\A i \in DOMAIN s : s[i] \in S) /\ \A i \in DOMAIN t : t[i] \in S
    OBVIOUS
  <2> HIDE DEF S
  <2> QED BY <2>1, TableIsSequence
<1> HIDE DEF S
<1>2. s \o t \in Seq(S) /\ Len(s \o t) = Len(s) + Len(t)
      /\ \A i \in 1 .. Len(s) + Len(t) : (s \o t)[i] = IF i <= Len(s) THEN s[i] ELSE t[i - Len(s)]
  BY <1>1, ConcatProperties
<1>3. Len(s) \in Nat /\ Len(t) \in Nat
  BY TableCounts
<1>4. \A i \in 1 .. Len(s) : (s \o t)[i] = s[i]
  BY <1>2, <1>3
<1>5. ASSUME NEW i \in 1 .. Len(t) PROVE (s \o t)[Len(s) + i] = t[i]
  <2>1. Len(s) + i \in 1 .. Len(s) + Len(t) /\ ~ (Len(s) + i <= Len(s)) /\ (Len(s) + i) - Len(s) = i
    BY <1>3
  <2> QED BY <1>2, <2>1
<1> QED BY <1>2, <1>4, <1>5, SequenceIsTable

\* The answers to one request.
LEMMA AnswersAre ==
  ASSUME rows \in Seq(Rows), NEW f, NEW first \in Nat, NEW q \in 1 .. RequestCount, NEW mode \in Modes,
         NEW flaw \in Flaws, NEW S,
         \A page \in 0 .. first + Len(rows), error \in Flaws, empty \in BOOLEAN :
           page = 0 \/ (\E i \in ToSet(FramesOf(q)) : page = first + i)
             => [request |-> q, file |-> f, page |-> page, error |-> error, empty |-> empty] \in S
  PROVE  AnswersTo(f, first, q, mode, flaw) \in Seq(S)
<1> DEFINE Answer(page, error) ==
             [request |-> q, file |-> f, page |-> page, error |-> error, empty |-> flaw = "empty"]
           frames == FramesOf(q)
           good == [i \in 1 .. Len(frames) - 1 |-> Answer(first + frames[i], "")]
           last == first + Last(frames)
<1>1. Table(frames) /\ Len(frames) \in Nat \ {0}
  BY RequestsHaveFrames
<1>2. DOMAIN frames = 1 .. Len(frames) /\ Last(frames) = frames[Len(frames)]
  BY <1>1, TableCounts DEF Last
<1>0. Len(rows) \in Nat /\ \A k \in 1 .. Len(frames) : frames[k] \in 1 .. Len(rows) /\ frames[k] \in ToSet(FramesOf(q))
  <2>1. Len(rows) \in Nat /\ DOMAIN rows = 1 .. Len(rows)
    BY LenProperties
  <2>2. \A k \in 1 .. Len(frames) : frames[k] \in Sendable
    BY RequestsHaveFrames
  <2> QED BY <1>2, <2>1, <2>2 DEF Sendable, ToSet
<1>01. "" \in Flaws /\ (flaw = "empty") \in BOOLEAN
  BY DEF Flaws
<1>3. \A error \in Flaws : Answer(0, error) \in S /\ Answer(last, error) \in S
  <2>1. Len(frames) \in 1 .. Len(frames)
    BY <1>1
  <2>2. last = first + frames[Len(frames)]
    BY <1>2
  <2>3. last \in 0 .. first + Len(rows) /\ 0 \in 0 .. first + Len(rows)
    <3> HIDE DEF frames
    <3> QED BY <1>0, <2>1, <2>2
  <2>4. \E i \in ToSet(FramesOf(q)) : last = first + i
    BY <1>0, <2>1, <2>2
  <2> HIDE DEF last
  <2> QED BY <1>01, <2>3, <2>4
<1>4. good \in Seq(S)
  <2>1. \A i \in 1 .. Len(frames) - 1 : Answer(first + frames[i], "") \in S
    <3> TAKE i \in 1 .. Len(frames) - 1
    <3>1. i \in 1 .. Len(frames)
      BY <1>1
    <3>2. frames[i] \in ToSet(FramesOf(q)) /\ first + frames[i] \in 0 .. first + Len(rows)
      BY <1>0, <3>1
    <3> QED BY <1>01, <3>2
  <2>2. Len(frames) - 1 \in Nat
    BY <1>1
  <2> HIDE DEF frames, Answer
  <2>3. good \in [1 .. Len(frames) - 1 -> S]
    BY <2>1
  <2> HIDE DEF good
  <2> QED BY <2>2, <2>3, SeqDef
<1>5. AnswersTo(f, first, q, mode, flaw) =
        IF mode = "table_per_file" THEN <<Answer(0, "")>>
        ELSE good \o CASE flaw = "no_row_returned" -> <<Answer(last, flaw)>>
                       [] flaw = "duplicate_page_number" -> <<Answer(last, ""), Answer(last, flaw)>>
                       [] flaw = "hallucinated_page_number" -> <<Answer(last, ""), Answer(0, flaw)>>
                       [] OTHER -> <<Answer(last, "")>>
  BY DEF AnswersTo
<1> HIDE DEF Answer, good, last, frames
<1>6. /\ <<Answer(0, "")>> \in Seq(S) /\ <<Answer(last, flaw)>> \in Seq(S)
      /\ <<Answer(last, ""), Answer(last, flaw)>> \in Seq(S)
      /\ <<Answer(last, ""), Answer(0, flaw)>> \in Seq(S) /\ <<Answer(last, "")>> \in Seq(S)
  <2>1. \A x, y \in S : <<x>> \in Seq(S) /\ <<x, y>> \in Seq(S)
    OBVIOUS
  <2> QED BY <1>01, <1>3, <2>1
<1>7. ASSUME NEW s \in Seq(S) PROVE good \o s \in Seq(S)
  BY <1>4, ConcatProperties
<1> QED BY <1>5, <1>6, <1>7

\* All answers, as Records puts them together.
AllAnswers(f, first, count, mode, flaw, sent) ==
  FlattenSeq([q \in 1 .. count |->
    IF sent[q].status = "ok" THEN AnswersTo(f, first, q, mode, IF q = 1 THEN flaw ELSE "") ELSE << >>])

\* They are made of the answers to single requests.
LEMMA AnswersFit ==
  ASSUME rows \in Seq(Rows), NEW f, NEW first \in Nat, NEW count \in 0 .. RequestCount, NEW mode \in Modes,
         NEW flaw \in Flaws, NEW sent, NEW S,
         \A q \in 1 .. count, page \in 0 .. first + Len(rows), error \in Flaws, empty \in BOOLEAN :
           sent[q].status = "ok" /\ (page = 0 \/ \E i \in ToSet(FramesOf(q)) : page = first + i)
             => [request |-> q, file |-> f, page |-> page, error |-> error, empty |-> empty] \in S
  PROVE  AllAnswers(f, first, count, mode, flaw, sent) \in Seq(S)
<1>1. RequestCount \in Nat
  BY RequestsHaveFrames
<1>2. count \in Nat /\ \A q \in 1 .. count : q \in 1 .. RequestCount
  BY <1>1
<1> DEFINE part(q) == IF sent[q].status = "ok" THEN AnswersTo(f, first, q, mode, IF q = 1 THEN flaw ELSE "") ELSE << >>
<1>3. ASSUME NEW q \in 1 .. count PROVE part(q) \in Seq(S)
  <2>1. CASE sent[q].status = "ok"
    <3> DEFINE here == IF q = 1 THEN flaw ELSE ""
    <3>1. here \in Flaws
      BY DEF Flaws
    <3>2. q \in 1 .. RequestCount
      BY <1>2
    <3>3. \A page \in 0 .. first + Len(rows), error \in Flaws, empty \in BOOLEAN :
            page = 0 \/ (\E i \in ToSet(FramesOf(q)) : page = first + i)
              => [request |-> q, file |-> f, page |-> page, error |-> error, empty |-> empty] \in S
      BY <2>1
    <3> HIDE DEF here
    <3>4. AnswersTo(f, first, q, mode, here) \in Seq(S)
      BY <3>1, <3>2, <3>3, AnswersAre
    <3> QED BY <2>1, <3>4 DEF here
  <2>2. CASE sent[q].status # "ok"
    BY <2>2, EmptySeq
  <2> QED BY <2>1, <2>2
<1> HIDE DEF part
<1> DEFINE parts == [q \in 1 .. count |-> part(q)]
<1>4. parts \in [1 .. count -> Seq(S)]
  BY <1>3
<1>5. FlattenSeq(parts) \in Seq(S)
  <2> HIDE DEF parts
  <2> QED BY <1>2, <1>4, FlatList
<1> QED BY <1>5 DEF part, AllAnswers

\* A count of requests is one.
LEMMA CountIsNat ==
  ASSUME rows \in Seq(Rows), NEW count \in 0 .. RequestCount
  PROVE  count \in Nat /\ RequestCount \in Nat
<1>1. RequestCount \in Nat
  BY RequestsHaveFrames
<1> QED BY <1>1

\* The requests are a table, whatever became of them.
LEMMA RequestsAre ==
  ASSUME NEW f, NEW count \in Nat, NEW bad, NEW status
  PROVE  Table(Requests(f, count, bad, status)) /\ DOMAIN Requests(f, count, bad, status) = 1 .. count
<1> DEFINE sent == Requests(f, count, bad, status)
<1>1. DOMAIN sent = 1 .. count
  BY DEF Requests
<1>2. sent = [i \in 1 .. count |-> sent[i]]
  BY DEF Requests
<1> HIDE DEF sent
<1>3. Table(sent)
  BY <1>1, <1>2 DEF Table
<1> QED BY <1>1, <1>3 DEF sent

\* The rows of a conversion as a table.
LEMMA PagesAre ==
  ASSUME rows \in Seq(Rows), NEW f
  PROVE  LET here == [i \in DOMAIN rows |-> PageRecord(f, rows[i])]
         IN  Table(here) /\ Len(here) = Len(rows)
<1> DEFINE here == [i \in DOMAIN rows |-> PageRecord(f, rows[i])]
<1>1. Len(rows) \in Nat /\ DOMAIN rows = 1 .. Len(rows)
  BY LenProperties
<1>2. DOMAIN here = 1 .. Len(rows) /\ here = [i \in 1 .. Len(rows) |-> here[i]]
  BY <1>1
<1> HIDE DEF here
<1>3. Table(here)
  BY <1>1, <1>2 DEF Table
<1>4. Len(here) = Len(rows)
  BY <1>1, <1>2
<1> QED BY <1>3, <1>4 DEF here

\* A list of elements has nothing else.
LEMMA Listed ==
  ASSUME NEW S, NEW s \in Seq(S)
  PROVE  Table(s) /\ \A i \in DOMAIN s : s[i] \in S
<1>1. Table(s)
  BY SequenceIsTable
<1> QED BY <1>1

\* What the batch loop records tells of the conversion.
LEMMA RecordsTell ==
  ASSUME rows \in Seq(Rows), NEW earlier \in EarlierFiles, NEW end \in Ends, NEW mode \in Modes,
         NEW count \in 0 .. RequestCount, NEW bad \in Nat, NEW status, NEW flaw \in Flaws,
         mode = "" => count = 0,
         end = "complete" => stage = "ended" /\ (mode # "" => count = RequestCount),
         NEW d, d = Records(earlier, end, mode, count, bad, status, flaw)
  PROVE  Tables(d) /\ Telltale(d, earlier, end, mode, count, bad, status)
<1> DEFINE f == Len(earlier) + 1
           before == EarlierPages(earlier)
           sent == Requests(f, count, bad, status)
           Answers(q) == IF sent[q].status = "ok"
                         THEN AnswersTo(f, Len(before), q, mode, IF q = 1 THEN flaw ELSE "") ELSE << >>
           here == [i \in DOMAIN rows |-> PageRecord(f, rows[i])]
           parts == [q \in 1 .. count |-> Answers(q)]
<1>0. d = [ai |-> d.ai, mode |-> d.mode, files |-> d.files, pages |-> d.pages,
           requests |-> d.requests, answers |-> d.answers, readable |-> d.readable]
  BY DEF Records
<1>1. /\ (d.ai <=> mode # "") /\ d.mode = mode /\ d.files = Append(earlier, FileRecord(end))
      /\ d.pages = before \o here /\ d.requests = sent /\ d.answers = FlattenSeq(parts)
  BY DEF Records
<1>2. count \in Nat
  BY CountIsNat, Zenon
<1>3. Table(earlier) /\ Table(before)
  BY EarlierAre, Zenon
<1>4. Len(earlier) \in Nat /\ Len(before) \in Nat
  <2> HIDE DEF before
  <2> QED BY <1>3, TableCounts
<1>5. Table(d.files) /\ Len(d.files) = f
  <2> DEFINE e == FileRecord(end)
  <2> HIDE DEF e
  <2>1. Table(Append(earlier, e)) /\ Len(Append(earlier, e)) = Len(earlier) + 1
    BY <1>3, TableGrows, Zenon
  <2> QED BY <1>1, <2>1, Zenon DEF e
<1>6. Table(here)
  BY PagesAre, Zenon
<1>7. Table(sent) /\ DOMAIN sent = 1 .. count
  <2> HIDE DEF f
  <2>1. Table(Requests(f, count, bad, status)) /\ DOMAIN Requests(f, count, bad, status) = 1 .. count
    BY <1>2, RequestsAre, Zenon
  <2> QED BY <2>1
<1> DEFINE records == [request : 1 .. count, file : {f}, page : 0 .. Len(before) + Len(rows),
                       error : Flaws, empty : BOOLEAN]
           S == {x \in records : Answering(d, Len(before), x)}
<1>8. ASSUME NEW q \in 1 .. count, NEW page \in 0 .. Len(before) + Len(rows), NEW error \in Flaws,
             NEW empty \in BOOLEAN, sent[q].status = "ok",
             page = 0 \/ \E i \in ToSet(FramesOf(q)) : page = Len(before) + i
      PROVE  [request |-> q, file |-> f, page |-> page, error |-> error, empty |-> empty] \in S
  <2> DEFINE x == [request |-> q, file |-> f, page |-> page, error |-> error, empty |-> empty]
  <2>1. x.request = q /\ x.file = f /\ x.page = page /\ {"file", "page"} \subseteq DOMAIN x
    OBVIOUS
  <2>2. x \in records
    <3> HIDE DEF f, before
    <3> QED OBVIOUS
  <2> HIDE DEF x, records, f, sent, before
  <2>3. Answering(d, Len(before), x)
    BY <1>1, <1>5, <1>7, <1>8, <2>1, Zenon DEF Answering
  <2> QED BY <2>2, <2>3 DEF x
<1>9. FlattenSeq(parts) \in Seq(S)
  <2> DEFINE first == Len(before)
  <2>1. first \in Nat
    BY <1>4
  <2>2. \A q \in 1 .. count, page \in 0 .. first + Len(rows), error \in Flaws, empty \in BOOLEAN :
           sent[q].status = "ok" /\ (page = 0 \/ \E i \in ToSet(FramesOf(q)) : page = first + i)
             => [request |-> q, file |-> f, page |-> page, error |-> error, empty |-> empty] \in S
    <3> HIDE DEF S, sent, f
    <3> QED BY <1>8, Zenon
  <2> HIDE DEF S, sent, f, first
  <2>3. AllAnswers(f, first, count, mode, flaw, sent) \in Seq(S)
    BY <2>1, <2>2, AnswersFit
  <2> QED BY <2>3 DEF first, AllAnswers
<1> HIDE DEF parts, sent, before, here, f
<1>10. Table(d.answers) /\ \A a \in DOMAIN d.answers : d.answers[a] \in S
  <2> HIDE DEF S
  <2>1. d.answers \in Seq(S)
    BY <1>1, <1>9, Zenon
  <2> QED BY <2>1, Listed, Zenon
<1>11. Tables(d)
  <2>1. Table(d.pages)
    BY <1>1, <1>3, <1>6, TablesJoin, Zenon
  <2>2. Table(d.files) /\ Table(d.requests) /\ Table(d.answers)
    BY <1>1, <1>5, <1>7, <1>10, Zenon
  <2> QED BY <1>0, <2>1, <2>2, Zenon DEF Tables
<1>12. \A a \in DOMAIN d.answers : Answering(d, Len(before), d.answers[a])
  BY <1>10
<1>13. d.pages = EarlierPages(earlier) \o [i \in DOMAIN rows |-> PageRecord(Len(earlier) + 1, rows[i])]
       /\ d.requests = Requests(Len(earlier) + 1, count, bad, status)
  BY <1>1 DEF before, here, sent, f
<1>14. \A a \in DOMAIN d.answers : Answering(d, Len(EarlierPages(earlier)), d.answers[a])
  BY <1>12 DEF before
<1> HIDE DEF S
<1> QED BY <1>1, <1>11, <1>13, <1>14, Zenon DEF Telltale

\* What the user is told of the workbook is what its sheets leave out, as soon as it is written.
NoticesTold ==
  /\ phase \in {"none", "closed", "open", "stamp"} => outcome.notices = {}
  /\ outcome.notices \subseteq Notices(snapshot)
  /\ (\E s \in outcome.saved : s[1] = "Workbook") \/ (phase \in Writing /\ complete /\ report = "Workbook")
       => Notices(snapshot) \subseteq outcome.notices

TablesHold == Tables(db) /\ Tables(snapshot)

\* A failure that is noted changes nothing else of the outcome.
LEMMA FailureAlone ==
  ASSUME IInv, NEW failure, outcome' = [outcome EXCEPT !.failed = Append(@, failure)]
  PROVE  outcome'.saved = outcome.saved /\ outcome'.notices = outcome.notices
<1>1. outcome = [saved |-> outcome.saved, failed |-> outcome.failed, notices |-> outcome.notices]
  BY DEF IInv, Outcome
<1> DEFINE o == outcome
<1>2. outcome' = [saved |-> o.saved, failed |-> Append(o.failed, failure), notices |-> o.notices]
  BY <1>1
<1> QED BY <1>2

\* The notices hold while the report at hand stays, and what vouches for it.
LEMMA NoticesRest ==
  ASSUME NoticesTold, UNCHANGED <<snapshot, queue, complete>>,
         outcome'.saved = outcome.saved, outcome'.notices = outcome.notices,
         phase' \in {"none", "closed", "open", "stamp"} => phase \in {"none", "closed", "open", "stamp"},
         phase' \in Writing => phase \in Writing
  PROVE  NoticesTold'
<1>1. report' = report
  BY DEF report
<1>2. outcome'.notices \subseteq Notices(snapshot')
  BY DEF NoticesTold
<1>3. phase' \in {"none", "closed", "open", "stamp"} => outcome'.notices = {}
  BY DEF NoticesTold
<1>4. ASSUME (\E s \in outcome'.saved : s[1] = "Workbook")
             \/ (phase' \in Writing /\ complete' /\ report' = "Workbook")
      PROVE  Notices(snapshot') \subseteq outcome'.notices
  BY <1>1, <1>4 DEF NoticesTold
<1> QED BY <1>2, <1>3, <1>4 DEF NoticesTold

\* And while the next report is not yet written.
LEMMA NoticesWait ==
  ASSUME NoticesTold, UNCHANGED snapshot, ~ complete' \/ phase' \notin Writing,
         outcome'.saved = outcome.saved, outcome'.notices = outcome.notices,
         phase' \notin {"none", "closed", "open", "stamp"}
  PROVE  NoticesTold'
<1>1. outcome'.notices \subseteq Notices(snapshot')
  BY DEF NoticesTold
<1>2. ASSUME \E s \in outcome'.saved : s[1] = "Workbook"
      PROVE  Notices(snapshot') \subseteq outcome'.notices
  BY <1>2 DEF NoticesTold
<1> QED BY <1>1, <1>2 DEF NoticesTold

\* What is given up leaves the notices alone.
LEMMA GivenUpNotices ==
  ASSUME IInv, NoticesTold, NEW category, GiveUp(category)
  PROVE  NoticesTold'
<1>1. /\ outcome' = [outcome EXCEPT !.failed = Append(@, <<report, category>>)]
      /\ snapshot' = snapshot /\ complete' = FALSE /\ phase' \in {"over", "reserve"}
  BY DEF GiveUp, NextJob
<1>2. outcome'.saved = outcome.saved /\ outcome'.notices = outcome.notices
  BY <1>1, FailureAlone
<1> QED BY <1>1, <1>2, NoticesWait

\* The steps of an export.
LEMMA ExportNotices ==
  ASSUME IInv, NoticesTold, ExportNext
  PROVE  NoticesTold'
<1>1. CASE StartExport
  <2>1. outcome'.saved = {} /\ outcome'.notices = {} /\ phase' \notin Writing
    BY <1>1 DEF StartExport, NoOutcome, Writing
  <2> QED BY <2>1 DEF NoticesTold
<1>2. CASE ReadConfiguration
  <2>1. outcome.saved = {} /\ outcome.notices = {} /\ outcome' = outcome /\ phase' \notin Writing
    BY <1>2 DEF ReadConfiguration, IInv, Outcome, NoticesTold, Writing
  <2>2. outcome'.saved = {} /\ outcome'.notices = {}
    BY <2>1
  <2> QED BY <2>1, <2>2 DEF NoticesTold
<1>3. CASE ExportFails
  <2>1. outcome'.saved = outcome.saved /\ outcome'.notices = outcome.notices
    BY <1>3, FailureAlone DEF ExportFails
  <2>2. snapshot' = snapshot /\ phase' = "over"
    BY <1>3 DEF ExportFails
  <2> QED BY <2>1, <2>2, NoticesWait DEF Writing
<1>4. CASE ChooseStamp
  <2>1. snapshot' = snapshot /\ outcome' = outcome /\ phase' = "reserve" /\ ~ complete'
    BY <1>4 DEF ChooseStamp
  <2> QED BY <2>1, NoticesWait
<1>5. CASE Reserve
  <2>1. UNCHANGED <<snapshot, queue, complete, outcome>> /\ phase = "reserve" /\ phase' = "write"
    BY <1>5 DEF Reserve, job
  <2> QED BY <2>1, NoticesRest DEF Writing
<1>6. CASE Write
  <2>1. /\ UNCHANGED <<snapshot, queue>> /\ phase' = "name"
        /\ outcome' = IF report = "Workbook"
                      THEN [outcome EXCEPT !.notices = @ \cup Notices(snapshot)] ELSE outcome
    BY <1>6 DEF Write
  <2>2. report' = report
    BY <2>1 DEF report
  <2>3. CASE report = "Workbook"
    <3> DEFINE o == outcome
               all == Notices(snapshot)
    <3>1. outcome' = [outcome EXCEPT !.notices = @ \cup all]
      BY <2>1, <2>3
    <3>2. outcome = [saved |-> o.saved, failed |-> o.failed, notices |-> o.notices]
      BY DEF IInv, Outcome
    <3> HIDE DEF all
    <3>3. outcome'.notices = o.notices \cup all
      BY <3>1, <3>2
    <3>4. outcome'.notices = o.notices \cup Notices(snapshot')
      BY <3>3, <2>1 DEF all
    <3> HIDE DEF o
    <3>5. o.notices \subseteq Notices(snapshot')
      BY <2>1 DEF o, NoticesTold
    <3> QED BY <2>1, <3>4, <3>5 DEF NoticesTold
  <2>4. CASE report # "Workbook"
    <3>1. outcome' = outcome
      BY <2>1, <2>4
    <3> QED BY <2>1, <2>2, <2>4, <3>1 DEF NoticesTold
  <2> QED BY <2>3, <2>4
<1>7. CASE Name
  <2>1. UNCHANGED <<snapshot, queue, complete, outcome>> /\ phase = "name" /\ phase' = "rename"
    BY <1>7 DEF Name
  <2> QED BY <2>1, NoticesRest DEF Writing
<1>8. CASE Rename
  <2> DEFINE o == outcome
  <2>1. /\ snapshot' = snapshot /\ phase = "rename" /\ phase' \in {"over", "reserve"} /\ complete' = FALSE
        /\ outcome' = [outcome EXCEPT !.saved = @ \cup {target}]
    BY <1>8 DEF Rename, NextJob
  <2>2. outcome = [saved |-> o.saved, failed |-> o.failed, notices |-> o.notices]
    BY DEF IInv, Outcome
  <2>3. outcome'.saved = o.saved \cup {target} /\ outcome'.notices = o.notices
    BY <2>1, <2>2
  <2>4. complete /\ target[1] = report
    BY <2>1 DEF IInv, Phases, Temporary
  <2> HIDE DEF o
  <2>5. o.notices \subseteq Notices(snapshot')
    BY <2>1 DEF o, NoticesTold
  <2>6. ASSUME \E s \in outcome'.saved : s[1] = "Workbook" PROVE Notices(snapshot') \subseteq o.notices
    <3>1. (\E s \in o.saved : s[1] = "Workbook") \/ target[1] = "Workbook"
      BY <2>3, <2>6
    <3>2. Notices(snapshot) \subseteq o.notices
      BY <2>1, <2>4, <3>1 DEF NoticesTold, Writing, o
    <3> QED BY <2>1, <3>2
  <2> QED BY <2>1, <2>3, <2>5, <2>6 DEF NoticesTold
<1>9. CASE NameTaken
  <2>1. CASE GiveUp("write_failed")
    BY <2>1, GivenUpNotices
  <2>2. CASE UNCHANGED <<snapshot, queue, complete, outcome>> /\ phase' = "name"
    BY <1>9, <2>2, NoticesRest DEF Writing, NameTaken
  <2> QED BY <1>9, <2>1, <2>2 DEF NameTaken
<1>10. CASE DataFails
  BY <1>10, GivenUpNotices DEF DataFails
<1>11. CASE Trouble
  <2>1. UNCHANGED <<snapshot, queue, complete, outcome>> /\ phase \in Writing /\ phase' = "trouble"
    BY <1>11 DEF Trouble, job, Writing
  <2> QED BY <2>1, NoticesRest DEF Writing
<1>12. CASE Locked
  <2>1. UNCHANGED <<snapshot, queue, complete, outcome>> /\ phase = "trouble" /\ phase' \in {"name", "reserve"}
    BY <1>12 DEF Locked, TryAgain
  <2> QED BY <2>1, NoticesRest DEF Writing
<1>13. CASE JobRefused
  BY <1>13, GivenUpNotices DEF JobRefused
<1>14. CASE AnotherProgramWrites \/ AnotherRunCommits
  <2>1. UNCHANGED <<snapshot, queue, complete, outcome, phase>>
    BY <1>14 DEF AnotherProgramWrites, AnotherRunCommits, job
  <2> QED BY <2>1, NoticesRest
<1>15. CASE Killed
  <2>1. UNCHANGED <<snapshot, outcome>> /\ phase' = "dead"
    BY <1>15 DEF Killed
  <2> QED BY <2>1, NoticesWait DEF Writing
<1>16. CASE ConfigurationMissing
  <2>1. UNCHANGED <<snapshot, outcome>> /\ phase' = "refused"
    BY <1>16 DEF ConfigurationMissing
  <2> QED BY <2>1, NoticesWait DEF Writing
<1> QED BY <1>1, <1>2, <1>3, <1>4, <1>5, <1>6, <1>7, <1>8, <1>9, <1>10, <1>11, <1>12, <1>13, <1>14,
           <1>15, <1>16 DEF ExportNext

\* One more file, and the damages, leave tables.
LEMMA TablesKept ==
  ASSUME TablesHold, AnotherRunCommits \/ Damaged
  PROVE  TablesHold'
<1> DEFINE d == db
<1>0. /\ d = [ai |-> d.ai, mode |-> d.mode, files |-> d.files, pages |-> d.pages,
              requests |-> d.requests, answers |-> d.answers, readable |-> d.readable]
      /\ Table(d.files) /\ Table(d.pages) /\ Table(d.requests) /\ Table(d.answers)
  BY DEF TablesHold, Tables
<1>1. CASE AnotherRunCommits
  <2> DEFINE more == NewAttempt(db)
  <2>1. db' = [d EXCEPT !.files = Append(d.files, more)] /\ snapshot' = snapshot
    BY <1>1 DEF AnotherRunCommits
  <2> HIDE DEF more, d
  <2>2. db' = [ai |-> d.ai, mode |-> d.mode, files |-> Append(d.files, more), pages |-> d.pages,
               requests |-> d.requests, answers |-> d.answers, readable |-> d.readable]
    BY <1>0, <2>1
  <2>3. Table(Append(d.files, more))
    BY <1>0, TableGrows
  <2>4. Tables(db')
    BY <1>0, <2>2, <2>3 DEF Tables
  <2> QED BY <2>1, <2>4 DEF TablesHold
<1>2. CASE Damaged
  <2>1. snapshot' = snapshot /\ d.answers # << >>
        /\ \/ db' = [d EXCEPT !.readable = FALSE]
           \/ db' = [d EXCEPT !.answers[1].page = 1]
    BY <1>2 DEF Damaged
  <2> HIDE DEF d
  <2>2. CASE db' = [d EXCEPT !.readable = FALSE]
    <3>1. db' = [ai |-> d.ai, mode |-> d.mode, files |-> d.files, pages |-> d.pages,
                 requests |-> d.requests, answers |-> d.answers, readable |-> FALSE]
      BY <1>0, <2>2
    <3>2. Tables(db')
      BY <1>0, <3>1 DEF Tables
    <3> QED BY <2>1, <3>2 DEF TablesHold
  <2>3. CASE db' = [d EXCEPT !.answers[1].page = 1]
    <3> DEFINE answers == [d.answers EXCEPT ![1].page = 1]
    <3>1. db' = [ai |-> d.ai, mode |-> d.mode, files |-> d.files, pages |-> d.pages,
                 requests |-> d.requests, answers |-> answers, readable |-> d.readable]
      BY <1>0, <2>3
    <3>2. Table(answers)
      <4>1. PICK n \in Nat : DOMAIN d.answers = 1 .. n
        BY <1>0 DEF Table
      <4>2. answers = [i \in 1 .. n |-> answers[i]] /\ DOMAIN answers = 1 .. n
        BY <4>1
      <4> HIDE DEF answers
      <4> QED BY <4>2 DEF Table
    <3> HIDE DEF answers
    <3>3. Tables(db')
      BY <1>0, <3>1, <3>2 DEF Tables
    <3> QED BY <2>1, <3>3 DEF TablesHold
  <2> QED BY <2>1, <2>2, <2>3
<1> QED BY <1>1, <1>2

\* How many requests there are, and which of them failed, if any did.
LEMMA ChoiceLies ==
  ASSUME NEW none \in BOOLEAN, NEW all \in Nat, NEW count \in 0 .. (IF none THEN 0 ELSE all),
         NEW well \in BOOLEAN, NEW bad \in IF well THEN {0} ELSE 1 .. count
  PROVE  count \in 0 .. all /\ (none => count = 0) /\ bad \in Nat
<1>1. CASE none
  <2>1. count \in 0 .. 0
    BY <1>1
  <2>2. count = 0
    BY <2>1
  <2>3. bad \in {0} \/ bad \in 1 .. count
    OBVIOUS
  <2> QED BY <2>2, <2>3
<1>2. CASE ~ none
  <2>1. count \in 0 .. all
    BY <1>2
  <2>2. bad \in {0} \/ bad \in 1 .. count
    OBVIOUS
  <2> QED BY <1>2, <2>1, <2>2
<1> QED BY <1>1, <1>2

\* What a recording chooses.
LEMMA RecordedTells ==
  ASSUME ConversionInv, Recorded
  PROVE  \E earlier \in EarlierFiles, end \in Ends, mode \in Modes, count \in 0 .. RequestCount, bad \in Nat :
           \E status :
             Tables(db') /\ Telltale(db', earlier, end, mode, count, bad, status)
<1>1. PICK earlier \in EarlierFiles, mode \in {"", "table_per_file", "table_per_page"},
        end \in {"complete", "interrupted", "lost"}, flaw \in Flaws,
        status \in {"ok", "network_failure", "not_attempted"} :
       \E count \in 0 .. (IF mode = "" \/ stage = "stopped" THEN 0 ELSE RequestCount) :
         \E bad \in IF status = "ok" THEN {0} ELSE 1 .. count :
           LET spent == Cardinality({what \in {"end", "flaw", "status"} :
                          \/ what = "end" /\ end # "complete" /\ stage = "ended"
                          \/ what = "flaw" /\ flaw # ""
                          \/ what = "status" /\ status # "ok"})
           IN  /\ IF mode = "" THEN end = "complete" => stage = "ended"
                  ELSE end = "complete" => MayFinalize(count, bad, status)
               /\ flaw # "" => mode = "table_per_page" /\ count > 0
               /\ spent <= MaxMishaps - mishaps
               /\ luck' = MaxMishaps - mishaps - spent
               /\ db' = Records(earlier, end, mode, count, bad, status, flaw)
  BY DEF Recorded
<1>01. mode \in Modes /\ end \in Ends
  BY DEF Modes, Ends
<1>2. PICK count \in 0 .. (IF mode = "" \/ stage = "stopped" THEN 0 ELSE RequestCount) :
         \E bad \in IF status = "ok" THEN {0} ELSE 1 .. count :
           /\ IF mode = "" THEN end = "complete" => stage = "ended"
              ELSE end = "complete" => MayFinalize(count, bad, status)
           /\ db' = Records(earlier, end, mode, count, bad, status, flaw)
  BY <1>1, Zenon
<1>3. PICK bad \in IF status = "ok" THEN {0} ELSE 1 .. count :
           /\ IF mode = "" THEN end = "complete" => stage = "ended"
              ELSE end = "complete" => MayFinalize(count, bad, status)
           /\ db' = Records(earlier, end, mode, count, bad, status, flaw)
  BY <1>2
<1>4. rows \in Seq(Rows)
  BY DEF ConversionInv
<1>5. RequestCount \in Nat
  BY <1>4, RequestsHaveFrames
<1>6. count \in 0 .. RequestCount /\ (mode = "" => count = 0) /\ bad \in Nat
  <2>1. (mode = "" \/ stage = "stopped") \in BOOLEAN /\ (status = "ok") \in BOOLEAN
    OBVIOUS
  <2> QED BY <1>2, <1>3, <1>5, <2>1, ChoiceLies, Zenon
<1>8. end = "complete" => stage = "ended" /\ (mode # "" => count = RequestCount)
  BY <1>3 DEF MayFinalize
<1> DEFINE d == db'
<1>9. d = Records(earlier, end, mode, count, bad, status, flaw)
  BY <1>3
<1> HIDE DEF d
<1>10. Tables(d) /\ Telltale(d, earlier, end, mode, count, bad, status)
  BY <1>4, <1>6, <1>8, <1>9, <1>01, RecordsTell, Zenon
<1> QED BY <1>6, <1>01, <1>10 DEF d

\* The tables stay tables.
LEMMA TablesStep ==
  ASSUME ConversionInv, TablesHold, [FileToReportNext]_<<conversionVars, exportVars>>
  PROVE  TablesHold'
<1>1. CASE Recorded
  <2>1. Tables(db') /\ snapshot' = snapshot
    <3>1. Tables(db')
      BY <1>1, RecordedTells, Zenon
    <3> QED BY <1>1, <3>1 DEF Recorded
  <2> QED BY <2>1 DEF TablesHold
<1>2. CASE AnotherRunCommits \/ Damaged
  BY <1>2, TablesKept
<1>3. CASE ReadConfiguration
  <2>1. db' = db /\ snapshot' = db
    BY <1>3 DEF ReadConfiguration
  <2> QED BY <2>1 DEF TablesHold
<1>4. CASE db' = db /\ snapshot' = snapshot
  BY <1>4 DEF TablesHold
<1>5. ExportNext => AnotherRunCommits \/ ReadConfiguration \/ (db' = db /\ snapshot' = snapshot)
  <2>1. StartExport \/ ConfigurationMissing \/ ExportFails \/ ChooseStamp \/ Reserve \/ Write \/ Name \/ Rename
          => db' = db /\ snapshot' = snapshot
    BY DEF StartExport, ConfigurationMissing, ExportFails, ChooseStamp, Reserve, Write, Name, Rename
  <2>2. NameTaken \/ DataFails \/ Trouble \/ Locked \/ JobRefused => db' = db /\ snapshot' = snapshot
    BY DEF NameTaken, DataFails, Trouble, Locked, JobRefused, GiveUp, TryAgain
  <2>3. AnotherProgramWrites \/ Killed => db' = db /\ snapshot' = snapshot
    BY DEF AnotherProgramWrites, Killed
  <2> QED BY <2>1, <2>2, <2>3 DEF ExportNext
<1>6. UNCHANGED exportVars => db' = db /\ snapshot' = snapshot
  BY DEF exportVars
<1> QED BY <1>1, <1>2, <1>3, <1>4, <1>5, <1>6 DEF FileToReportNext

\* And are at first.
LEMMA TablesBegin == FileToReportInit => TablesHold /\ NoticesTold
<1> SUFFICES ASSUME FileToReportInit PROVE TablesHold /\ NoticesTold
  OBVIOUS
<1>1. db = NoDatabase /\ snapshot = NoDatabase /\ outcome = NoOutcome /\ phase = "none"
  BY DEF FileToReportInit
<1>2. Table(<< >>)
  <2>1. << >> \in Seq({})
    BY EmptySeq
  <2> QED BY <2>1, SequenceIsTable
<1>3. Tables(NoDatabase)
  BY <1>2 DEF Tables, NoDatabase
<1>4. outcome.saved = {} /\ outcome.notices = {} /\ phase \notin Writing
  BY <1>1 DEF NoOutcome, Writing
<1> QED BY <1>1, <1>3, <1>4 DEF TablesHold, NoticesTold

\* The notices through every step.
LEMMA NoticesStep ==
  ASSUME IInv, NoticesTold, [FileToReportNext]_<<conversionVars, exportVars>>
  PROVE  NoticesTold'
<1>1. CASE ExportNext
  BY <1>1, ExportNotices
<1>2. CASE Recorded
  <2>1. UNCHANGED <<snapshot, queue, job, outcome>> /\ phase = "none" /\ phase' = "closed"
    BY <1>2 DEF Recorded
  <2> QED BY <2>1, NoticesRest DEF job, Writing
<1>3. CASE Damaged
  <2>1. UNCHANGED <<snapshot, queue, job, outcome, phase>>
    BY <1>3 DEF Damaged
  <2> QED BY <2>1, NoticesRest DEF job
<1>4. CASE UNCHANGED exportVars
  BY <1>4, NoticesRest DEF exportVars, job
<1> QED BY <1>1, <1>2, <1>3, <1>4 DEF FileToReportNext

-----------------------------------------------------------------------------
(* What the sheets leave out *)

\* What a function makes of finitely many things is finitely many.
LEMMA FewMade ==
  ASSUME NEW S, IsFiniteSet(S), NEW f
  PROVE  IsFiniteSet({f[x] : x \in S})
<1> DEFINE T == {f[x] : x \in S}
           g == [x \in S |-> f[x]]
<1>1. g \in Surjection(S, T)
  BY DEF Surjection
<1> QED BY <1>1, FS_Surjection

\* The Results of a database are finitely many rows.
LEMMA ResultsCount ==
  ASSUME NEW d, Tables(d)
  PROVE  Cardinality(results_rows(d)) \in Nat
<1> DEFINE F == {g \in DOMAIN d.files : RequestsOf(d, g) = {}}
           Q == {r \in DOMAIN d.requests : AnswersOf(d, r) = {}}
           A == DOMAIN d.answers
           ofFile == [f \in F |-> FileRow(d, f)]
           ofRequest == [q \in Q |-> RequestRow(d, q)]
           ofAnswer == [a \in A |-> AnswerRow(d, a)]
<1>1. IsFiniteSet(F) /\ IsFiniteSet(Q) /\ IsFiniteSet(A)
  <2>1. IsFiniteSet(DOMAIN d.files) /\ IsFiniteSet(DOMAIN d.requests) /\ IsFiniteSet(DOMAIN d.answers)
    BY TableCounts DEF Tables
  <2>2. F \subseteq DOMAIN d.files /\ Q \subseteq DOMAIN d.requests
    OBVIOUS
  <2> HIDE DEF F, Q
  <2> QED BY <2>1, <2>2, FS_Subset
<1>2. results_rows(d) = {ofFile[f] : f \in F} \cup {ofRequest[q] : q \in Q} \cup {ofAnswer[a] : a \in A}
  BY DEF results_rows
<1> HIDE DEF ofFile, ofRequest, ofAnswer, F, Q, A
<1>3. IsFiniteSet({ofFile[f] : f \in F}) /\ IsFiniteSet({ofRequest[q] : q \in Q})
      /\ IsFiniteSet({ofAnswer[a] : a \in A})
  BY <1>1, FewMade
<1>4. IsFiniteSet(results_rows(d))
  BY <1>2, <1>3, FS_Union
<1> QED BY <1>4, FS_CardinalityType

\* Every report has a number of rows.
LEMMA RowsCount ==
  ASSUME NEW d, Tables(d), NEW r
  PROVE  RowCount(d, r) \in Nat
<1>1. Cardinality(results_rows(d)) \in Nat
  BY ResultsCount
<1>2. Len(d.files) \in Nat /\ Len(d.pages) \in Nat /\ Len(d.requests) \in Nat /\ Len(d.answers) \in Nat
  BY TableCounts DEF Tables
<1> QED BY <1>1, <1>2, Zenon DEF RowCount

\* A workbook with notices tells what it leaves out.
LEMMA OmissionsHold == IInv /\ NoticesTold /\ TablesHold => OmissionsTold
<1> SUFFICES ASSUME IInv, NoticesTold, TablesHold, NEW s \in outcome.saved, s[1] = "Workbook",
                    NEW r \in ToSet(Csvs(snapshot))
             PROVE  LET sheet == Sheets(snapshot)[r]
                    IN  /\ sheet.shown + sheet.omitted = RowCount(snapshot, r)
                        /\ sheet.shown + (IF sheet.marked THEN 1 ELSE 0) <= EXCEL_MAX_ROWS
                        /\ sheet.marked <=> sheet.omitted > 0
                        /\ r \in outcome.notices <=> sheet.omitted > 0
  BY DEF OmissionsTold
<1> DEFINE total == RowCount(snapshot, r)
           sheet == Sheets(snapshot)[r]
<1>1. sheet = Sheet(total)
  BY DEF Sheets
<1>2. r \in outcome.notices <=> sheet.omitted > 0
  BY DEF NoticesTold, Notices
<1>3. total \in Nat
  BY RowsCount DEF TablesHold
<1> HIDE DEF total, sheet
<1>4. /\ sheet.shown + sheet.omitted = total
      /\ sheet.shown + (IF sheet.marked THEN 1 ELSE 0) <= EXCEL_MAX_ROWS
      /\ sheet.marked <=> sheet.omitted > 0
  <2> DEFINE kept == EXCEL_MAX_ROWS - 1
  <2>0. EXCEL_MAX_ROWS \in Nat /\ EXCEL_MAX_ROWS > 0
    BY RowsAssumption
  <2>1. CASE total <= EXCEL_MAX_ROWS
    <3>1. sheet = [shown |-> total, marked |-> FALSE, omitted |-> 0]
      BY <1>1, <1>3, <2>1, SheetTells
    <3>2. sheet.shown = total /\ sheet.omitted = 0
      BY <3>1
    <3>3. ~ sheet.marked
      BY <3>1
    <3>4. sheet.shown + (IF sheet.marked THEN 1 ELSE 0) = total + 0
      BY <3>2, <3>3
    <3>5. total + 0 <= EXCEL_MAX_ROWS /\ total + 0 = total /\ ~ (0 > 0)
      BY <1>3, <2>0, <2>1
    <3>6. sheet.shown + sheet.omitted = total + 0
      BY <3>2
    <3> QED BY <3>2, <3>3, <3>4, <3>5, <3>6
  <2>2. CASE ~ (total <= EXCEL_MAX_ROWS)
    <3>1. sheet = [shown |-> kept, marked |-> TRUE, omitted |-> total - kept]
      BY <1>1, <1>3, <2>2, SheetTells
    <3>2. sheet.shown = kept /\ sheet.omitted = total - kept
      BY <3>1
    <3>3. sheet.marked
      BY <3>1
    <3>4. sheet.shown + (IF sheet.marked THEN 1 ELSE 0) = kept + 1
      BY <3>2, <3>3
    <3>5. kept + 1 <= EXCEL_MAX_ROWS /\ kept + (total - kept) = total /\ total - kept > 0
      BY <1>3, <2>0, <2>2
    <3>6. sheet.shown + sheet.omitted = kept + (total - kept)
      BY <3>2
    <3> QED BY <3>2, <3>3, <3>4, <3>5, <3>6
  <2> QED BY <2>1, <2>2
<1> QED BY <1>2, <1>4 DEF sheet, total

\* A workbook that cannot hold all rows of a report says so, in the sheet and to the user, and one that
\* says nothing is complete, for any limit of a sheet (_write_sheet waits with the row that would be the
\* last until it knows whether another comes).
THEOREM WorkbooksTell == FileToReportSpec => []OmissionsTold
<1>1. FileToReportInit => IInv /\ ConversionInv /\ TablesHold /\ NoticesTold
  BY InitKeeps, ConversionBegins, TablesBegin DEF FileToReportInit
<1>2. (IInv /\ ConversionInv /\ TablesHold /\ NoticesTold) /\ [FileToReportNext]_<<conversionVars, exportVars>>
        => (IInv /\ ConversionInv /\ TablesHold /\ NoticesTold)'
  BY StepKeeps, ConversionStep, TablesStep, NoticesStep
<1>3. IInv /\ ConversionInv /\ TablesHold /\ NoticesTold => OmissionsTold
  BY OmissionsHold
<1> QED BY <1>1, <1>2, <1>3, PTL DEF FileToReportSpec

-----------------------------------------------------------------------------
(* What a closed database says of the conversion *)

\* A range that is selected is no failure, which is how a failed conversion is recorded.
RangeKnown == range_status # "failure" /\ (Finished => summary.status # "failure")

\* Every status of a selection is another one.
LEMMA RangesKnown ==
  /\ \A s, o, c : RangeStatus(s, o, c) # "failure"
  /\ \A segments, total : calculate_indices(segments, total).status # "failure"
  /\ \A segments, duration, mode, end : get_target_times(segments, duration, mode, end).status # "failure"
<1>1. \A s, o, c : RangeStatus(s, o, c) # "failure"
  BY DEF RangeStatus
<1>2. \A segments, total : calculate_indices(segments, total).status # "failure"
  BY <1>1, Zenon DEF calculate_indices
<1>3. \A segments, duration, mode, end : get_target_times(segments, duration, mode, end).status # "failure"
  <2> TAKE segments, duration, mode, end
  <2>1. \E s, o, c : get_target_times(segments, duration, mode, end).status = RangeStatus(s, o, c)
    BY Zenon DEF get_target_times
  <2> QED BY <1>1, <2>1
<1> QED BY <1>1, <1>2, <1>3

\* An abort leaves the range alone.
LEMMA AbortKnown ==
  ASSUME RangeKnown, Abort
  PROVE  RangeKnown'
BY DEF Abort, RangeKnown, Finished, plan

\* The range is set when the file is opened.
LEMMA BeginKnown ==
  ASSUME RangeKnown, NEW S, NEW status, status # "failure", Begin(S, status)
  PROVE  RangeKnown'
<1>1. range_status' = status /\ stage' # "ended"
  BY DEF Begin
<1> QED BY <1>1 DEF RangeKnown, Finished

\* And rests afterwards.
LEMMA RangeRests ==
  ASSUME RangeKnown, UNCHANGED plan, stage' # "ended"
  PROVE  RangeKnown'
BY DEF RangeKnown, Finished, plan

\* Every step of a conversion.
LEMMA RangeStep ==
  ASSUME RangeKnown, ConversionNext
  PROVE  RangeKnown'
<1>1. CASE Rejected \/ OpenFails \/ NoPages \/ CloseFails
  BY <1>1, AbortKnown DEF Rejected, OpenFails, NoPages, CloseFails
<1>2. CASE OpenDocument
  <2> DEFINE asked == calculate_indices(Compile(file.typed), Total)
  <2>1. asked.status # "failure"
    BY RangesKnown
  <2>2. PICK S : Begin(S, "truncated") \/ Begin(S, asked.status)
    BY <1>2 DEF OpenDocument
  <2> HIDE DEF asked
  <2> QED BY <2>1, <2>2, BeginKnown
<1>3. CASE OpenImage
  <2>1. \E S, total : Begin(S, "ok") \/ Begin(S, calculate_indices(Compile(file.typed), total).status)
    BY <1>3 DEF OpenImage
  <2> QED BY <2>1, RangesKnown, BeginKnown
<1>4. CASE OpenAnimation
  <2>1. \E S : Begin(S, calculate_indices(Compile(file.typed), Total).status)
    BY <1>4 DEF OpenAnimation
  <2> QED BY <2>1, RangesKnown, BeginKnown
<1>5. CASE OpenVideo
  <2>1. Abort \/ \E count : Begin(Asked(count).times, Asked(count).status)
    BY <1>5 DEF OpenVideo
  <2>2. \A count : Asked(count).status # "failure"
    BY RangesKnown DEF Asked
  <2> QED BY <2>1, <2>2, AbortKnown, BeginKnown
<1>6. CASE PageSaved \/ PageFails
  <2>1. StepOn(Len(targets)) /\ stage = "pages"
    BY <1>6 DEF PageSaved, PageFails, Paged
  <2> QED BY <2>1, RangeRests DEF StepOn
<1>7. CASE AnimationEndsEarly \/ FrameCorrupt
  <2>1. UNCHANGED plan /\ stage' = "close"
    BY <1>7 DEF AnimationEndsEarly, FrameCorrupt
  <2> QED BY <2>1, RangeRests
<1>8. CASE FramePassed \/ FrameStatic \/ FrameSaved \/ FrameFails
  <2>1. StepOn(Total) /\ stage = "pages"
    BY <1>8 DEF FramePassed, FrameStatic, FrameSaved, FrameFails, Decoding
  <2> QED BY <2>1, RangeRests DEF StepOn
<1>9. CASE DecoderRejects
  <2>1. UNCHANGED plan /\ stage = "pages" /\ stage' = "pages"
    BY <1>9 DEF DecoderRejects, Seeking
  <2> QED BY <2>1, RangeRests
<1>10. CASE EndOfStream \/ SceneStatic \/ SceneSaved \/ SceneFails
  <2>1. StepOn(Len(targets)) /\ stage = "pages"
    BY <1>10 DEF EndOfStream, SceneStatic, SceneSaved, SceneFails, Seeking
  <2> QED BY <2>1, RangeRests DEF StepOn
<1>11. CASE finalize_results
  <2>1. range_status' = range_status
    BY <1>11 DEF finalize_results, plan
  <2>2. summary'.status = range_status
    BY <1>11 DEF finalize_results
  <2> QED BY <2>1, <2>2 DEF RangeKnown
<1>12. CASE Stopped
  <2>1. UNCHANGED plan /\ stage' = "stopped"
    BY <1>12 DEF Stopped
  <2> QED BY <2>1, RangeRests
<1> QED BY <1>1, <1>2, <1>3, <1>4, <1>5, <1>6, <1>7, <1>8, <1>9, <1>10, <1>11, <1>12 DEF ConversionNext

\* The database tells of this conversion, in some way the batch loop can end.
Recounts(d) ==
  \E earlier \in EarlierFiles, end \in Ends, mode \in Modes, count \in 0 .. RequestCount, bad \in Nat :
    \E status : Telltale(d, earlier, end, mode, count, bad, status)

\* Until the export begins the database is about the conversion that ended, unless it was damaged.
Truthful ==
  /\ phase # "none" => stage \in {"ended", "stopped"}
  /\ phase = "closed" =>
       /\ \A a \in DOMAIN db.answers :
            {"file", "page"} \subseteq DOMAIN db.answers[a] /\ db.answers[a].file = Len(db.files)
       /\ ValidReferences(db) => Recounts(db)

\* A conversion that has ended makes no step.
LEMMA EndedRests ==
  ASSUME stage \in {"ended", "stopped"}
  PROVE  ~ ConversionNext
BY DEF ConversionNext, Rejected, OpenFails, NoPages, OpenDocument, OpenImage, OpenAnimation, OpenVideo,
       PageSaved, PageFails, Paged, AnimationEndsEarly, FrameCorrupt, FramePassed, FrameStatic, FrameSaved,
       FrameFails, Decoding, EndOfStream, DecoderRejects, SceneStatic, SceneSaved, SceneFails, Seeking,
       finalize_results, CloseFails, Stopped

\* What a database tells of stays while the conversion does.
LEMMA RecountsStays ==
  ASSUME UNCHANGED <<rows, stage, summary>>, Recounts(db')
  PROVE  (Recounts(db))'
<1>1. Frames' = Frames
  BY DEF Frames
<1>2. RequestCount' = RequestCount /\ \A q : FramesOf(q)' = FramesOf(q)
  BY <1>1 DEF RequestCount, FramesOf
<1>3. ASSUME NEW earlier, NEW end, NEW mode, NEW count, NEW bad, NEW status,
             Telltale(db', earlier, end, mode, count, bad, status)
      PROVE  Telltale(db, earlier, end, mode, count, bad, status)'
  <2>1. FileRecord(end)' = FileRecord(end)
    BY DEF FileRecord
  <2>2. Requests(Len(earlier) + 1, count, bad, status)' = Requests(Len(earlier) + 1, count, bad, status)
    BY <1>2 DEF Requests
  <2>3. \A x, first : Answering(db, first, x)' <=> Answering(db', first, x)
    BY <1>2 DEF Answering
  <2> QED BY <1>2, <1>3, <2>1, <2>2, <2>3 DEF Telltale
<1> QED BY <1>2, <1>3 DEF Recounts

\* What cannot be read does not change what is told.
LEMMA UnreadableRecounts ==
  ASSUME NEW d, NEW e, Recounts(d), e.ai = d.ai, e.mode = d.mode, e.files = d.files, e.pages = d.pages,
         e.requests = d.requests, e.answers = d.answers
  PROVE  Recounts(e)
<1>1. \A first, x : Answering(d, first, x) => Answering(e, first, x)
  BY DEF Answering
<1>2. ASSUME NEW earlier, NEW end, NEW mode, NEW count, NEW bad, NEW status,
             Telltale(d, earlier, end, mode, count, bad, status)
      PROVE  Telltale(e, earlier, end, mode, count, bad, status)
  BY <1>1, <1>2 DEF Telltale
<1> QED BY <1>2 DEF Recounts

\* What is damaged tells no less, or does not pass for valid.
LEMMA DamageTells ==
  ASSUME TablesHold, Truthful, Damaged, UNCHANGED conversionVars
  PROVE  Truthful'
<1> DEFINE d == db
           e == db'
<1>0. /\ d = [ai |-> d.ai, mode |-> d.mode, files |-> d.files, pages |-> d.pages,
              requests |-> d.requests, answers |-> d.answers, readable |-> d.readable]
      /\ Table(d.answers)
  BY DEF TablesHold, Tables
<1>1. /\ phase = "closed" /\ phase' = "closed" /\ d.answers # << >>
      /\ UNCHANGED <<rows, stage, summary>>
  BY DEF Damaged, conversionVars, made
<1>2. /\ stage \in {"ended", "stopped"}
      /\ \A a \in DOMAIN d.answers : {"file", "page"} \subseteq DOMAIN d.answers[a] /\ d.answers[a].file = Len(d.files)
      /\ ValidReferences(d) => Recounts(d)
  BY <1>1 DEF Truthful
<1>3. SUFFICES /\ \A a \in DOMAIN e.answers : {"file", "page"} \subseteq DOMAIN e.answers[a] /\ e.answers[a].file = Len(e.files)
               /\ ValidReferences(e) => Recounts(e)
  BY <1>1, <1>2, RecountsStays DEF Truthful
<1>4. CASE e = [d EXCEPT !.readable = FALSE]
  <2> HIDE DEF d, e
  <2>1. e = [ai |-> d.ai, mode |-> d.mode, files |-> d.files, pages |-> d.pages,
             requests |-> d.requests, answers |-> d.answers, readable |-> FALSE]
    BY <1>0, <1>4
  <2>2. /\ e.ai = d.ai /\ e.mode = d.mode /\ e.files = d.files /\ e.pages = d.pages
        /\ e.requests = d.requests /\ e.answers = d.answers
    BY <2>1
  <2>3. ValidReferences(e) => ValidReferences(d)
    BY <2>2 DEF ValidReferences
  <2>4. Recounts(d) => Recounts(e)
    BY <2>2, UnreadableRecounts
  <2> QED BY <1>2, <2>2, <2>3, <2>4
<1>5. CASE d.pages[1].file = 1 /\ Len(d.files) = 2 /\ e = [d EXCEPT !.answers[1].page = 1]
  <2> HIDE DEF d, e
  <2> DEFINE x == d.answers[1]
             y == [x EXCEPT !.page = 1]
             answers == [d.answers EXCEPT ![1] = y]
  <2>1. e = [ai |-> d.ai, mode |-> d.mode, files |-> d.files, pages |-> d.pages,
             requests |-> d.requests, answers |-> answers, readable |-> d.readable]
    BY <1>0, <1>5
  <2>2. DOMAIN answers = DOMAIN d.answers /\ \A a \in DOMAIN answers : answers[a] = IF a = 1 THEN y ELSE d.answers[a]
    OBVIOUS
  <2>3. 1 \in DOMAIN d.answers
    <3>1. PICK n \in Nat : DOMAIN d.answers = 1 .. n /\ d.answers = [i \in 1 .. n |-> d.answers[i]]
      BY <1>0 DEF Table
    <3>2. n # 0
      <4> SUFFICES ASSUME n = 0 PROVE FALSE
        OBVIOUS
      <4>1. d.answers = << >>
        BY <3>1
      <4> QED BY <1>1, <4>1 DEF d
    <3> QED BY <3>1, <3>2
  <2>4. {"file", "page"} \subseteq DOMAIN x /\ x.file = Len(d.files)
    BY <1>2, <2>3
  <2>5. DOMAIN y = DOMAIN x /\ y.file = x.file
    BY <2>4
  <2> HIDE DEF answers, y, x
  <2>6. e.answers = answers /\ e.files = d.files /\ e.pages = d.pages
    BY <2>1
  <2>7. \A a \in DOMAIN e.answers : {"file", "page"} \subseteq DOMAIN e.answers[a] /\ e.answers[a].file = Len(e.files)
    BY <1>2, <2>2, <2>4, <2>5, <2>6
  <2>8. ~ ValidReferences(e)
    <3> SUFFICES ASSUME ValidReferences(e) PROVE FALSE
      OBVIOUS
    <3> DEFINE b == e.answers[1]
    <3>1. b = y /\ 1 \in DOMAIN e.answers
      BY <2>2, <2>3, <2>6
    <3>2. b.page # 0 => e.pages[b.page].file = b.file
      BY <3>1, Zenon DEF ValidReferences
    <3>3. "page" \in DOMAIN x => b.page = 1
      BY <3>1 DEF y
    <3>4. e.pages[1].file = 1 /\ b.file = 2 /\ b.page = 1
      BY <1>5, <2>4, <2>5, <2>6, <3>1, <3>3
    <3> HIDE DEF b
    <3>5. e.pages[1].file = b.file
      BY <3>2, <3>4
    <3> QED BY <3>4, <3>5
  <2> QED BY <2>7, <2>8
<1> QED BY <1>4, <1>5 DEF Damaged

\* Every step keeps it.
LEMMA TruthStep ==
  ASSUME ConversionInv, TablesHold, Truthful, [FileToReportNext]_<<conversionVars, exportVars>>
  PROVE  Truthful'
<1>1. CASE Recorded
  <2> DEFINE d == db'
  <2>1. UNCHANGED <<rows, stage, summary>> /\ stage \in {"ended", "stopped"}
    BY <1>1, EndedRests DEF Recorded, FileToReportNext, conversionVars, made
  <2>2. PICK earlier \in EarlierFiles, end \in Ends, mode \in Modes, count \in 0 .. RequestCount, bad \in Nat :
           \E status :
             Telltale(d, earlier, end, mode, count, bad, status)
    BY <1>1, RecordedTells
  <2>3. Recounts(d)
    BY <2>2 DEF Recounts
  <2>4. \A a \in DOMAIN d.answers : {"file", "page"} \subseteq DOMAIN d.answers[a] /\ d.answers[a].file = Len(d.files)
    BY <2>2 DEF Telltale, Answering
  <2> HIDE DEF d
  <2>5. (Recounts(db))'
    BY <2>1, <2>3, RecountsStays DEF d
  <2> QED BY <2>1, <2>4, <2>5 DEF Truthful, d
<1>2. CASE Damaged
  <2>1. UNCHANGED conversionVars
    <3>1. phase = "closed"
      BY <1>2 DEF Damaged
    <3> QED BY <3>1, EndedRests DEF Truthful, FileToReportNext
  <2> QED BY <1>2, <2>1, DamageTells
<1>3. CASE ExportNext /\ UNCHANGED conversionVars
  <2>1. UNCHANGED <<rows, stage, summary>>
    BY <1>3 DEF conversionVars, made
  <2>2. phase' \notin {"none", "closed"} /\ (phase = "none" => FALSE)
    <3>1. StartExport \/ ConfigurationMissing \/ ReadConfiguration \/ ExportFails \/ ChooseStamp
            => phase' \notin {"none", "closed"} /\ phase # "none"
      BY DEF StartExport, ConfigurationMissing, ReadConfiguration, ExportFails, OutsideOfReports, ChooseStamp
    <3>2. Reserve \/ Write \/ Name \/ Rename \/ NameTaken => phase' \notin {"none", "closed"} /\ phase # "none"
      BY DEF Reserve, Write, Name, Rename, NameTaken, GiveUp, NextJob
    <3>3. DataFails \/ Trouble \/ Locked \/ JobRefused => phase' \notin {"none", "closed"} /\ phase # "none"
      BY DEF DataFails, Trouble, Locked, JobRefused, GiveUp, NextJob, TryAgain
    <3>4. AnotherProgramWrites \/ AnotherRunCommits \/ Killed => phase' \notin {"none", "closed"} /\ phase # "none"
      BY DEF AnotherProgramWrites, AnotherRunCommits, Killed
    <3> QED BY <1>3, <3>1, <3>2, <3>3, <3>4 DEF ExportNext
  <2> QED BY <2>1, <2>2 DEF Truthful
<1>4. CASE UNCHANGED exportVars
  <2>1. phase' = phase /\ db' = db
    BY <1>4 DEF exportVars
  <2>2. phase # "none" => UNCHANGED <<rows, stage, summary>>
    <3>1. phase # "none" => UNCHANGED conversionVars
      BY EndedRests DEF Truthful, FileToReportNext, Recorded
    <3> QED BY <3>1 DEF conversionVars, made
  <2> QED BY <2>1, <2>2, RecountsStays DEF Truthful
<1> QED BY <1>1, <1>2, <1>3, <1>4 DEF FileToReportNext

-----------------------------------------------------------------------------
(* What the Results say of it *)

\* A file without notes: its attempt is complete, the only one of its path, and nothing is noted of its
\* conversion or its requests.
LEMMA NoNotes ==
  ASSUME NEW d, NEW f, FileNotes(d, f) = {}
  PROVE  /\ d.files[f].complete
         /\ Previous(d, f) \cup Later(d, f) = {}
         /\ ~ Noted(d.files[f].comment)
         /\ d.files[f].range # ""
         /\ Cardinality(RequestsOf(d, f)) > 1 => \A q \in RequestsOf(d, f) : d.requests[q].status = "ok"
<1> DEFINE a == d.files[f]
           Failed == {p \in PagesOf(d, f) : d.pages[p].status \notin {"ok", "skipped"}}
           Converted == {p \in PagesOf(d, f) : d.pages[p].status = "ok"}
           many == Cardinality(RequestsOf(d, f)) > 1
                    /\ \E q \in RequestsOf(d, f) : d.requests[q].status # "ok"
           since == Previous(d, f) # {} /\ OtherSource(d, f, Max(Previous(d, f)))
           after == Later(d, f) # {} /\ OtherSource(d, f, Min(Later(d, f)))
           none == RequestsOf(d, f) = {} /\ d.ai /\ Converted # {}
           lost == ~ a.complete /\ a.error
           applies ==
             [incomplete    |-> ~ a.complete,
              error         |-> lost,
              attempt       |-> Previous(d, f) \cup Later(d, f) # {},
              changed_since |-> since,
              changed_after |-> after,
              pages_failed  |-> Failed # {},
              comment       |-> Noted(a.comment),
              truncated     |-> a.range = "truncated",
              partial_skip  |-> a.range = "partial_skip",
              unrecorded    |-> a.range = "",
              no_request    |-> none,
              other_request |-> many]
<1>1. \A n \in DOMAIN applies : ~ applies[n]
  BY DEF FileNotes
<1> HIDE DEF Failed, Converted, many, since, after, none, lost
<1>2. {"incomplete", "attempt", "comment", "unrecorded", "other_request"} \subseteq DOMAIN applies
  OBVIOUS
<1>3. /\ applies["incomplete"] = ~ a.complete
      /\ applies["attempt"] = (Previous(d, f) \cup Later(d, f) # {})
      /\ applies["comment"] = Noted(a.comment)
      /\ applies["unrecorded"] = (a.range = "")
      /\ applies["other_request"] = many
  BY Zenon
<1> HIDE DEF applies
<1>4. a.complete /\ Previous(d, f) \cup Later(d, f) = {} /\ ~ Noted(a.comment) /\ a.range # "" /\ ~ many
  BY <1>1, <1>2, <1>3
<1> QED BY <1>4, Zenon DEF many

\* The pages of the file are the rows of its conversion.
LEMMA PagesTell ==
  ASSUME rows \in Seq(Rows), NEW d, NEW earlier \in EarlierFiles, NEW end, NEW mode, NEW status, NEW count, NEW bad,
         Telltale(d, earlier, end, mode, count, bad, status)
  PROVE  LET first == Len(EarlierPages(earlier))
             f == Len(earlier) + 1
         IN  /\ first \in Nat
             /\ \A k \in DOMAIN rows :
                  first + k \in PagesOf(d, f) /\ d.pages[first + k] = PageRecord(f, rows[k])
             /\ \A p \in PagesOf(d, f) : \E k \in DOMAIN rows : p = first + k
<1> DEFINE before == EarlierPages(earlier)
           first == Len(before)
           f == Len(earlier) + 1
           here == [i \in DOMAIN rows |-> PageRecord(f, rows[i])]
<1>1. /\ Table(earlier) /\ Len(earlier) \in {0, 1} /\ Table(before) /\ first \in 0 .. Len(earlier)
      /\ \A i \in DOMAIN before : before[i].file = 1
  BY EarlierAre
<1>2. Table(here) /\ Len(here) = Len(rows) /\ DOMAIN here = DOMAIN rows
  BY PagesAre
<1>3. d.pages = before \o here
  BY DEF Telltale
<1>4. \A k \in DOMAIN rows : here[k] = PageRecord(f, rows[k]) /\ here[k].file = f
  BY DEF PageRecord
<1>5. Len(rows) \in Nat /\ DOMAIN rows = 1 .. Len(rows)
  BY LenProperties
<1> HIDE DEF here, before, f
<1>6. /\ Table(d.pages) /\ Len(d.pages) = first + Len(here)
      /\ \A i \in 1 .. first : d.pages[i] = before[i]
      /\ \A i \in 1 .. Len(here) : d.pages[first + i] = here[i]
  <2>0. Table(before) /\ Table(here)
    BY <1>1, <1>2
  <2>1. /\ Table(before \o here) /\ Len(before \o here) = Len(before) + Len(here)
        /\ \A i \in 1 .. Len(before) : (before \o here)[i] = before[i]
    BY <2>0, TablesJoin, Zenon
  <2>2. \A i \in 1 .. Len(here) : (before \o here)[Len(before) + i] = here[i]
    BY <2>0, TablesJoin
  <2> QED BY <1>3, <2>1, <2>2, Zenon
<1>7. DOMAIN d.pages = 1 .. first + Len(rows) /\ DOMAIN before = 1 .. first
  BY <1>1, <1>2, <1>6, TableCounts
<1>8. first \in Nat /\ f \in {1, 2} /\ (f = 1 => first = 0)
  <2> DEFINE n == Len(earlier)
  <2>1. n \in {0, 1} /\ first \in 0 .. n /\ f = n + 1
    BY <1>1 DEF f
  <2> HIDE DEF n, first, f
  <2> QED BY <2>1
<1> HIDE DEF first
<1>9. ASSUME NEW k \in DOMAIN rows PROVE first + k \in PagesOf(d, f) /\ d.pages[first + k] = PageRecord(f, rows[k])
  <2>1. first + k \in DOMAIN d.pages /\ k \in 1 .. Len(here)
    BY <1>2, <1>5, <1>7, <1>8
  <2> QED BY <1>4, <1>6, <2>1 DEF PagesOf
<1>10. ASSUME NEW p \in PagesOf(d, f) PROVE \E k \in DOMAIN rows : p = first + k
  <2>1. p \in 1 .. first + Len(rows) /\ d.pages[p].file = f
    BY <1>7 DEF PagesOf
  <2>2. ~ (p <= first)
    <3> SUFFICES ASSUME p <= first PROVE FALSE
      OBVIOUS
    <3>1. p \in 1 .. first
      BY <1>5, <1>8, <2>1
    <3>2. d.pages[p].file = 1
      BY <1>1, <1>6, <1>7, <3>1
    <3>3. first = 0
      BY <1>8, <2>1, <3>2
    <3> QED BY <3>1, <3>3
  <2>3. p - first \in DOMAIN rows /\ p = first + (p - first)
    BY <1>5, <1>8, <2>1, <2>2
  <2> QED BY <2>3
<1> QED BY <1>8, <1>9, <1>10 DEF first, before, f

\* The requests of the file are all requests, each with the pages that it was sent.
AllRequests(d, f, count) ==
  /\ DOMAIN d.requests = 1 .. count /\ RequestsOf(d, f) = 1 .. count
  /\ \A q \in 1 .. count : d.requests[q].file = f
       /\ d.requests[q].pages = {rows[i].page : i \in ToSet(FramesOf(q))}

\* So they are in a database that tells of the conversion.
LEMMA RequestsTell ==
  ASSUME NEW d, NEW earlier, NEW end, NEW mode, NEW status,
         NEW count \in Nat, NEW bad, Telltale(d, earlier, end, mode, count, bad, status)
  PROVE  AllRequests(d, Len(earlier) + 1, count)
<1> DEFINE f == Len(earlier) + 1
           sent == Requests(f, count, bad, status)
<1>1. d.requests = sent
  BY DEF Telltale
<1>2. DOMAIN sent = 1 .. count
  <2> HIDE DEF f
  <2> QED BY RequestsAre, Zenon
<1>3. ASSUME NEW q \in 1 .. count
      PROVE  sent[q].file = f /\ sent[q].pages = {rows[i].page : i \in ToSet(FramesOf(q))}
  <2> HIDE DEF f
  <2> QED BY DEF Requests
<1> HIDE DEF sent, f
<1>4. RequestsOf(d, f) = 1 .. count
  BY <1>1, <1>2, <1>3, Zenon DEF RequestsOf
<1>5. AllRequests(d, f, count)
  BY <1>1, <1>2, <1>3, <1>4, Zenon DEF AllRequests
<1> QED BY <1>5, Zenon DEF f

\* Rows that say ok are of different pages.
LEMMA SentDiffer ==
  ASSUME ConversionInv, NEW i \in Sendable, NEW k \in Sendable, rows[i].page = rows[k].page
  PROVE  i = k
<1>1. AbortRow.status # "ok"
  BY DEF AbortRow, Row
<1>2. /\ i \in DOMAIN targets /\ Fits(i, rows[i]) /\ k \in DOMAIN targets /\ Fits(k, rows[k])
  BY <1>1, RowsAre DEF Sendable
<1>3. PlannedAt(i) = PlannedAt(k) /\ PlanOK(file, targets)
  BY <1>2 DEF Fits, ConversionInv
<1>4. i \in Int /\ k \in Int
  BY <1>2, <1>3 DEF PlanOK
<1>5. ~ (i < k) /\ ~ (k < i)
  BY <1>2, <1>3, PagesDiffer
<1> QED BY <1>4, <1>5

\* And have their picture.
LEMMA SentPictured ==
  ASSUME ConversionInv, NEW i \in Sendable
  PROVE  Pictured(rows[i].page, rows[i].time)
<1>1. \E j \in jpegs : Holds(j, rows[i])
  BY PicturesHold DEF SavedRowsHaveTheirPicture, Sendable
<1> QED BY <1>1 DEF Holds, Pictured

\* The time looked up for a single page that was converted is that of its row.
LEMMA TimeFound ==
  ASSUME ConversionInv, NEW d, NEW earlier \in EarlierFiles, NEW end, NEW mode, NEW status, NEW count, NEW bad,
         Telltale(d, earlier, end, mode, count, bad, status), NEW i \in Sendable
  PROVE  FrameTime(d, Len(earlier) + 1, {rows[i].page}) = rows[i].time
<1> DEFINE first == Len(EarlierPages(earlier))
           f == Len(earlier) + 1
           cell == {rows[i].page}
           found == {p \in PagesOf(d, f) : cell = {d.pages[p].page} /\ d.pages[p].status = "ok"}
<1>1. rows \in Seq(Rows) /\ i \in DOMAIN rows /\ rows[i].status = "ok"
  BY DEF ConversionInv, Sendable
<1>2. /\ first \in Nat
      /\ \A k \in DOMAIN rows : first + k \in PagesOf(d, f) /\ d.pages[first + k] = PageRecord(f, rows[k])
      /\ \A p \in PagesOf(d, f) : \E k \in DOMAIN rows : p = first + k
  BY <1>1, PagesTell
<1>3. \A k \in DOMAIN rows : /\ d.pages[first + k].page = rows[k].page
                             /\ d.pages[first + k].status = rows[k].status
                             /\ d.pages[first + k].time = rows[k].time
  <2>1. \A row : LET x == PageRecord(f, row) IN x.page = row.page /\ x.status = row.status /\ x.time = row.time
    BY DEF PageRecord
  <2> HIDE DEF first, f
  <2> QED BY <1>2, <2>1
<1> HIDE DEF first, f
<1>4. found = {first + i}
  <2>1. first + i \in found
    BY <1>1, <1>2, <1>3
  <2>2. ASSUME NEW p \in found PROVE p = first + i
    <3>1. PICK k \in DOMAIN rows : p = first + k
      BY <1>2
    <3>2. rows[k].page = rows[i].page /\ rows[k].status = "ok"
      BY <1>3, <3>1
    <3>3. k \in Sendable
      BY <3>2 DEF Sendable
    <3>4. k = i
      BY <3>2, <3>3, SentDiffer
    <3> QED BY <3>1, <3>4
  <2> HIDE DEF found
  <2> QED BY <2>1, <2>2
<1>5. FrameTime(d, f, cell) = IF Cardinality(found) = 1 THEN d.pages[CHOOSE p \in found : TRUE].time ELSE NoTime
  BY DEF FrameTime
<1> HIDE DEF found, cell
<1>6. Cardinality(found) = 1 /\ (CHOOSE p \in found : TRUE) = first + i
  BY <1>4, FS_Singleton
<1>7. FrameTime(d, f, cell) = rows[i].time
  BY <1>1, <1>3, <1>5, <1>6
<1> QED BY <1>7 DEF f, cell

\* A row that is about a file without requests, about a request without answers, or about an answer.
AsFile(d, r, g) ==
  RequestsOf(d, g) = {} /\ r.file = g /\ r.page = {} /\ r.notes = FileNotes(d, g)
AsRequest(d, r, q) ==
  /\ AnswersOf(d, q) = {} /\ r.file = d.requests[q].file
  /\ r.page = d.requests[q].pages /\ r.time = FrameTime(d, r.file, r.page)
  /\ FileNotes(d, r.file) \subseteq r.notes
  /\ r.notes # {}
AsAnswer(d, r, a) ==
  /\ r.file = d.answers[a].file
  /\ r.page = AnswerCell(d, a) /\ r.time = AnswerTime(d, a, r.page)
  /\ FileNotes(d, d.requests[d.answers[a].request].file) \subseteq r.notes
  /\ d.requests[d.answers[a].request].status # "ok" \/ d.answers[a].error # "" => r.notes # {}

\* A row of the Results is about a file, a request or an answer.
LEMMA RowKinds ==
  ASSUME NEW d, NEW r \in results_rows(d)
  PROVE  \/ \E g \in DOMAIN d.files : AsFile(d, r, g)
         \/ \E q \in DOMAIN d.requests : AsRequest(d, r, q)
         \/ \E a \in DOMAIN d.answers : AsAnswer(d, r, a)
<1>1. CASE \E g \in DOMAIN d.files : RequestsOf(d, g) = {} /\ r = FileRow(d, g)
  BY <1>1 DEF FileRow, AsFile
<1>2. CASE \E q \in DOMAIN d.requests : AnswersOf(d, q) = {} /\ r = RequestRow(d, q)
  <2>1. PICK q \in DOMAIN d.requests : AnswersOf(d, q) = {} /\ r = RequestRow(d, q)
    BY <1>2
  <2> DEFINE x == d.requests[q]
             noted == RequestNotes(d, q) \cup (IF x.status = "ok" THEN {"no_answer"} ELSE {})
  <2>2. /\ r.file = x.file /\ r.page = x.pages /\ r.time = FrameTime(d, x.file, x.pages) /\ r.notes = noted
    BY <2>1 DEF RequestRow
  <2>3. RequestNotes(d, q) = FileNotes(d, x.file) \cup (IF x.status = "ok" THEN {} ELSE {x.status})
    BY DEF RequestNotes
  <2>4. FileNotes(d, x.file) \subseteq noted /\ noted # {}
    BY <2>3
  <2> QED BY <2>1, <2>2, <2>4 DEF AsRequest
<1>3. CASE \E a \in DOMAIN d.answers : r = AnswerRow(d, a)
  <2>1. PICK a \in DOMAIN d.answers : r = AnswerRow(d, a)
    BY <1>3
  <2> DEFINE x == d.answers[a]
             noted == RequestNotes(d, x.request)
                   \cup (IF x.error = "" THEN {} ELSE {x.error})
                   \cup (IF x.error = "" /\ x.empty THEN {"empty_values"} ELSE {})
  <2>2. r.file = x.file /\ r.page = AnswerCell(d, a) /\ r.time = AnswerTime(d, a, AnswerCell(d, a))
        /\ r.notes = noted
    BY <2>1 DEF AnswerRow
  <2>3. RequestNotes(d, x.request) = FileNotes(d, d.requests[x.request].file)
           \cup (IF d.requests[x.request].status = "ok" THEN {} ELSE {d.requests[x.request].status})
    BY DEF RequestNotes
  <2>4. /\ FileNotes(d, d.requests[x.request].file) \subseteq noted
        /\ d.requests[x.request].status # "ok" \/ x.error # "" => noted # {}
    BY <2>3
  <2> QED BY <2>2, <2>4 DEF AsAnswer
<1>4. \/ \E g \in DOMAIN d.files : RequestsOf(d, g) = {} /\ r = FileRow(d, g)
      \/ \E q \in DOMAIN d.requests : AnswersOf(d, q) = {} /\ r = RequestRow(d, q)
      \/ \E a \in DOMAIN d.answers : r = AnswerRow(d, a)
  BY DEF results_rows
<1> QED BY <1>1, <1>2, <1>3, <1>4

\* The pages of a request were sent, and a single one of them has its picture.
LEMMA RequestPictured ==
  ASSUME ConversionInv, NEW d, NEW earlier \in EarlierFiles, NEW end, NEW mode, NEW status,
         NEW count \in 0 .. RequestCount, NEW bad,
         Telltale(d, earlier, end, mode, count, bad, status), NEW q \in DOMAIN d.requests,
         NEW page \in d.requests[q].pages, Cardinality(d.requests[q].pages) = 1
  PROVE  Pictured(page, FrameTime(d, Len(earlier) + 1, d.requests[q].pages))
<1>1. rows \in Seq(Rows)
  BY DEF ConversionInv
<1>2. count \in Nat /\ RequestCount \in Nat
  BY <1>1, CountIsNat, Zenon
<1>3. q \in 1 .. count /\ d.requests[q].pages = {rows[i].page : i \in ToSet(FramesOf(q))}
  <2>1. AllRequests(d, Len(earlier) + 1, count)
    BY <1>2, RequestsTell, Zenon
  <2> QED BY <2>1, Zenon DEF AllRequests
<1>4. PICK i \in ToSet(FramesOf(q)) : page = rows[i].page
  BY <1>3
<1>5. q \in 1 .. RequestCount
  <2> DEFINE all == RequestCount
  <2>1. all \in Nat /\ count \in 0 .. all
    BY <1>2
  <2> HIDE DEF all
  <2>2. q \in 1 .. all
    BY <1>2, <1>3, <2>1
  <2> QED BY <2>2 DEF all
<1>6. i \in Sendable
  <2>1. Table(FramesOf(q)) /\ \A k \in 1 .. Len(FramesOf(q)) : FramesOf(q)[k] \in Sendable
    BY <1>1, <1>5, RequestsHaveFrames
  <2> QED BY <1>4, <2>1, TableCounts DEF ToSet
<1> DEFINE cell == d.requests[q].pages
<1>7. cell = {rows[i].page}
  <2>1. page \in cell /\ Cardinality(cell) = 1
    OBVIOUS
  <2> HIDE DEF cell
  <2>2. IsFiniteSet(cell)
    <3>1. IsFiniteSet(ToSet(FramesOf(q)))
      <4> DEFINE s == FramesOf(q)
      <4>1. Table(s)
        BY <1>1, <1>5, RequestsHaveFrames
      <4>2. IsFiniteSet(DOMAIN s)
        BY <4>1, TableCounts
      <4>3. ToSet(s) = {s[k] : k \in DOMAIN s}
        BY DEF ToSet
      <4> HIDE DEF s
      <4>4. IsFiniteSet(ToSet(s))
        BY <4>2, <4>3, FewMade
      <4> QED BY <4>4 DEF s
    <3> DEFINE S == ToSet(FramesOf(q))
               g == [k \in S |-> rows[k].page]
    <3>2. cell = {g[k] : k \in S}
      BY <1>3 DEF cell
    <3> HIDE DEF S, g
    <3> QED BY <3>1, <3>2, FewMade DEF S
  <2>3. \E x : cell = {x}
    BY <2>1, <2>2, FS_Singleton
  <2> QED BY <1>4, <2>1, <2>3
<1> HIDE DEF cell
<1>8. FrameTime(d, Len(earlier) + 1, cell) = rows[i].time
  BY <1>6, <1>7, TimeFound
<1> QED BY <1>4, <1>6, <1>8, SentPictured DEF cell

\* A page of an answer is one that was sent in its request.
LEMMA OwnPagePictured ==
  ASSUME ConversionInv, NEW d, NEW earlier \in EarlierFiles, NEW end, NEW mode, NEW status,
         NEW count \in 0 .. RequestCount, NEW bad,
         Telltale(d, earlier, end, mode, count, bad, status), NEW a \in DOMAIN d.answers,
         d.answers[a].page # 0
  PROVE  \E i \in Sendable : /\ OwnPage(d, a) = {rows[i].page}
                             /\ d.pages[d.answers[a].page].time = rows[i].time
<1> DEFINE x == d.answers[a]
           first == Len(EarlierPages(earlier))
           f == Len(earlier) + 1
<1>1. rows \in Seq(Rows)
  BY DEF ConversionInv
<1>2. count \in Nat /\ RequestCount \in Nat
  BY <1>1, CountIsNat, Zenon
<1>3. x.request \in DOMAIN d.requests /\ \E i \in ToSet(FramesOf(x.request)) : x.page = first + i
  BY DEF Telltale, Answering
<1>4. x.request \in 1 .. count
  <2>1. AllRequests(d, Len(earlier) + 1, count)
    BY <1>2, RequestsTell, Zenon
  <2> QED BY <1>3, <2>1, Zenon DEF AllRequests
<1> DEFINE q == x.request
<1>5. q \in 1 .. RequestCount
  <2> DEFINE all == RequestCount
  <2>1. all \in Nat /\ count \in 0 .. all /\ q \in 1 .. count
    BY <1>2, <1>4
  <2> HIDE DEF all, q
  <2>2. q \in 1 .. all
    BY <1>2, <2>1
  <2> QED BY <2>2 DEF all
<1>6. PICK i \in ToSet(FramesOf(q)) : x.page = first + i
  BY <1>3
<1>7. i \in Sendable
  <2> HIDE DEF q
  <2>1. Table(FramesOf(q)) /\ \A k \in 1 .. Len(FramesOf(q)) : FramesOf(q)[k] \in Sendable
    BY <1>1, <1>5, RequestsHaveFrames
  <2> QED BY <1>6, <2>1, TableCounts DEF ToSet
<1>8. d.pages[x.page] = PageRecord(f, rows[i])
  <2>1. i \in DOMAIN rows
    BY <1>7 DEF Sendable
  <2>2. d.pages[first + i] = PageRecord(f, rows[i])
    BY <1>1, <2>1, PagesTell
  <2> QED BY <1>6, <2>2
<1>9. d.pages[x.page].page = rows[i].page /\ d.pages[x.page].time = rows[i].time
  <2>1. \A row : PageRecord(f, row).page = row.page /\ PageRecord(f, row).time = row.time
    BY DEF PageRecord
  <2> HIDE DEF f
  <2> QED BY <1>8, <2>1
<1>10. OwnPage(d, a) = {d.pages[x.page].page}
  BY DEF OwnPage
<1> QED BY <1>7, <1>9, <1>10

\* A row about one page has the time of its picture.
LEMMA TimesHold ==
  ASSUME ConversionInv, NEW d, NEW earlier \in EarlierFiles, NEW end, NEW mode, NEW status,
         NEW count \in 0 .. RequestCount, NEW bad,
         Telltale(d, earlier, end, mode, count, bad, status), NEW r \in results_rows(d),
         NEW page \in r.page, Cardinality(r.page) = 1
  PROVE  Pictured(page, r.time)
<1> DEFINE f == Len(earlier) + 1
<1>1. rows \in Seq(Rows)
  BY DEF ConversionInv
<1>2. count \in Nat
  BY <1>1, CountIsNat, Zenon
<1>3. ASSUME NEW q \in DOMAIN d.requests PROVE d.requests[q].file = f
  <2>1. AllRequests(d, Len(earlier) + 1, count)
    BY <1>2, RequestsTell, Zenon
  <2> QED BY <2>1, Zenon DEF AllRequests
<1>4. ASSUME NEW g, AsFile(d, r, g) PROVE FALSE
  BY <1>4 DEF AsFile
<1>5. ASSUME NEW q \in DOMAIN d.requests, AsRequest(d, r, q) PROVE Pictured(page, r.time)
  <2>1. r.page = d.requests[q].pages /\ r.time = FrameTime(d, f, d.requests[q].pages)
    BY <1>3, <1>5 DEF AsRequest
  <2> HIDE DEF f
  <2>2. page \in d.requests[q].pages /\ Cardinality(d.requests[q].pages) = 1
    BY <2>1
  <2>3. Pictured(page, FrameTime(d, Len(earlier) + 1, d.requests[q].pages))
    BY <2>2, RequestPictured, Zenon
  <2> QED BY <2>1, <2>3 DEF f
<1>6. ASSUME NEW a \in DOMAIN d.answers, AsAnswer(d, r, a) PROVE Pictured(page, r.time)
  <2> DEFINE x == d.answers[a]
             cell == AnswerCell(d, a)
  <2>1. r.page = cell /\ r.time = AnswerTime(d, a, cell)
    BY <1>6 DEF AsAnswer
  <2>2. x.file = f /\ x.request \in DOMAIN d.requests
    <3>1. Len(d.files) = f
      <4> DEFINE e == FileRecord(end)
      <4>1. Table(earlier) /\ d.files = Append(earlier, e)
        BY EarlierAre DEF Telltale
      <4> HIDE DEF e
      <4> QED BY <4>1, TableGrows
    <3> QED BY <3>1 DEF Telltale, Answering
  <2>3. AnswerTime(d, a, cell) = IF cell # {} /\ cell = OwnPage(d, a) THEN d.pages[x.page].time
                                 ELSE FrameTime(d, f, cell)
    BY <2>2 DEF AnswerTime
  <2>4. CASE cell = OwnPage(d, a)
    <3>1. cell # {} /\ x.page # 0
      BY <2>1, <2>4 DEF OwnPage
    <3>2. PICK i \in Sendable : OwnPage(d, a) = {rows[i].page} /\ d.pages[x.page].time = rows[i].time
      BY <3>1, OwnPagePictured
    <3>3. page = rows[i].page /\ r.time = rows[i].time
      BY <2>1, <2>3, <2>4, <3>1, <3>2
    <3> QED BY <3>3, SentPictured
  <2>5. CASE cell # OwnPage(d, a)
    <3>1. cell = d.requests[x.request].pages
      <4>1. x.error # "hallucinated_page_number"
        BY <2>1 DEF AnswerCell
      <4> QED BY <2>5, <4>1 DEF AnswerCell
    <3>2. r.time = FrameTime(d, f, cell)
      BY <2>1, <2>3, <2>5
    <3> DEFINE q == x.request
    <3> HIDE DEF f, cell, q
    <3>3. q \in DOMAIN d.requests /\ page \in d.requests[q].pages /\ Cardinality(d.requests[q].pages) = 1
      BY <2>1, <2>2, <3>1 DEF q
    <3>4. Pictured(page, FrameTime(d, Len(earlier) + 1, d.requests[q].pages))
      BY <3>3, RequestPictured, Zenon
    <3> QED BY <3>1, <3>2, <3>4 DEF f, q
  <2> QED BY <2>4, <2>5
<1>7. \/ \E g \in DOMAIN d.files : AsFile(d, r, g)
      \/ \E q \in DOMAIN d.requests : AsRequest(d, r, q)
      \/ \E a \in DOMAIN d.answers : AsAnswer(d, r, a)
  BY RowKinds
<1> QED BY <1>4, <1>5, <1>6, <1>7

-----------------------------------------------------------------------------
(* The truth of the notes *)

\* The attempt is the last of the files, those before it are of the same path.
LEMMA FilesTell ==
  ASSUME NEW d, NEW earlier \in EarlierFiles, NEW end, NEW mode, NEW status, NEW count, NEW bad,
         Telltale(d, earlier, end, mode, count, bad, status)
  PROVE  LET f == Len(earlier) + 1
         IN  /\ Len(d.files) = f /\ f \in {1, 2} /\ DOMAIN d.files = 1 .. f
             /\ d.files[f] = FileRecord(end)
             /\ \A g \in DOMAIN d.files : d.files[g].path = "it"
<1> DEFINE f == Len(earlier) + 1
           e == FileRecord(end)
<1>1. Table(earlier) /\ Len(earlier) \in {0, 1}
  BY EarlierAre
<1>2. d.files = Append(earlier, e)
  BY DEF Telltale
<1>3. e.path = "it"
  BY DEF FileRecord
<1>4. \A g \in 1 .. Len(earlier) : earlier[g].path = "it"
  <2>1. CASE earlier = << >>
    BY <2>1
  <2>2. CASE earlier # << >>
    <3>1. \E x : x.path = "it" /\ earlier = <<x>>
      BY <2>2 DEF EarlierFiles
    <3>2. PICK x : x.path = "it" /\ earlier = <<x>>
      BY <3>1
    <3> QED BY <3>2
  <2> QED BY <2>1, <2>2
<1> HIDE DEF e
<1>5. /\ Table(d.files) /\ Len(d.files) = f /\ d.files[f] = e
      /\ \A g \in 1 .. Len(earlier) : d.files[g] = earlier[g]
  BY <1>1, <1>2, TableGrows
<1>6. DOMAIN d.files = 1 .. f
  BY <1>5, TableCounts
<1>7. ASSUME NEW g \in DOMAIN d.files PROVE d.files[g].path = "it"
  <2>1. g = f \/ g \in 1 .. Len(earlier)
    BY <1>1, <1>6
  <2> QED BY <1>3, <1>4, <1>5, <2>1
<1>8. f \in {1, 2}
  <2> DEFINE n == Len(earlier)
  <2>1. n \in {0, 1} /\ f = n + 1
    BY <1>1
  <2> HIDE DEF n, f
  <2> QED BY <2>1
<1> HIDE DEF f
<1> QED BY <1>5, <1>6, <1>7, <1>8 DEF f, e

\* A row carries the notes of its file.
LEMMA RowNotes ==
  ASSUME NEW d, ValidReferences(d), NEW r \in results_rows(d)
  PROVE  FileNotes(d, r.file) \subseteq r.notes
<1>1. ASSUME NEW g, AsFile(d, r, g) PROVE FileNotes(d, r.file) \subseteq r.notes
  BY <1>1 DEF AsFile
<1>2. ASSUME NEW q, AsRequest(d, r, q) PROVE FileNotes(d, r.file) \subseteq r.notes
  BY <1>2 DEF AsRequest
<1>3. ASSUME NEW a \in DOMAIN d.answers, AsAnswer(d, r, a) PROVE FileNotes(d, r.file) \subseteq r.notes
  <2>1. d.requests[d.answers[a].request].file = d.answers[a].file
    BY DEF ValidReferences
  <2>2. r.file = d.answers[a].file /\ FileNotes(d, d.requests[d.answers[a].request].file) \subseteq r.notes
    BY <1>3 DEF AsAnswer
  <2> QED BY <2>1, <2>2
<1> QED BY <1>1, <1>2, <1>3, RowKinds

\* Every file has a row.
LEMMA EveryFileTold ==
  ASSUME NEW d, ValidReferences(d), NEW g \in DOMAIN d.files
  PROVE  \E r \in results_rows(d) : r.file = g
<1>1. CASE RequestsOf(d, g) = {}
  <2>1. FileRow(d, g) \in results_rows(d)
    BY <1>1 DEF results_rows
  <2>2. FileRow(d, g).file = g
    BY DEF FileRow
  <2> QED BY <2>1, <2>2
<1>2. CASE RequestsOf(d, g) # {}
  <2>1. PICK q \in DOMAIN d.requests : d.requests[q].file = g
    BY <1>2 DEF RequestsOf
  <2>2. CASE AnswersOf(d, q) = {}
    <3>1. RequestRow(d, q) \in results_rows(d)
      BY <2>2 DEF results_rows
    <3>2. RequestRow(d, q).file = g
      BY <2>1 DEF RequestRow
    <3> QED BY <3>1, <3>2
  <2>3. CASE AnswersOf(d, q) # {}
    <3>1. PICK a \in DOMAIN d.answers : d.answers[a].request = q
      BY <2>3 DEF AnswersOf
    <3>2. AnswerRow(d, a) \in results_rows(d)
      BY DEF results_rows
    <3>3. AnswerRow(d, a).file = d.answers[a].file
      BY DEF AnswerRow
    <3>4. d.answers[a].file = g
      BY <2>1, <3>1 DEF ValidReferences
    <3> QED BY <3>2, <3>3, <3>4
  <2> QED BY <2>2, <2>3
<1> QED BY <1>1, <1>2

\* Where as many pictures were saved as there are targets, every row is a saved one.
LEMMA SavedAreAll ==
  ASSUME ConversionInv, Finished, tally["ok"] + tally["skipped"] = Len(targets), tally["skipped"] = 0,
         Len(targets) # 0
  PROVE  rows # << >> /\ \A i \in DOMAIN rows : i \in Sendable
<1>2. /\ Good = Len(rows) /\ Good \in Nat /\ Good <= Len(targets)
      /\ DOMAIN rows = 1 .. Good /\ Len(targets) \in Nat
  <2>1. summary.claim # "error" /\ rows \in Seq(Rows)
    BY DEF ConversionInv, Finished
  <2> QED BY <2>1, LenProperties DEF ConversionInv, Made, Placed, PlanOK, Good
<1>3. /\ tally["ok"] \in Nat /\ tally["skipped"] \in Nat /\ tally["failure"] \in Nat
      /\ tally["ok"] + tally["skipped"] + tally["failure"] = Good
      /\ \A s \in {"ok", "skipped", "failure"} : tally[s] = Cardinality(Of(s)) /\ IsFiniteSet(Of(s))
  BY DEF ConversionInv, Made, Counted, Statuses
<1>4. \A s \in Statuses : tally[s] = 0 => \A i \in 1 .. Good : rows[i].status # s
  <2> SUFFICES ASSUME NEW s \in Statuses, tally[s] = 0 PROVE \A i \in 1 .. Good : rows[i].status # s
    OBVIOUS
  <2>1. Of(s) = {}
    BY <1>3, FS_EmptySet DEF Statuses
  <2> QED BY <2>1 DEF Of
<1>5. \A i \in 1 .. Good : rows[i].status \in Statuses
  BY DEF ConversionInv, Made, Fitting, Fits, Rows
<1>7. tally["failure"] = 0 /\ Good # 0
  <2>2. Good = Len(targets) /\ tally["failure"] = 0
    <3> DEFINE a == tally["ok"]
               b == tally["skipped"]
               c == tally["failure"]
               n == Len(targets)
    <3>1. a \in Nat /\ b \in Nat /\ c \in Nat /\ a + b + c = Good /\ a + b = n
          /\ Good \in Nat /\ n \in Nat /\ Good <= n
      BY <1>2, <1>3
    <3> HIDE DEF a, b, c, n
    <3>2. Good = n /\ c = 0
      BY <3>1
    <3> QED BY <3>2 DEF c, n
  <2> QED BY <2>2
<1>8. \A i \in 1 .. Good : rows[i].status = "ok"
  BY <1>4, <1>5, <1>7 DEF Statuses
<1>9. rows # << >>
  <2>1. Len(<< >>) = 0
    BY EmptySeq
  <2> QED BY <1>2, <1>7, <2>1
<1> QED BY <1>2, <1>8, <1>9 DEF Sendable

\* A conversion that claims that everything was saved has saved a picture for every row, and some.
LEMMA AllSent ==
  ASSUME ConversionInv, Finished, summary.claim = "all saved"
  PROVE  rows # << >> /\ \A i \in DOMAIN rows : i \in Sendable
<1>1. summary.claim = Claim
  BY DEF ConversionInv, Summarised
<1>2. tally["ok"] + tally["skipped"] = Len(targets) /\ tally["skipped"] = 0 /\ Len(targets) # 0
  BY <1>1 DEF Claim
<1> QED BY <1>2, SavedAreAll

\* Everything was saved, and sent if there is an AI, and the range is one that was selected.
NothingLost(d, f, mode, count) ==
  /\ Finished /\ summary.claim = "all saved" /\ (mode # "" => count = RequestCount)
  /\ d.files[f].complete /\ d.files[f].range \notin {"", "failure"}

\* So it is when there are no notes for the file.
LEMMA NothingMissing ==
  ASSUME ConversionInv, RangeKnown, NEW d, NEW earlier \in EarlierFiles, NEW end, NEW mode, NEW status,
         NEW count, NEW bad, Telltale(d, earlier, end, mode, count, bad, status),
         FileNotes(d, Len(earlier) + 1) = {}
  PROVE  NothingLost(d, Len(earlier) + 1, mode, count)
<1> DEFINE f == Len(earlier) + 1
           a == d.files[f]
<1>1. a = FileRecord(end)
  BY FilesTell
<1>2. a.complete /\ ~ Noted(a.comment) /\ a.range # ""
  BY NoNotes
<1>3. a.complete = (end = "complete")
  <2> HIDE DEF a
  <2> QED BY <1>1 DEF FileRecord
<1>4. end = "complete" /\ stage = "ended" /\ (mode # "" => count = RequestCount)
  BY <1>2, <1>3 DEF Telltale
<1>5. a.comment = summary.claim /\ a.range = summary.status
  <2> HIDE DEF a
  <2> QED BY <1>1, <1>4 DEF FileRecord
<1> HIDE DEF a, f
<1>6. summary.claim \in {"", "all saved"}
  BY <1>2, <1>5 DEF Noted
<1>7. Finished
  BY <1>4, <1>6 DEF Finished
<1>8. summary.claim # ""
  <2>1. summary.claim = Claim
    BY <1>7 DEF ConversionInv, Summarised
  <2>2. Claim # ""
    BY DEF Claim
  <2> QED BY <2>1, <2>2
<1>9. summary.status # "failure"
  BY <1>7 DEF RangeKnown
<1>10. NothingLost(d, f, mode, count)
  BY <1>2, <1>4, <1>5, <1>6, <1>7, <1>8, <1>9 DEF NothingLost, a
<1> QED BY <1>10 DEF f

\* Each request that was sent is told of: a row about it without notes is that of an answer without error
\* to a request that succeeded.
LEMMA RequestTold ==
  ASSUME NEW d, ValidReferences(d), NEW q \in DOMAIN d.requests,
         \A r \in results_rows(d) : r.file = d.requests[q].file => r.notes = {}
  PROVE  /\ d.requests[q].status = "ok"
         /\ \A a \in AnswersOf(d, q) : d.answers[a].error = ""
<1>1. ASSUME AnswersOf(d, q) = {} PROVE FALSE
  <2> DEFINE r == RequestRow(d, q)
             status == d.requests[q].status
  <2>1. r \in results_rows(d)
    BY <1>1 DEF results_rows
  <2>2. r.file = d.requests[q].file
    BY DEF RequestRow
  <2>3. r.notes = RequestNotes(d, q) \cup (IF status = "ok" THEN {"no_answer"} ELSE {})
    BY DEF RequestRow
  <2>4. status # "ok" => status \in RequestNotes(d, q)
    BY DEF RequestNotes
  <2> HIDE DEF r, status
  <2>5. r.notes # {}
    BY <2>3, <2>4
  <2> QED BY <2>1, <2>2, <2>5
<1>2. ASSUME NEW a \in AnswersOf(d, q)
      PROVE  d.requests[q].status = "ok" /\ d.answers[a].error = ""
  <2> DEFINE r == AnswerRow(d, a)
             status == d.requests[q].status
             x == d.answers[a]
  <2>1. a \in DOMAIN d.answers /\ x.request = q
    BY DEF AnswersOf
  <2>2. r \in results_rows(d) /\ r.file = x.file
    BY <2>1 DEF results_rows, AnswerRow
  <2>3. x.file = d.requests[q].file
    BY <2>1 DEF ValidReferences
  <2>4. r.notes = {}
    <3> HIDE DEF r, x
    <3> QED BY <2>2, <2>3
  <2>5. RequestNotes(d, q) \subseteq r.notes /\ (x.error # "" => x.error \in r.notes)
    BY <2>1 DEF AnswerRow
  <2>6. status # "ok" => status \in RequestNotes(d, q)
    BY DEF RequestNotes
  <2> HIDE DEF r, x, status
  <2> QED BY <2>4, <2>5, <2>6 DEF status, x
<1> QED BY <1>1, <1>2

\* Empty notes mean that all was saved and sent.
LEMMA EmptyNotesHold ==
  ASSUME ConversionInv, RangeKnown, NEW d, ValidReferences(d), NEW earlier \in EarlierFiles, NEW end,
         NEW mode, NEW status, NEW count \in 0 .. RequestCount, NEW bad,
         Telltale(d, earlier, end, mode, count, bad, status),
         NEW r \in results_rows(d), r.file = Len(d.files), r.notes = {}
  PROVE  /\ d.files[r.file].complete /\ summary.claim = "all saved"
         /\ \A k \in DOMAIN targets : \E i \in DOMAIN rows :
              rows[i].page = Planned[k] /\ Pictured(rows[i].page, rows[i].time)
         /\ d.ai => \A i \in DOMAIN rows : \E q \in DOMAIN d.requests :
              rows[i].page \in d.requests[q].pages /\ d.requests[q].status = "ok"
<1> DEFINE f == Len(earlier) + 1
<1>1. r.file = f /\ rows \in Seq(Rows)
  BY FilesTell DEF ConversionInv
<1>2. FileNotes(d, f) = {}
  <2>1. FileNotes(d, r.file) \subseteq r.notes
    BY RowNotes
  <2> HIDE DEF f
  <2> QED BY <1>1, <2>1
<1>3. /\ Finished /\ summary.claim = "all saved" /\ (mode # "" => count = RequestCount)
      /\ d.files[f].complete
  <2>1. NothingLost(d, Len(earlier) + 1, mode, count)
    BY <1>2, NothingMissing, Zenon
  <2> QED BY <2>1 DEF NothingLost
<1>4. \A i \in DOMAIN rows : i \in Sendable
  BY <1>3, AllSent
<1>5. ASSUME NEW k \in DOMAIN targets
      PROVE  \E i \in DOMAIN rows : rows[i].page = Planned[k] /\ Pictured(rows[i].page, rows[i].time)
  <2>1. PICK i \in DOMAIN rows : rows[i].page = Planned[k]
    BY <1>3, ClaimHolds DEF ClaimIsTrue
  <2>2. Pictured(rows[i].page, rows[i].time)
    BY <1>4, SentPictured
  <2> QED BY <2>1, <2>2
<1>6. ASSUME d.ai, NEW i \in DOMAIN rows
      PROVE  \E q \in DOMAIN d.requests : rows[i].page \in d.requests[q].pages /\ d.requests[q].status = "ok"
  <2>1. count = RequestCount /\ RequestCount \in Nat
    <3>1. mode # ""
      BY <1>6 DEF Telltale
    <3> QED BY <1>1, <1>3, <3>1, RequestsHaveFrames
  <2> DEFINE all == RequestCount
  <2>2. PICK q \in 1 .. all : i \in ToSet(FramesOf(q))
    BY <1>1, <1>4, RequestsHaveFrames
  <2>3. AllRequests(d, f, count)
    <3>1. count \in Nat
      BY <2>1
    <3> QED BY <3>1, RequestsTell, Zenon
  <2>4. DOMAIN d.requests = 1 .. all /\ RequestsOf(d, f) = 1 .. all /\ q \in DOMAIN d.requests
        /\ rows[i].page \in d.requests[q].pages
    BY <2>1, <2>2, <2>3 DEF AllRequests
  <2>5. d.requests[q].status = "ok"
    <3>1. CASE Cardinality(RequestsOf(d, f)) > 1
      BY <1>2, <2>4, <3>1, NoNotes
    <3>2. CASE ~ (Cardinality(RequestsOf(d, f)) > 1)
      <4>1. all = 1
        <5>1. all \in Nat /\ Cardinality(1 .. all) = all
          <6>1. all \in Nat
            BY <2>1
          <6> HIDE DEF all
          <6> QED BY <6>1, FS_Interval
        <5>2. q \in 1 .. all /\ ~ (all > 1)
          BY <2>4, <3>2, <5>1
        <5> HIDE DEF all
        <5> QED BY <5>1, <5>2
      <4>2. ~ (\E g : AsFile(d, r, g))
        <5> SUFFICES ASSUME NEW g, AsFile(d, r, g) PROVE FALSE
          OBVIOUS
        <5>1. RequestsOf(d, f) = {}
          BY <1>1 DEF AsFile
        <5> QED BY <2>4, <5>1
      <4>3. ~ (\E p : AsRequest(d, r, p))
        BY DEF AsRequest
      <4>4. PICK a \in DOMAIN d.answers : AsAnswer(d, r, a)
        BY <4>2, <4>3, RowKinds
      <4>5. d.answers[a].request \in DOMAIN d.requests
        BY DEF ValidReferences
      <4>6. d.answers[a].request = q
        BY <2>4, <4>1, <4>5
      <4> QED BY <4>4, <4>6 DEF AsAnswer
    <3> QED BY <3>1, <3>2
  <2> QED BY <2>4, <2>5
<1> QED BY <1>1, <1>3, <1>5, <1>6

\* A page that was saved makes the pages usable.
LEMMA UsableCounts ==
  ASSUME NEW a, a.pages["ok"] \in Nat \ {0}, a.pages["skipped"] = 0, a.pages["failure"] = 0
  PROVE  Usable(a) > 0 /\ Usable(a) # 0 /\ ~ (a.pages["failure"] > 0)
<1> DEFINE n == a.pages["ok"]
<1>1. Usable(a) = n + 0 /\ n \in Nat \ {0}
  BY DEF Usable
<1> HIDE DEF n
<1>2. n + 0 > 0 /\ n + 0 # 0 /\ ~ (0 > 0)
  BY <1>1
<1> QED BY <1>1, <1>2

\* An attempt that is complete, whose pages and whose requests are all well, is well.
LEMMA WellIsOk ==
  ASSUME NEW a, a.complete, a.range \notin {"", "failure"}, a.pages["ok"] \in Nat \ {0},
         a.pages["skipped"] = 0, a.pages["failure"] = 0,
         \A i \in DOMAIN a.reqs : a.reqs[i].status = "ok" /\ ~ a.reqs[i].flawed
  PROVE  overall_result(a) \in {"ok", "skipped"}
<1>1. Usable(a) > 0 /\ Usable(a) # 0 /\ ~ (a.pages["failure"] > 0)
  BY UsableCounts, Zenon
<1>2. file_to_jpegs_status(a) \in {"ok", "skipped"}
  BY <1>1, Zenon DEF file_to_jpegs_status
<1>3. EveryRequestOk(a) /\ NoAnswerError(a)
  BY DEF EveryRequestOk, NoAnswerError
<1>4. file_to_llm_status(a) \in {"ok", "skipped"}
  BY <1>3, Zenon DEF file_to_llm_status
<1> QED BY <1>2, <1>4 DEF overall_result

\* The places of a set of numbers are taken by numbers of the set.
LEMMA PlacesInSet ==
  ASSUME NEW n \in Nat, NEW i \in 1 .. Cardinality(1 .. n)
  PROVE  InOrder(1 .. n)[i] \in 1 .. n
<1> DEFINE S == 1 .. n
<1>1. S \in SUBSET Int /\ IsFiniteSet(S)
  BY FS_Interval
<1> HIDE DEF S
<1>2. \E x \in S : Cardinality(Below(x, S)) = i - 1
  BY <1>1, EveryPlaceTaken DEF S
<1>3. InOrder(S)[i] = CHOOSE x \in S : Cardinality(Below(x, S)) = i - 1
  BY DEF InOrder, S
<1> QED BY <1>2, <1>3 DEF S

\* The pages of a file of which every row was saved.
LEMMA PagesAllOk ==
  ASSUME rows \in Seq(Rows), rows # << >>, \A i \in DOMAIN rows : i \in Sendable,
         NEW d, NEW earlier \in EarlierFiles, NEW end, NEW mode, NEW status, NEW count, NEW bad,
         Telltale(d, earlier, end, mode, count, bad, status)
  PROVE  LET a == Attempt(d, Len(earlier) + 1)
         IN  a.pages["ok"] \in Nat \ {0} /\ a.pages["skipped"] = 0 /\ a.pages["failure"] = 0
<1> DEFINE f == Len(earlier) + 1
           first == Len(EarlierPages(earlier))
           With(s) == {p \in PagesOf(d, f) : d.pages[p].status = s}
           here == [k \in DOMAIN rows |-> first + k]
<1>1. /\ \A k \in DOMAIN rows : first + k \in PagesOf(d, f) /\ d.pages[first + k] = PageRecord(f, rows[k])
      /\ \A p \in PagesOf(d, f) : \E k \in DOMAIN rows : p = first + k
  BY PagesTell
<1>2. \A row : PageRecord(f, row).status = row.status
  BY DEF PageRecord
<1> HIDE DEF f, first
<1>3. \A p \in PagesOf(d, f) : d.pages[p].status = "ok"
  BY <1>1, <1>2 DEF Sendable
<1>4. With("ok") = {here[k] : k \in DOMAIN rows} /\ With("skipped") = {} /\ With("failure") = {}
  BY <1>1, <1>3
<1>5. DOMAIN rows # {} /\ IsFiniteSet(DOMAIN rows)
  <2>1. Table(rows)
    BY SequenceIsTable
  <2>2. DOMAIN rows # {}
    BY EmptySeq
  <2> QED BY <2>1, <2>2, TableCounts
<1>6. With("ok") # {} /\ IsFiniteSet(With("ok"))
  <2> HIDE DEF here, With
  <2>1. IsFiniteSet({here[k] : k \in DOMAIN rows})
    BY <1>5, FewMade
  <2> QED BY <1>4, <1>5, <2>1
<1>7. Attempt(d, f).pages = [s \in PageStatuses |-> Cardinality(With(s))]
  BY DEF Attempt
<1> HIDE DEF With
<1>8. Cardinality(With("ok")) \in Nat \ {0} /\ Cardinality(With("skipped")) = 0 /\ Cardinality(With("failure")) = 0
  BY <1>4, <1>6, FS_EmptySet, FS_CardinalityType
<1>9. LET a == Attempt(d, f)
      IN  a.pages["ok"] \in Nat \ {0} /\ a.pages["skipped"] = 0 /\ a.pages["failure"] = 0
  BY <1>7, <1>8 DEF PageStatuses
<1> QED BY <1>9 DEF f

\* A file of which no row has notes did well.
LEMMA BadResultsHold ==
  ASSUME ConversionInv, RangeKnown, NEW d, ValidReferences(d), NEW earlier \in EarlierFiles, NEW end,
         NEW mode, NEW status, NEW count \in 0 .. RequestCount, NEW bad,
         Telltale(d, earlier, end, mode, count, bad, status),
         NEW g \in DOMAIN d.files, \A r \in results_rows(d) : r.file = g => r.notes = {}
  PROVE  Result(d, g) \in {"ok", "skipped"}
<1> DEFINE f == Len(earlier) + 1
           a == Attempt(d, f)
<1>1. rows \in Seq(Rows) /\ count \in Nat
  <2>1. rows \in Seq(Rows)
    BY DEF ConversionInv
  <2> QED BY <2>1, CountIsNat, Zenon
<1>2. FileNotes(d, g) = {}
  <2>1. PICK r \in results_rows(d) : r.file = g
    BY EveryFileTold
  <2>2. FileNotes(d, r.file) \subseteq r.notes
    BY RowNotes
  <2> QED BY <2>1, <2>2
<1>3. /\ Len(d.files) = f /\ f \in {1, 2} /\ DOMAIN d.files = 1 .. f
      /\ \A x \in DOMAIN d.files : d.files[x].path = "it"
  BY FilesTell
<1>4. g = f
  <2> SUFFICES ASSUME g # f PROVE FALSE
    OBVIOUS
  <2> HIDE DEF f
  <2>1. f \in g + 1 .. Len(d.files) /\ f \in DOMAIN d.files
    <3>1. g \in 1 .. f
      BY <1>3
    <3> QED BY <1>3, <3>1
  <2>2. f \in Later(d, g)
    BY <1>3, <2>1 DEF Later, SamePath
  <2>3. Previous(d, g) \cup Later(d, g) = {}
    BY <1>2, NoNotes
  <2> QED BY <2>2, <2>3
<1>5. NothingLost(d, f, mode, count)
  <2>1. FileNotes(d, Len(earlier) + 1) = {}
    BY <1>2, <1>4
  <2> QED BY <2>1, NothingMissing, Zenon
<1>6. AllRequests(d, f, count)
  BY <1>1, RequestsTell, Zenon
<1>7. rows # << >> /\ \A i \in DOMAIN rows : i \in Sendable
  BY <1>5, AllSent DEF NothingLost
<1>8. a.pages["ok"] \in Nat \ {0} /\ a.pages["skipped"] = 0 /\ a.pages["failure"] = 0
  BY <1>1, <1>7, PagesAllOk, Zenon
<1>9. a.complete /\ a.range \notin {"", "failure"}
  <2>1. d.files[f].complete /\ d.files[f].range \notin {"", "failure"}
    BY <1>5 DEF NothingLost
  <2>2. a.complete = d.files[f].complete
        /\ a.range = IF d.files[f].range \in {"truncated", "partial_skip"} THEN "ok" ELSE d.files[f].range
    BY DEF Attempt
  <2> HIDE DEF a, f
  <2> QED BY <2>1, <2>2
<1>10. ASSUME NEW i \in DOMAIN a.reqs PROVE a.reqs[i].status = "ok" /\ ~ a.reqs[i].flawed
  <2> DEFINE S == 1 .. count
             q == InOrder(S)[i]
             Flawed(x) == \E b \in AnswersOf(d, x) : d.answers[b].error # ""
  <2>1. RequestsOf(d, f) = S /\ DOMAIN d.requests = S
    BY <1>6 DEF AllRequests
  <2>2. a.reqs = [n \in 1 .. Cardinality(S) |-> [status |-> d.requests[InOrder(S)[n]].status,
                                                 flawed |-> Flawed(InOrder(S)[n])]]
    BY <2>1 DEF Attempt
  <2>3. i \in 1 .. Cardinality(S)
    BY <2>2
  <2>4. q \in S
    BY <1>1, <2>3, PlacesInSet, Zenon
  <2>5. a.reqs[i] = [status |-> d.requests[q].status, flawed |-> Flawed(q)]
    <3> HIDE DEF a, S, Flawed
    <3> QED BY <2>2, <2>3
  <2> HIDE DEF q, S, a
  <2>6. q \in DOMAIN d.requests /\ d.requests[q].file = g
    BY <1>4, <1>6, <2>1, <2>4 DEF AllRequests, S
  <2>7. d.requests[q].status = "ok" /\ \A b \in AnswersOf(d, q) : d.answers[b].error = ""
    BY <2>6, RequestTold
  <2>8. ~ Flawed(q)
    BY <2>7
  <2> HIDE DEF Flawed
  <2>9. a.reqs[i].status = d.requests[q].status /\ a.reqs[i].flawed = Flawed(q)
    BY <2>5
  <2> QED BY <2>7, <2>8, <2>9, Zenon
<1> HIDE DEF a
<1>11. overall_result(a) \in {"ok", "skipped"}
  BY <1>8, <1>9, <1>10, WellIsOk
<1> QED BY <1>4, <1>11 DEF Result, a

\* Where nothing is open any more the Results tell the truth.
LEMMA NotesHold == ConversionInv /\ RangeKnown /\ Truthful => NotesTellTheTruth
<1> SUFFICES ASSUME ConversionInv, RangeKnown, Truthful, Telling
             PROVE  EmptyNotesMeanComplete /\ BadResultsAreExplained /\ TimesAreOfThePicture
  BY DEF NotesTellTheTruth, EmptyNotesMeanComplete, BadResultsAreExplained, TimesAreOfThePicture
<1>1. phase = "closed" /\ ValidReferences(db) /\ Recounts(db)
  BY DEF Telling, Truthful
<1>2. PICK earlier \in EarlierFiles, end \in Ends, mode \in Modes, count \in 0 .. RequestCount, bad \in Nat :
        \E status : Telltale(db, earlier, end, mode, count, bad, status)
  BY <1>1 DEF Recounts
<1>3. PICK status : Telltale(db, earlier, end, mode, count, bad, status)
  BY <1>2
<1>4. EmptyNotesMeanComplete
  <2>1. ASSUME NEW r \in results_rows(db), r.file = Len(db.files), r.notes = {}
        PROVE  /\ db.files[r.file].complete /\ summary.claim = "all saved"
               /\ \A k \in DOMAIN targets : \E i \in DOMAIN rows :
                    rows[i].page = Planned[k] /\ Pictured(rows[i].page, rows[i].time)
               /\ db.ai => \A i \in DOMAIN rows : \E q \in DOMAIN db.requests :
                    rows[i].page \in db.requests[q].pages /\ db.requests[q].status = "ok"
    BY <1>1, <1>3, <2>1, EmptyNotesHold, Zenon
  <2> QED BY <2>1, Zenon DEF EmptyNotesMeanComplete, ResultsOfThis
<1>5. BadResultsAreExplained
  <2>1. ASSUME NEW g \in DOMAIN db.files PROVE \E r \in results_rows(db) : r.file = g
    BY <1>1, EveryFileTold
  <2>2. ASSUME NEW g \in DOMAIN db.files, \A r \in results_rows(db) : r.file = g => r.notes = {}
        PROVE  Result(db, g) \in {"ok", "skipped"}
    BY <1>1, <1>3, <2>2, BadResultsHold, Zenon
  <2> QED BY <2>1, <2>2, Zenon DEF BadResultsAreExplained
<1>6. TimesAreOfThePicture
  <2>1. ASSUME NEW r \in results_rows(db), NEW page \in r.page, Cardinality(r.page) = 1
        PROVE  Pictured(page, r.time)
    BY <1>3, <2>1, TimesHold, Zenon
  <2> QED BY <2>1 DEF TimesAreOfThePicture, ResultsOfThis
<1> QED BY <1>4, <1>5, <1>6

\* A range stays known whatever the exports do.
LEMMA KnownStep ==
  ASSUME RangeKnown, [FileToReportNext]_<<conversionVars, exportVars>>
  PROVE  RangeKnown'
<1>1. CASE ConversionNext
  BY <1>1, RangeStep
<1>2. CASE UNCHANGED conversionVars
  BY <1>2 DEF conversionVars, plan, RangeKnown, Finished
<1> QED BY <1>1, <1>2 DEF FileToReportNext

\* For any files, any settings of the pipelines and any number of pages in a request: where the column of
\* notes in the Results is empty nothing is missing, a bad result says why, and a row about one page has
\* the time of the picture that was sent (_results_rows).
THEOREM NotesTrue == FileToReportSpec => []NotesTellTheTruth
<1>1. FileToReportInit => ConversionInv /\ TablesHold /\ RangeKnown /\ Truthful
  <2>1. FileToReportInit => ConversionInv /\ TablesHold
    BY ConversionBegins, TablesBegin DEF FileToReportInit
  <2>2. FileToReportInit => RangeKnown /\ Truthful
    BY DEF FileToReportInit, ConversionInit, RangeKnown, Finished, Truthful, NoSummary
  <2> QED BY <2>1, <2>2
<1>2. (ConversionInv /\ TablesHold /\ RangeKnown /\ Truthful) /\ [FileToReportNext]_<<conversionVars, exportVars>>
        => (ConversionInv /\ TablesHold /\ RangeKnown /\ Truthful)'
  BY ConversionStep, TablesStep, KnownStep, TruthStep
<1>3. ConversionInv /\ TablesHold /\ RangeKnown /\ Truthful => NotesTellTheTruth
  BY NotesHold
<1> QED BY <1>1, <1>2, <1>3, PTL DEF FileToReportSpec

-----------------------------------------------------------------------------
(* Sides and shapes                                                        *)

\* A factor that two products share can be cancelled.
LEMMA Cancels ==
  ASSUME NEW u \in Int, NEW v \in Int, NEW l \in Nat \ {0}, u * l <= v * l
  PROVE  u <= v
<1> SUFFICES ASSUME v + 1 <= u PROVE FALSE
  OBVIOUS
<1>1. (v + 1) * l <= u * l
  BY TimesRises
<1>2. (v + 1) * l = v * l + l
  OBVIOUS
<1> DEFINE x == u * l
           y == v * l
<1>3. x \in Int /\ y \in Int /\ y + l <= x /\ x <= y
  BY <1>1, <1>2
<1> HIDE DEF x, y
<1> QED BY <1>3

\* A rounded quotient is the nearest number.
LEMMA RoundedNear ==
  ASSUME NEW a \in Nat, NEW b \in Nat \ {0}
  PROVE  LET r == Rounded(a, b) IN r \in Nat /\ 2 * a - b <= 2 * (b * r) /\ 2 * (b * r) <= 2 * a + b
<1> DEFINE q == a \div b
           m == a % b
           r == Rounded(a, b)
<1>1. q \in Nat /\ m \in 0 .. b - 1 /\ a = b * q + m
  OBVIOUS
<1>2. r = IF 2 * m > b \/ (2 * m = b /\ q % 2 = 1) THEN q + 1 ELSE q
  BY DEF Rounded
<1> HIDE DEF q, m, r
<1> DEFINE t == b * q
<1>3. b * (q + 1) = t + b /\ t \in Nat
  BY <1>1
<1>4. CASE r = q
  <2>1. 2 * m <= b
    BY <1>1, <1>2, <1>4
  <2>2. a = t + m /\ b * r = t
    BY <1>1, <1>4
  <2> HIDE DEF t
  <2>3. 2 * a - b <= 2 * t /\ 2 * t <= 2 * a + b
    BY <1>1, <1>3, <2>1, <2>2
  <2> QED BY <1>1, <1>4, <2>2, <2>3 DEF r
<1>5. CASE r = q + 1
  <2>1. b <= 2 * m
    BY <1>1, <1>2, <1>5
  <2>2. a = t + m /\ b * r = t + b
    BY <1>1, <1>3, <1>5
  <2> HIDE DEF t
  <2>3. 2 * a - b <= 2 * (t + b) /\ 2 * (t + b) <= 2 * a + b
    BY <1>1, <1>3, <2>1, <2>2
  <2> QED BY <1>1, <1>5, <2>2, <2>3 DEF r
<1> QED BY <1>2, <1>4, <1>5

\* So is a scaled side, unless it would vanish.
LEMMA ScaledNear ==
  ASSUME NEW side \in Nat, NEW a \in Nat, NEW b \in Nat \ {0}
  PROVE  LET r == Scaled(side, a, b)
         IN  /\ r \in Nat \ {0} /\ 2 * (side * a) - b <= 2 * (b * r)
             /\ 2 * (b * r) <= 2 * (side * a) + b \/ r = 1
<1> DEFINE n == side * a
           k == Rounded(n, b)
           r == Scaled(side, a, b)
<1>1. n \in Nat
  OBVIOUS
<1>2. r = IF 1 > k THEN 1 ELSE k
  BY DEF Scaled, Larger
<1> HIDE DEF n
<1>3. k \in Nat /\ 2 * n - b <= 2 * (b * k) /\ 2 * (b * k) <= 2 * n + b
  BY <1>1, RoundedNear
<1> HIDE DEF k, r
<1>4. CASE k = 0
  <2>1. b * k = 0 /\ b * 1 = b /\ r = 1
    BY <1>2, <1>3, <1>4
  <2>2. b * r = b
    BY <2>1
  <2>3. 2 * n - b <= 2 * b
    <3>1. 2 * n - b <= 0
      BY <1>3, <2>1
    <3> QED BY <1>1, <3>1
  <2> QED BY <2>1, <2>2, <2>3 DEF r, n
<1>5. CASE k # 0
  <2>1. r = k
    BY <1>2, <1>3, <1>5
  <2> QED BY <1>3, <1>5, <2>1 DEF r, n
<1> QED BY <1>4, <1>5

\* Factors of a product in another order.
LEMMA Regrouped ==
  ASSUME NEW a \in Int, NEW b \in Int, NEW c \in Int
  PROVE  (a * b) * c = b * (a * c) /\ (a * b) * c = (a * c) * b /\ (a * b) * c = a * (b * c)
OBVIOUS

\* A side that is made longer before everything is made smaller is off
\* by no more than a dot of each side.
LEMMA LengthenedShape ==
  ASSUME NEW A \in Nat \ {0}, NEW B \in Nat \ {0}, NEW X \in Nat \ {0}, NEW Y \in Nat \ {0},
         NEW M \in Nat \ {0}, NEW L \in Nat \ {0}, NEW W \in Nat \ {0}, NEW H \in Nat \ {0}, NEW b \in Nat \ {0},
         M <= L,
         2 * (A * M) - L <= 2 * (L * W), 2 * (L * W) <= 2 * (A * M) + L \/ W = 1,
         2 * (b * M) - L <= 2 * (L * H), 2 * (L * H) <= 2 * (b * M) + L \/ H = 1,
         2 * (B * X) - Y <= 2 * (Y * b), 2 * (Y * b) <= 2 * (B * X) + Y \/ b = 1
  PROVE  /\ W * (B * X) - H * (A * Y) <= A * Y + B * X
         /\ H * (A * Y) - W * (B * X) <= A * Y + B * X
<1> DEFINE h == B * X
           w == A * Y
           n == A * M
           k == L * W
           p == (b * M) * Y
           q == (L * H) * Y
           r == h * M
           e == L * Y
           f == M * Y
           z == n * h
           u == W * h
           v == H * w
<1>0. h \in Nat /\ w \in Nat /\ n \in Nat /\ k \in Nat /\ b * M \in Nat /\ L * H \in Nat /\ Y * b \in Nat
  OBVIOUS
<1>1. p \in Nat /\ q \in Nat /\ r \in Nat /\ e \in Nat /\ f \in Nat /\ z \in Nat /\ u \in Nat /\ v \in Nat
  BY <1>0
<1>2. 2 * n - L <= 2 * k /\ k <= n + L
  <2>1. W = 1 => k = L
    OBVIOUS
  <2> HIDE DEF n, k
  <2> QED BY <1>0, <2>1 DEF n, k
<1>3. f <= e
  BY TimesRises
<1>4. q * A = L * v /\ e * A = L * w /\ k * h = L * u /\ r * A = z
  <2>1. e * A = L * w
    BY Regrouped
  <2>2. q * A = L * v
    <3>1. q = (L * Y) * H
      BY Regrouped
    <3>2. ((L * Y) * H) * A = ((L * Y) * A) * H
      BY <1>0, Regrouped
    <3>3. (L * w) * H = L * (H * w)
      <4> HIDE DEF w
      <4>1. (L * w) * H = L * (w * H) /\ w * H = H * w
        BY <1>0, Regrouped
      <4> QED BY <4>1
    <3> QED BY <2>1, <3>1, <3>2, <3>3
  <2>3. k * h = L * u
    <3> HIDE DEF h
    <3> QED BY <1>0, Regrouped
  <2>4. r * A = z
    <3> HIDE DEF h
    <3>1. (h * M) * A = h * (M * A) /\ M * A = A * M /\ h * (A * M) = (A * M) * h
      BY <1>0, Regrouped
    <3> QED BY <3>1
  <2> QED BY <2>1, <2>2, <2>3, <2>4
<1>5. 2 * p - e <= 2 * q
  <2>1. (2 * (b * M) - L) * Y <= (2 * (L * H)) * Y
    BY <1>0, TimesRises
  <2>2. (2 * (b * M) - L) * Y = 2 * p - e /\ (2 * (L * H)) * Y = 2 * q
    BY <1>0
  <2> QED BY <2>1, <2>2
<1>6. (Y * b) * M = p
  BY Regrouped
<1>7. 2 * r - f <= 2 * p
  <2>1. (2 * h - Y) * M <= (2 * (Y * b)) * M
    BY <1>0, TimesRises
  <2>2. (2 * h - Y) * M = 2 * r - f /\ (2 * (Y * b)) * M = 2 * ((Y * b) * M)
    BY <1>0
  <2> QED BY <1>6, <2>1, <2>2
<1>8. r - e <= q
  <2> HIDE DEF p, q, r, e, f
  <2> QED BY <1>1, <1>3, <1>5, <1>7
<1>9. z - L * w <= L * v
  <2>1. (r - e) * A <= q * A
    BY <1>1, <1>8, TimesRises
  <2>2. (r - e) * A = r * A - e * A
    BY <1>1
  <2> QED BY <1>4, <2>1, <2>2
<1>10. L * u <= z + L * h
  <2>1. k * h <= (n + L) * h
    BY <1>0, <1>2, TimesRises
  <2>2. (n + L) * h = z + L * h
    BY <1>0
  <2> QED BY <1>4, <2>1, <2>2
<1>11. z - L * h <= L * u
  <2>1. n - L <= k
    <3> HIDE DEF n, k
    <3> QED BY <1>0, <1>2
  <2>2. (n - L) * h <= k * h
    BY <1>0, <2>1, TimesRises
  <2>3. (n - L) * h = z - L * h
    BY <1>0
  <2> QED BY <1>4, <2>2, <2>3
<1>12. u - v <= w + h
  <2>1. L * u - L * v <= L * w + L * h
    <3> DEFINE lu == L * u
               lv == L * v
               lw == L * w
               lh == L * h
    <3>1. lu \in Nat /\ lv \in Nat /\ lw \in Nat /\ lh \in Nat
      BY <1>0, <1>1
    <3> HIDE DEF lu, lv, lw, lh, z
    <3>2. z - lw <= lv /\ lu <= z + lh
      BY <1>9, <1>10 DEF lu, lv, lw, lh
    <3>3. lu - lv <= lw + lh
      BY <1>1, <3>1, <3>2
    <3> QED BY <3>3 DEF lu, lv, lw, lh
  <2> HIDE DEF u, v, w, h
  <2>2. (u - v) * L = L * u - L * v /\ (w + h) * L = L * w + L * h
    BY <1>0, <1>1
  <2> QED BY <1>0, <1>1, <2>1, <2>2, Cancels
<1>13. v - u <= w + h
  <2>1. CASE H = 1
    <3>1. v = w
      BY <1>0, <2>1
    <3> HIDE DEF u, v, w, h
    <3> QED BY <1>0, <1>1, <3>1
  <2>2. CASE H # 1
    <3>1. 2 * (L * H) <= 2 * (b * M) + L
      BY <2>2
    <3>2. b # 1
      <4> SUFFICES ASSUME b = 1 PROVE FALSE
        OBVIOUS
      <4>1. b * M = M
        OBVIOUS
      <4>2. 2 * L <= L * H
        BY <2>2, TimesRises
      <4> DEFINE g == L * H
      <4>3. 2 * g <= 2 * M + L /\ 2 * L <= g /\ g \in Nat
        BY <1>0, <3>1, <4>1, <4>2
      <4> HIDE DEF g
      <4> QED BY <4>3
    <3>3. 2 * q <= 2 * p + e
      <4>1. (2 * (L * H)) * Y <= (2 * (b * M) + L) * Y
        BY <1>0, <3>1, TimesRises
      <4>2. (2 * (b * M) + L) * Y = 2 * p + e /\ (2 * (L * H)) * Y = 2 * q
        BY <1>0
      <4> QED BY <4>1, <4>2
    <3>4. 2 * p <= 2 * r + f
      <4>1. 2 * (Y * b) <= 2 * h + Y
        BY <3>2
      <4>2. (2 * (Y * b)) * M <= (2 * h + Y) * M
        BY <1>0, <4>1, TimesRises
      <4>3. (2 * h + Y) * M = 2 * r + f /\ (2 * (Y * b)) * M = 2 * ((Y * b) * M)
        BY <1>0
      <4> QED BY <1>6, <4>2, <4>3
    <3>5. q <= r + e
      <4> HIDE DEF p, q, r, e, f
      <4> QED BY <1>1, <1>3, <3>3, <3>4
    <3>6. L * v <= z + L * w
      <4>1. q * A <= (r + e) * A
        BY <1>1, <3>5, TimesRises
      <4>2. (r + e) * A = r * A + e * A
        BY <1>1
      <4> QED BY <1>4, <4>1, <4>2
    <3>7. L * v - L * u <= L * w + L * h
      <4> DEFINE lu == L * u
                 lv == L * v
                 lw == L * w
                 lh == L * h
      <4>1. lu \in Nat /\ lv \in Nat /\ lw \in Nat /\ lh \in Nat
        BY <1>0, <1>1
      <4> HIDE DEF lu, lv, lw, lh, z
      <4>2. lv <= z + lw /\ z - lh <= lu
        BY <1>11, <3>6 DEF lu, lv, lw, lh
      <4>3. lv - lu <= lw + lh
        BY <1>1, <4>1, <4>2
      <4> QED BY <4>3 DEF lu, lv, lw, lh
    <3> HIDE DEF u, v, w, h
    <3>8. (v - u) * L = L * v - L * u /\ (w + h) * L = L * w + L * h
      BY <1>0, <1>1
    <3> QED BY <1>0, <1>1, <3>7, <3>8, Cancels
  <2> QED BY <2>1, <2>2
<1> QED BY <1>12, <1>13

\* A picture whose dots are square enough is off by little more, whatever the densities.
LEMMA EvenShape ==
  ASSUME NEW A \in Nat \ {0}, NEW B \in Nat \ {0}, NEW X \in Nat \ {0}, NEW Y \in Nat \ {0},
         NEW M \in Nat \ {0}, NEW L \in Nat \ {0}, NEW W \in Nat \ {0}, NEW H \in Nat \ {0},
         50 * (X - Y) <= Y, 50 * (Y - X) <= Y,
         2 * (A * M) - L <= 2 * (L * W), 2 * (L * W) <= 2 * (A * M) + L \/ W = 1,
         2 * (B * M) - L <= 2 * (L * H), 2 * (L * H) <= 2 * (B * M) + L \/ H = 1
  PROVE  /\ 50 * (W * (B * X) - H * (A * Y)) <= 50 * (A * Y + B * X) + H * (A * Y)
         /\ 50 * (H * (A * Y) - W * (B * X)) <= 50 * (A * Y + B * X) + H * (A * Y)
<1> DEFINE h == B * X
           w == A * Y
           n == A * M
           m == B * M
           k == L * W
           g == L * H
           c == (A * M) * B
           u == W * h
           v == H * w
           cx == c * X
           cy == c * Y
           lu == L * u
           lv == L * v
           lw == L * w
           lh == L * h
<1>0. h \in Nat /\ w \in Nat /\ n \in Nat /\ k \in Nat /\ m \in Nat /\ g \in Nat
  OBVIOUS
<1>1. c \in Nat /\ u \in Nat /\ v \in Nat /\ lw \in Nat /\ lh \in Nat
  BY <1>0
<1>2. cx \in Nat /\ cy \in Nat /\ lu \in Nat /\ lv \in Nat
  <2> HIDE DEF c, u, v
  <2> QED BY <1>1
<1>3. 2 * n - L <= 2 * k /\ k <= n + L
  <2>1. W = 1 => k = L
    OBVIOUS
  <2> HIDE DEF n, k
  <2> QED BY <1>0, <2>1 DEF n, k
<1>4. k * h = lu /\ g * w = lv
  <2> HIDE DEF h, w
  <2> QED BY <1>0, Regrouped
<1>5. n * h = cx
  BY <1>0, Regrouped
<1>6. m * w = cy
  <2>1. m * A = c
    <3>1. (B * M) * A = B * (M * A) /\ M * A = A * M
      BY Regrouped
    <3> HIDE DEF n
    <3>2. B * n = n * B
      BY <1>0
    <3> QED BY <3>1, <3>2 DEF n
  <2>2. m * (A * Y) = (m * A) * Y
    <3> HIDE DEF m
    <3> QED BY <1>0, Regrouped
  <2> QED BY <2>1, <2>2
<1>7. lu <= cx + lh /\ 2 * cx - lh <= 2 * lu
  <2>1. k * h <= (n + L) * h /\ (2 * n - L) * h <= (2 * k) * h
    BY <1>0, <1>3, TimesRises
  <2> HIDE DEF n, k, h
  <2>2. (n + L) * h = n * h + L * h /\ (2 * n - L) * h = 2 * (n * h) - L * h /\ (2 * k) * h = 2 * (k * h)
    BY <1>0
  <2> QED BY <1>4, <1>5, <2>1, <2>2
<1>8. 2 * cy - lw <= 2 * lv
  <2>1. (2 * m - L) * w <= (2 * g) * w
    BY <1>0, TimesRises
  <2> HIDE DEF m, g, w
  <2>2. (2 * m - L) * w = 2 * (m * w) - L * w /\ (2 * g) * w = 2 * (g * w)
    BY <1>0
  <2> QED BY <1>4, <1>6, <2>1, <2>2
<1>9. 50 * cx - 50 * cy <= cy /\ 50 * cy - 50 * cx <= cy
  <2> HIDE DEF c
  <2>1. (50 * (X - Y)) * c <= Y * c /\ (50 * (Y - X)) * c <= Y * c
    BY <1>1, TimesRises
  <2>2. (50 * (X - Y)) * c = 50 * (c * X) - 50 * (c * Y) /\ (50 * (Y - X)) * c = 50 * (c * Y) - 50 * (c * X)
        /\ Y * c = c * Y
    BY <1>1
  <2> QED BY <2>1, <2>2
<1>10. (u - v) * L = lu - lv /\ (v - u) * L = lv - lu /\ (w + h) * L = lw + lh /\ v * L = lv
  <2> HIDE DEF u, v, w, h
  <2> QED BY <1>0, <1>1
<1>11. (50 * (u - v)) * L = 50 * (lu - lv) /\ (50 * (v - u)) * L = 50 * (lv - lu)
       /\ (50 * (w + h) + v) * L = 50 * (lw + lh) + lv
  <2> HIDE DEF u, v, w, h, lu, lv, lw, lh
  <2>1. (50 * (u - v)) * L = 50 * ((u - v) * L) /\ (50 * (v - u)) * L = 50 * ((v - u) * L)
        /\ (50 * (w + h) + v) * L = 50 * ((w + h) * L) + v * L
    BY <1>0, <1>1
  <2> QED BY <1>10, <2>1
<1>12. 50 * (u - v) <= 50 * (w + h) + v
  <2>1. 50 * (lu - lv) <= 50 * (lw + lh) + lv
    <3> HIDE DEF cx, cy, lu, lv, lw, lh
    <3> QED BY <1>1, <1>2, <1>7, <1>8, <1>9
  <2> HIDE DEF u, v, w, h, lu, lv, lw, lh
  <2>2. 50 * (u - v) \in Int /\ 50 * (w + h) + v \in Int
    BY <1>0, <1>1
  <2> QED BY <1>11, <2>1, <2>2, Cancels
<1>13. 50 * (v - u) <= 50 * (w + h) + v
  <2>1. CASE H = 1
    <3>1. v = w
      BY <1>0, <2>1
    <3> HIDE DEF u, v, w, h
    <3> QED BY <1>0, <1>1, <3>1
  <2>2. CASE H # 1
    <3>1. 2 * lv <= 2 * cy + lw
      <4>1. 2 * g <= 2 * m + L
        BY <2>2
      <4>2. (2 * g) * w <= (2 * m + L) * w
        BY <1>0, <4>1, TimesRises
      <4> HIDE DEF m, g, w
      <4>3. (2 * m + L) * w = 2 * (m * w) + L * w /\ (2 * g) * w = 2 * (g * w)
        BY <1>0
      <4> QED BY <1>4, <1>6, <4>2, <4>3
    <3>2. 50 * (lv - lu) <= 50 * (lw + lh) + lv
      <4> HIDE DEF cx, cy, lu, lv, lw, lh
      <4> QED BY <1>1, <1>2, <1>7, <1>8, <1>9, <3>1
    <3> HIDE DEF u, v, w, h, lu, lv, lw, lh
    <3>3. 50 * (v - u) \in Int /\ 50 * (w + h) + v \in Int
      BY <1>0, <1>1
    <3> QED BY <1>11, <3>2, <3>3, Cancels
  <2> QED BY <2>1, <2>2
<1> QED BY <1>12, <1>13


\* r is the side scaled by a / b.
Near(side, a, b, r) ==
  /\ r \in Nat \ {0} /\ 2 * (side * a) - b <= 2 * (b * r)
  /\ 2 * (b * r) <= 2 * (side * a) + b \/ r = 1

Sized == [width : Nat \ {0}, height : Nat \ {0}, across : Nat, down : Nat]

\* A scaled side is.
LEMMA ScaledIsNear ==
  ASSUME NEW side \in Nat, NEW a \in Nat, NEW b \in Nat \ {0}
  PROVE  Near(side, a, b, Scaled(side, a, b))
BY ScaledNear DEF Near

\* Both sides are made smaller alike.
LEMMA ShrunkNear ==
  ASSUME NEW s \in Sized
  PROVE  \E M, L \in Nat \ {0} :
           M <= L /\ Near(s.width, M, L, Shrunk(s).width) /\ Near(s.height, M, L, Shrunk(s).height)
<1> DEFINE longest == Larger(s.width, s.height)
<1>0. s.width \in Nat \ {0} /\ s.height \in Nat \ {0} /\ MaxDimension \in Nat
  BY ConverterAssumption DEF Sized
<1>1. longest \in Nat \ {0}
  BY <1>0 DEF Larger
<1>2. CASE MaxDimension = 0 \/ longest <= MaxDimension
  <2>1. Shrunk(s) = s
    BY <1>2 DEF Shrunk
  <2>2. ASSUME NEW a \in Nat \ {0} PROVE Near(a, 1, 1, a)
    BY DEF Near
  <2>3. Near(s.width, 1, 1, Shrunk(s).width) /\ Near(s.height, 1, 1, Shrunk(s).height)
    BY <1>0, <2>1, <2>2
  <2> QED BY <2>3
<1>3. CASE ~ (MaxDimension = 0 \/ longest <= MaxDimension)
  <2>1. Shrunk(s) = [s EXCEPT !.width = Scaled(s.width, MaxDimension, longest),
                              !.height = Scaled(s.height, MaxDimension, longest)]
    BY <1>3 DEF Shrunk
  <2>2. Shrunk(s).width = Scaled(s.width, MaxDimension, longest) /\ Shrunk(s).height = Scaled(s.height, MaxDimension, longest)
    BY <2>1 DEF Sized
  <2> HIDE DEF longest
  <2>3. MaxDimension \in Nat \ {0} /\ MaxDimension <= longest
    BY <1>0, <1>1, <1>3
  <2>4. Near(s.width, MaxDimension, longest, Shrunk(s).width) /\ Near(s.height, MaxDimension, longest, Shrunk(s).height)
    BY <1>0, <1>1, <2>2, ScaledIsNear
  <2> QED BY <1>1, <2>3, <2>4
<1> QED BY <1>2, <1>3

\* A side no longer than b is at most a when it is scaled by a / b.
LEMMA ScaledFits ==
  ASSUME NEW side \in Nat \ {0}, NEW a \in Nat \ {0}, NEW b \in Nat \ {0}, side <= b, NEW r, Near(side, a, b, r)
  PROVE  r \in 1 .. a
<1>0. r \in Nat \ {0} /\ (2 * (b * r) <= 2 * (side * a) + b \/ r = 1)
  BY DEF Near
<1>1. CASE r = 1
  BY <1>1
<1>2. CASE r # 1
  <2> SUFFICES ASSUME ~ (r <= a) PROVE FALSE
    BY <1>0
  <2>1. a + 1 <= r
    BY <1>0
  <2>2. (a + 1) * b <= r * b /\ side * a <= b * a
    BY <1>0, <2>1, TimesRises
  <2> DEFINE x == a * b
             y == side * a
             z == b * r
  <2>3. x \in Nat /\ y \in Nat /\ z \in Nat /\ x + b <= z /\ y <= x /\ 2 * z <= 2 * y + b
    BY <1>0, <1>2, <2>2
  <2> HIDE DEF x, y, z
  <2> QED BY <2>3
<1> QED BY <1>1, <1>2

\* Made smaller, a picture fits into the largest dimension.
LEMMA ShrunkFits ==
  ASSUME NEW s \in Sized, MaxDimension > 0
  PROVE  Shrunk(s).width \in 1 .. MaxDimension /\ Shrunk(s).height \in 1 .. MaxDimension
<1> DEFINE longest == Larger(s.width, s.height)
<1>0. s.width \in Nat \ {0} /\ s.height \in Nat \ {0} /\ MaxDimension \in Nat \ {0}
  BY ConverterAssumption DEF Sized
<1>1. longest \in Nat \ {0} /\ s.width <= longest /\ s.height <= longest
  BY <1>0 DEF Larger
<1>2. CASE longest <= MaxDimension
  <2>1. Shrunk(s) = s
    BY <1>2 DEF Shrunk
  <2> HIDE DEF longest
  <2> QED BY <1>0, <1>1, <1>2, <2>1
<1>3. CASE ~ (longest <= MaxDimension)
  <2>1. Shrunk(s) = [s EXCEPT !.width = Scaled(s.width, MaxDimension, longest),
                              !.height = Scaled(s.height, MaxDimension, longest)]
    BY <1>0, <1>3 DEF Shrunk
  <2>2. Shrunk(s).width = Scaled(s.width, MaxDimension, longest) /\ Shrunk(s).height = Scaled(s.height, MaxDimension, longest)
    BY <2>1 DEF Sized
  <2> HIDE DEF longest
  <2>3. Near(s.width, MaxDimension, longest, Shrunk(s).width) /\ Near(s.height, MaxDimension, longest, Shrunk(s).height)
    BY <1>0, <1>1, <2>2, ScaledIsNear
  <2>4. Shrunk(s).width \in 1 .. MaxDimension
    BY <1>0, <1>1, <2>3, ScaledFits
  <2>5. Shrunk(s).height \in 1 .. MaxDimension
    BY <1>0, <1>1, <2>3, ScaledFits
  <2> QED BY <2>4, <2>5
<1> QED BY <1>2, <1>3

-----------------------------------------------------------------------------
(* The search for the quality                                              *)

\* A better quality makes no smaller file.
Grows(p) == \A q, r \in LowestQuality .. TargetQuality : q < r => p.kb[q] <= p.kb[r]

\* What the search can be at.
Searches == [low : 0 .. TargetQuality + 1, high : -1 .. TargetQuality, best : 0 .. TargetQuality]
Unsought == [low |-> LowestQuality, high |-> TargetQuality, best |-> 0]

\* A turn of the search leads to where it can be.
LEMMA ProbedIsOne ==
  ASSUME NEW p, NEW s \in Searches
  PROVE  Probed(p, s) \in Searches
<1> DEFINE mid == (s.low + s.high) \div 2
<1>0. TargetQuality \in Nat /\ s.low \in 0 .. TargetQuality + 1 /\ s.high \in -1 .. TargetQuality /\ s.best \in 0 .. TargetQuality
  BY ConverterAssumption DEF Searches
<1>1. CASE s.low > s.high
  BY <1>1 DEF Probed
<1>2. CASE ~ (s.low > s.high)
  <2>1. mid \in s.low .. s.high
    BY <1>0, <1>2
  <2>2. mid + 1 \in 0 .. TargetQuality + 1 /\ mid - 1 \in -1 .. TargetQuality /\ mid \in 0 .. TargetQuality
    <3> HIDE DEF mid
    <3> QED BY <1>0, <2>1
  <2>3. \/ Probed(p, s) = [low |-> mid + 1, high |-> s.high, best |-> mid]
        \/ Probed(p, s) = [low |-> s.low, high |-> mid - 1, best |-> s.best]
    BY <1>2 DEF Probed
  <2> HIDE DEF mid
  <2> QED BY <1>0, <2>2, <2>3 DEF Searches
<1> QED BY <1>1, <1>2

\* What the search knows: what it has passed below, and what is too large above.
Knows(p, s) ==
  /\ s.low >= LowestQuality /\ s.high <= TargetQuality
  /\ \/ s.best = 0 /\ s.low = LowestQuality
     \/ s.best = s.low - 1 /\ s.best \in LowestQuality .. TargetQuality /\ p.kb[s.best] <= MaxFileSizeKb
  /\ \A q \in LowestQuality .. TargetQuality : q > s.high => p.kb[q] > MaxFileSizeKb

\* It still knows after another turn.
LEMMA ProbedKnows ==
  ASSUME NEW p, p.kb \in [LowestQuality .. TargetQuality -> Nat], Grows(p), NEW s \in Searches, Knows(p, s)
  PROVE  Knows(p, Probed(p, s))
<1> DEFINE mid == (s.low + s.high) \div 2
<1>0. /\ LowestQuality \in Nat /\ TargetQuality \in Nat /\ MaxFileSizeKb \in Nat
      /\ s.low \in Int /\ s.high \in Int
  BY ConverterAssumption DEF Searches
<1>1. CASE s.low > s.high
  <2>1. Probed(p, s) = s
    BY <1>1 DEF Probed
  <2> QED BY <2>1
<1>2. CASE ~ (s.low > s.high)
  <2>1. mid \in s.low .. s.high
    BY <1>0, <1>2
  <2>2. mid \in LowestQuality .. TargetQuality /\ mid \in Int
    <3> HIDE DEF mid
    <3> QED BY <1>0, <2>1 DEF Knows
  <2>3. CASE p.kb[mid] <= MaxFileSizeKb
    <3> DEFINE t == [low |-> mid + 1, high |-> s.high, best |-> mid]
    <3>1. Probed(p, s) = t
      BY <1>2, <2>3 DEF Probed
    <3> HIDE DEF mid
    <3>2. t.low = mid + 1 /\ t.high = s.high /\ t.best = mid
      OBVIOUS
    <3> HIDE DEF t
    <3>3. t.best = t.low - 1 /\ t.low >= LowestQuality
      BY <1>0, <2>2, <3>2
    <3> QED BY <2>2, <2>3, <3>1, <3>2, <3>3 DEF Knows
  <2>4. CASE ~ (p.kb[mid] <= MaxFileSizeKb)
    <3> DEFINE t == [low |-> s.low, high |-> mid - 1, best |-> s.best]
    <3>1. Probed(p, s) = t
      BY <1>2, <2>4 DEF Probed
    <3> HIDE DEF mid
    <3>2. t.low = s.low /\ t.high = mid - 1 /\ t.best = s.best
      OBVIOUS
    <3> HIDE DEF t
    <3>3. ASSUME NEW q \in LowestQuality .. TargetQuality, q > t.high PROVE p.kb[q] > MaxFileSizeKb
      <4>1. q = mid \/ mid < q
        BY <1>0, <2>2, <3>2, <3>3
      <4>2. p.kb[q] \in Nat /\ p.kb[mid] \in Nat
        BY <2>2
      <4>3. p.kb[mid] <= p.kb[q]
        BY <2>2, <4>1, <4>2 DEF Grows
      <4> QED BY <1>0, <2>4, <4>2, <4>3
    <3>4. t.high <= TargetQuality
      BY <1>0, <2>2, <3>2
    <3> QED BY <3>1, <3>2, <3>3, <3>4 DEF Knows
  <2> QED BY <2>3, <2>4
<1> QED BY <1>1, <1>2

\* A turn leaves fewer qualities, if there were any.
LEMMA ProbedNears ==
  ASSUME NEW p, NEW s \in Searches, NEW n \in Int, s.high - s.low < n, n > -1
  PROVE  Probed(p, s).high - Probed(p, s).low < n - 1 \/ Probed(p, s).high < Probed(p, s).low
<1> DEFINE mid == (s.low + s.high) \div 2
<1>0. s.low \in Int /\ s.high \in Int
  BY ConverterAssumption DEF Searches
<1>1. CASE s.low > s.high
  BY <1>0, <1>1 DEF Probed
<1>2. CASE ~ (s.low > s.high)
  <2>1. mid \in s.low .. s.high
    BY <1>0, <1>2
  <2>2. \/ Probed(p, s).high = s.high /\ Probed(p, s).low = mid + 1
        \/ Probed(p, s).high = mid - 1 /\ Probed(p, s).low = s.low
    BY <1>2 DEF Probed
  <2> HIDE DEF mid
  <2> QED BY <1>0, <2>1, <2>2
<1> QED BY <1>1, <1>2

\* best is the best quality that fits, or 0 when none does.
Finds(p, best) ==
  /\ best = 0 \/ (best \in LowestQuality .. TargetQuality /\ p.kb[best] <= MaxFileSizeKb)
  /\ \A q \in LowestQuality .. TargetQuality : p.kb[q] <= MaxFileSizeKb => best # 0 /\ q <= best

\* That is what the search ends with.
LEMMA SearchFinds ==
  ASSUME NEW p, p.kb \in [LowestQuality .. TargetQuality -> Nat], Grows(p), LowestQuality > 0
  PROVE  Finds(p, BestQuality(p))
<1>0. LowestQuality \in Nat /\ TargetQuality \in Nat /\ LowestQuality <= TargetQuality /\ MaxFileSizeKb \in Nat
  BY ConverterAssumption
<1> DEFINE after[n \in Nat] == IF n = 0 THEN Unsought ELSE Probed(p, after[n - 1])
           step == [n \in Nat |-> [s \in Searches |-> Probed(p, s)]]
<1>1. BestQuality(p) = after[TargetQuality].best
  BY DEF BestQuality, Unsought
<1>2. Unsought \in Searches
  BY <1>0 DEF Unsought, Searches
<1>3. step \in [Nat -> [Searches -> Searches]]
  <2>1. \A s \in Searches : Probed(p, s) \in Searches
    BY ProbedIsOne
  <2> QED BY <2>1
<1>4. PICK g : g \in Recursive(Searches, Unsought, step)
  <2> HIDE DEF step
  <2> QED BY <1>2, <1>3, Recursion
<1>5. g \in [Nat -> Searches] /\ g[0] = Unsought /\ \A n \in Nat \ {0} : g[n] = step[n][g[n - 1]]
  BY <1>4 DEF Recursive
<1>6. ASSUME NEW n \in Nat \ {0} PROVE g[n] = Probed(p, g[n - 1]) /\ g[n - 1] \in Searches
  <2>1. n - 1 \in Nat
    OBVIOUS
  <2>2. g[n - 1] \in Searches
    BY <1>5, <2>1
  <2> QED BY <1>5, <2>2
<1> HIDE DEF step
<1>7. g = [n \in Nat |-> IF n = 0 THEN Unsought ELSE Probed(p, g[n - 1])]
  <2>1. \A n \in Nat : g[n] = IF n = 0 THEN Unsought ELSE Probed(p, g[n - 1])
    BY <1>5, <1>6
  <2>2. g = [n \in Nat |-> g[n]]
    BY <1>5
  <2> QED BY <2>1, <2>2
<1>8. after = [n \in Nat |-> IF n = 0 THEN Unsought ELSE Probed(p, after[n - 1])]
  BY <1>7
<1> HIDE DEF after
<1> DEFINE T == {n \in Nat : /\ after[n] \in Searches /\ Knows(p, after[n])
                             /\ \/ after[n].high - after[n].low < TargetQuality - n
                                \/ after[n].high < after[n].low}
<1>9. 0 \in T
  <2>1. after[0] = Unsought
    BY <1>8
  <2>2. after[0].high = TargetQuality /\ after[0].low = LowestQuality /\ after[0].best = 0
    BY <2>1 DEF Unsought
  <2>3. Knows(p, after[0])
    BY <1>0, <2>2 DEF Knows
  <2>4. after[0].high - after[0].low < TargetQuality - 0
    BY <1>0, <2>2
  <2> QED BY <1>2, <2>1, <2>3, <2>4
<1>10. ASSUME NEW n \in Nat, n \in T PROVE n + 1 \in T
  <2>1. n + 1 \in Nat /\ n + 1 # 0 /\ (n + 1) - 1 = n
    OBVIOUS
  <2>2. after[n + 1] = Probed(p, after[n])
    BY <1>8, <2>1
  <2>3. after[n] \in Searches /\ Knows(p, after[n])
    BY <1>10
  <2>4. after[n + 1] \in Searches /\ Knows(p, after[n + 1])
    BY <2>2, <2>3, ProbedIsOne, ProbedKnows
  <2> DEFINE a == after[n]
             b == after[n + 1]
  <2>5. a.high - a.low < TargetQuality - n \/ a.high < a.low
    BY <1>10
  <2>6. a.low \in Int /\ a.high \in Int /\ b.low \in Int /\ b.high \in Int /\ b = Probed(p, a) /\ a \in Searches
    BY <1>0, <2>2, <2>3, <2>4 DEF Searches
  <2> HIDE DEF a, b
  <2>7. b.high - b.low < TargetQuality - (n + 1) \/ b.high < b.low
    <3>1. CASE a.high < a.low
      <4>1. Probed(p, a) = a
        BY <2>6, <3>1 DEF Probed
      <4> QED BY <2>6, <3>1, <4>1
    <3>2. CASE ~ (a.high < a.low)
      <4> DEFINE m == TargetQuality - n
      <4>1. m \in Int /\ a.high - a.low < m
        BY <1>0, <2>5, <2>6, <3>2
      <4>2. m > -1
        <5> HIDE DEF m
        <5> QED BY <2>6, <3>2, <4>1
      <4>3. m - 1 = TargetQuality - (n + 1)
        BY <1>0
      <4> HIDE DEF m
      <4>4. Probed(p, a).high - Probed(p, a).low < m - 1 \/ Probed(p, a).high < Probed(p, a).low
        BY <2>6, <4>1, <4>2, ProbedNears
      <4> QED BY <2>6, <4>3, <4>4
    <3> QED BY <3>1, <3>2
  <2> QED BY <2>4, <2>7 DEF b
<1>11. TargetQuality \in T
  <2> HIDE DEF T
  <2> QED BY <1>0, <1>9, <1>10, Induction
<1> DEFINE s == after[TargetQuality]
<1>12. s \in Searches /\ Knows(p, s) /\ (s.high - s.low < TargetQuality - TargetQuality \/ s.high < s.low)
  BY <1>11
<1>13. s.best = BestQuality(p)
  BY <1>1
<1> HIDE DEF s, T
<1>14. s.low \in Int /\ s.high \in Int /\ s.best \in Nat
  BY <1>0, <1>12 DEF Searches
<1>15. s.high < s.low
  BY <1>0, <1>12, <1>14
<1>16. ASSUME NEW q \in LowestQuality .. TargetQuality, p.kb[q] <= MaxFileSizeKb PROVE s.best # 0 /\ q <= s.best
  <2>1. p.kb[q] \in Nat
    OBVIOUS
  <2>2. ~ (q > s.high)
    BY <1>0, <1>12, <1>16, <2>1 DEF Knows
  <2>3. q < s.low
    BY <1>0, <1>14, <1>15, <2>2
  <2>4. s.low # LowestQuality
    BY <1>0, <2>3
  <2>5. s.best = s.low - 1 /\ s.best \in LowestQuality .. TargetQuality
    BY <1>12, <2>4 DEF Knows
  <2> QED BY <1>0, <1>14, <2>3, <2>5
<1>17. s.best = 0 \/ (s.best \in LowestQuality .. TargetQuality /\ p.kb[s.best] <= MaxFileSizeKb)
  BY <1>12 DEF Knows
<1> QED BY <1>13, <1>16, <1>17 DEF Finds

-----------------------------------------------------------------------------
(* The shape                                                               *)

\* The sides a picture has when its dots are square.
Dense(s) == s.across > 0 /\ s.down > 0
Wide(s) == IF Dense(s) THEN s.width * s.down ELSE s.width
High(s) == IF Dense(s) THEN s.height * s.across ELSE s.height

\* t has the shape of w and h.
Shaped(t, w, h) ==
  LET off == t.width * h - t.height * w
      most == 50 * (w + h) + t.height * w
  IN  50 * off <= most /\ - 50 * off <= most

\* The bound for either sign.
LEMMA ShapedIs ==
  ASSUME NEW t, t.width \in Nat, t.height \in Nat, NEW w \in Nat, NEW h \in Nat,
         50 * (t.width * h - t.height * w) <= 50 * (w + h) + t.height * w,
         50 * (t.height * w - t.width * h) <= 50 * (w + h) + t.height * w
  PROVE  Shaped(t, w, h)
<1> DEFINE u == t.width * h
           v == t.height * w
<1>1. u \in Nat /\ v \in Nat
  OBVIOUS
<1>2. Shaped(t, w, h) <=> 50 * (u - v) <= 50 * (w + h) + v /\ - 50 * (u - v) <= 50 * (w + h) + v
  BY DEF Shaped
<1>3. 50 * (u - v) <= 50 * (w + h) + v /\ 50 * (v - u) <= 50 * (w + h) + v
  OBVIOUS
<1> HIDE DEF u, v
<1>4. - 50 * (u - v) = 50 * (v - u)
  BY <1>1
<1> QED BY <1>2, <1>3, <1>4

\* Both sides stay positive when one is stretched.
LEMMA StretchedSized ==
  ASSUME NEW s \in Sized
  PROVE  Stretched(s) \in Sized
<1>0. s.width \in Nat \ {0} /\ s.height \in Nat \ {0} /\ s.across \in Nat /\ s.down \in Nat
  BY DEF Sized
<1>1. CASE ~ Uneven(s)
  BY <1>1 DEF Stretched
<1>2. CASE Uneven(s)
  <2>1. s.across \in Nat \ {0} /\ s.down \in Nat \ {0}
    BY <1>0, <1>2 DEF Uneven
  <2>2. Scaled(s.height, s.across, s.down) \in Nat \ {0} /\ Scaled(s.width, s.down, s.across) \in Nat \ {0}
    BY <1>0, <2>1, ScaledIsNear DEF Near
  <2>3. \/ Stretched(s) = [s EXCEPT !.height = Scaled(s.height, s.across, s.down)]
        \/ Stretched(s) = [s EXCEPT !.width = Scaled(s.width, s.down, s.across)]
    BY <1>2 DEF Stretched
  <2> QED BY <2>2, <2>3 DEF Sized
<1> QED BY <1>1, <1>2

\* A picture is stretched and made smaller within its shape.
LEMMA ShapeStays ==
  ASSUME NEW s \in Sized
  PROVE  Shaped(Shrunk(Stretched(s)), Wide(s), High(s))
<1> DEFINE t == Shrunk(Stretched(s))
           r == Stretched(s)
           A == s.width
           B == s.height
           W == t.width
           H == t.height
<1>0. A \in Nat \ {0} /\ B \in Nat \ {0} /\ s.across \in Nat /\ s.down \in Nat
  BY DEF Sized
<1>1. PICK M \in Nat \ {0}, L \in Nat \ {0} : M <= L /\ Near(r.width, M, L, W) /\ Near(r.height, M, L, H)
  <2>1. r \in Sized
    BY StretchedSized
  <2> HIDE DEF r
  <2> QED BY <2>1, ShrunkNear DEF r
<1>2. /\ W \in Nat \ {0} /\ 2 * (r.width * M) - L <= 2 * (L * W)
      /\ 2 * (L * W) <= 2 * (r.width * M) + L \/ W = 1
      /\ H \in Nat \ {0} /\ 2 * (r.height * M) - L <= 2 * (L * H)
      /\ 2 * (L * H) <= 2 * (r.height * M) + L \/ H = 1
  BY <1>1 DEF Near
<1>3. CASE ~ Uneven(s)
  <2>1. r = s
    BY <1>3 DEF Stretched
  <2>2. PICK X \in Nat \ {0}, Y \in Nat \ {0} :
          Wide(s) = A * Y /\ High(s) = B * X /\ 50 * (X - Y) <= Y /\ 50 * (Y - X) <= Y
    <3>1. CASE Dense(s)
      <4>1. s.across \in Nat \ {0} /\ s.down \in Nat \ {0}
        BY <1>0, <3>1 DEF Dense
      <4>2. 50 * (s.across - s.down) <= s.down /\ 50 * (s.down - s.across) <= s.down
        BY <1>0, <1>3, <3>1 DEF Uneven, Dense
      <4>3. Wide(s) = A * s.down /\ High(s) = B * s.across
        BY <3>1 DEF Wide, High
      <4> QED BY <4>1, <4>2, <4>3
    <3>2. CASE ~ Dense(s)
      <4>1. Wide(s) = A /\ High(s) = B
        BY <3>2 DEF Wide, High
      <4>2. Wide(s) = A * 1 /\ High(s) = B * 1 /\ 50 * (1 - 1) <= 1
        BY <1>0, <4>1
      <4> QED BY <4>2
    <3> QED BY <3>1, <3>2
  <2> HIDE DEF t, r
  <2>3. /\ 2 * (A * M) - L <= 2 * (L * W) /\ (2 * (L * W) <= 2 * (A * M) + L \/ W = 1)
        /\ 2 * (B * M) - L <= 2 * (L * H) /\ (2 * (L * H) <= 2 * (B * M) + L \/ H = 1)
    BY <1>2, <2>1
  <2>4. W \in Nat \ {0} /\ H \in Nat \ {0}
    BY <1>2
  <2> HIDE DEF A, B, W, H
  <2>5. /\ 50 * (W * (B * X) - H * (A * Y)) <= 50 * (A * Y + B * X) + H * (A * Y)
        /\ 50 * (H * (A * Y) - W * (B * X)) <= 50 * (A * Y + B * X) + H * (A * Y)
    BY <1>0, <2>2, <2>3, <2>4, EvenShape
  <2>6. Wide(s) \in Nat /\ High(s) \in Nat
    BY <1>0, <2>2
  <2> QED BY <2>2, <2>4, <2>5, <2>6, ShapedIs DEF W, H, t
<1>4. CASE Uneven(s)
  <2> DEFINE X == s.across
             Y == s.down
  <2>1. X \in Nat \ {0} /\ Y \in Nat \ {0} /\ Dense(s) /\ X # Y
    BY <1>0, <1>4 DEF Uneven, Dense
  <2>2. Wide(s) = A * Y /\ High(s) = B * X
    BY <2>1 DEF Wide, High
  <2>3. W * (B * X) - H * (A * Y) <= A * Y + B * X /\ H * (A * Y) - W * (B * X) <= A * Y + B * X
    <3>1. CASE X > Y
      <4> DEFINE b == Scaled(B, X, Y)
      <4>1. r.width = A /\ r.height = b
        BY <1>4, <3>1 DEF Stretched, Sized
      <4>2. Near(B, X, Y, b)
        BY <1>0, <2>1, ScaledIsNear
      <4> HIDE DEF b, r, t, A, B, X, Y, W, H
      <4>3. b \in Nat \ {0} /\ 2 * (B * X) - Y <= 2 * (Y * b) /\ (2 * (Y * b) <= 2 * (B * X) + Y \/ b = 1)
        BY <4>2 DEF Near
      <4>4. /\ W \in Nat \ {0} /\ 2 * (A * M) - L <= 2 * (L * W)
            /\ 2 * (L * W) <= 2 * (A * M) + L \/ W = 1
            /\ H \in Nat \ {0} /\ 2 * (b * M) - L <= 2 * (L * H)
            /\ 2 * (L * H) <= 2 * (b * M) + L \/ H = 1
        BY <1>2, <4>1
      <4>5. M <= L
        BY <1>1
      <4> QED BY <1>0, <2>1, <4>3, <4>4, <4>5, LengthenedShape
    <3>2. CASE ~ (X > Y)
      <4> DEFINE b == Scaled(A, Y, X)
      <4>1. r.width = b /\ r.height = B
        BY <1>4, <3>2 DEF Stretched, Sized
      <4>2. Near(A, Y, X, b)
        BY <1>0, <2>1, ScaledIsNear
      <4> HIDE DEF b, r, t, A, B, X, Y, W, H
      <4>3. b \in Nat \ {0} /\ 2 * (A * Y) - X <= 2 * (X * b) /\ (2 * (X * b) <= 2 * (A * Y) + X \/ b = 1)
        BY <4>2 DEF Near
      <4>4. /\ H \in Nat \ {0} /\ 2 * (B * M) - L <= 2 * (L * H)
            /\ 2 * (L * H) <= 2 * (B * M) + L \/ H = 1
            /\ W \in Nat \ {0} /\ 2 * (b * M) - L <= 2 * (L * W)
            /\ 2 * (L * W) <= 2 * (b * M) + L \/ W = 1
        BY <1>2, <4>1
      <4>5. M <= L
        BY <1>1
      <4>6. H * (A * Y) - W * (B * X) <= B * X + A * Y /\ W * (B * X) - H * (A * Y) <= B * X + A * Y
        BY <1>0, <2>1, <4>3, <4>4, <4>5, LengthenedShape
      <4>7. B * X + A * Y = A * Y + B * X
        BY <1>0, <2>1
      <4> QED BY <4>6, <4>7
    <3> QED BY <3>1, <3>2
  <2> DEFINE w == A * Y
             h == B * X
             u == W * h
             v == H * w
  <2>4. w \in Nat /\ h \in Nat
    BY <1>0, <2>1
  <2>5. W \in Nat \ {0} /\ H \in Nat \ {0}
    BY <1>2
  <2>6. u - v <= w + h /\ v - u <= w + h
    BY <2>3
  <2> HIDE DEF A, B, X, Y, w, h, W, H
  <2>7. u \in Nat /\ v \in Nat
    BY <2>4, <2>5
  <2>8. 50 * (u - v) <= 50 * (w + h) + v /\ 50 * (v - u) <= 50 * (w + h) + v
    <3> HIDE DEF u, v
    <3> QED BY <2>4, <2>6, <2>7
  <2>9. Wide(s) = w /\ High(s) = h
    BY <2>2 DEF w, h
  <2> HIDE DEF t
  <2>10. Shaped(t, w, h)
    BY <2>4, <2>5, <2>8, ShapedIs DEF W, H
  <2> QED BY <2>9, <2>10 DEF t
<1> QED BY <1>3, <1>4

-----------------------------------------------------------------------------
(* Pictures in the folder                                                  *)

\* What a JPEG holds is what the converter makes of a page.
AsMade(j) ==
  LET image == process_image(file.picture)
  IN  /\ j.width = image.width /\ j.height = image.height
      /\ j.quality = image.quality /\ j.forced = image.forced

PicturesMade == file \in Files /\ \A j \in jpegs : AsMade(j)

\* A file is written as it is made.
LEMMA WrittenMade ==
  ASSUME PicturesMade, file' = file, NEW page, NEW time, NEW frame, NEW whole, jpegs' = Written(page, time, frame, whole)
  PROVE  PicturesMade'
<1> DEFINE image == process_image(file.picture)
           new == [name |-> Named(page, time), frame |-> frame, whole |-> whole,
                   width |-> image.width, height |-> image.height,
                   quality |-> image.quality, forced |-> image.forced]
<1>1. jpegs' = {j \in jpegs : j.name # Named(page, time)} \cup {new}
  BY DEF Written
<1>2. AsMade(new)
  <2> HIDE DEF image
  <2>1. new.width = image.width /\ new.height = image.height /\ new.quality = image.quality /\ new.forced = image.forced
    OBVIOUS
  <2> HIDE DEF new
  <2> QED BY <2>1, Zenon DEF AsMade, image
<1> HIDE DEF new
<1>3. \A j : AsMade(j)' <=> AsMade(j)
  BY DEF AsMade
<1>4. ASSUME NEW j \in jpegs' PROVE AsMade(j)'
  BY <1>1, <1>2, <1>3 DEF PicturesMade
<1> QED BY <1>4 DEF PicturesMade

\* A step writes one file.
WritesOne == \E page, time, frame, whole : jpegs' = Written(page, time, frame, whole)
OneAtMost == file' = file /\ (jpegs' = jpegs \/ WritesOne)

\* What the steps are made of.
LEMMA PartsWrite ==
  /\ \A page, time, frame, tone : Saved(page, time, frame, tone) => WritesOne
  /\ \A page, time, frame : NotSaved(page, time, frame) => jpegs' = jpegs \/ WritesOne
  /\ \A page : Lost(page) => jpegs' = jpegs
  /\ \A page, time, frame : Static(page, time, frame) => jpegs' = jpegs
  /\ \A last : StepOn(last) => file' = file
  /\ \A S, status : Begin(S, status) => file' = file /\ jpegs' = jpegs
  /\ Abort => file' = file /\ jpegs' = jpegs
<1>1. \A page, time, frame, tone : Saved(page, time, frame, tone) => WritesOne
  <2> SUFFICES ASSUME NEW page, NEW time, NEW frame, NEW tone, Saved(page, time, frame, tone) PROVE WritesOne
    OBVIOUS
  <2>1. jpegs' = Written(page, time, frame, TRUE)
    BY Zenon DEF Saved
  <2> QED BY <2>1, Zenon DEF WritesOne
<1>2. \A page, time, frame : NotSaved(page, time, frame) => jpegs' = jpegs \/ WritesOne
  <2> SUFFICES ASSUME NEW page, NEW time, NEW frame, NotSaved(page, time, frame) PROVE jpegs' = jpegs \/ WritesOne
    OBVIOUS
  <2>1. jpegs' = jpegs \/ jpegs' = Written(page, time, frame, FALSE)
    BY Zenon DEF NotSaved
  <2> QED BY <2>1, Zenon DEF WritesOne
<1>3. \A page : Lost(page) => jpegs' = jpegs
  <2> SUFFICES ASSUME NEW page, Lost(page) PROVE jpegs' = jpegs
    OBVIOUS
  <2>1. UNCHANGED <<jpegs, last_saved>>
    BY Zenon DEF Lost
  <2> QED BY <2>1
<1>4. \A page, time, frame : Static(page, time, frame) => jpegs' = jpegs
  <2> SUFFICES ASSUME NEW page, NEW time, NEW frame, Static(page, time, frame) PROVE jpegs' = jpegs
    OBVIOUS
  <2>1. UNCHANGED <<jpegs, last_saved, mishaps>>
    BY Zenon DEF Static
  <2> QED BY <2>1
<1>5. \A last : StepOn(last) => file' = file
  BY DEF StepOn
<1>6. \A S, status : Begin(S, status) => file' = file /\ jpegs' = jpegs
  <2> SUFFICES ASSUME NEW S, NEW status, Begin(S, status) PROVE file' = file /\ jpegs' = jpegs
    OBVIOUS
  <2>1. UNCHANGED <<file, cursor, made, summary>>
    BY Zenon DEF Begin
  <2> QED BY <2>1 DEF made
<1>7. Abort => file' = file /\ jpegs' = jpegs
  <2> SUFFICES ASSUME Abort PROVE file' = file /\ jpegs' = jpegs
    OBVIOUS
  <2>1. UNCHANGED <<file, cursor, plan, jpegs, last_saved, tally, plain>>
    BY Zenon DEF Abort
  <2> QED BY <2>1
<1> QED BY <1>1, <1>2, <1>3, <1>4, <1>5, <1>6, <1>7, Zenon

\* A step of a conversion writes one file or none.
LEMMA ConversionWrites ==
  ASSUME ConversionNext
  PROVE  OneAtMost
<1>1. CASE Rejected \/ OpenFails \/ NoPages \/ CloseFails
  <2>1. Abort
    BY <1>1 DEF Rejected, OpenFails, NoPages, CloseFails
  <2> QED BY <2>1, PartsWrite, Zenon DEF OneAtMost
<1>2. CASE OpenDocument \/ OpenImage \/ OpenAnimation \/ OpenVideo
  <2>1. Abort \/ \E S, status : Begin(S, status)
    <3>1. OpenDocument => \E S, status : Begin(S, status)
      BY Zenon DEF OpenDocument
    <3>2. OpenImage => \E S, status : Begin(S, status)
      BY Zenon DEF OpenImage
    <3>3. OpenAnimation => \E S, status : Begin(S, status)
      BY Zenon DEF OpenAnimation
    <3>4. OpenVideo => Abort \/ \E S, status : Begin(S, status)
      BY DEF OpenVideo
    <3> QED BY <1>2, <3>1, <3>2, <3>3, <3>4, Zenon
  <2> QED BY <2>1, PartsWrite, Zenon DEF OneAtMost
<1>3. CASE PageSaved \/ FrameSaved \/ SceneSaved
  <2>1. (\E page, time, frame, tone : Saved(page, time, frame, tone)) /\ \E last : StepOn(last)
    BY <1>3, Zenon DEF PageSaved, FrameSaved, SceneSaved
  <2> QED BY <2>1, PartsWrite, Zenon DEF OneAtMost
<1>4. CASE PageFails \/ FrameFails \/ SceneFails
  <2>1. /\ (\E page : Lost(page)) \/ \E page, time, frame : NotSaved(page, time, frame)
        /\ \E last : StepOn(last)
    BY <1>4, Zenon DEF PageFails, FrameFails, SceneFails
  <2> QED BY <2>1, PartsWrite, Zenon DEF OneAtMost
<1>5. CASE AnimationEndsEarly \/ DecoderRejects \/ finalize_results \/ Stopped
  <2>1. file' = file /\ jpegs' = jpegs
    BY <1>5 DEF AnimationEndsEarly, DecoderRejects, finalize_results, Stopped, made
  <2> QED BY <2>1 DEF OneAtMost
<1>6. CASE FrameCorrupt
  <2>1. file' = file /\ (Lost(next) \/ jpegs' = jpegs)
    BY <1>6 DEF FrameCorrupt
  <2> QED BY <2>1, PartsWrite, Zenon DEF OneAtMost
<1>7. CASE FramePassed \/ EndOfStream \/ SceneStatic
  <2>1. jpegs' = jpegs /\ \E last : StepOn(last)
    <3>1. FramePassed => jpegs' = jpegs /\ \E last : StepOn(last)
      BY DEF FramePassed, made
    <3>2. EndOfStream => jpegs' = jpegs /\ \E last : StepOn(last)
      <4> SUFFICES ASSUME EndOfStream PROVE jpegs' = jpegs /\ \E last : StepOn(last)
        OBVIOUS
      <4>1. UNCHANGED <<jpegs, last_saved, plain>> /\ StepOn(Len(targets))
        BY Zenon DEF EndOfStream
      <4> QED BY <4>1
    <3>3. SceneStatic => jpegs' = jpegs /\ \E last : StepOn(last)
      <4> SUFFICES ASSUME SceneStatic PROVE jpegs' = jpegs /\ \E last : StepOn(last)
        OBVIOUS
      <4>1. UNCHANGED <<jpegs, last_saved>> /\ StepOn(Len(targets))
        BY Zenon DEF SceneStatic
      <4> QED BY <4>1
    <3> QED BY <1>7, <3>1, <3>2, <3>3
  <2> QED BY <2>1, PartsWrite, Zenon DEF OneAtMost
<1>8. CASE FrameStatic
  <2>1. (\E page, time, frame : Static(page, time, frame)) /\ \E last : StepOn(last)
    BY <1>8, Zenon DEF FrameStatic
  <2> QED BY <2>1, PartsWrite, Zenon DEF OneAtMost
<1> QED BY <1>1, <1>2, <1>3, <1>4, <1>5, <1>6, <1>7, <1>8 DEF ConversionNext

\* So does a step of the whole, and what there is stays as it was made.
LEMMA MadeStep ==
  ASSUME PicturesMade, [FileToReportNext]_<<conversionVars, exportVars>>
  PROVE  PicturesMade'
<1>1. CASE UNCHANGED <<file, jpegs>>
  BY <1>1 DEF PicturesMade, AsMade
<1>2. CASE ConversionNext
  <2>1. OneAtMost
    BY <1>2, ConversionWrites
  <2>2. CASE jpegs' = jpegs
    BY <1>1, <2>1, <2>2 DEF OneAtMost
  <2>3. CASE WritesOne
    <3>1. PICK page, time, frame, whole : jpegs' = Written(page, time, frame, whole)
      BY <2>3, Zenon DEF WritesOne
    <3>2. file' = file
      BY <2>1 DEF OneAtMost
    <3> QED BY <3>1, <3>2, WrittenMade, Zenon
  <2> QED BY <2>1, <2>2, <2>3 DEF OneAtMost
<1>3. UNCHANGED conversionVars => UNCHANGED <<file, jpegs>>
  BY DEF conversionVars, made
<1> QED BY <1>1, <1>2, <1>3 DEF FileToReportNext

\* Every JPEG was made by the converter, of a page of the file.
LEMMA MadeInvariance == FileToReportSpec => []PicturesMade
<1>1. FileToReportInit => PicturesMade
  <2>1. FileToReportInit => file \in Files /\ jpegs = {}
    BY Zenon DEF FileToReportInit, ConversionInit
  <2> QED BY <2>1 DEF PicturesMade
<1>2. PicturesMade /\ [FileToReportNext]_<<conversionVars, exportVars>> => PicturesMade'
  BY MadeStep
<1> QED BY <1>1, <1>2, PTL DEF FileToReportSpec

\* What is turned has sides as before.
LEMMA TurnedSized ==
  ASSUME NEW p \in Picture
  PROVE  Turned(p) \in Sized
<1>1. p.width \in Nat \ {0} /\ p.height \in Nat \ {0} /\ p.across \in Nat /\ p.down \in Nat
  BY DEF Picture
<1> DEFINE turns == OnItsSide(p) /\ p.exif # "broken" /\ (p.rgb \/ p.exif = "fine")
           swaps == OnItsSide(p) /\ p.exif # "broken"
<1>2. Turned(p) = [width  |-> IF turns THEN p.height ELSE p.width,
                   height |-> IF turns THEN p.width ELSE p.height,
                   across |-> IF swaps THEN p.down ELSE p.across,
                   down   |-> IF swaps THEN p.across ELSE p.down]
  BY DEF Turned
<1> HIDE DEF turns, swaps
<1> QED BY <1>1, <1>2 DEF Sized

\* Unless the tags are lost, sides and densities turn together.
LEMMA TurnedShape ==
  ASSUME NEW p \in Picture, p.exif # "lost"
  PROVE  LET turned == OnItsSide(p) /\ p.exif = "fine"
         IN  /\ Wide(Turned(p)) = IF turned THEN High(p) ELSE Wide(p)
             /\ High(Turned(p)) = IF turned THEN Wide(p) ELSE High(p)
<1>1. p.width \in Nat \ {0} /\ p.height \in Nat \ {0} /\ p.across \in Nat /\ p.down \in Nat
  BY DEF Picture
<1>2. p.exif \in {"fine", "lost", "broken"}
  BY DEF Picture
<1> DEFINE turned == OnItsSide(p) /\ p.exif = "fine"
           s == Turned(p)
<1>3. /\ s.width = IF turned THEN p.height ELSE p.width
      /\ s.height = IF turned THEN p.width ELSE p.height
      /\ s.across = IF turned THEN p.down ELSE p.across
      /\ s.down = IF turned THEN p.across ELSE p.down
  <2> DEFINE turns == OnItsSide(p) /\ p.exif # "broken" /\ (p.rgb \/ p.exif = "fine")
             swaps == OnItsSide(p) /\ p.exif # "broken"
  <2>1. (turns <=> turned) /\ (swaps <=> turned)
    BY <1>2
  <2>2. s = [width  |-> IF turns THEN p.height ELSE p.width,
             height |-> IF turns THEN p.width ELSE p.height,
             across |-> IF swaps THEN p.down ELSE p.across,
             down   |-> IF swaps THEN p.across ELSE p.down]
    BY DEF Turned
  <2> HIDE DEF turns, swaps, turned, s
  <2> QED BY <2>1, <2>2
<1> HIDE DEF s
<1>4. CASE turned
  <2>1. s.width = p.height /\ s.height = p.width /\ s.across = p.down /\ s.down = p.across
    BY <1>3, <1>4
  <2> HIDE DEF turned
  <2>2. Dense(s) <=> Dense(p)
    BY <2>1 DEF Dense
  <2>3. Wide(s) = High(p) /\ High(s) = Wide(p)
    BY <2>1, <2>2 DEF Wide, High
  <2> QED BY <1>4, <2>3 DEF s, turned
<1>5. CASE ~ turned
  <2>1. s.width = p.width /\ s.height = p.height /\ s.across = p.across /\ s.down = p.down
    BY <1>3, <1>5
  <2> HIDE DEF turned
  <2>2. Dense(s) <=> Dense(p)
    BY <2>1 DEF Dense
  <2>3. Wide(s) = Wide(p) /\ High(s) = High(p)
    BY <2>1, <2>2 DEF Wide, High
  <2> QED BY <1>5, <2>3 DEF s, turned
<1> QED BY <1>4, <1>5

\* The sides of what is written.
LEMMA WrittenShape ==
  ASSUME NEW p \in Picture, p.exif # "lost"
  PROVE  LET turned == OnItsSide(p) /\ p.exif = "fine"
         IN  Shaped(process_image(p), IF turned THEN High(p) ELSE Wide(p), IF turned THEN Wide(p) ELSE High(p))
<1> DEFINE t == Shrunk(Stretched(Turned(p)))
           w == Wide(Turned(p))
           h == High(Turned(p))
<1>1. Shaped(t, w, h)
  BY TurnedSized, ShapeStays
<1>2. process_image(p).width = t.width /\ process_image(p).height = t.height
  BY DEF process_image
<1> HIDE DEF t, w, h
<1>3. Shaped(process_image(p), w, h)
  BY <1>1, <1>2, Zenon DEF Shaped
<1> QED BY <1>3, TurnedShape DEF w, h

\* The shape of every JPEG.
LEMMA ShapesHold == PicturesMade => ShapeAsIntended
<1> SUFFICES ASSUME PicturesMade, NEW j \in jpegs, file.picture.exif # "lost"
             PROVE  LET turned == OnItsSide(file.picture) /\ file.picture.exif = "fine"
                    IN  Shaped(j, IF turned THEN High(file.picture) ELSE Wide(file.picture),
                                  IF turned THEN Wide(file.picture) ELSE High(file.picture))
  BY Zenon DEF ShapeAsIntended, Shaped, Whole, Wide, High, Dense
<1>1. file.picture \in Picture
  BY PicturesAssumption DEF PicturesMade
<1>2. j.width = process_image(file.picture).width /\ j.height = process_image(file.picture).height
  BY DEF PicturesMade, AsMade
<1> DEFINE turned == OnItsSide(file.picture) /\ file.picture.exif = "fine"
           w == IF turned THEN High(file.picture) ELSE Wide(file.picture)
           h == IF turned THEN Wide(file.picture) ELSE High(file.picture)
<1>3. Shaped(process_image(file.picture), w, h)
  BY <1>1, WrittenShape
<1> HIDE DEF w, h
<1>4. Shaped(j, w, h)
  BY <1>2, <1>3, Zenon DEF Shaped
<1> QED BY <1>4 DEF w, h

\* Size and quality of every JPEG.
LEMMA LimitsHold ==
  ASSUME PicturesMade, Grows(file.picture)
  PROVE  FitsTheLimits
<1> DEFINE p == file.picture
           Fit(q) == p.kb[q] <= MaxFileSizeKb
<1>1. p \in Picture
  BY PicturesAssumption DEF PicturesMade
<1>2. p.kb \in [LowestQuality .. TargetQuality -> Nat]
  BY <1>1 DEF Picture
<1>3. ASSUME NEW j \in jpegs, MaxDimension > 0 PROVE j.width \in 1 .. MaxDimension /\ j.height \in 1 .. MaxDimension
  <2> DEFINE s == Stretched(Turned(p))
  <2>1. s \in Sized
    BY <1>1, TurnedSized, StretchedSized
  <2>2. j.width = Shrunk(s).width /\ j.height = Shrunk(s).height
    BY DEF PicturesMade, AsMade, process_image
  <2> HIDE DEF s
  <2> QED BY <1>3, <2>1, <2>2, ShrunkFits
<1>4. ASSUME NEW j \in jpegs, Limited, NEW q \in LowestQuality .. TargetQuality, Fit(q)
      PROVE  ~ j.forced /\ q <= j.quality /\ Fit(j.quality)
  <2>1. j.quality = Encoded(p).quality /\ j.forced = Encoded(p).forced
    BY DEF PicturesMade, AsMade, process_image
  <2>2. LowestQuality > 0
    BY <1>4 DEF Limited
  <2>3. Finds(p, BestQuality(p))
    <3> HIDE DEF p
    <3> QED BY <1>2, <2>2, SearchFinds DEF p
  <2> DEFINE best == BestQuality(p)
  <2>4. best # 0 /\ q <= best /\ Fit(best)
    <3> HIDE DEF p, best
    <3> QED BY <1>4, <2>3 DEF Finds, best
  <2>5. Encoded(p) = [quality |-> best, forced |-> FALSE]
    BY <1>4, <2>4 DEF Encoded
  <2>6. j.quality = best /\ j.forced = FALSE
    <3> HIDE DEF p, best
    <3> QED BY <2>1, <2>5
  <2> HIDE DEF p, best
  <2> QED BY <2>4, <2>6
<1> QED BY <1>3, <1>4 DEF FitsTheLimits, Whole

\* For any picture of any size, density and tags: what is written has the shape it was taken in, within
\* a dot of each side and the tolerance for densities (the resizing in process_image).
THEOREM ShapesKept == FileToReportSpec => []ShapeAsIntended
<1> QED BY MadeInvariance, ShapesHold, PTL

\* And where a better quality never makes a smaller file, which the binary search counts on, what is
\* written is also within the largest dimension and as good as the limit of its size allows.
THEOREM PicturesFit ==
  ASSUME \A f \in Files : Grows(f.picture)
  PROVE  FileToReportSpec => []PicturesAsIntended
<1>1. PicturesMade => PicturesAsIntended
  BY ShapesHold, LimitsHold DEF PicturesMade, PicturesAsIntended
<1> QED BY <1>1, MadeInvariance, PTL
=============================================================================
