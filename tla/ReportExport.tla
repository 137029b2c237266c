---------------------------- MODULE ReportExport ----------------------------
(***************************************************************************)
(* The export of a run's database into a folder of reports (_export,       *)
(* _atomic_write and _recovery of src/src/data_exporter.py).               *)
(*                                                                         *)
(* Each report is written under a temporary name and renamed when it is    *)
(* whole, without ever replacing a file (os.rename on Windows).  A file    *)
(* name is a pair of the report and the marks added to its name: 0 for     *)
(* "-retry", n for "-n".  Every export of a behaviour happens in the same  *)
(* second, for other names cannot collide.  Around the export, other       *)
(* programs create files, another window of the program starts an attempt  *)
(* in the same database, files are locked or the disk is full, and the     *)
(* process is killed: at most `luck` times in all.                         *)
(***************************************************************************)
EXTENDS ReportRows

CONSTANTS
  EXPORT_WRITE_ATTEMPTS,
  MaxExports               \* bound: exports of one database
ASSUME ExportAssumption == EXPORT_WRITE_ATTEMPTS \in Nat \ {0} /\ MaxExports \in Nat \ {0}

VARIABLES
  db,          \* the database
  snapshot,    \* what the transaction of the export reads
  folder,      \* file name -> content
  temporary,   \* content of the temporary file of this job, NoFile if there is none
  litter,      \* why temporary files of earlier jobs are still there
  phase,       \* what the export does next; "none" while there is no database
  queue,       \* the reports still to write
  stamp,       \* marks of the names of this export
  path, target, attempt, complete,        \* variables of _atomic_write
  outcome,     \* [saved, failed, notices]; recovery is a report that was saved
  exports,
  luck         \* bound: what may still go wrong

job == <<path, target, attempt, complete>>
exportVars == <<db, snapshot, folder, temporary, litter, phase, queue, stamp, job, outcome, exports, luck>>

NoFile == [report |-> "", whole |-> FALSE, seen |-> 0, csvs |-> {}]
Foreign == [NoFile EXCEPT !.report = "not ours"]
NoOutcome == [saved |-> {}, failed |-> << >>, notices |-> {}]

Mishappens == luck > 0 /\ luck' = luck - 1
report == Head(queue)
SavedCsvs == {s \in outcome.saved : s[1] \notin {"Workbook", "Recovery"}}

\* The folder with `content` under a name.
Put(name, content) ==
  [n \in DOMAIN folder \cup {name} |-> IF n = name THEN content ELSE folder[n]]

\* How much of the database the rows of a report were read from.
\* Mutant: the rows are read outside of the transaction.
SeenNow(read) == Len(db.files)
Seen(read) == Len(read.files)

-----------------------------------------------------------------------------
(* _export                                                                 *)

\* Another window may have an export of the same database behind it.
StartExport ==
  /\ phase \in {"closed", "over", "refused"} /\ exports < MaxExports
  /\ exports' = exports + 1 /\ outcome' = NoOutcome /\ phase' = "open"
  /\ UNCHANGED <<db, snapshot, folder, temporary, litter, queue, stamp, job, luck>>

\* The first SELECT after BEGIN fixes what the transaction sees.
ReadConfiguration ==
  /\ phase = "open" /\ snapshot' = db
  /\ queue' = Csvs(db) \o <<"Workbook">> /\ phase' = "stamp"
  /\ UNCHANGED <<db, folder, temporary, litter, stamp, job, outcome, exports, luck>>

\* A missing database or configuration: the error is raised without an outcome.
ConfigurationMissing ==
  /\ phase = "open" /\ Mishappens /\ phase' = "refused"
  /\ UNCHANGED <<db, snapshot, folder, temporary, litter, queue, stamp, job, outcome, exports>>

\* Before the first report, or where _recovery reads the names of the columns.
OutsideOfReports ==
  \/ phase \in {"open", "stamp"}
  \/ phase = "reserve" /\ report = "Recovery" /\ attempt = 0

\* The transaction, no folder to be had, or a database that fails once more.
ExportFails ==
  /\ OutsideOfReports /\ Mishappens
  /\ outcome' = [outcome EXCEPT !.failed = Append(@, <<"Export", "write_failed">>)]
  /\ phase' = "over" /\ queue' = << >>
  /\ UNCHANGED <<db, snapshot, folder, temporary, litter, stamp, job, exports>>

Taken(marks) == \E r \in ToSet(queue) \cup {"Recovery"} : <<r, marks>> \in DOMAIN folder

ChooseStamp ==
  /\ phase = "stamp"
  /\ LET suffixed == {n \in 2 .. Cardinality(DOMAIN folder) + 2 : ~ Taken(<<n>>)}
     IN  /\ stamp' = IF Taken(<< >>) THEN <<Min(suffixed)>> ELSE << >>
         /\ path' = stamp'
  /\ attempt' = 0 /\ complete' = FALSE /\ phase' = "reserve"
  /\ UNCHANGED <<db, snapshot, folder, temporary, litter, queue, target, outcome, exports, luck>>

\* After a report comes the next one, under the stamp of the export.
NextJob(rest) ==
  /\ queue' = rest /\ path' = stamp /\ attempt' = 0 /\ complete' = FALSE
  /\ phase' = IF rest = << >> THEN "over" ELSE "reserve"

-----------------------------------------------------------------------------
(* _atomic_write                                                           *)

\* Making a new temporary file forgets the one before.
Reserve ==
  /\ phase = "reserve" /\ phase' = "write"
  /\ temporary' = [NoFile EXCEPT !.report = report]
  /\ litter' = IF temporary = NoFile THEN litter ELSE litter \cup {"forgotten"}
  /\ UNCHANGED <<db, snapshot, folder, queue, stamp, job, outcome, exports, luck>>

Notices(read) == {r \in ToSet(Csvs(read)) : Sheets(read)[r].omitted > 0}

\* The workbook lists the CSV files saved before it.  The notices of the recovery workbook
\* are left out.
Write ==
  /\ phase = "write" /\ ~ Broken(snapshot, report)
  /\ temporary' = [report |-> report, whole |-> TRUE, seen |-> Seen(snapshot),
                   csvs |-> IF report \in {"Workbook", "Recovery"} THEN SavedCsvs ELSE {}]
  /\ complete' = TRUE /\ phase' = "name"
  /\ outcome' = IF report = "Workbook"
                THEN [outcome EXCEPT !.notices = @ \cup Notices(snapshot)] ELSE outcome
  /\ UNCHANGED <<db, snapshot, folder, litter, queue, stamp, path, target, attempt, exports, luck>>

\* _unique_path
Name ==
  /\ phase = "name" /\ phase' = "rename"
  /\ LET suffixed == {n \in 2 .. Cardinality(DOMAIN folder) + 2 :
                        <<report, Append(path, n)>> \notin DOMAIN folder}
     IN  IF <<report, path>> \notin DOMAIN folder THEN target' = <<report, path>>
         ELSE target' = <<report, Append(path, Min(suffixed))>>
  /\ UNCHANGED <<db, snapshot, folder, temporary, litter, queue, stamp, path, attempt, complete,
                 outcome, exports, luck>>

\* Mutant: a name is free when it was free.
RenameReplaces ==
  /\ phase = "rename"
  /\ folder' = Put(target, temporary)
  /\ temporary' = NoFile /\ NextJob(Tail(queue))
  /\ outcome' = [outcome EXCEPT !.saved = @ \cup {target}]
  /\ UNCHANGED <<db, snapshot, litter, stamp, target, exports, luck>>

Rename ==
  /\ phase = "rename" /\ target \notin DOMAIN folder
  /\ folder' = Put(target, temporary)
  /\ temporary' = NoFile /\ NextJob(Tail(queue))
  /\ outcome' = [outcome EXCEPT !.saved = @ \cup {target}]
  /\ UNCHANGED <<db, snapshot, litter, stamp, target, exports, luck>>

\* _remove_temporary, whose failure is only logged.
Removed ==
  /\ temporary' = NoFile
  /\ \/ litter' = litter /\ UNCHANGED luck
     \/ temporary # NoFile /\ Mishappens /\ litter' = litter \cup {"undeletable"}

\* A workbook whose data cannot be written is followed by a recovery workbook.
Rest(category) ==
  IF report = "Workbook" /\ category = "data" THEN <<"Recovery">> ELSE Tail(queue)

GiveUp(category) ==
  /\ outcome' = [outcome EXCEPT !.failed = Append(@, <<report, category>>)]
  /\ NextJob(Rest(category))
  /\ UNCHANGED <<db, snapshot, folder, stamp, target, exports>>

\* Mutant: the file of the first attempt is not removed.
TryAgainBeside ==
  /\ attempt' = attempt + 1
  /\ IF complete
     THEN phase' = "name" /\ path' = Append(path, 0) /\ UNCHANGED <<temporary, litter>>
     ELSE phase' = "reserve" /\ UNCHANGED <<path, temporary, litter>>
  /\ UNCHANGED <<db, snapshot, folder, queue, stamp, target, complete, outcome, exports, luck>>

\* Writing begins anew; what is written is only renamed, under another name.
TryAgain ==
  /\ attempt' = attempt + 1
  /\ IF complete
     THEN phase' = "name" /\ path' = Append(path, 0) /\ UNCHANGED <<temporary, litter, luck>>
     ELSE phase' = "reserve" /\ Removed /\ UNCHANGED path
  /\ UNCHANGED <<db, snapshot, folder, queue, stamp, target, complete, outcome, exports>>

LastAttempt == attempt + 1 >= EXPORT_WRITE_ATTEMPTS

\* The stored values of a report raise ValueError in the middle of its rows.
DataFails ==
  /\ phase = "write" /\ Broken(snapshot, report)
  /\ Removed /\ GiveUp("data")

\* The reserved file may have been made before its reservation failed.
Trouble ==
  /\ phase \in {"reserve", "write", "name", "rename"} /\ luck > 0
  /\ luck' = luck - 1 /\ phase' = "trouble"
  /\ \/ UNCHANGED <<temporary, litter>>
     \/ phase = "reserve" /\ temporary' = [NoFile EXCEPT !.report = report] /\ UNCHANGED litter
  /\ UNCHANGED <<db, snapshot, folder, queue, stamp, job, outcome, exports>>

Locked == phase = "trouble" /\ ~ LastAttempt /\ TryAgain

JobRefused ==
  /\ phase = "trouble" /\ Removed
  /\ \/ LastAttempt /\ GiveUp("locked")
     \/ GiveUp("disk_full")

\* Another file has the name since it was chosen.
NameTaken ==
  /\ phase = "rename" /\ target \in DOMAIN folder
  /\ IF LastAttempt THEN Removed /\ GiveUp("write_failed")
     ELSE /\ phase' = "name" /\ attempt' = attempt + 1
          /\ UNCHANGED <<db, snapshot, folder, temporary, litter, queue, stamp, path, target,
                         complete, outcome, exports, luck>>

-----------------------------------------------------------------------------
(* Around the export.                                                      *)

\* Another program takes the name this export is about to use.
AnotherProgramWrites ==
  /\ phase \in {"reserve", "rename"} /\ Mishappens
  /\ LET name == IF phase = "rename" THEN target ELSE <<report, stamp>>
     IN  name \notin DOMAIN folder /\ folder' = Put(name, Foreign)
  /\ UNCHANGED <<db, snapshot, temporary, litter, phase, queue, stamp, job, outcome, exports>>

NewAttempt(read) ==
  [path |-> Head(read.files).path, source |-> "now", complete |-> FALSE, error |-> FALSE,
   comment |-> "", range |-> ""]

\* The program may be open twice: nothing keeps a second window from running.
AnotherRunCommits ==
  /\ phase \notin {"none", "closed", "over", "refused", "dead"} /\ Mishappens
  /\ db' = [db EXCEPT !.files = Append(@, NewAttempt(db))]
  /\ UNCHANGED <<snapshot, folder, temporary, litter, phase, queue, stamp, job, outcome, exports>>

Killed ==
  /\ phase \notin {"none", "closed", "over", "refused", "dead"} /\ Mishappens /\ phase' = "dead"
  /\ temporary' = NoFile /\ litter' = IF temporary = NoFile THEN litter ELSE litter \cup {"killed"}
  /\ UNCHANGED <<db, snapshot, folder, queue, stamp, job, outcome, exports>>

ExportNext ==
  \/ StartExport \/ ConfigurationMissing \/ ReadConfiguration \/ ExportFails \/ ChooseStamp
  \/ Reserve \/ Write \/ Name \/ Rename \/ NameTaken
  \/ DataFails \/ Trouble \/ Locked \/ JobRefused
  \/ AnotherProgramWrites \/ AnotherRunCommits \/ Killed

-----------------------------------------------------------------------------
(* What an export promises.                                                *)

\* The state has the shape _export and _atomic_write give it: a name is only
\* sought for a file that is complete, on an attempt there is.
ExportTypeOK ==
  /\ phase \in {"none", "closed", "open", "stamp", "reserve", "write", "name", "rename", "trouble",
                "over", "refused", "dead"}
  /\ phase \in {"name", "rename"} => complete /\ temporary.whole
  /\ phase \in {"reserve", "write", "name", "rename", "trouble"} =>
       queue # << >> /\ attempt \in 0 .. EXPORT_WRITE_ATTEMPTS - 1
  /\ litter \subseteq {"undeletable", "forgotten", "killed"}

\* "Reports are never overwritten" (_unique_path and a rename that refuses an
\* existing name): whatever was in the folder stays as it was, a file included
\* that appeared between the choice of a name and the rename.
NothingOverwritten ==
  [][\A name \in DOMAIN folder : name \in DOMAIN folder' /\ folder'[name] = folder[name]]_exportVars

\* A name a reader knows stands for a whole report, after every failure, retry
\* and death of the process.
WholeUnderFinalName ==
  \A name \in DOMAIN folder :
    folder[name] # Foreign => folder[name].whole /\ folder[name].report = name[1]

\* The reports of one export agree with each other although the database goes
\* on changing, and the workbook names exactly the CSV files that were saved.
SavedReportsAgree ==
  \A s \in outcome.saved :
    /\ s \in DOMAIN folder
    /\ folder[s].seen = Len(snapshot.files)
    /\ s[1] \in {"Workbook", "Recovery"} => folder[s].csvs = SavedCsvs

\* The files an export leaves behind are reports, whole and of one database.
ReportsAreWhole == WholeUnderFinalName /\ SavedReportsAgree

Outcomes(r) ==
  Cardinality({s \in outcome.saved : s[1] = r})
  + Cardinality({i \in DOMAIN outcome.failed : outcome.failed[i][1] = r})

\* The page shows an export as complete when nothing failed: each report was
\* either saved or is listed as failed, once, and a workbook that failed on its
\* data was followed by the recovery workbook.  An export that failed as a whole
\* wrote nothing, unless it failed where its recovery workbook was due.
EveryReportAccounted ==
  phase = "over" =>
    \/ outcome.saved = {} /\ Len(outcome.failed) = 1 /\ outcome.failed[1][1] = "Export"
    \/ /\ \A r \in ToSet(Csvs(snapshot)) \cup {"Workbook"} : Outcomes(r) = 1
       /\ Outcomes("Recovery") + Outcomes("Export") =
            IF \E i \in DOMAIN outcome.failed : outcome.failed[i] = <<"Workbook", "data">> THEN 1 ELSE 0

\* A temporary report left in the folder could not be deleted, or the process
\* died: no way through the retries forgets one.
NoTemporaryForgotten ==
  /\ "forgotten" \notin litter
  /\ phase \in {"over", "refused", "dead"} => temporary = NoFile

\* An export accounts for everything it began: reports and temporary files
\* (_export and _atomic_write).
ExportAccounts == EveryReportAccounted /\ NoTemporaryForgotten

\* A workbook that cannot hold all rows of a report says so, in the sheet and to
\* the user, and one that says nothing is complete: also at the very last row.
OmissionsTold ==
  \A s \in outcome.saved : s[1] = "Workbook" =>
    \A r \in ToSet(Csvs(snapshot)) :
      LET sheet == Sheets(snapshot)[r]
      IN  /\ sheet.shown + sheet.omitted = RowCount(snapshot, r)
          /\ sheet.shown + (IF sheet.marked THEN 1 ELSE 0) <= EXCEL_MAX_ROWS
          /\ sheet.marked <=> sheet.omitted > 0
          /\ r \in outcome.notices <=> sheet.omitted > 0
=============================================================================
