----------------------------- MODULE RunSetup -----------------------------
(***************************************************************************)
(* What a start does before its run begins, and the run folder it does it  *)
(* to: ProcessorCore.__init__ (app_context.py) moves the old folder into   *)
(* the archive or opens the database found there, and lets the run begin   *)
(* only if the results recorded in it were made with the same settings     *)
(* (db_controller.py).  It composes with RunController: start_processing   *)
(* builds the core while it holds the controller's lock, so a request for  *)
(* which `request` stands keeps out whatever else takes the lock.          *)
(*                                                                         *)
(* Each action ends at a commit or at a change to the file system, so Kill *)
(* comes in between any two.  Settings are two names: the configuration    *)
(* told to the user (AI, mode, columns) and the digest of all others.      *)
(***************************************************************************)
EXTENDS RunController

CONSTANTS Profiles,      \* settings a run may be started with
          FoldersFound,  \* what the first start may find
          MaxAttempts, MaxArchives, MaxKills  \* bounds

None == "none"
NoProfile == [configuration |-> None, digest |-> None]

ASSUME ProfilesAssumption == \A p \in Profiles : p.configuration # None /\ p.digest # None
ASSUME SetupBoundsAssumption == MaxAttempts \in Nat /\ MaxArchives \in Nat /\ MaxKills \in Nat

VARIABLES
  folder,    \* the current run's folder with the database in it
  archives,  \* the folders moved away, in order
  request,   \* the start whose core is being built, with the profile it loaded
  core,      \* what each worker was started with
  attempts,  \* history: how many attempts at files were recorded in all
  kills      \* bound

setupVars == <<folder, archives, request, core, attempts, kills>>
runVars == <<serverVars, setupVars>>

Stages == {"folder", "database", "tables", "configuration", "identity", "ready"}

\* "missing"; "bare", a folder without a database or with an empty one; or the layout of its
\* tables.
Layouts == {"missing", "bare", "older", "current"}

Folder(shape, configuration, digest, rows) ==
  [shape |-> shape, configuration |-> configuration, digest |-> digest, rows |-> rows]

Missing == Folder("missing", None, None, {})
NoRequest == [id |-> NoRun, profile |-> NoProfile, start_over |-> FALSE,
              stage |-> None, kept |-> None]
NoCore == [profile |-> NoProfile, start_over |-> FALSE, since |-> 0]

\* A row of the file registry, one of them left by an earlier version.
Row(n, profile) == [number |-> n, profile |-> profile]
OlderRow == Row(1, NoProfile)

\* external: nothing, or an earlier version's folder, which may hold no row.
EarlierFolder(found) ==
  found = Missing \/
  \E shape \in {"older", "current"}, rows \in SUBSET {OlderRow},
     configuration \in {None} \cup {p.configuration : p \in Profiles} :
    found = Folder(shape, configuration, None, rows)

ASSUME FoundAssumption == \A found \in FoldersFound : EarlierFolder(found)

SetupInit ==
  /\ Init
  /\ folder \in FoldersFound /\ archives = << >>
  /\ request = NoRequest /\ core = [id \in Runs |-> NoCore]
  /\ attempts = (IF folder.rows = {} THEN 0 ELSE 1) /\ kills = 0

-----------------------------------------------------------------------------
(* ProcessorCore.__init__ *)

Building(stage) == request.stage = stage

Reaches(stage) == request' = [request EXCEPT !.stage = stage]

Changes(new) == folder' = new /\ UNCHANGED <<archives, core, attempts, kills, serverVars>>

\* The constructor raises: the request is refused, what was committed stays.
Refused == request' = NoRequest /\ UNCHANGED <<folder, archives, core, attempts, kills, serverVars>>

StartBegins(id, profile, start_over) ==
  /\ request = NoRequest /\ ~exporting /\ ~active(phase) /\ id # run_id
  /\ request' = [id |-> id, profile |-> profile, start_over |-> start_over,
                stage |-> "folder", kept |-> None]
  /\ UNCHANGED <<folder, archives, core, attempts, kills, serverVars>>

InTheWay == request.start_over /\ folder.shape # "missing"

\* One of the attempts to rename the folder succeeds, or the shell's.
ArchiveFolder ==
  /\ Building("folder") /\ InTheWay /\ Len(archives) < MaxArchives
  /\ archives' = Append(archives, folder) /\ folder' = Missing
  /\ UNCHANGED <<request, core, attempts, kills, serverVars>>

ArchiveLocked == Building("folder") /\ InTheWay /\ Refused

MakeFolder ==
  /\ Building("folder") /\ ~InTheWay /\ Reaches("database")
  /\ Changes(IF folder.shape = "missing" THEN [folder EXCEPT !.shape = "bare"] ELSE folder)

populated == folder.rows # {}
compatible == folder.shape = "current"

RefuseOldDatabase == Building("database") /\ populated /\ ~compatible /\ Refused

\* SQLite's driver begins no transaction for the dropping of tables: the row of the
\* configuration, unless it lacks what the new table requires, is in memory only.
DropTables ==
  /\ Building("database") /\ ~populated /\ ~compatible
  /\ \E kept \in {None, folder.configuration} :
       request' = [request EXCEPT !.stage = "tables", !.kept = kept]
  /\ Changes(Folder("bare", None, None, {}))

CreateTables ==
  /\ Building("tables") /\ Reaches("configuration")
  /\ Changes(Folder("current", request.kept, None, {}))

OpenDatabase == Building("database") /\ compatible /\ Reaches("configuration") /\ Changes(folder)

RefuseOtherConfiguration ==
  /\ Building("configuration") /\ folder.configuration \notin {None, request.profile.configuration}
  /\ Refused

\* The identity beside the configuration is carried over to the new row.
RecordConfiguration ==
  /\ Building("configuration") /\ folder.configuration \in {None, request.profile.configuration}
  /\ Reaches("identity")
  /\ Changes([folder EXCEPT !.configuration = request.profile.configuration])

SameIdentity == folder.digest = request.profile.digest

KeepIdentity == Building("identity") /\ SameIdentity /\ Reaches("ready") /\ Changes(folder)

\* Mutant: whatever is there without an identity gets this run's.
RecordIdentityOverRows ==
  /\ Building("identity") /\ folder.digest = None /\ Reaches("ready")
  /\ Changes([folder EXCEPT !.digest = request.profile.digest])

\* No run has recorded its identity here, and nothing was made without one.
RecordIdentity ==
  /\ Building("identity") /\ folder.digest = None /\ ~populated /\ Reaches("ready")
  /\ Changes([folder EXCEPT !.digest = request.profile.digest])

RefuseOtherIdentity ==
  /\ Building("identity") /\ ~SameIdentity /\ (folder.digest = None => populated)
  /\ Refused

\* Anything else raises: the file system, SQLite, the AI client, a range.
SetupFails == request # NoRequest /\ Refused

\* The core is built: start_processing goes on, still under the lock.
RunBegins ==
  /\ Building("ready") /\ StartAccepted(request.id)
  /\ core' = [core EXCEPT ![request.id] = [profile |-> request.profile,
                start_over |-> request.start_over, since |-> attempts]]
  /\ request' = NoRequest
  /\ UNCHANGED <<folder, archives, attempts, kills>>

Setup ==
  \/ ArchiveFolder \/ ArchiveLocked \/ MakeFolder
  \/ RefuseOldDatabase \/ OpenDatabase \/ DropTables \/ CreateTables
  \/ RefuseOtherConfiguration \/ RecordConfiguration
  \/ KeepIdentity \/ RecordIdentity \/ RefuseOtherIdentity
  \/ SetupFails \/ RunBegins

-----------------------------------------------------------------------------
(* What happens around it *)

\* The batch loop begins an attempt at a file in the database its core has opened.
HandleFileStarted(id) ==
  /\ At(id, "running") /\ attempts < MaxAttempts
  /\ attempts' = attempts + 1
  /\ folder' = [folder EXCEPT !.rows = @ \cup {Row(attempts', core[id].profile)}]
  /\ UNCHANGED <<archives, request, core, kills, serverVars>>

\* The process ends, and the application is started again.
Kill ==
  /\ kills < MaxKills /\ kills' = kills + 1
  /\ run_id' = NoRun /\ revision' = 0 /\ phase' = "idle" /\ terminal' = ""
  /\ export_barrier' = 0 /\ export_result' = NoOutcome /\ export_revision' = 0
  /\ abort' = {} /\ asked' = {} /\ exporting' = FALSE
  /\ worker' = [id \in Runs |-> "none"] /\ number' = [id \in Runs |-> 0]
  /\ listener' = FALSE /\ queue' = << >> /\ published' = <<Snapshot'>>
  /\ request' = NoRequest /\ core' = [id \in Runs |-> NoCore]
  /\ UNCHANGED <<folder, archives, attempts>>

\* The rest of RunController's Next, without the event stream and the requests to stop that
\* change nothing.  No lock is needed to refuse an export.
Serving ==
  \/ request = NoRequest /\ (ExportBegins \/ ExportEnds)
  \/ \E id \in Runs : request = NoRequest /\ WorkerStep(id)
  \/ \E id \in Runs : request = NoRequest /\ revision < MaxRevision /\ StopAccepted(id)
  \/ ExportRefused

SetupNext ==
  \/ revision < MaxRevision /\
       \E id \in Runs, profile \in Profiles, start_over \in BOOLEAN : StartBegins(id, profile, start_over)
  \/ Setup \/ Kill
  \/ \E id \in Runs : HandleFileStarted(id)
  \/ Serving /\ UNCHANGED setupVars

SetupSpec == SetupInit /\ [][SetupNext]_runVars

-----------------------------------------------------------------------------
(* Properties *)

ProfilesOrNone == Profiles \cup {NoProfile}
Configurations == {p.configuration : p \in ProfilesOrNone}
Digests == {p.digest : p \in ProfilesOrNone}
Folders == [shape : Layouts, configuration : Configurations, digest : Digests,
            rows : SUBSET [number : Nat, profile : ProfilesOrNone]]

SetupTypeOK ==
  /\ folder \in Folders /\ archives \in Seq(Folders)
  /\ request \in [id : Runs \cup {NoRun}, profile : ProfilesOrNone, start_over : BOOLEAN,
                  stage : Stages \cup {None}, kept : Configurations]
  /\ core \in [Runs -> [profile : ProfilesOrNone, start_over : BOOLEAN, since : Nat]]
  /\ attempts \in Nat /\ kills \in Nat

Databases == Append(archives, folder)

Holds(i, n) == \E row \in Databases[i].rows : row.number = n

\* Every attempt that was ever recorded is still on disk, once.
NothingLost ==
  \A n \in 1..attempts :
    \E i \in DOMAIN Databases : Holds(i, n) /\ \A j \in DOMAIN Databases : Holds(j, n) => j = i

\* All attempts in one database were made with one and the same settings, those recorded in
\* it; or they are an earlier version's, and nothing was added.
NothingMixed ==
  \A i \in DOMAIN Databases :
    \/ Databases[i].rows \subseteq {OlderRow}
    \/ \A row \in Databases[i].rows :
         /\ row.profile.configuration = Databases[i].configuration
         /\ row.profile.digest = Databases[i].digest

\* A run that was to start over finds nothing to resume.
FreshIsFresh ==
  \A id \in Runs : At(id, "running") /\ core[id].start_over =>
    \A row \in folder.rows : row.number > core[id].since

\* However starts are refused half-way, killed and repeated with other settings, results stay
\* on disk, and those of different settings apart ("continuing it would mix two report
\* shapes", locales/en.json:185; "the previous run's folder is archived and the new run
\* starts clean").
ResultsKeptApart == NothingLost /\ NothingMixed /\ FreshIsFresh

=============================================================================
