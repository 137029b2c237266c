-------------------------- MODULE RunSetupProofs --------------------------
(***************************************************************************)
(* That results stay on disk and apart (RunSetup), for any settings, any   *)
(* folder found and any number of starts, archives and kills.              *)
(*                                                                         *)
(* The argument: a folder without an identity holds nothing but what an    *)
(* earlier version left, and one with an identity holds only what was made *)
(* with it (FolderOK); each step of the constructor has established one    *)
(* more part of that for the settings it was given (Building), and a       *)
(* worker that runs has all of it (Running).  Since a start keeps the      *)
(* controller's lock, no worker runs while a folder is moved: that is      *)
(* RunController's invariant, which is kept here too.                      *)
(***************************************************************************)
EXTENDS RunSetup, RunControllerProofs

Matches(row, f) ==
  row.profile.configuration = f.configuration /\ row.profile.digest = f.digest

FolderOK(f) ==
  /\ f.shape \in {"missing", "bare"} => f.rows = {} /\ f.digest = None
  /\ f.shape = "older" => f.digest = None
  /\ f.digest = None => f.rows \subseteq {OlderRow}
  /\ f.digest # None => \A row \in f.rows : Matches(row, f)

FoldersOK == FolderOK(folder) /\ \A i \in DOMAIN archives : FolderOK(archives[i])

\* What the constructor has established when it comes to a stage.
RequestOK ==
  request # NoRequest =>
    /\ request.id \in Runs /\ request.profile \in Profiles /\ request.stage \in Stages
    /\ ~exporting /\ ~active(phase)
    /\ request.stage = "tables" => folder.rows = {} /\ folder.digest = None
    /\ request.stage \in {"configuration", "identity", "ready"} => folder.shape = "current"
    /\ request.stage \in {"identity", "ready"} =>
         folder.configuration = request.profile.configuration
    /\ request.stage = "ready" => folder.digest = request.profile.digest
    /\ request.start_over /\ request.stage # "folder" => folder.rows = {}

Running ==
  \A id \in Runs : At(id, "running") =>
    /\ core[id].profile \in Profiles
    /\ folder.configuration = core[id].profile.configuration
    /\ folder.digest = core[id].profile.digest
    /\ folder.shape = "current"
    /\ core[id].start_over => \A row \in folder.rows : row.number > core[id].since

Numbered ==
  /\ \A row \in folder.rows : row.number \in 1..attempts
  /\ \A i \in DOMAIN archives : \A row \in archives[i].rows : row.number \in 1..attempts
  /\ \A id \in Runs : core[id].since <= attempts

SInv == SetupTypeOK /\ IInv /\ FoldersOK /\ RequestOK /\ Running /\ Numbered /\ NothingLost

-----------------------------------------------------------------------------
LEMMA NoProfileIsNone == NoProfile.configuration = None /\ NoProfile.digest = None
  BY DEF NoProfile

LEMMA NoneIsIn == None \in Configurations /\ None \in Digests
  BY NoProfileIsNone DEF Configurations, Digests, ProfilesOrNone

LEMMA OneOfEach ==
  ASSUME NEW p \in Profiles
  PROVE  p.configuration \in Configurations /\ p.digest \in Digests
  BY DEF Configurations, Digests, ProfilesOrNone

LEMMA MissingIsFine == Missing \in Folders /\ FolderOK(Missing)
<1>1. Missing = [shape |-> "missing", configuration |-> None, digest |-> None, rows |-> {}]
  BY DEF Missing, Folder
<1>2. Missing \in Folders
  BY <1>1, NoneIsIn DEF Folders, Layouts
<1>3. FolderOK(Missing)
  BY <1>1 DEF FolderOK
<1> QED BY <1>2, <1>3

LEMMA EarlierIsFine ==
  ASSUME NEW found \in FoldersFound
  PROVE  /\ found \in Folders /\ FolderOK(found)
         /\ found.rows = {} \/ found.rows = {OlderRow}
<1>1. EarlierFolder(found)
  BY FoundAssumption
<1>2. CASE found = Missing
  BY <1>2, MissingIsFine DEF Missing, Folder
<1>3. CASE found # Missing
  <2>1. PICK shape \in {"older", "current"}, rows \in SUBSET {OlderRow},
            configuration \in {None} \cup {p.configuration : p \in Profiles} :
          found = Folder(shape, configuration, None, rows)
    BY <1>1, <1>3 DEF EarlierFolder
  <2>2. found = [shape |-> shape, configuration |-> configuration, digest |-> None, rows |-> rows]
    BY <2>1 DEF Folder
  <2>3. configuration \in Configurations /\ None \in Digests
    BY NoneIsIn, OneOfEach
  <2>4. rows = {} \/ rows = {OlderRow}
    OBVIOUS
  <2>5. NoProfile \in ProfilesOrNone
    BY DEF ProfilesOrNone
  <2>6. OlderRow \in [number : Nat, profile : ProfilesOrNone]
    BY <2>5 DEF OlderRow, Row
  <2>7. found \in Folders
    BY <2>2, <2>3, <2>4, <2>6 DEF Folders, Layouts
  <2>8. FolderOK(found)
    BY <2>2, <2>4 DEF FolderOK
  <2> QED BY <2>2, <2>4, <2>7, <2>8
<1> QED BY <1>2, <1>3

-----------------------------------------------------------------------------
(* The archives and the folder, one after the other *)

LEMMA Shelf ==
  ASSUME NEW S, NEW shelf \in Seq(S), NEW last \in S
  PROVE  /\ DOMAIN Append(shelf, last) = 1..(Len(shelf) + 1)
         /\ Append(shelf, last)[Len(shelf) + 1] = last
         /\ \A i \in 1..Len(shelf) : Append(shelf, last)[i] = shelf[i]
         /\ DOMAIN shelf = 1..Len(shelf) /\ Len(shelf) \in Nat
  OBVIOUS

\* Who holds an attempt is a matter of the numbers in the rows.
LEMMA HoldersKeep ==
  ASSUME NothingLost, SetupTypeOK, SetupTypeOK',
         UNCHANGED <<archives, attempts>>, folder'.rows = folder.rows
  PROVE  NothingLost'
<1>1. DOMAIN Databases' = DOMAIN Databases
  BY Shelf DEF Databases, SetupTypeOK
<1>2. ASSUME NEW i \in DOMAIN Databases, NEW n PROVE Holds(i, n)' <=> Holds(i, n)
  <2>1. Databases'[i].rows = Databases[i].rows
    <3> DEFINE m == Len(archives)
    <3>1. DOMAIN Databases = 1..(m + 1) /\ m \in Nat
      BY Shelf DEF Databases, SetupTypeOK
    <3>2. i \in 1..m \/ i = m + 1
      BY <3>1, <1>2
    <3>3. CASE i = m + 1
      <4>1. Databases[i] = folder
        BY <3>3, Shelf DEF Databases, SetupTypeOK
      <4>2. Databases'[i] = folder'
        BY <3>3, Shelf DEF Databases, SetupTypeOK
      <4> QED BY <4>1, <4>2
    <3>4. CASE i \in 1..m
      <4>1. Databases[i] = archives[i]
        BY <3>4, Shelf DEF Databases, SetupTypeOK
      <4>2. Databases'[i] = archives[i]
        BY <3>4, Shelf DEF Databases, SetupTypeOK
      <4> QED BY <4>1, <4>2
    <3> QED BY <3>2, <3>3, <3>4
  <2> QED BY <2>1 DEF Holds
<1> QED BY <1>1, <1>2 DEF NothingLost

-----------------------------------------------------------------------------
(* A step of the constructor *)

\* While a start is served no worker is at work.
LEMMA NobodyRuns ==
  ASSUME SInv, request # NoRequest, NEW id \in Runs
  PROVE  worker[id] \in {"none", "over"}
<1>1. ~active(phase)
  BY DEF SInv, RequestOK
<1> QED BY <1>1 DEF SInv, IInv, LiveIsCurrent, Live

\* It is refused: nothing but the request goes away.
LEMMA RefusedKeeps == SInv /\ request # NoRequest /\ Refused => SInv'
<1> SUFFICES ASSUME SInv, request # NoRequest, Refused PROVE SInv'
  OBVIOUS
<1>1. /\ UNCHANGED <<folder, archives, core, attempts, kills>> /\ UNCHANGED serverVars
      /\ request' = NoRequest
  BY DEF Refused
<1>2. IInv'
  BY <1>1, StepKeeps DEF SInv
<1>3. SetupTypeOK'
  <2>1. NoRequest \in [id : Runs \cup {NoRun}, profile : ProfilesOrNone, start_over : BOOLEAN,
                       stage : Stages \cup {None}, kept : Configurations]
    BY NoneIsIn DEF NoRequest, ProfilesOrNone
  <2> QED BY <1>1, <2>1 DEF SInv, SetupTypeOK
<1>4. FoldersOK' /\ Numbered'
  BY <1>1 DEF SInv, FoldersOK, Numbered
<1>5. RequestOK'
  BY <1>1 DEF RequestOK
<1>6. Running'
  <2>1. UNCHANGED worker
    BY <1>1 DEF serverVars, workerVars
  <2> QED BY <1>1, <2>1 DEF SInv, Running, At
<1>7. NothingLost'
  BY <1>1, <1>3, HoldersKeep DEF SInv
<1> QED BY <1>2, <1>3, <1>4, <1>5, <1>6, <1>7 DEF SInv

\* It goes on, with a folder whose rows are the same.
LEMMA ChangesKeep ==
  ASSUME SInv, request # NoRequest,
         NEW new \in Folders, FolderOK(new), new.rows = folder.rows, Changes(new),
         request' \in [id : Runs \cup {NoRun}, profile : ProfilesOrNone, start_over : BOOLEAN,
                       stage : Stages \cup {None}, kept : Configurations],
         RequestOK'
  PROVE  SInv'
<1>1. /\ folder' = new /\ UNCHANGED <<archives, core, attempts, kills>> /\ UNCHANGED serverVars
  BY DEF Changes
<1>2. IInv'
  BY <1>1, StepKeeps DEF SInv
<1>3. SetupTypeOK'
  BY <1>1 DEF SInv, SetupTypeOK
<1>4. FoldersOK'
  BY <1>1 DEF SInv, FoldersOK
<1>5. Numbered'
  BY <1>1 DEF SInv, Numbered
<1>6. Running'
  <2>1. UNCHANGED worker
    BY <1>1 DEF serverVars, workerVars
  <2> QED BY <2>1, NobodyRuns DEF Running, At
<1>7. NothingLost'
  BY <1>1, <1>3, HoldersKeep DEF SInv
<1> QED BY <1>2, <1>3, <1>4, <1>5, <1>6, <1>7 DEF SInv

\* The request as the next stage finds it.
LEMMA AtTheNextStage ==
  ASSUME SInv, request # NoRequest, NEW stage \in Stages, Reaches(stage)
  PROVE  /\ request' \in [id : Runs \cup {NoRun}, profile : ProfilesOrNone, start_over : BOOLEAN,
                          stage : Stages \cup {None}, kept : Configurations]
         /\ request'.id = request.id /\ request'.profile = request.profile
         /\ request'.start_over = request.start_over /\ request'.stage = stage
         /\ request.id \in Runs /\ request.profile \in Profiles
<1>1. request \in [id : Runs \cup {NoRun}, profile : ProfilesOrNone, start_over : BOOLEAN,
                   stage : Stages \cup {None}, kept : Configurations]
  BY DEF SInv, SetupTypeOK
<1>2. request' = [request EXCEPT !.stage = stage]
  BY DEF Reaches
<1> QED BY <1>1, <1>2 DEF SInv, RequestOK

LEMMA MakeFolderKeeps == SInv /\ MakeFolder => SInv'
<1> SUFFICES ASSUME SInv, MakeFolder PROVE SInv'
  OBVIOUS
<1> DEFINE new == IF folder.shape = "missing" THEN [folder EXCEPT !.shape = "bare"] ELSE folder
<1>1. /\ request # NoRequest /\ request.stage = "folder" /\ Reaches("database") /\ Changes(new)
      /\ request.start_over => folder.shape = "missing"
  BY DEF MakeFolder, Building, InTheWay, NoRequest, None
<1>2. folder \in Folders /\ FolderOK(folder)
  BY DEF SInv, SetupTypeOK, FoldersOK
<1>3. /\ new \in Folders /\ new.rows = folder.rows /\ new.digest = folder.digest
      /\ new.configuration = folder.configuration
  BY <1>2 DEF Folders, Layouts
<1>4. FolderOK(new)
  <2>1. \/ new.shape = folder.shape
        \/ folder.shape = "missing" /\ new.shape = "bare"
    BY <1>2 DEF Folders
  <2> QED BY <1>2, <1>3, <2>1 DEF FolderOK, Matches
<1>5. RequestOK'
  <2>1. folder' = new /\ UNCHANGED <<exporting, phase>>
    BY <1>1 DEF Changes, serverVars, stateVars
  <2>2. request.start_over => new.rows = {}
    BY <1>1, <1>2, <1>3 DEF FolderOK
  <2>3. "database" \in Stages
    BY DEF Stages
  <2>4. request'.stage = "database" /\ request'.start_over = request.start_over
        /\ request'.id \in Runs /\ request'.profile \in Profiles
    BY <1>1, <2>3, AtTheNextStage
  <2> QED BY <1>1, <2>1, <2>2, <2>3, <2>4 DEF SInv, RequestOK, active
<1>6. "database" \in Stages
  BY DEF Stages
<1> HIDE DEF new
<1> QED BY <1>1, <1>3, <1>4, <1>5, <1>6, ChangesKeep, AtTheNextStage

LEMMA TablesKeep == SInv /\ (DropTables \/ CreateTables \/ OpenDatabase) => SInv'
<1> SUFFICES ASSUME SInv, DropTables \/ CreateTables \/ OpenDatabase PROVE SInv'
  OBVIOUS
<1>1. request # NoRequest /\ request.id \in Runs /\ request.profile \in Profiles
  BY DEF SInv, RequestOK, DropTables, CreateTables, OpenDatabase, Building, NoRequest, None
<1>2. /\ folder \in Folders /\ FolderOK(folder)
      /\ request \in [id : Runs \cup {NoRun}, profile : ProfilesOrNone, start_over : BOOLEAN,
                      stage : Stages \cup {None}, kept : Configurations]
  BY DEF SInv, SetupTypeOK, FoldersOK
<1>3. "tables" \in Stages /\ "configuration" \in Stages
  BY DEF Stages
<1>4. UNCHANGED <<exporting, phase>>
  BY DEF DropTables, CreateTables, OpenDatabase, Changes, serverVars, stateVars
<1>5. ~exporting /\ ~active(phase)
  BY <1>1 DEF SInv, RequestOK
<1>6. CASE DropTables
  <2> DEFINE new == Folder("bare", None, None, {})
  <2>1. PICK kept \in {None, folder.configuration} :
          request' = [request EXCEPT !.stage = "tables", !.kept = kept]
    BY <1>6 DEF DropTables
  <2>2. kept \in Configurations
    BY <1>2, NoneIsIn DEF Folders
  <2>3. /\ request' \in [id : Runs \cup {NoRun}, profile : ProfilesOrNone, start_over : BOOLEAN,
                         stage : Stages \cup {None}, kept : Configurations]
        /\ request'.id = request.id /\ request'.profile = request.profile
        /\ request'.stage = "tables"
    BY <1>2, <1>3, <2>1, <2>2
  <2>4. new = [shape |-> "bare", configuration |-> None, digest |-> None, rows |-> {}]
    BY DEF Folder
  <2>5. new \in Folders
    BY <2>4, NoneIsIn DEF Folders, Layouts
  <2>6. FolderOK(new)
    BY <2>4 DEF FolderOK
  <2>7. Changes(new) /\ folder.rows = {}
    BY <1>6 DEF DropTables, populated
  <2>8. new.rows = folder.rows
    BY <2>4, <2>7
  <2>9. folder' = new
    BY <2>7 DEF Changes
  <2>10. RequestOK'
    BY <1>1, <1>3, <1>4, <1>5, <2>3, <2>4, <2>9 DEF RequestOK, active
  <2> HIDE DEF new
  <2> QED BY <1>1, <2>3, <2>5, <2>6, <2>7, <2>8, <2>10, ChangesKeep
<1>7. CASE CreateTables
  <2> DEFINE new == Folder("current", request.kept, None, {})
  <2>1. Reaches("configuration") /\ Changes(new) /\ request.stage = "tables"
    BY <1>7 DEF CreateTables, Building
  <2>2. new = [shape |-> "current", configuration |-> request.kept, digest |-> None, rows |-> {}]
    BY DEF Folder
  <2>3. new \in Folders
    BY <1>2, <2>2, NoneIsIn DEF Folders, Layouts
  <2>4. FolderOK(new)
    BY <2>2 DEF FolderOK
  <2>5. folder.rows = {}
    BY <1>1, <2>1 DEF SInv, RequestOK
  <2>6. new.rows = folder.rows /\ folder' = new
    BY <2>1, <2>2, <2>5 DEF Changes
  <2>7. request'.stage = "configuration" /\ request'.id \in Runs /\ request'.profile \in Profiles
    BY <1>1, <1>3, <2>1, AtTheNextStage
  <2>8. RequestOK'
    BY <1>3, <1>4, <1>5, <2>2, <2>6, <2>7 DEF RequestOK, active
  <2> HIDE DEF new
  <2> QED BY <1>1, <1>3, <2>1, <2>3, <2>4, <2>6, <2>8, ChangesKeep, AtTheNextStage
<1>8. CASE OpenDatabase
  <2>1. /\ Reaches("configuration") /\ Changes(folder) /\ folder.shape = "current"
        /\ request.stage = "database"
    BY <1>8 DEF OpenDatabase, Building, compatible
  <2>2. /\ request'.stage = "configuration" /\ request'.id \in Runs /\ request'.profile \in Profiles
        /\ request'.start_over = request.start_over
    BY <1>1, <1>3, <2>1, AtTheNextStage
  <2>3. request.start_over => folder.rows = {}
    BY <1>1, <2>1 DEF SInv, RequestOK
  <2>4. RequestOK'
    BY <1>3, <1>4, <1>5, <2>1, <2>2, <2>3 DEF RequestOK, active, Changes
  <2> QED BY <1>1, <1>2, <1>3, <2>1, <2>4, ChangesKeep, AtTheNextStage
<1> QED BY <1>6, <1>7, <1>8

LEMMA RecordingKeeps == SInv /\ (RecordConfiguration \/ KeepIdentity \/ RecordIdentity) => SInv'
<1> SUFFICES ASSUME SInv, RecordConfiguration \/ KeepIdentity \/ RecordIdentity PROVE SInv'
  OBVIOUS
<1>1. request # NoRequest /\ request.id \in Runs /\ request.profile \in Profiles
  BY DEF SInv, RequestOK, RecordConfiguration, KeepIdentity, RecordIdentity, Building, NoRequest, None
<1>2. folder \in Folders /\ FolderOK(folder)
  BY DEF SInv, SetupTypeOK, FoldersOK
<1>3. "identity" \in Stages /\ "ready" \in Stages
  BY DEF Stages
<1>4. UNCHANGED <<exporting, phase>>
  BY DEF RecordConfiguration, KeepIdentity, RecordIdentity, Changes, serverVars, stateVars
<1>5. ~exporting /\ ~active(phase) /\ folder.shape = "current"
  BY <1>1 DEF SInv, RequestOK, RecordConfiguration, KeepIdentity, RecordIdentity, Building
<1>6. request.start_over => folder.rows = {}
  BY <1>1 DEF SInv, RequestOK, RecordConfiguration, KeepIdentity, RecordIdentity, Building
<1>7. /\ request.profile.configuration \in Configurations /\ request.profile.digest \in Digests
      /\ request.profile.configuration # None /\ request.profile.digest # None
  BY <1>1, OneOfEach, ProfilesAssumption
<1>8. CASE RecordConfiguration
  <2> DEFINE new == [folder EXCEPT !.configuration = request.profile.configuration]
  <2>1. /\ Reaches("identity") /\ Changes(new)
        /\ folder.configuration \in {None, request.profile.configuration}
    BY <1>8 DEF RecordConfiguration
  <2>2. /\ new \in Folders /\ new.rows = folder.rows /\ new.digest = folder.digest
        /\ new.shape = folder.shape /\ new.configuration = request.profile.configuration
    BY <1>2, <1>7 DEF Folders
  <2>3. FolderOK(new)
    <3>1. ASSUME folder.digest # None, NEW row \in folder.rows PROVE Matches(row, new)
      <4>1. Matches(row, folder) /\ row.profile \in ProfilesOrNone
        BY <1>2, <3>1 DEF FolderOK, Folders
      <4>2. row.profile # NoProfile
        BY <4>1, <3>1, NoProfileIsNone DEF Matches
      <4>3. row.profile.configuration # None
        BY <4>1, <4>2, ProfilesAssumption DEF ProfilesOrNone
      <4>4. folder.configuration = request.profile.configuration
        BY <4>1, <4>3, <2>1 DEF Matches
      <4> QED BY <4>1, <4>4, <2>2 DEF Matches
    <3> QED BY <1>2, <1>5, <2>2, <3>1 DEF FolderOK
  <2>4. /\ request'.stage = "identity" /\ request'.id \in Runs /\ request'.profile \in Profiles
        /\ request'.start_over = request.start_over /\ request'.profile = request.profile
    BY <1>1, <1>3, <2>1, AtTheNextStage
  <2>5. folder' = new
    BY <2>1 DEF Changes
  <2>6. RequestOK'
    BY <1>3, <1>4, <1>5, <1>6, <2>2, <2>4, <2>5 DEF RequestOK, active
  <2> HIDE DEF new
  <2> QED BY <1>1, <1>3, <2>1, <2>2, <2>3, <2>6, ChangesKeep, AtTheNextStage
<1>9. CASE KeepIdentity
  <2>1. /\ Reaches("ready") /\ Changes(folder) /\ request.stage = "identity"
        /\ folder.digest = request.profile.digest
    BY <1>9 DEF KeepIdentity, Building, SameIdentity
  <2>2. folder.configuration = request.profile.configuration
    BY <1>1, <2>1 DEF SInv, RequestOK
  <2>3. /\ request'.stage = "ready" /\ request'.id \in Runs /\ request'.profile \in Profiles
        /\ request'.start_over = request.start_over /\ request'.profile = request.profile
    BY <1>1, <1>3, <2>1, AtTheNextStage
  <2>4. RequestOK'
    BY <1>3, <1>4, <1>5, <1>6, <2>1, <2>2, <2>3 DEF RequestOK, active, Changes
  <2> QED BY <1>1, <1>2, <1>3, <2>1, <2>4, ChangesKeep, AtTheNextStage
<1>10. CASE RecordIdentity
  <2> DEFINE new == [folder EXCEPT !.digest = request.profile.digest]
  <2>1. /\ Reaches("ready") /\ Changes(new) /\ request.stage = "identity" /\ folder.rows = {}
    BY <1>10 DEF RecordIdentity, Building, populated
  <2>2. folder.configuration = request.profile.configuration
    BY <1>1, <2>1 DEF SInv, RequestOK
  <2>3. /\ new \in Folders /\ new.rows = folder.rows /\ new.digest = request.profile.digest
        /\ new.shape = folder.shape /\ new.configuration = folder.configuration
    BY <1>2, <1>7 DEF Folders
  <2>4. FolderOK(new)
    BY <1>5, <1>7, <2>1, <2>3 DEF FolderOK
  <2>5. /\ request'.stage = "ready" /\ request'.id \in Runs /\ request'.profile \in Profiles
        /\ request'.start_over = request.start_over /\ request'.profile = request.profile
    BY <1>1, <1>3, <2>1, AtTheNextStage
  <2>6. folder' = new
    BY <2>1 DEF Changes
  <2>7. RequestOK'
    BY <1>3, <1>4, <1>5, <2>1, <2>2, <2>3, <2>5, <2>6 DEF RequestOK, active
  <2> HIDE DEF new
  <2> QED BY <1>1, <1>3, <2>1, <2>3, <2>4, <2>7, ChangesKeep, AtTheNextStage
<1> QED BY <1>8, <1>9, <1>10

LEMMA RefusalsKeep ==
  SInv /\ (ArchiveLocked \/ RefuseOldDatabase \/ RefuseOtherConfiguration
             \/ RefuseOtherIdentity \/ SetupFails) => SInv'
<1> SUFFICES ASSUME SInv, ArchiveLocked \/ RefuseOldDatabase \/ RefuseOtherConfiguration
                            \/ RefuseOtherIdentity \/ SetupFails
             PROVE  SInv'
  OBVIOUS
<1>1. request # NoRequest /\ Refused
  BY DEF ArchiveLocked, RefuseOldDatabase, RefuseOtherConfiguration, RefuseOtherIdentity,
         SetupFails, Building, NoRequest, None
<1> QED BY <1>1, RefusedKeeps

\* The folder moves to the end of the archives, with all its rows.
LEMMA ArchiveKeeps == SInv /\ ArchiveFolder => SInv'
<1> SUFFICES ASSUME SInv, ArchiveFolder PROVE SInv'
  OBVIOUS
<1>1. /\ request # NoRequest /\ request.stage = "folder"
      /\ archives' = Append(archives, folder) /\ folder' = Missing
      /\ UNCHANGED <<request, core, attempts, kills>> /\ UNCHANGED serverVars
  BY DEF ArchiveFolder, Building, NoRequest, None
<1>2. folder \in Folders /\ archives \in Seq(Folders) /\ attempts \in Nat
  BY DEF SInv, SetupTypeOK
<1>3. IInv'
  BY <1>1, StepKeeps DEF SInv
<1>4. SetupTypeOK'
  BY <1>1, <1>2, MissingIsFine DEF SInv, SetupTypeOK
<1>5. \A i \in DOMAIN archives' : archives'[i] = folder \/ \E j \in DOMAIN archives : archives'[i] = archives[j]
  <2>1. ASSUME NEW i \in DOMAIN archives'
        PROVE archives'[i] = folder \/ \E j \in DOMAIN archives : archives'[i] = archives[j]
    <3>1. i \in 1..(Len(archives) + 1) /\ Len(archives) \in Nat
      BY <1>1, <1>2, Shelf
    <3>2. i \in 1..Len(archives) \/ i = Len(archives) + 1
      BY <3>1
    <3>3. CASE i = Len(archives) + 1
      BY <1>1, <1>2, <3>3, Shelf
    <3>4. CASE i \in 1..Len(archives)
      <4>1. archives'[i] = archives[i] /\ i \in DOMAIN archives
        BY <1>1, <1>2, <3>4, Shelf
      <4> QED BY <4>1
    <3> QED BY <3>2, <3>3, <3>4
  <2> QED BY <2>1
<1>6. FoldersOK'
  BY <1>1, <1>5, MissingIsFine DEF SInv, FoldersOK
<1>7. Missing.rows = {}
  BY DEF Missing, Folder
<1>8. RequestOK'
  BY <1>1 DEF SInv, RequestOK, serverVars, stateVars, active
<1>9. Running'
  <2>1. UNCHANGED worker
    BY <1>1 DEF serverVars, workerVars
  <2> QED BY <1>1, <2>1, NobodyRuns DEF Running, At
<1>10. Numbered'
  BY <1>1, <1>5, <1>7 DEF SInv, Numbered
<1>11. NothingLost'
  <2> DEFINE m == Len(archives)
  <2>1. m \in Nat /\ DOMAIN Databases = 1..(m + 1)
    BY <1>2, Shelf DEF Databases
  <2>2. \A i \in 1..(m + 1) : Databases[i] = archives'[i]
    BY <1>1 DEF Databases
  <2>3. archives' \in Seq(Folders) /\ Len(archives') = m + 1 /\ folder' \in Folders
    BY <1>1, <1>2, MissingIsFine
  <2>4. DOMAIN Databases' = 1..(m + 2)
    <3>1. DOMAIN Databases' = 1..((m + 1) + 1)
      BY <2>3, Shelf DEF Databases
    <3>2. (m + 1) + 1 = m + 2
      BY <2>1
    <3> QED BY <3>1, <3>2
  <2>5. \A i \in 1..(m + 1) : Databases'[i] = Databases[i]
    BY <2>2, <2>3, Shelf DEF Databases
  <2>6. Databases'[m + 2] = Missing
    <3>1. Databases'[(m + 1) + 1] = folder'
      BY <2>3, Shelf DEF Databases
    <3>2. (m + 1) + 1 = m + 2
      BY <2>1
    <3> QED BY <1>1, <3>1, <3>2
  <2>7. ASSUME NEW n, NEW i \in 1..(m + 1) PROVE Holds(i, n)' <=> Holds(i, n)
    BY <2>5, <2>7 DEF Holds
  <2>8. ASSUME NEW n, NEW i, i = m + 2 PROVE ~Holds(i, n)'
    <3>1. Databases'[i].rows = {}
      BY <2>6, <2>8, <1>7
    <3> QED BY <3>1 DEF Holds
  <2>9. ASSUME NEW n \in 1..attempts
        PROVE  \E i \in DOMAIN Databases' :
                 Holds(i, n)' /\ \A j \in DOMAIN Databases' : Holds(j, n)' => j = i
    <3>1. PICK i \in DOMAIN Databases : Holds(i, n) /\ \A j \in DOMAIN Databases : Holds(j, n) => j = i
      BY <2>9 DEF SInv, NothingLost
    <3>2. i \in 1..(m + 1) /\ i \in DOMAIN Databases'
      BY <2>1, <2>4, <3>1
    <3>3. Holds(i, n)'
      BY <2>7, <3>1, <3>2
    <3>4. ASSUME NEW j \in DOMAIN Databases', Holds(j, n)' PROVE j = i
      <4>1. j \in 1..(m + 1) \/ j = m + 2
        BY <2>1, <2>4
      <4>2. j \in 1..(m + 1)
        <5>1. j # m + 2
          BY <2>8, <3>4
        <5> QED BY <4>1, <5>1
      <4> QED BY <2>1, <2>7, <3>1, <3>4, <4>2
    <3> QED BY <3>2, <3>3, <3>4
  <2> QED BY <1>1, <2>9 DEF NothingLost
<1> QED BY <1>3, <1>4, <1>6, <1>8, <1>9, <1>10, <1>11 DEF SInv

LEMMA RunBeginsKeeps == SInv /\ RunBegins => SInv'
<1> SUFFICES ASSUME SInv, RunBegins PROVE SInv'
  OBVIOUS
<1>1. /\ request # NoRequest /\ request.stage = "ready" /\ request.id \in Runs
      /\ request.profile \in Profiles
  BY DEF SInv, RequestOK, RunBegins, Building, NoRequest, None
<1>2. /\ StartAccepted(request.id) /\ request' = NoRequest
      /\ UNCHANGED <<folder, archives, attempts, kills>>
      /\ core' = [core EXCEPT ![request.id] = [profile |-> request.profile,
                    start_over |-> request.start_over, since |-> attempts]]
  BY DEF RunBegins
<1>3. IInv'
  BY <1>1, <1>2, StartKeeps DEF SInv
<1>4. /\ request.start_over \in BOOLEAN /\ attempts \in Nat
      /\ core \in [Runs -> [profile : ProfilesOrNone, start_over : BOOLEAN, since : Nat]]
  BY DEF SInv, SetupTypeOK
<1>5. core' \in [Runs -> [profile : ProfilesOrNone, start_over : BOOLEAN, since : Nat]]
  BY <1>1, <1>2, <1>4 DEF ProfilesOrNone
<1>6. SetupTypeOK'
  <2>1. NoRequest \in [id : Runs \cup {NoRun}, profile : ProfilesOrNone, start_over : BOOLEAN,
                       stage : Stages \cup {None}, kept : Configurations]
    BY NoneIsIn DEF NoRequest, ProfilesOrNone
  <2> QED BY <1>2, <1>5, <2>1 DEF SInv, SetupTypeOK
<1>7. FoldersOK' /\ RequestOK'
  BY <1>2 DEF SInv, FoldersOK, RequestOK
<1>8. Numbered'
  <2>1. \A id \in Runs : core'[id].since = core[id].since \/ core'[id].since = attempts
    BY <1>1, <1>2, <1>4
  <2>2. \A id \in Runs : core'[id].since <= attempts
    BY <1>4, <2>1 DEF SInv, Numbered
  <2> QED BY <1>2, <2>2 DEF SInv, Numbered
<1>9. Running'
  <2>1. worker' = [worker EXCEPT ![request.id] = "running"] /\ worker \in [Runs -> Places]
    BY <1>2 DEF SInv, IInv, Shapes, StartAccepted
  <2>2. ASSUME NEW id \in Runs, At(id, "running")' PROVE id = request.id
    BY <1>1, <2>1, <2>2, NobodyRuns DEF At
  <2>3. /\ core'[request.id].profile = request.profile
        /\ core'[request.id].start_over = request.start_over
    BY <1>1, <1>2, <1>4
  <2>4. /\ folder.configuration = request.profile.configuration /\ folder.shape = "current"
        /\ folder.digest = request.profile.digest
        /\ request.start_over => folder.rows = {}
    BY <1>1 DEF SInv, RequestOK
  <2> QED BY <1>1, <1>2, <2>2, <2>3, <2>4 DEF Running
<1>10. NothingLost'
  BY <1>2, <1>6, HoldersKeep DEF SInv
<1> QED BY <1>3, <1>6, <1>7, <1>8, <1>9, <1>10 DEF SInv

-----------------------------------------------------------------------------
(* What happens around it *)

\* An attempt is begun in the folder the worker's core has opened: its number is new.
LEMMA HandleFileStartedKeeps ==
  ASSUME SInv, NEW id \in Runs, HandleFileStarted(id)
  PROVE  SInv'
<1> DEFINE row == Row(attempts + 1, core[id].profile)
<1>1. /\ At(id, "running") /\ attempts' = attempts + 1
      /\ folder' = [folder EXCEPT !.rows = folder.rows \cup {row}]
      /\ UNCHANGED <<archives, request, core, kills>> /\ UNCHANGED serverVars
  BY DEF HandleFileStarted
<1>2. /\ folder \in Folders /\ archives \in Seq(Folders) /\ attempts \in Nat
      /\ core \in [Runs -> [profile : ProfilesOrNone, start_over : BOOLEAN, since : Nat]]
  BY DEF SInv, SetupTypeOK
<1>3. /\ core[id].profile \in Profiles
      /\ folder.configuration = core[id].profile.configuration
      /\ folder.digest = core[id].profile.digest /\ folder.shape = "current"
  BY <1>1 DEF SInv, Running
<1>4. IInv'
  BY <1>1, StepKeeps DEF SInv
<1>5. request = NoRequest
  <2>1. worker[id] = "running"
    BY <1>1 DEF At
  <2> QED BY <2>1, NobodyRuns
<1>6. row = [number |-> attempts + 1, profile |-> core[id].profile] /\ attempts + 1 \in Nat
  BY <1>2 DEF Row
<1>7. row \in [number : Nat, profile : ProfilesOrNone]
  BY <1>2, <1>6
<1>8. row.number = attempts + 1 /\ row.profile = core[id].profile
  BY <1>6
<1> HIDE DEF row
<1>9. /\ folder' \in Folders /\ folder'.rows = folder.rows \cup {row}
      /\ folder'.shape = folder.shape /\ folder'.digest = folder.digest
      /\ folder'.configuration = folder.configuration
  BY <1>1, <1>2, <1>7 DEF Folders
<1>10. SetupTypeOK'
  <2>1. attempts' \in Nat
    BY <1>1, <1>6
  <2> QED BY <1>1, <1>9, <2>1 DEF SInv, SetupTypeOK
<1>11. FoldersOK'
  <2>1. folder.digest # None
    BY <1>3, ProfilesAssumption
  <2>2. FolderOK(folder)
    BY DEF SInv, FoldersOK
  <2>3. \A other \in folder'.rows : Matches(other, folder')
    BY <1>3, <1>8, <1>9, <2>1, <2>2 DEF FolderOK, Matches
  <2>4. FolderOK(folder')
    BY <1>3, <1>9, <2>1, <2>3 DEF FolderOK
  <2> QED BY <1>1, <2>4 DEF SInv, FoldersOK
<1>12. RequestOK'
  BY <1>1, <1>5 DEF RequestOK
<1>13. \A n \in 1..attempts : n \in 1..attempts' /\ n # attempts + 1
  BY <1>1, <1>2
<1>14. Numbered'
  <2>1. attempts + 1 \in 1..attempts'
    BY <1>1, <1>2
  <2>2. \A other \in folder'.rows : other.number \in 1..attempts'
    BY <1>8, <1>9, <1>13, <2>1 DEF SInv, Numbered
  <2>3. \A i \in DOMAIN archives : \A other \in archives[i].rows : other.number \in 1..attempts'
    BY <1>13 DEF SInv, Numbered
  <2>4. \A other \in Runs : core[other].since <= attempts'
    <3>1. \A other \in Runs : core[other].since <= attempts /\ core[other].since \in Nat
      BY <1>2 DEF SInv, Numbered
    <3> QED BY <3>1, <1>1, <1>2
  <2> QED BY <1>1, <2>2, <2>3, <2>4 DEF Numbered
<1>15. Running'
  <2>1. UNCHANGED worker
    BY <1>1 DEF serverVars, workerVars
  <2>2. ASSUME NEW other \in Runs, At(other, "running")' PROVE other = id
    <3>1. Live(other) /\ Live(id)
      BY <1>1, <2>1, <2>2 DEF At, Live
    <3> QED BY <3>1 DEF SInv, IInv, LiveIsCurrent
  <2>3. core[id].start_over => \A other \in folder'.rows : other.number > core[id].since
    <3>1. attempts + 1 > core[id].since
      <4>1. core[id].since <= attempts /\ core[id].since \in Nat
        BY <1>2 DEF SInv, Numbered
      <4> QED BY <4>1, <1>2
    <3>2. core[id].start_over => \A other \in folder.rows : other.number > core[id].since
      BY <1>1 DEF SInv, Running
    <3> QED BY <3>1, <3>2, <1>8, <1>9
  <2> QED BY <1>1, <1>3, <1>9, <2>2, <2>3 DEF Running
<1>16. NothingLost'
  <2> PICK last : last = Len(archives) + 1
    OBVIOUS
  <2>1. DOMAIN Databases = 1..last /\ DOMAIN Databases' = 1..last /\ Len(archives) \in Nat
    BY <1>1, <1>2, <1>9, Shelf DEF Databases
  <2>2. Databases[last] = folder /\ Databases'[last] = folder'
    BY <1>1, <1>2, <1>9, Shelf DEF Databases
  <2>3. \A i \in 1..Len(archives) :
          Databases[i] = archives[i] /\ Databases'[i] = archives[i] /\ i \in DOMAIN archives
    BY <1>1, <1>2, <1>9, Shelf DEF Databases
  <2>4. last \in 1..last /\ \A i \in 1..last : i \in 1..Len(archives) \/ i = last
    BY <2>1
  <2>5. ASSUME NEW i \in 1..last, NEW n \in 1..attempts PROVE Holds(i, n)' <=> Holds(i, n)
    <3>1. CASE i \in 1..Len(archives)
      <4>1. Databases'[i] = Databases[i]
        BY <3>1, <2>3
      <4> QED BY <4>1 DEF Holds
    <3>2. CASE i = last
      <4>1. Databases'[i].rows = Databases[i].rows \cup {row}
        BY <3>2, <2>2, <1>9
      <4>2. row.number # n
        BY <1>8, <1>13
      <4> QED BY <4>1, <4>2 DEF Holds
    <3> QED BY <2>4, <3>1, <3>2
  <2>6. ASSUME NEW n \in 1..attempts
        PROVE  \E i \in DOMAIN Databases' :
                 Holds(i, n)' /\ \A j \in DOMAIN Databases' : Holds(j, n)' => j = i
    <3>1. PICK i \in DOMAIN Databases : Holds(i, n) /\ \A j \in DOMAIN Databases : Holds(j, n) => j = i
      BY <2>6 DEF SInv, NothingLost
    <3>2. Holds(i, n)' /\ \A j \in 1..last : Holds(j, n)' => j = i
      BY <2>1, <2>5, <3>1
    <3> QED BY <2>1, <3>1, <3>2
  <2>7. ASSUME NEW n, n = attempts + 1
        PROVE  \E i \in DOMAIN Databases' :
                 Holds(i, n)' /\ \A j \in DOMAIN Databases' : Holds(j, n)' => j = i
    <3>1. Holds(last, n)'
      <4>1. row \in Databases'[last].rows
        BY <2>2, <1>9
      <4> QED BY <4>1, <1>8, <2>7 DEF Holds
    <3>2. ASSUME NEW j \in 1..Len(archives) PROVE ~Holds(j, n)'
      <4>1. Databases'[j] = archives[j] /\ j \in DOMAIN archives
        BY <2>3
      <4>2. \A other \in archives[j].rows : other.number # n
        BY <4>1, <1>13, <2>7 DEF SInv, Numbered
      <4> QED BY <4>1, <4>2 DEF Holds
    <3> QED BY <2>1, <2>4, <3>1, <3>2
  <2>8. \A n \in 1..attempts' : n \in 1..attempts \/ n = attempts + 1
    BY <1>1, <1>2
  <2> QED BY <2>6, <2>7, <2>8 DEF NothingLost
<1> QED BY <1>4, <1>10, <1>11, <1>12, <1>14, <1>15, <1>16 DEF SInv

LEMMA StartBeginsKeeps ==
  ASSUME SInv, NEW id \in Runs, NEW profile \in Profiles, NEW start_over \in BOOLEAN,
         StartBegins(id, profile, start_over)
  PROVE  SInv'
<1>1. /\ ~exporting /\ ~active(phase)
      /\ request' = [id |-> id, profile |-> profile, start_over |-> start_over,
                     stage |-> "folder", kept |-> None]
      /\ UNCHANGED <<folder, archives, core, attempts, kills>> /\ UNCHANGED serverVars
  BY DEF StartBegins
<1>2. IInv'
  BY <1>1, StepKeeps DEF SInv
<1>3. SetupTypeOK'
  <2>1. request' \in [id : Runs \cup {NoRun}, profile : ProfilesOrNone, start_over : BOOLEAN,
                      stage : Stages \cup {None}, kept : Configurations]
    BY <1>1, NoneIsIn DEF ProfilesOrNone, Stages
  <2> QED BY <1>1, <2>1 DEF SInv, SetupTypeOK
<1>4. FoldersOK' /\ Numbered'
  BY <1>1 DEF SInv, FoldersOK, Numbered
<1>5. RequestOK'
  <2>1. UNCHANGED <<exporting, phase>>
    BY <1>1 DEF serverVars, stateVars
  <2>2. /\ request'.id \in Runs /\ request'.profile \in Profiles /\ request'.stage = "folder"
        /\ "folder" \in Stages
    BY <1>1 DEF Stages
  <2> QED BY <1>1, <2>1, <2>2 DEF RequestOK, active
<1>6. Running'
  <2>1. UNCHANGED worker
    BY <1>1 DEF serverVars, workerVars
  <2> QED BY <1>1, <2>1 DEF SInv, Running, At
<1>7. NothingLost'
  BY <1>1, <1>3, HoldersKeep DEF SInv
<1> QED BY <1>2, <1>3, <1>4, <1>5, <1>6, <1>7 DEF SInv

\* Nothing but the folders and the history outlives the process.
LEMMA KillKeeps == SInv /\ Kill => SInv'
<1> SUFFICES ASSUME SInv, Kill PROVE SInv'
  OBVIOUS
<1>1. /\ UNCHANGED <<folder, archives, attempts>> /\ kills' = kills + 1
      /\ request' = NoRequest /\ core' = [id \in Runs |-> NoCore]
      /\ worker' = [id \in Runs |-> "none"]
  BY DEF Kill
<1>2. IInv'
  <2>1. Shapes'
    BY DEF Kill, Shapes, Phases, Places
  <2>2. Counters' /\ export_barrier' = 0 /\ export_revision' = 0
    BY DEF Kill, Counters
  <2>3. LiveIsCurrent' /\ ExportOrRun' /\ StopHitsItsRun'
    BY DEF Kill, LiveIsCurrent, ExportOrRun, StopHitsItsRun, Live
  <2>4. Numbering'
    <3>1. export_barrier' <= export_revision'
      BY <2>2
    <3> QED BY <3>1 DEF Kill, Numbering, At
  <2> QED BY <2>1, <2>2, <2>3, <2>4 DEF IInv
<1>3. SetupTypeOK'
  <2>1. NoRequest \in [id : Runs \cup {NoRun}, profile : ProfilesOrNone, start_over : BOOLEAN,
                       stage : Stages \cup {None}, kept : Configurations]
    BY NoneIsIn DEF NoRequest, ProfilesOrNone
  <2>2. core' \in [Runs -> [profile : ProfilesOrNone, start_over : BOOLEAN, since : Nat]]
    BY <1>1 DEF NoCore, ProfilesOrNone
  <2>3. kills' \in Nat
    BY <1>1 DEF SInv, SetupTypeOK
  <2> QED BY <1>1, <2>1, <2>2, <2>3 DEF SInv, SetupTypeOK
<1>4. FoldersOK' /\ RequestOK'
  BY <1>1 DEF SInv, FoldersOK, RequestOK
<1>5. Numbered'
  <2>1. \A id \in Runs : core'[id].since = 0
    BY <1>1 DEF NoCore
  <2>2. \A id \in Runs : core'[id].since <= attempts
    BY <2>1 DEF SInv, SetupTypeOK
  <2> QED BY <1>1, <2>2 DEF SInv, Numbered
<1>6. Running'
  BY <1>1 DEF Running, At
<1>7. NothingLost'
  BY <1>1, <1>3, HoldersKeep DEF SInv
<1> QED BY <1>2, <1>3, <1>4, <1>5, <1>6, <1>7 DEF SInv

\* A worker that moves on never comes back to its loop.
LEMMA NobodyStartsRunning ==
  ASSUME IInv, NEW id \in Runs, WorkerStep(id), NEW other \in Runs, At(other, "running")'
  PROVE  At(other, "running")
<1>1. worker \in [Runs -> Places]
  BY DEF IInv, Shapes
<1>2. CASE Progress(id)
  BY <1>2 DEF Progress, workerVars, At
<1>3. CASE ~Progress(id)
  <2>1. PICK place \in Places \ {"running"} : worker' = [worker EXCEPT ![id] = place]
    <3>1. CASE NumberResult(id)
      BY <3>1 DEF NumberResult, Places
    <3>2. CASE EmitResult(id) \/ EmitVerdict(id) \/ ShutdownFails(id) \/ WorkerEnds(id)
      BY <3>2 DEF EmitResult, EmitVerdict, ShutdownFails, WorkerEnds, MovesTo, Places
    <3>3. CASE ReadVerdict(id)
      BY <3>3 DEF ReadVerdict, MovesTo, Places, Ended
    <3> QED BY <1>3, <3>1, <3>2, <3>3 DEF WorkerStep
  <2> QED BY <1>1, <2>1 DEF At
<1> QED BY <1>2, <1>3

LEMMA ServingKeeps == SInv /\ Serving /\ UNCHANGED setupVars => SInv'
<1> SUFFICES ASSUME SInv, Serving, UNCHANGED setupVars PROVE SInv'
  OBVIOUS
<1>1. UNCHANGED <<folder, archives, request, core, attempts, kills>>
  BY DEF setupVars
<1>2. IInv'
  BY ExportKeeps, WorkerKeeps, StopKeeps DEF SInv, Serving
<1>3. SetupTypeOK' /\ FoldersOK' /\ Numbered'
  BY <1>1 DEF SInv, SetupTypeOK, FoldersOK, Numbered
<1>4. RequestOK'
  <2>1. CASE request = NoRequest
    BY <1>1, <2>1 DEF RequestOK
  <2>2. CASE ExportRefused
    <3>1. UNCHANGED <<exporting, phase>>
      BY <2>2 DEF ExportRefused, stateVars
    <3> QED BY <1>1, <3>1 DEF SInv, RequestOK, active
  <2> QED BY <2>1, <2>2 DEF Serving
<1>5. Running'
  <2>1. ASSUME NEW id \in Runs, At(id, "running")' PROVE At(id, "running")
    <3>1. CASE UNCHANGED worker
      BY <2>1, <3>1 DEF At
    <3>2. CASE \E other \in Runs : WorkerStep(other)
      BY <2>1, <3>2, NobodyStartsRunning DEF SInv
    <3>3. UNCHANGED worker \/ \E other \in Runs : WorkerStep(other)
      BY DEF Serving, ExportBegins, ExportEnds, ExportRefused, StopAccepted, workerVars
    <3> QED BY <3>1, <3>2, <3>3
  <2> QED BY <1>1, <2>1 DEF SInv, Running
<1>6. NothingLost'
  BY <1>1, <1>3, HoldersKeep DEF SInv
<1> QED BY <1>2, <1>3, <1>4, <1>5, <1>6 DEF SInv

-----------------------------------------------------------------------------
LEMMA SetupStepKeeps == SInv /\ [SetupNext]_runVars => SInv'
<1> SUFFICES ASSUME SInv, [SetupNext]_runVars PROVE SInv'
  OBVIOUS
<1>1. CASE UNCHANGED runVars
  <2>1. UNCHANGED serverVars /\ UNCHANGED <<folder, archives, request, core, attempts, kills>>
    BY <1>1 DEF runVars, setupVars
  <2>2. UNCHANGED <<worker, exporting, phase>>
    BY <2>1 DEF serverVars, workerVars, stateVars
  <2>3. IInv'
    BY <2>1, StepKeeps DEF SInv
  <2>4. SetupTypeOK' /\ FoldersOK' /\ Numbered'
    BY <2>1 DEF SInv, SetupTypeOK, FoldersOK, Numbered
  <2>5. RequestOK' /\ Running'
    BY <2>1, <2>2 DEF SInv, RequestOK, Running, At, active
  <2>6. NothingLost'
    BY <2>1, <2>4, HoldersKeep DEF SInv
  <2> QED BY <2>3, <2>4, <2>5, <2>6 DEF SInv
<1>2. CASE Setup
  BY <1>2, ArchiveKeeps, MakeFolderKeeps, TablesKeep, RecordingKeeps, RefusalsKeep, RunBeginsKeeps
  DEF Setup
<1>3. CASE SetupNext
  BY <1>2, <1>3, StartBeginsKeeps, KillKeeps, HandleFileStartedKeeps, ServingKeeps DEF SetupNext
<1> QED BY <1>1, <1>3

LEMMA SetupInitKeeps == SetupInit => SInv
<1> SUFFICES ASSUME SetupInit PROVE SInv
  OBVIOUS
<1>1. /\ Init /\ folder \in FoldersFound /\ archives = << >> /\ request = NoRequest
      /\ core = [id \in Runs |-> NoCore] /\ kills = 0
      /\ attempts = (IF folder.rows = {} THEN 0 ELSE 1)
  BY DEF SetupInit
<1>2. folder \in Folders /\ FolderOK(folder) /\ (folder.rows = {} \/ folder.rows = {OlderRow})
  BY <1>1, EarlierIsFine
<1>3. IInv
  BY <1>1, InitKeeps
<1>4. SetupTypeOK
  <2>1. NoRequest \in [id : Runs \cup {NoRun}, profile : ProfilesOrNone, start_over : BOOLEAN,
                       stage : Stages \cup {None}, kept : Configurations]
    BY NoneIsIn DEF NoRequest, ProfilesOrNone
  <2>2. core \in [Runs -> [profile : ProfilesOrNone, start_over : BOOLEAN, since : Nat]]
    BY <1>1 DEF NoCore, ProfilesOrNone
  <2>3. archives \in Seq(Folders) /\ attempts \in Nat /\ kills \in Nat
    BY <1>1
  <2> QED BY <1>1, <1>2, <2>1, <2>2, <2>3 DEF SetupTypeOK
<1>5. FoldersOK /\ RequestOK
  BY <1>1, <1>2 DEF FoldersOK, RequestOK
<1>6. OlderRow.number = 1
  BY DEF OlderRow, Row
<1>7. Numbered
  <2>1. \A id \in Runs : core[id].since = 0
    BY <1>1 DEF NoCore
  <2>2. \A id \in Runs : core[id].since <= attempts
    <3>1. attempts = 0 \/ attempts = 1
      BY <1>1
    <3>2. 0 <= attempts
      BY <3>1
    <3> QED BY <2>1, <3>2
  <2>3. \A row \in folder.rows : row.number = 1 /\ attempts = 1
    BY <1>1, <1>2, <1>6
  <2>4. \A row \in folder.rows : row.number \in 1..attempts
    BY <2>3
  <2> QED BY <1>1, <2>2, <2>4 DEF Numbered
<1>8. Running
  BY <1>1 DEF Init, Running, At
<1>9. NothingLost
  <2>1. DOMAIN Databases = {1} /\ Databases[1] = folder
    BY <1>1, <1>2 DEF Databases
  <2>2. CASE folder.rows = {}
    <3>1. 1..attempts = {}
      BY <1>1, <2>2
    <3> QED BY <3>1 DEF NothingLost
  <2>3. CASE folder.rows = {OlderRow}
    <3>1. attempts = 1
      BY <1>1, <2>3
    <3>2. Holds(1, 1)
      BY <1>6, <2>1, <2>3 DEF Holds
    <3> QED BY <2>1, <3>1, <3>2 DEF NothingLost
  <2> QED BY <1>2, <2>2, <2>3
<1> QED BY <1>3, <1>4, <1>5, <1>7, <1>8, <1>9 DEF SInv

\* The inductive invariant of the setup of a run.
LEMMA SetupInvariance == SetupSpec => []SInv
  BY SetupInitKeeps, SetupStepKeeps, PTL DEF SetupSpec

\* The folders, the archives, the start being served and the cores keep their shape
\* (app_context.py, db_controller.py).
THEOREM SetupTypes == SetupSpec => []SetupTypeOK
  BY SetupInvariance, PTL DEF SInv

\* However many starts are refused, killed and repeated, with whatever settings, no recorded
\* attempt leaves the disk, and no database holds attempts of two settings
\* (ProcessorCore.__init__, ensure_run_identity).
THEOREM KeptApart == SetupSpec => []ResultsKeptApart
<1>1. ASSUME NEW f \in Folders, FolderOK(f)
      PROVE  \/ f.rows \subseteq {OlderRow}
             \/ \A row \in f.rows : /\ row.profile.configuration = f.configuration
                                    /\ row.profile.digest = f.digest
  BY <1>1 DEF FolderOK, Matches
<1>2. SInv => NothingMixed
  <2> SUFFICES ASSUME SInv, NEW i \in DOMAIN Databases
               PROVE  Databases[i] \in Folders /\ FolderOK(Databases[i])
    BY <1>1 DEF NothingMixed
  <2>1. archives \in Seq(Folders) /\ folder \in Folders
    BY DEF SInv, SetupTypeOK
  <2>2. i \in 1..(Len(archives) + 1) /\ Len(archives) \in Nat
    BY <2>1, Shelf DEF Databases
  <2>3. i \in 1..Len(archives) \/ i = Len(archives) + 1
    BY <2>2
  <2>4. CASE i = Len(archives) + 1
    <3>1. Databases[i] = folder
      BY <2>1, <2>4, Shelf DEF Databases
    <3> QED BY <2>1, <3>1 DEF SInv, FoldersOK
  <2>5. CASE i \in 1..Len(archives)
    <3>1. Databases[i] = archives[i] /\ i \in DOMAIN archives
      BY <2>1, <2>5, Shelf DEF Databases
    <3>2. archives[i] \in Folders
      BY <2>1, <3>1
    <3> QED BY <3>1, <3>2 DEF SInv, FoldersOK
  <2> QED BY <2>3, <2>4, <2>5
<1>3. SInv => FreshIsFresh
  BY DEF SInv, Running, FreshIsFresh
<1>4. SInv => ResultsKeptApart
  BY <1>2, <1>3 DEF SInv, ResultsKeptApart
<1> QED BY <1>4, SetupInvariance, PTL

\* With starts, kills and archives around it, too, a database has one user at a time
\* (start_processing, export_database).
THEOREM OneUserAcrossStarts == SetupSpec => []OneUserOfTheDatabase
<1>1. SInv => OneRunAtATime
  BY DEF SInv, IInv, LiveIsCurrent, OneRunAtATime
<1>2. SInv => ExportAlone
  BY DEF SInv, IInv, LiveIsCurrent, ExportOrRun, ExportAlone
<1>3. SInv => OneUserOfTheDatabase
  BY <1>1, <1>2 DEF OneUserOfTheDatabase
<1> QED BY <1>3, SetupInvariance, PTL

=============================================================================
