------------------------------ MODULE SyncRun -------------------------------
(***************************************************************************)
(* One run of SyncOrchestrator with its RunArtifactStore and its browser.  *)
(*                                                                         *)
(* Every stage but the first is marked in the manifest, does its work and  *)
(* saves its snapshot.  A file is written under a temporary name, synced   *)
(* and then given its own name.  Each of these steps may raise, the user   *)
(* may interrupt the program, the process may be killed, and the machine   *)
(* may lose power.                                                         *)
(*                                                                         *)
(* The run directory is kept as the sequence of its versions: when power   *)
(* fails, the latest renames may be lost, and the versions after some      *)
(* point with them.                                                        *)
(***************************************************************************)
EXTENDS Naturals, Sequences

CONSTANTS
    SessionAttempts,  \* extract_session_max_attempts
    LaunchAttempts    \* launch_max_attempts

ASSUME AttemptsAssumption ==
    /\ SessionAttempts \in Nat \ {0}
    /\ LaunchAttempts \in Nat \ {0}

VARIABLES
    loadEnabled,  \* execution.load_enabled of the settings
    pc,           \* the statement of run that comes next
    stage,        \* current_stage
    product,      \* what the stage has produced and is about to save
    memory,       \* the store's own copy of the manifest
    versions,     \* the run directory after each rename
    temporary,    \* the temporary file of the write under way
    attempt,      \* browser sessions of this extract
    launch,       \* launches of this session
    browsers,     \* browsers that run
    refused,      \* quits that raised and left the browser running
    crm,          \* has Load sent a write?
    outcome,      \* how the run has ended
    unreported    \* has writing the report (or the first manifest) failed?

ended == <<outcome, unreported>>
artifacts == <<memory, versions, temporary>>
session == <<attempt, launch, browsers, refused>>
vars == <<loadEnabled, pc, stage, product, artifacts, session, crm, ended>>

INITIALIZATION == 0
CRM_CONTEXT == 1
EXTRACT == 2
TRANSFORM == 3
LOAD == 4
Stages == INITIALIZATION..LOAD

Manifests == [status : {"NONE", "RUNNING", "COMPLETED", "FAILED"}, stage : Stages]

(* What a snapshot file holds: a context is from the CRM or from the cache *)
(* file, a load result tells whether every operation succeeded.            *)
Snapshots == {"absent", "api", "cache", "whole", "success", "incomplete"}

(* files[s] is the snapshot of stage s; synced tells whether every file    *)
(* was on the disk in full when it got its name.                           *)
Directories == [manifest : Manifests, files : [Stages -> Snapshots], synced : BOOLEAN]

Directory == versions[Len(versions)]

EmptyDirectory ==
    [manifest |-> [status |-> "NONE", stage |-> INITIALIZATION],
     files |-> [s \in Stages |-> "absent"],
     synced |-> TRUE]

(* The statements that write a file.                                       *)
Writes == {"start", "mark", "save", "complete", "report"}
(* The statements between whose ends a browser is held.                    *)
Holding == {"configure", "extract", "close"}

Init ==
    /\ loadEnabled \in BOOLEAN
    /\ pc = "start"
    /\ stage = INITIALIZATION
    /\ product = "absent"
    /\ memory = EmptyDirectory.manifest
    /\ versions = <<EmptyDirectory>>
    /\ temporary = "none"
    /\ attempt = 1
    /\ launch = 1
    /\ browsers = 0
    /\ refused = 0
    /\ crm = "untouched"
    /\ outcome = "running"
    /\ unreported = FALSE

Running == outcome = "running"
-----------------------------------------------------------------------------
(* RunArtifactStore._write_json.                                           *)

OpenTemporary ==
    /\ Running /\ pc \in Writes
    /\ temporary = "none"
    /\ temporary' = "unsynced"
    /\ UNCHANGED <<loadEnabled, pc, stage, product, memory, versions, session, crm, ended>>

SyncTemporary ==
    /\ Running /\ pc \in Writes
    /\ temporary = "unsynced"
    /\ temporary' = "synced"
    /\ UNCHANGED <<loadEnabled, pc, stage, product, memory, versions, session, crm, ended>>

RenameUnsynced(directory) ==
    /\ temporary # "none"
    /\ temporary' = "none"
    /\ versions' = Append(versions,
            [directory EXCEPT !.synced = directory.synced /\ temporary = "synced"])

(* os.replace: the directory gets its next version.                        *)
Rename(directory) ==
    /\ temporary = "synced"
    /\ temporary' = "none"
    /\ versions' = Append(versions,
            [directory EXCEPT !.synced = directory.synced /\ temporary = "synced"])

(* _update_manifest: the file first, then the memory.                      *)
UpdateManifest(manifest) ==
    /\ Rename([Directory EXCEPT !.manifest = manifest])
    /\ memory' = manifest

Start ==
    /\ Running /\ pc = "start"
    /\ UpdateManifest([status |-> "RUNNING", stage |-> INITIALIZATION])
    /\ pc' = "work"
    /\ UNCHANGED <<loadEnabled, stage, product, session, crm, ended>>

MarkStage ==
    /\ Running /\ pc = "mark"
    /\ UpdateManifest([memory EXCEPT !.stage = stage])
    /\ pc' = IF stage = EXTRACT THEN "launch" ELSE "work"
    /\ UNCHANGED <<loadEnabled, stage, product, session, crm, ended>>

MarkCompleted ==
    /\ Running /\ pc = "complete"
    /\ UpdateManifest([memory EXCEPT !.status = "COMPLETED"])
    /\ pc' = "return"
    /\ UNCHANGED <<loadEnabled, stage, product, session, crm, ended>>

MarkFailed ==
    /\ Running /\ pc = "report"
    /\ UpdateManifest([status |-> "FAILED", stage |-> stage])
    /\ pc' = "raise"
    /\ UNCHANGED <<loadEnabled, stage, product, session, crm, ended>>

(* Where run goes on when the snapshot of a stage is saved: Load runs if   *)
(* it is enabled, and a load that is not successful is an error.           *)
AfterSave ==
    \/ /\ stage = LOAD
       /\ product = "incomplete"
       /\ pc' = "report"
       /\ stage' = stage
    \/ /\ \/ stage = LOAD /\ product # "incomplete"
          \/ stage = TRANSFORM /\ ~loadEnabled
       /\ pc' = "complete"
       /\ stage' = stage
    \/ /\ stage < TRANSFORM \/ (stage = TRANSFORM /\ loadEnabled)
       /\ pc' = "mark"
       /\ stage' = stage + 1

SaveSnapshot ==
    /\ Running /\ pc = "save"
    /\ Rename([Directory EXCEPT !.files[stage] = product])
    /\ AfterSave
    /\ UNCHANGED <<loadEnabled, product, memory, session, crm, ended>>
-----------------------------------------------------------------------------
(* The work of the stages.                                                 *)

Initialise ==
    /\ Running /\ pc = "work" /\ stage = INITIALIZATION
    /\ pc' = "mark"
    /\ stage' = CRM_CONTEXT
    /\ UNCHANGED <<loadEnabled, product, artifacts, session, crm, ended>>

ContextSourcesCacheFirst == {"api", "cache"}

(* The cache is for runs that do not load, and may not be there.           *)
ContextSources == IF loadEnabled THEN {"api"} ELSE {"api", "cache"}

ProvideContext ==
    /\ Running /\ pc = "work" /\ stage = CRM_CONTEXT
    /\ product' \in ContextSources
    /\ pc' = "save"
    /\ UNCHANGED <<loadEnabled, stage, artifacts, session, crm, ended>>

Transform ==
    /\ Running /\ pc = "work" /\ stage = TRANSFORM
    /\ product' = "whole"
    /\ pc' = "save"
    /\ UNCHANGED <<loadEnabled, stage, artifacts, session, crm, ended>>

(* LoadService.load sends its first write.                                 *)
LoadWrites ==
    /\ Running /\ pc = "work" /\ stage = LOAD
    /\ crm = "untouched"
    /\ crm' = "touched"
    /\ UNCHANGED <<loadEnabled, pc, stage, product, artifacts, session, ended>>

LoadReturns ==
    /\ Running /\ pc = "work" /\ stage = LOAD
    /\ product' \in {"success", "incomplete"}
    /\ pc' = "save"
    /\ UNCHANGED <<loadEnabled, stage, artifacts, session, crm, ended>>
-----------------------------------------------------------------------------
(* The browser: BrowserProvider.provide and the sessions of Extract.       *)

(* driver.quit() closes the browser, or raises and leaves it running.      *)
Quit ==
    \/ browsers' = browsers - 1 /\ refused' = refused
    \/ browsers' = browsers /\ refused' = refused + 1

(* provide tries again, or gives up with BrowserLaunchError.               *)
NextLaunch ==
    \/ /\ launch < LaunchAttempts
       /\ launch' = launch + 1
       /\ pc' = "launch"
    \/ /\ launch = LaunchAttempts
       /\ launch' = launch
       /\ pc' = "report"

(* The browser's or the driver's program file is missing.                  *)
BinaryMissing ==
    /\ Running /\ pc = "launch"
    /\ pc' = "report"
    /\ UNCHANGED <<loadEnabled, stage, product, artifacts, session, crm, ended>>

CreateBrowser ==
    /\ Running /\ pc = "launch"
    /\ browsers' = browsers + 1
    /\ pc' = "configure"
    /\ UNCHANGED <<loadEnabled, stage, product, artifacts, attempt, launch, refused, crm, ended>>

CreationFails ==
    /\ Running /\ pc = "launch"
    /\ NextLaunch
    /\ UNCHANGED <<loadEnabled, stage, product, artifacts, attempt, browsers, refused, crm, ended>>

Configured ==
    /\ Running /\ pc = "configure"
    /\ pc' = "extract"
    /\ UNCHANGED <<loadEnabled, stage, product, artifacts, session, crm, ended>>

ConfigurationFails ==
    /\ Running /\ pc = "configure"
    /\ Quit
    /\ NextLaunch
    /\ UNCHANGED <<loadEnabled, stage, product, artifacts, attempt, crm, ended>>

ExtractReturns ==
    /\ Running /\ pc = "extract"
    /\ product' = "whole"
    /\ pc' = "close"
    /\ UNCHANGED <<loadEnabled, stage, artifacts, session, crm, ended>>

Close ==
    /\ Running /\ pc = "close"
    /\ browsers' = browsers - 1
    /\ pc' = "save"
    /\ UNCHANGED <<loadEnabled, stage, product, artifacts, attempt, launch, refused, crm, ended>>

(* An error of quit after a successful extract is an error of the run.     *)
CloseFails ==
    /\ Running /\ pc = "close"
    /\ Quit
    /\ pc' = "report"
    /\ UNCHANGED <<loadEnabled, stage, product, artifacts, attempt, launch, crm, ended>>

RestartUncounted ==
    /\ attempt' = attempt
    /\ launch' = 1
    /\ pc' = "launch"

(* The whole of Extract is done again in a new session.                    *)
Restart ==
    /\ attempt < SessionAttempts
    /\ attempt' = attempt + 1
    /\ launch' = 1
    /\ pc' = "launch"

SessionLostUnclosed ==
    /\ Running /\ pc = "extract"
    /\ \/ Restart
       \/ attempt = SessionAttempts /\ pc' = "report" /\ UNCHANGED <<attempt, launch>>
    /\ UNCHANGED <<loadEnabled, stage, product, artifacts, browsers, refused, crm, ended>>

(* BrowserSessionUnavailableError.                                         *)
SessionLost ==
    /\ Running /\ pc = "extract"
    /\ Quit
    /\ \/ Restart
       \/ attempt = SessionAttempts /\ pc' = "report" /\ UNCHANGED <<attempt, launch>>
    /\ UNCHANGED <<loadEnabled, stage, product, artifacts, crm, ended>>

ExtractFails ==
    /\ Running /\ pc = "extract"
    /\ Quit
    /\ pc' = "report"
    /\ UNCHANGED <<loadEnabled, stage, product, artifacts, attempt, launch, crm, ended>>
-----------------------------------------------------------------------------
(* The other failures.                                                     *)

StatementFailsUntold ==
    /\ Running /\ pc \in {"mark", "work", "save", "complete"}
    /\ temporary' = "none"
    /\ outcome' = "raised"
    /\ UNCHANGED <<loadEnabled, pc, stage, product, memory, versions, session, crm, unreported>>

(* Writes and the work of the stages may raise; run then reports.          *)
StatementFails ==
    /\ Running /\ pc \in {"mark", "work", "save", "complete"}
    /\ temporary' = "none"
    /\ pc' = "report"
    /\ UNCHANGED <<loadEnabled, stage, product, memory, versions, session, crm, ended>>

(* The first manifest is written before run begins to report its errors.   *)
StartFails ==
    /\ Running /\ pc = "start"
    /\ temporary' = "none"
    /\ outcome' = "raised"
    /\ unreported' = TRUE
    /\ UNCHANGED <<loadEnabled, pc, stage, product, memory, versions, session, crm>>

(* Reporting fails itself, which is suppressed.                            *)
ReportFails ==
    /\ Running /\ pc = "report"
    /\ temporary' = "none"
    /\ pc' = "raise"
    /\ unreported' = TRUE
    /\ UNCHANGED <<loadEnabled, stage, product, memory, versions, session, crm, outcome>>
-----------------------------------------------------------------------------
(* The ends of a run.                                                      *)

(* sync_completed is logged and run returns.                               *)
Return ==
    /\ Running /\ pc = "return"
    /\ outcome' = "returned"
    /\ UNCHANGED <<loadEnabled, pc, stage, product, artifacts, session, crm, unreported>>

(* run raises the error it has caught.                                     *)
Raise ==
    /\ Running /\ pc = "raise"
    /\ outcome' = "raised"
    /\ UNCHANGED <<loadEnabled, pc, stage, product, artifacts, session, crm, unreported>>

(* KeyboardInterrupt and its like: caught nowhere but around extract.      *)
Interrupt ==
    /\ Running
    /\ temporary' = "none"
    /\ outcome' = "interrupted"
    /\ \/ pc = "extract" /\ Quit
       \/ UNCHANGED <<browsers, refused>>
    /\ UNCHANGED <<loadEnabled, pc, stage, product, memory, versions, attempt, launch, crm, unreported>>

Kill ==
    /\ Running
    /\ outcome' = "killed"
    /\ UNCHANGED <<loadEnabled, pc, stage, product, artifacts, session, crm, unreported>>

(* External: the file system keeps renames in order, and may lose the      *)
(* latest of them.                                                         *)
PowerLoss ==
    /\ outcome # "lost"
    /\ outcome' = "lost"
    /\ \E kept \in 1..Len(versions) : versions' = SubSeq(versions, 1, kept)
    /\ UNCHANGED <<loadEnabled, pc, stage, product, memory, temporary, session, crm, unreported>>
-----------------------------------------------------------------------------
Write == OpenTemporary \/ SyncTemporary \/ Start \/ MarkStage \/ SaveSnapshot
             \/ MarkCompleted \/ MarkFailed

Work == Initialise \/ ProvideContext \/ Transform \/ LoadWrites \/ LoadReturns

Browse == BinaryMissing \/ CreateBrowser \/ CreationFails \/ Configured \/ ConfigurationFails
              \/ ExtractReturns \/ Close \/ CloseFails \/ SessionLost \/ ExtractFails

Step == Write \/ Work \/ Browse \/ StatementFails \/ StartFails \/ ReportFails
            \/ Return \/ Raise

Next == Step \/ Interrupt \/ Kill \/ PowerLoss

Spec == Init /\ [][Next]_vars

(* The program goes on: each call it makes returns or raises.              *)
FairSpec == Spec /\ WF_vars(Step)
-----------------------------------------------------------------------------
(* The types.  Attempts and launches stay within the settings.             *)
TypeOK ==
    /\ loadEnabled \in BOOLEAN
    /\ pc \in Writes \cup Holding \cup {"work", "launch", "return", "raise"}
    /\ stage \in Stages
    /\ product \in Snapshots
    /\ memory \in Manifests
    /\ versions \in Seq(Directories) /\ versions # <<>>
    /\ temporary \in {"none", "unsynced", "synced"}
    /\ attempt \in 1..SessionAttempts
    /\ launch \in 1..LaunchAttempts
    /\ browsers \in Nat /\ refused \in Nat
    /\ crm \in {"untouched", "touched"}
    /\ outcome \in {"running", "returned", "raised", "interrupted", "killed", "lost"}
    /\ unreported \in BOOLEAN

(* Whoever reads a file of the run directory reads it whole, also after a  *)
(* kill or a loss of power: _write_json.                                   *)
FilesAreWhole == Directory.synced

(* A directory tells a story that can have happened.                       *)
Consistent(d) ==
    /\ \A s \in CRM_CONTEXT..LOAD : s < d.manifest.stage => d.files[s] # "absent"
    /\ \A s \in CRM_CONTEXT..LOAD : d.files[s] # "absent" => s <= d.manifest.stage
    /\ d.manifest.status = "COMPLETED" =>
            \/ d.manifest.stage = TRANSFORM /\ d.files[TRANSFORM] = "whole"
            \/ d.manifest.stage = LOAD /\ d.files[LOAD] = "success"

(* Manifest and snapshots agree at every moment, wherever the run is cut   *)
(* off: a stage is named only when all stages before it have saved their   *)
(* snapshots, and COMPLETED means that the last stage of the run has.      *)
RecordIsConsistent == Consistent(Directory)

(* The directory can be read and believed, whenever the run is cut off.    *)
RecordIsSound == FilesAreWhole /\ RecordIsConsistent

(* Load writes to the CRM only when it is enabled, and what it does can be *)
(* looked up then: the plan, the data and a context fresh from the CRM are *)
(* saved, and the manifest names LOAD.                                     *)
CrmWrittenOnRecord ==
    crm = "touched" /\ outcome # "lost" =>
        /\ loadEnabled
        /\ Directory.manifest.stage = LOAD
        /\ Directory.files[CRM_CONTEXT] = "api"
        /\ Directory.files[EXTRACT] = "whole" /\ Directory.files[TRANSFORM] = "whole"

(* What the manifest says of a run that has done all it was to do, and of  *)
(* one that has failed.                                                    *)
Success == [status |-> "COMPLETED", stage |-> IF loadEnabled THEN LOAD ELSE TRANSFORM]
Failure == [status |-> "FAILED", stage |-> stage]

(* A run that returns has said that it did all it was to do.  One that     *)
(* raises has said FAILED and where, unless it could not write that.  One  *)
(* that goes on, or was cut off, has said nothing final unless all it had  *)
(* left to do was to end in just that way: mark_failed and mark_completed. *)
EndIsTold ==
    LET told == Directory.manifest
        untold == told.status \in {"NONE", "RUNNING"}
    IN  /\ outcome = "returned" => told = Success
        /\ outcome = "raised" => told = Failure \/ (unreported /\ untold)
        /\ outcome \in {"running", "interrupted", "killed"} =>
                \/ untold
                \/ pc = "return" /\ told = Success
                \/ pc = "raise" /\ told = Failure

(* Every browser that runs is the one in use or one whose quit has raised, *)
(* so none is left by a run that returns or raises unless quit raised.     *)
BrowsersAccounted ==
    outcome \in {"running", "returned", "raised"} =>
        browsers = refused + (IF pc \in Holding THEN 1 ELSE 0)

(* The manifest only moves forward and no snapshot is taken back or        *)
(* written over, but for the loss of power.                                *)
RecordGrows ==
    [][outcome' # "lost" =>
        LET old == Directory  new == Directory' IN
        /\ old.manifest.stage <= new.manifest.stage
        /\ old.manifest.status \in {"COMPLETED", "FAILED"} => new.manifest = old.manifest
        /\ old.manifest.status = "RUNNING" => new.manifest.status # "NONE"
        /\ \A s \in Stages : old.files[s] # "absent" => new.files[s] = old.files[s]]_vars

(* The run ends: no retry goes on for ever.                                *)
RunEnds == <>(outcome # "running")

(* apps/nashdom_sync/README.md:166 says that a success is COMPLETED at     *)
(* TRANSFORM and that Load is not run.                                     *)
SuccessIsTransform ==
    Directory.manifest.status = "COMPLETED" => Directory.manifest.stage = TRANSFORM
=============================================================================
