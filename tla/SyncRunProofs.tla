--------------------------- MODULE SyncRunProofs ----------------------------
(***************************************************************************)
(* The safety properties of SyncRun for all numbers of attempts.           *)
(*                                                                         *)
(* The properties speak of the directory at one moment; the invariant says *)
(* it of every version, as any of them may be what a loss of power leaves, *)
(* and ties the latest version to the statement that comes next.           *)
(***************************************************************************)
EXTENDS SyncRun, TLAPS

History == \A k \in 1..Len(versions) : Consistent(versions[k]) /\ versions[k].synced

(* Which stages each statement belongs to, and what it is about to save.   *)
Stations ==
    /\ pc = "start" => stage = INITIALIZATION
    /\ pc \in {"mark", "save"} => stage # INITIALIZATION
    /\ pc \in {"launch"} \cup Holding => stage = EXTRACT
    /\ pc = "work" => stage # EXTRACT
    /\ pc \in {"close", "save"} =>
            product \in (IF stage = CRM_CONTEXT THEN ContextSources
                         ELSE IF stage = LOAD THEN {"success", "incomplete"} ELSE {"whole"})
    /\ stage = LOAD => loadEnabled
    /\ crm = "touched" => stage = LOAD /\ memory.stage = LOAD

(* The statements at which the stage may already have saved its snapshot.  *)
Late == {"complete", "return", "report", "raise"}

(* What the latest version of the directory holds when pc is reached.      *)
Progress ==
    /\ Directory.manifest = memory
    /\ memory.stage <= stage
    /\ pc \in {"mark", "report", "raise"} => memory.stage + 1 >= stage
    /\ pc \notin {"mark", "report", "raise"} => memory.stage = stage
    /\ pc = "mark" => memory.stage # stage
    /\ \A s \in CRM_CONTEXT..LOAD :
            /\ s < stage => Directory.files[s] # "absent"
            /\ s > stage => Directory.files[s] = "absent"
            /\ s = stage /\ pc \notin Late => Directory.files[s] = "absent"
    /\ Directory.files[CRM_CONTEXT] \in {"absent"} \cup ContextSources
    /\ Directory.files[EXTRACT] \in {"absent", "whole"}
    /\ Directory.files[TRANSFORM] \in {"absent", "whole"}
    /\ Directory.files[LOAD] # "absent" => memory.stage = LOAD
    /\ pc \in Late /\ stage > memory.stage => Directory.files[stage] = "absent"
    /\ pc \in {"complete", "return"} =>
            \/ stage = TRANSFORM /\ ~loadEnabled /\ Directory.files[TRANSFORM] = "whole"
            \/ stage = LOAD /\ loadEnabled /\ Directory.files[LOAD] = "success"

(* The manifest's status at each statement, and where a run can end.       *)
Ending ==
    /\ pc = "return" => memory.status = "COMPLETED"
    /\ pc = "raise" =>
            \/ memory.status = "FAILED" /\ memory.stage = stage
            \/ unreported /\ memory.status = "RUNNING"
    /\ pc \notin {"return", "raise"} =>
            memory.status = IF pc = "start" THEN "NONE" ELSE "RUNNING"
    /\ outcome = "returned" => pc = "return"
    /\ outcome = "raised" => pc = "raise" \/ (pc = "start" /\ unreported)

IInv ==
    /\ TypeOK
    /\ History
    /\ outcome # "lost" => Stations /\ Progress /\ Ending
    /\ BrowsersAccounted

USE DEF INITIALIZATION, CRM_CONTEXT, EXTRACT, TRANSFORM, LOAD
-----------------------------------------------------------------------------
(* The directory is the last of its versions and a directory.              *)
LEMMA DirectoryType ==
    ASSUME TypeOK
    PROVE  /\ Len(versions) \in Nat \ {0}
           /\ Directory \in Directories
<1>1. versions \in Seq(Directories) /\ versions # <<>>
    BY DEF TypeOK
<1>2. Len(versions) \in Nat \ {0}
    BY <1>1
<1> QED BY <1>1, <1>2 DEF Directory

(* A rename adds the directory it is given, if that is synced.             *)
LEMMA RenameAppends ==
    ASSUME TypeOK, NEW d \in Directories, Rename(d), d.synced
    PROVE  /\ versions' = Append(versions, d)
           /\ Directory' = d
           /\ temporary' = "none"
<1> DEFINE e == [d EXCEPT !.synced = d.synced /\ temporary = "synced"]
<1>1. temporary = "synced" /\ temporary' = "none" /\ versions' = Append(versions, e)
    BY DEF Rename
<1>2. e = d
  <2>1. (d.synced /\ temporary = "synced") = TRUE
    BY <1>1
  <2>2. d.synced = TRUE
    BY DEF Directories
  <2> QED BY <2>1, <2>2 DEF Directories
<1>3. versions' = Append(versions, d)
    BY <1>1, <1>2
<1> HIDE DEF e
<1>4. versions \in Seq(Directories) /\ Len(versions) \in Nat
    BY DEF TypeOK
<1> QED BY <1>1, <1>3, <1>4 DEF Directory

(* When the directory is consistent, all versions still are.               *)
LEMMA RenameAdds ==
    ASSUME TypeOK, History, NEW d \in Directories, Rename(d),
           Consistent(d), d.synced
    PROVE  /\ versions' \in Seq(Directories) /\ versions' # <<>>
           /\ Directory' = d
           /\ History'
           /\ temporary' = "none"
<1>1. versions' = Append(versions, d) /\ Directory' = d /\ temporary' = "none"
    BY RenameAppends
<1>2. versions \in Seq(Directories) /\ Len(versions) \in Nat
    BY DEF TypeOK
<1>3. /\ versions' \in Seq(Directories) /\ Len(versions') = Len(versions) + 1
      /\ versions'[Len(versions) + 1] = d
      /\ \A k \in 1..Len(versions) : versions'[k] = versions[k]
      /\ versions' # <<>>
    BY <1>1, <1>2
<1>4. History'
  <2> SUFFICES ASSUME NEW k \in 1..Len(versions')
               PROVE  Consistent(versions'[k]) /\ versions'[k].synced
    BY DEF History, Consistent
  <2>1. CASE k \in 1..Len(versions)
    BY <2>1, <1>3 DEF History, Consistent
  <2>2. CASE k = Len(versions) + 1
    BY <2>2, <1>3 DEF Consistent
  <2> QED BY <2>1, <2>2, <1>2, <1>3
<1> QED BY <1>1, <1>3, <1>4

(* The initial state.                                                      *)
LEMMA InitEstablishes == Init => IInv
<1> SUFFICES ASSUME Init PROVE IInv
    OBVIOUS
<1>1. EmptyDirectory \in Directories
    BY DEF EmptyDirectory, Directories, Manifests, Stages, Snapshots
<1>2. /\ versions = <<EmptyDirectory>> /\ Len(versions) = 1 /\ versions[1] = EmptyDirectory
      /\ Directory = EmptyDirectory
    BY DEF Init, Directory
<1>3. Consistent(EmptyDirectory) /\ EmptyDirectory.synced
    BY DEF Consistent, EmptyDirectory, Stages
<1>4. TypeOK
  <2>1. versions \in Seq(Directories) /\ versions # <<>>
    BY <1>1, <1>2
  <2>2. memory \in Manifests
    BY <1>1 DEF Init, Directories
  <2>3. loadEnabled \in BOOLEAN /\ unreported \in BOOLEAN
    BY Zenon DEF Init
  <2>4. /\ pc \in Writes \cup Holding \cup {"work", "launch", "return", "raise"}
        /\ stage \in Stages
        /\ product \in Snapshots
        /\ temporary \in {"none", "unsynced", "synced"}
        /\ crm \in {"untouched", "touched"}
        /\ outcome \in {"running", "returned", "raised", "interrupted", "killed", "lost"}
    BY DEF Init, Writes, Stages, Snapshots
  <2>5. /\ attempt \in 1..SessionAttempts /\ launch \in 1..LaunchAttempts
        /\ browsers \in Nat /\ refused \in Nat
    BY AttemptsAssumption DEF Init
  <2> QED BY <2>1, <2>2, <2>3, <2>4, <2>5 DEF TypeOK
<1>5. History
    BY <1>2, <1>3 DEF History
<1>6. Stations /\ Progress /\ Ending
    BY <1>2 DEF Init, Stations, Progress, Ending, Late, EmptyDirectory, Stages, Holding
<1>7. BrowsersAccounted
    BY DEF Init, BrowsersAccounted, Holding
<1> QED BY <1>4, <1>5, <1>6, <1>7 DEF IInv
-----------------------------------------------------------------------------
(* Steps that write no file.                                               *)

Quiet == OpenTemporary \/ SyncTemporary \/ Work \/ Browse \/ StatementFails
             \/ StartFails \/ ReportFails \/ Return \/ Raise \/ Interrupt \/ Kill

(* Such a step leaves the directory as it is.                              *)
LEMMA QuietFrame ==
    ASSUME Quiet
    PROVE  UNCHANGED <<loadEnabled, memory, versions>> /\ outcome = "running"
<1>1. CASE \/ OpenTemporary \/ SyncTemporary \/ StatementFails \/ StartFails \/ ReportFails
           \/ Return \/ Raise \/ Interrupt \/ Kill
    BY <1>1 DEF OpenTemporary, SyncTemporary, StatementFails, StartFails, ReportFails, Return,
        Raise, Interrupt, Kill, Running, artifacts
<1>2. CASE Work
    BY <1>2 DEF Work, Initialise, ProvideContext, Transform, LoadWrites, LoadReturns,
        Running, artifacts
<1>3. CASE Browse
    BY <1>3 DEF Browse, BinaryMissing, CreateBrowser, CreationFails, Configured,
        ConfigurationFails, ExtractReturns, Close, CloseFails, SessionLost, ExtractFails,
        Running, artifacts
<1> QED BY <1>1, <1>2, <1>3 DEF Quiet

(* The counters of the browser keep their types and their relation.        *)
LEMMA QuietSession ==
    ASSUME TypeOK, BrowsersAccounted, Quiet
    PROVE  /\ attempt' \in 1..SessionAttempts /\ launch' \in 1..LaunchAttempts
           /\ browsers' \in Nat /\ refused' \in Nat
           /\ BrowsersAccounted'
<1> USE AttemptsAssumption DEF BrowsersAccounted, Holding, TypeOK, Running, session, ended
<1>1. CASE \/ OpenTemporary \/ SyncTemporary \/ StatementFails \/ StartFails \/ ReportFails
           \/ Return \/ Raise \/ Kill
    BY <1>1 DEF OpenTemporary, SyncTemporary, StatementFails, StartFails, ReportFails, Return,
        Raise, Kill
<1>2. CASE Interrupt
    BY <1>2 DEF Interrupt, Quit
<1>3. CASE Work
    BY <1>3 DEF Work, Initialise, ProvideContext, Transform, LoadWrites, LoadReturns
<1>4. CASE BinaryMissing \/ CreateBrowser \/ Configured \/ ExtractReturns \/ Close
    BY <1>4 DEF BinaryMissing, CreateBrowser, Configured, ExtractReturns, Close
<1>5. CASE CreationFails \/ ConfigurationFails
    BY <1>5 DEF CreationFails, ConfigurationFails, NextLaunch, Quit
<1>6. CASE CloseFails \/ ExtractFails
    BY <1>6 DEF CloseFails, ExtractFails, Quit
<1>7. CASE SessionLost
    BY <1>7 DEF SessionLost, Restart, Quit
<1> QED BY <1>1, <1>2, <1>3, <1>4, <1>5, <1>6, <1>7 DEF Quiet, Browse

(* The other variables keep their types.                                   *)
LEMMA QuietType ==
    ASSUME TypeOK, BrowsersAccounted, Quiet
    PROVE  TypeOK'
<1>1. /\ pc' \in Writes \cup Holding \cup {"work", "launch", "return", "raise"}
      /\ stage' \in Stages
      /\ product' \in Snapshots
      /\ temporary' \in {"none", "unsynced", "synced"}
      /\ crm' \in {"untouched", "touched"}
      /\ outcome' \in {"running", "returned", "raised", "interrupted", "killed", "lost"}
      /\ unreported' \in BOOLEAN
  <2> USE DEF TypeOK, Writes, Holding, Stages, Snapshots, ended, artifacts
  <2>1. CASE \/ OpenTemporary \/ SyncTemporary \/ StatementFails \/ StartFails \/ ReportFails
             \/ Return \/ Raise \/ Kill \/ Interrupt
    BY <2>1 DEF OpenTemporary, SyncTemporary, StatementFails, StartFails, ReportFails, Return,
        Raise, Kill, Interrupt
  <2>2. CASE Work
    BY <2>2 DEF Work, Initialise, ProvideContext, ContextSources, Transform, LoadWrites, LoadReturns
  <2>3. CASE BinaryMissing \/ CreateBrowser \/ Configured \/ ExtractReturns \/ Close
    BY <2>3 DEF BinaryMissing, CreateBrowser, Configured, ExtractReturns, Close
  <2>4. CASE CreationFails \/ ConfigurationFails \/ CloseFails \/ ExtractFails \/ SessionLost
    BY <2>4 DEF CreationFails, ConfigurationFails, NextLaunch, CloseFails, ExtractFails,
        SessionLost, Restart
  <2> QED BY <2>1, <2>2, <2>3, <2>4 DEF Quiet, Browse
<1> QED BY <1>1, QuietFrame, QuietSession DEF TypeOK

(* Where the run stands still fits what the directory holds.               *)
LEMMA QuietPlace ==
    ASSUME TypeOK, Quiet, Stations, Progress, Ending
    PROVE  Stations' /\ Progress' /\ Ending'
<1>1. /\ Directory' = Directory /\ memory' = memory /\ outcome = "running"
      /\ loadEnabled' = loadEnabled
    BY QuietFrame DEF Directory
<1>2. memory.stage \in Stages /\ stage \in Stages
    BY DEF TypeOK, Manifests
<1> USE <1>1, <1>2 DEF Stations, Progress, Ending, Late, Stages, Holding, ContextSources
<1>3. CASE OpenTemporary \/ SyncTemporary \/ Kill \/ Interrupt
    BY <1>3 DEF OpenTemporary, SyncTemporary, Kill, Interrupt, ended
<1>4. CASE StatementFails
    BY <1>4 DEF StatementFails, ended
<1>5. CASE StartFails \/ ReportFails \/ Return \/ Raise
    BY <1>5 DEF StartFails, ReportFails, Return, Raise, artifacts
<1>6. CASE Initialise
    BY <1>6 DEF Initialise, ended
<1>7. CASE ProvideContext
    BY <1>7 DEF ProvideContext, ended
<1>8. CASE Transform
    BY <1>8 DEF Transform, ended
<1>9. CASE LoadWrites
    BY <1>9 DEF LoadWrites, ended
<1>10. CASE LoadReturns
    BY <1>10 DEF LoadReturns, ended
<1>11. CASE BinaryMissing \/ CreateBrowser \/ Configured \/ ExtractReturns \/ Close
    BY <1>11 DEF BinaryMissing, CreateBrowser, Configured, ExtractReturns, Close, ended
<1>12. CASE CreationFails \/ ConfigurationFails
    BY <1>12 DEF CreationFails, ConfigurationFails, NextLaunch, ended
<1>13. CASE CloseFails \/ ExtractFails \/ SessionLost
    BY <1>13 DEF CloseFails, ExtractFails, SessionLost, Restart, ended
<1> QED BY <1>3, <1>4, <1>5, <1>6, <1>7, <1>8, <1>9, <1>10, <1>11, <1>12, <1>13
        DEF Quiet, Work, Browse
-----------------------------------------------------------------------------
(* Steps that give a file its name.                                        *)

(* A manifest written is the directory's and the memory's.                 *)
LEMMA ManifestWritten ==
    ASSUME TypeOK, History, NEW m \in Manifests, UpdateManifest(m),
           Consistent([Directory EXCEPT !.manifest = m])
    PROVE  /\ versions' \in Seq(Directories) /\ versions' # <<>>
           /\ Directory' = [Directory EXCEPT !.manifest = m]
           /\ Directory'.manifest = m /\ memory' = m
           /\ Directory'.files = Directory.files
           /\ History'
           /\ temporary' = "none"
<1> DEFINE d == [Directory EXCEPT !.manifest = m]
<1>1. Directory \in Directories /\ Directory.synced
    BY DirectoryType DEF History, Directory
<1>2. /\ d \in Directories /\ d.manifest = m /\ d.files = Directory.files
      /\ d.synced = Directory.synced
    BY <1>1 DEF Directories
<1>3. Rename(d) /\ memory' = m /\ Consistent(d)
    BY DEF UpdateManifest
<1> HIDE DEF d
<1>4. /\ versions' \in Seq(Directories) /\ versions' # <<>>
      /\ Directory' = d /\ History' /\ temporary' = "none"
    BY <1>1, <1>2, <1>3, RenameAdds
<1> QED BY <1>2, <1>3, <1>4 DEF d

(* What the statements that write a manifest have in common.               *)
LEMMA ManifestConsistent ==
    ASSUME TypeOK, Progress, Stations, NEW m \in Manifests,
           memory.stage <= m.stage, m.stage <= stage,
           m.status = "COMPLETED" => pc = "complete" /\ m.stage = stage,
           \A s \in CRM_CONTEXT..LOAD : Directory.files[s] # "absent" => s <= m.stage
    PROVE  Consistent([Directory EXCEPT !.manifest = m])
<1>1. /\ [Directory EXCEPT !.manifest = m].manifest = m
      /\ [Directory EXCEPT !.manifest = m].files = Directory.files
    BY DirectoryType DEF Directories
<1>2. m.stage \in Stages /\ stage \in Stages
    BY DEF Manifests, TypeOK
<1> QED BY <1>1, <1>2 DEF Consistent, Progress, Stages

LEMMA StartSafe ==
    ASSUME IInv, Start
    PROVE  IInv'
<1> DEFINE m == [status |-> "RUNNING", stage |-> INITIALIZATION]
<1>0. TypeOK /\ History /\ Stations /\ Progress /\ Ending /\ BrowsersAccounted
    BY DEF IInv, Start, Running
<1>1. m \in Manifests /\ memory.stage = 0 /\ stage = 0 /\ memory.stage \in Stages
    BY <1>0 DEF Start, Manifests, Stages, Stations, Progress, TypeOK
<1>2. Consistent([Directory EXCEPT !.manifest = m])
    BY <1>0, <1>1, ManifestConsistent DEF Start, Progress, Stages
<1>3. /\ versions' \in Seq(Directories) /\ versions' # <<>>
      /\ Directory'.manifest = m /\ memory' = m
      /\ Directory'.files = Directory.files
      /\ History'
      /\ temporary' = "none"
    BY <1>0, <1>1, <1>2, ManifestWritten DEF Start
<1>4. TypeOK'
    BY <1>0, <1>1, <1>3 DEF Start, TypeOK, session, ended
<1>5. Stations' /\ Progress' /\ Ending'
    BY <1>0, <1>1, <1>3
    DEF Start, Running, Stations, Progress, Ending, Late, Stages, Holding, session, ended,
        ContextSources
<1>6. BrowsersAccounted'
    BY <1>0 DEF Start, BrowsersAccounted, Holding, session, ended
<1> QED BY <1>3, <1>4, <1>5, <1>6 DEF IInv

LEMMA MarkStageSafe ==
    ASSUME IInv, MarkStage
    PROVE  IInv'
<1> DEFINE m == [memory EXCEPT !.stage = stage]
<1>0. TypeOK /\ History /\ Stations /\ Progress /\ Ending /\ BrowsersAccounted
    BY DEF IInv, MarkStage, Running
<1>1. /\ m \in Manifests /\ m.stage = stage /\ m.status = memory.status
      /\ memory.status = "RUNNING"
      /\ stage \in Stages /\ memory.stage \in Stages
    BY <1>0 DEF MarkStage, Manifests, Ending, TypeOK
<1>2. Consistent([Directory EXCEPT !.manifest = m])
  <2> HIDE DEF m
  <2> QED BY <1>0, <1>1, ManifestConsistent DEF Progress, Stages
<1>3. /\ versions' \in Seq(Directories) /\ versions' # <<>>
      /\ Directory'.manifest = m /\ memory' = m
      /\ Directory'.files = Directory.files
      /\ History'
      /\ temporary' = "none"
    BY <1>0, <1>1, <1>2, ManifestWritten DEF MarkStage
<1> HIDE DEF m
<1>4. TypeOK'
    BY <1>0, <1>1, <1>3 DEF MarkStage, TypeOK, session, ended, Writes, Holding
<1>5. Stations' /\ Progress' /\ Ending'
    BY <1>0, <1>1, <1>3
    DEF MarkStage, Running, Stations, Progress, Ending, Late, Stages, Holding, session, ended,
        ContextSources
<1>6. BrowsersAccounted'
    BY <1>0 DEF MarkStage, BrowsersAccounted, Holding, session, ended
<1> QED BY <1>3, <1>4, <1>5, <1>6 DEF IInv

LEMMA MarkCompletedSafe ==
    ASSUME IInv, MarkCompleted
    PROVE  IInv'
<1> DEFINE m == [memory EXCEPT !.status = "COMPLETED"]
<1>0. TypeOK /\ History /\ Stations /\ Progress /\ Ending /\ BrowsersAccounted
    BY DEF IInv, MarkCompleted, Running
<1>1. /\ m \in Manifests /\ m.stage = stage /\ m.status = "COMPLETED"
      /\ memory.stage = stage /\ stage \in Stages
    BY <1>0 DEF MarkCompleted, Manifests, Progress, TypeOK
<1>2. Consistent([Directory EXCEPT !.manifest = m])
  <2> HIDE DEF m
  <2> QED BY <1>0, <1>1, ManifestConsistent DEF MarkCompleted, Progress, Stages
<1>3. /\ versions' \in Seq(Directories) /\ versions' # <<>>
      /\ Directory'.manifest = m /\ memory' = m
      /\ Directory'.files = Directory.files
      /\ History'
      /\ temporary' = "none"
    BY <1>0, <1>1, <1>2, ManifestWritten DEF MarkCompleted
<1> HIDE DEF m
<1>4. TypeOK'
    BY <1>0, <1>1, <1>3 DEF MarkCompleted, TypeOK, session, ended, Writes, Holding
<1>5. Stations' /\ Progress' /\ Ending'
    BY <1>0, <1>1, <1>3
    DEF MarkCompleted, Running, Stations, Progress, Ending, Late, Stages, Holding, session,
        ended, ContextSources
<1>6. BrowsersAccounted'
    BY <1>0 DEF MarkCompleted, BrowsersAccounted, Holding, session, ended
<1> QED BY <1>3, <1>4, <1>5, <1>6 DEF IInv

LEMMA MarkFailedSafe ==
    ASSUME IInv, MarkFailed
    PROVE  IInv'
<1> DEFINE m == [status |-> "FAILED", stage |-> stage]
<1>0. TypeOK /\ History /\ Stations /\ Progress /\ Ending /\ BrowsersAccounted
    BY DEF IInv, MarkFailed, Running
<1>1. /\ m \in Manifests /\ m.stage = stage /\ m.status = "FAILED"
      /\ stage \in Stages /\ memory.stage \in Stages
    BY <1>0 DEF Manifests, TypeOK
<1>2. Consistent([Directory EXCEPT !.manifest = m])
  <2> HIDE DEF m
  <2> QED BY <1>0, <1>1, ManifestConsistent DEF Progress, Stages
<1>3. /\ versions' \in Seq(Directories) /\ versions' # <<>>
      /\ Directory'.manifest = m /\ memory' = m
      /\ Directory'.files = Directory.files
      /\ History'
      /\ temporary' = "none"
    BY <1>0, <1>1, <1>2, ManifestWritten DEF MarkFailed
<1> HIDE DEF m
<1>4. TypeOK'
    BY <1>0, <1>1, <1>3 DEF MarkFailed, TypeOK, session, ended, Writes, Holding
<1>5. Stations' /\ Progress' /\ Ending'
    BY <1>0, <1>1, <1>3
    DEF MarkFailed, Running, Stations, Progress, Ending, Late, Stages, Holding, session,
        ended, ContextSources
<1>6. BrowsersAccounted'
    BY <1>0 DEF MarkFailed, BrowsersAccounted, Holding, session, ended
<1> QED BY <1>3, <1>4, <1>5, <1>6 DEF IInv

LEMMA SaveSnapshotSafe ==
    ASSUME IInv, SaveSnapshot
    PROVE  IInv'
<1> DEFINE d == [Directory EXCEPT !.files[stage] = product]
<1>0. TypeOK /\ History /\ Stations /\ Progress /\ Ending /\ BrowsersAccounted
    BY DEF IInv, SaveSnapshot, Running
<1>1. Directory \in Directories /\ Directory.synced /\ stage \in Stages /\ product \in Snapshots
    BY <1>0, DirectoryType DEF History, Directory, TypeOK
<1>2. /\ d \in Directories /\ d.manifest = memory /\ d.synced = Directory.synced
      /\ d.files[stage] = product
      /\ \A s \in Stages : s # stage => d.files[s] = Directory.files[s]
    BY <1>0, <1>1 DEF Directories, Progress
<1>3. /\ memory.stage = stage /\ memory.status = "RUNNING"
      /\ stage # INITIALIZATION /\ product # "absent"
    BY <1>0 DEF SaveSnapshot, Progress, Ending, Stations, ContextSources
<1>4. Rename(d)
    BY DEF SaveSnapshot
<1> HIDE DEF d
<1>5. Consistent(d)
    BY <1>0, <1>1, <1>2, <1>3 DEF Consistent, Progress, Stages
<1>6. /\ versions' \in Seq(Directories) /\ versions' # <<>>
      /\ Directory' = d /\ History' /\ temporary' = "none"
    BY <1>0, <1>1, <1>2, <1>4, <1>5, RenameAdds
<1>7. TypeOK'
  <2>1. pc' \in Writes /\ stage' \in Stages
    BY <1>1 DEF SaveSnapshot, AfterSave, Writes, Stages
  <2> QED BY <2>1, <1>0, <1>6 DEF SaveSnapshot, TypeOK, session, ended
<1>8. Stations'
    BY <1>0, <1>1, <1>3
    DEF SaveSnapshot, AfterSave, Stations, Stages, Holding, session, ended, ContextSources
<1>9. Progress'
  <2>1. /\ product \in (IF stage = CRM_CONTEXT THEN ContextSources
                         ELSE IF stage = LOAD THEN {"success", "incomplete"} ELSE {"whole"})
        /\ loadEnabled' = loadEnabled /\ memory' = memory
        /\ stage = LOAD => loadEnabled
    BY <1>0 DEF Stations, SaveSnapshot
  <2>2. CASE stage = LOAD
    BY <2>1, <2>2, <1>0, <1>1, <1>2, <1>3, <1>6
    DEF SaveSnapshot, AfterSave, Progress, Late, Stages, ContextSources
  <2>3. CASE stage = TRANSFORM
    BY <2>1, <2>3, <1>0, <1>1, <1>2, <1>3, <1>6
    DEF SaveSnapshot, AfterSave, Progress, Late, Stages, ContextSources
  <2>4. CASE stage \in {CRM_CONTEXT, EXTRACT}
    BY <2>1, <2>4, <1>0, <1>1, <1>2, <1>3, <1>6
    DEF SaveSnapshot, AfterSave, Progress, Late, Stages, ContextSources
  <2> QED BY <2>2, <2>3, <2>4, <1>1, <1>3 DEF Stages
<1>10. Ending'
    BY <1>0, <1>3 DEF SaveSnapshot, AfterSave, Running, Ending, ended
<1>11. BrowsersAccounted'
    BY <1>0 DEF SaveSnapshot, AfterSave, BrowsersAccounted, Holding, session, ended
<1> QED BY <1>6, <1>7, <1>8, <1>9, <1>10, <1>11 DEF IInv

(* What is left after a loss of power is an earlier version.               *)
LEMMA PowerLossSafe ==
    ASSUME IInv, PowerLoss
    PROVE  IInv'
<1>0. TypeOK /\ History /\ outcome' = "lost"
    BY DEF IInv, PowerLoss
<1>1. PICK kept \in 1..Len(versions) : versions' = SubSeq(versions, 1, kept)
    BY DEF PowerLoss
<1>2. versions \in Seq(Directories) /\ Len(versions) \in Nat
    BY <1>0 DEF TypeOK
<1>3. /\ versions' \in Seq(Directories) /\ Len(versions') = kept
      /\ \A k \in 1..kept : versions'[k] = versions[k]
    BY <1>1, <1>2
<1>4. versions' # <<>>
    BY <1>1, <1>2, <1>3
<1>5. History'
    BY <1>0, <1>1, <1>2, <1>3 DEF History, Consistent
<1>6. TypeOK'
    BY <1>0, <1>3, <1>4 DEF PowerLoss, TypeOK, session
<1> QED BY <1>0, <1>5, <1>6 DEF IInv, BrowsersAccounted
-----------------------------------------------------------------------------
LEMMA StepPreserves ==
    ASSUME IInv, [Next]_vars
    PROVE  IInv'
<1>1. CASE Quiet
  <2>1. TypeOK /\ History /\ Stations /\ Progress /\ Ending /\ BrowsersAccounted
    BY <1>1, QuietFrame DEF IInv
  <2>2. TypeOK' /\ BrowsersAccounted' /\ Stations' /\ Progress' /\ Ending'
    BY <1>1, <2>1, QuietType, QuietSession, QuietPlace
  <2>3. History'
    BY <1>1, <2>1, QuietFrame DEF History, Consistent
  <2> QED BY <2>2, <2>3 DEF IInv
<1>2. CASE Start \/ MarkStage \/ MarkCompleted \/ MarkFailed \/ SaveSnapshot \/ PowerLoss
    BY <1>2, StartSafe, MarkStageSafe, MarkCompletedSafe, MarkFailedSafe, SaveSnapshotSafe,
        PowerLossSafe
<1>3. CASE UNCHANGED vars
    BY <1>3 DEF vars, artifacts, session, ended, IInv, TypeOK, History, Consistent, Stations,
        Progress, Ending, BrowsersAccounted, Directory, ContextSources
<1> QED BY <1>1, <1>2, <1>3 DEF Next, Step, Write, Quiet

(* The invariant holds of every run.                                       *)
THEOREM Invariance == Spec => []IInv
<1>1. Init => IInv
    BY InitEstablishes
<1>2. IInv /\ [Next]_vars => IInv'
    BY StepPreserves
<1> QED BY <1>1, <1>2, PTL DEF Spec

(* Types: attempts and launches never pass the settings' maxima.           *)
THEOREM TypeCorrect == Spec => []TypeOK
<1>1. IInv => TypeOK
    BY DEF IInv
<1> QED BY <1>1, Invariance, PTL

(* Every file a reader can find is whole, also after a loss of power.      *)
THEOREM FilesWhole == Spec => []FilesAreWhole
<1>1. IInv => FilesAreWhole
    BY DirectoryType DEF IInv, History, Directory, FilesAreWhole
<1> QED BY <1>1, Invariance, PTL

(* The record is consistent wherever the run is cut off.                   *)
THEOREM RecordConsistent == Spec => []RecordIsConsistent
<1>1. IInv => RecordIsConsistent
    BY DirectoryType DEF IInv, History, Directory, RecordIsConsistent
<1> QED BY <1>1, Invariance, PTL

(* The run directory can be read and believed: both of the above.          *)
THEOREM RecordSound == Spec => []RecordIsSound
<1>1. FilesAreWhole /\ RecordIsConsistent => RecordIsSound
    BY DEF RecordIsSound
<1> QED BY <1>1, FilesWhole, RecordConsistent, PTL

(* Load writes to the CRM only on a fresh, saved context and a saved plan. *)
THEOREM CrmOnRecord == Spec => []CrmWrittenOnRecord
<1>1. ASSUME IInv, crm = "touched", outcome # "lost"
      PROVE  /\ loadEnabled
             /\ Directory.manifest.stage = LOAD
             /\ Directory.files[CRM_CONTEXT] = "api"
             /\ Directory.files[EXTRACT] = "whole" /\ Directory.files[TRANSFORM] = "whole"
  <2>1. /\ stage = 4 /\ memory.stage = 4 /\ loadEnabled
        /\ Progress
    BY <1>1 DEF IInv, Stations
  <2> QED BY <2>1 DEF Progress, ContextSources
<1>2. IInv => CrmWrittenOnRecord
    BY <1>1 DEF CrmWrittenOnRecord
<1> QED BY <1>2, Invariance, PTL

(* The manifest tells how the run has ended.                               *)
THEOREM EndTold == Spec => []EndIsTold
<1>1. ASSUME IInv PROVE EndIsTold
  <2>1. CASE outcome = "lost"
    BY <2>1 DEF EndIsTold
  <2>2. CASE outcome # "lost"
    <3>1. /\ Ending /\ Directory.manifest = memory /\ memory \in Manifests
          /\ Progress /\ outcome \in {"running", "returned", "raised", "interrupted", "killed"}
      BY <1>1, <2>2 DEF IInv, Progress, TypeOK
    <3>2. memory.status = "FAILED" /\ memory.stage = stage => memory = Failure
      BY <3>1 DEF Manifests, Failure
    <3>3. pc = "return" => memory = Success
      BY <3>1 DEF Progress, Ending, Manifests, Success
    <3> QED BY <3>1, <3>2, <3>3 DEF EndIsTold, Ending
  <2> QED BY <2>1, <2>2
<1>2. IInv => EndIsTold
    BY <1>1
<1> QED BY <1>2, Invariance, PTL

(* No browser is left running but those whose quit raised.                 *)
THEOREM NoBrowserForgotten == Spec => []BrowsersAccounted
<1>1. IInv => BrowsersAccounted
    BY DEF IInv
<1> QED BY <1>1, Invariance, PTL

(* The manifest only moves forward, and snapshots stay.                    *)
THEOREM RecordOnlyGrows == Spec => RecordGrows
<1> DEFINE Grows == outcome' # "lost" =>
        LET old == Directory  new == Directory' IN
        /\ old.manifest.stage <= new.manifest.stage
        /\ old.manifest.status \in {"COMPLETED", "FAILED"} => new.manifest = old.manifest
        /\ old.manifest.status = "RUNNING" => new.manifest.status # "NONE"
        /\ \A s \in Stages : old.files[s] # "absent" => new.files[s] = old.files[s]
<1>1. ASSUME IInv, [Next]_vars PROVE Grows \/ UNCHANGED vars
  <2>1. Directory \in Directories /\ Directory.manifest.stage \in Stages
    BY <1>1, DirectoryType DEF IInv, Directories, Manifests
  <2>2. CASE Directory' = Directory
    BY <2>1, <2>2 DEF Stages, Directories, Manifests
  <2>3. CASE Quiet \/ UNCHANGED vars
    BY <2>2, <2>3, QuietFrame DEF Directory, vars, artifacts
  <2>4. CASE PowerLoss
    BY <2>4 DEF PowerLoss
  <2>5. ASSUME Running, pc \in Writes
        PROVE  /\ memory = Directory.manifest /\ memory \in Manifests
               /\ memory.status \in {"NONE", "RUNNING"}
               /\ memory.stage <= stage /\ stage \in Stages
               /\ Directory.synced
    BY <1>1, <2>5, DirectoryType
    DEF IInv, Running, Progress, Ending, TypeOK, History, Directory, Writes
  <2>6. ASSUME Running, pc \in Writes, NEW m \in Manifests, UpdateManifest(m),
               memory.stage <= m.stage, m.status # "NONE"
        PROVE  Grows
    <3> DEFINE d == [Directory EXCEPT !.manifest = m]
    <3>1. d \in Directories /\ d.synced /\ d.manifest = m /\ d.files = Directory.files
      BY <2>1, <2>5, <2>6 DEF Directories
    <3>2. Rename(d)
      BY <2>6 DEF UpdateManifest
    <3> HIDE DEF d
    <3>3. Directory' = d
      BY <1>1, <3>1, <3>2, RenameAppends DEF IInv
    <3> QED BY <2>5, <2>6, <3>1, <3>3
  <2>7. CASE Start
    <3>1. [status |-> "RUNNING", stage |-> INITIALIZATION] \in Manifests
      BY DEF Manifests, Stages
    <3>2. stage = 0 /\ memory.stage = 0
      BY <1>1, <2>5, <2>7, <2>1 DEF Start, IInv, Running, Stations, Progress, Stages, Writes
    <3> QED BY <2>6, <2>7, <3>1, <3>2 DEF Start, Writes
  <2>8. CASE MarkStage
    <3> DEFINE m == [memory EXCEPT !.stage = stage]
    <3>1. m \in Manifests /\ m.stage = stage /\ m.status = memory.status
      BY <2>5, <2>8 DEF MarkStage, Manifests, Writes
    <3>2. memory.status = "RUNNING" /\ Running /\ pc \in Writes /\ UpdateManifest(m)
      BY <1>1, <2>8 DEF MarkStage, IInv, Running, Ending, Writes
    <3> HIDE DEF m
    <3> QED BY <2>5, <2>6, <3>1, <3>2
  <2>9. CASE MarkCompleted
    <3> DEFINE m == [memory EXCEPT !.status = "COMPLETED"]
    <3>1. m \in Manifests /\ m.stage = memory.stage /\ m.status = "COMPLETED"
      BY <2>5, <2>9 DEF MarkCompleted, Manifests, Writes
    <3>2. Running /\ pc \in Writes /\ UpdateManifest(m)
      BY <2>9 DEF MarkCompleted, Writes
    <3>3. memory.stage <= m.stage
      BY <2>1, <2>5, <3>1, <3>2 DEF Stages
    <3> HIDE DEF m
    <3> QED BY <2>6, <3>1, <3>2, <3>3
  <2>10. CASE MarkFailed
    <3> DEFINE m == [status |-> "FAILED", stage |-> stage]
    <3>1. Running /\ pc \in Writes /\ UpdateManifest(m)
      BY <2>10 DEF MarkFailed, Writes
    <3>2. m \in Manifests /\ m.stage = stage /\ m.status = "FAILED"
      BY <2>5, <3>1 DEF Manifests
    <3> HIDE DEF m
    <3> QED BY <2>5, <2>6, <3>1, <3>2
  <2>11. CASE SaveSnapshot
    <3> DEFINE d == [Directory EXCEPT !.files[stage] = product]
    <3>1. Running /\ pc \in Writes /\ Rename(d) /\ product \in Snapshots
      BY <1>1, <2>11 DEF SaveSnapshot, IInv, TypeOK, Writes
    <3>2. /\ d \in Directories /\ d.synced /\ d.manifest = Directory.manifest
          /\ \A s \in Stages : s # stage => d.files[s] = Directory.files[s]
      BY <2>1, <2>5, <3>1 DEF Directories
    <3>3. Directory.files[stage] = "absent"
      BY <1>1, <2>5, <2>11, <3>1
      DEF SaveSnapshot, IInv, Running, Stations, Progress, Late, Stages
    <3> HIDE DEF d
    <3>4. Directory' = d
      BY <1>1, <3>1, <3>2, RenameAppends DEF IInv
    <3> QED BY <2>1, <2>5, <3>1, <3>2, <3>3, <3>4 DEF Stages
  <2> QED BY <1>1, <2>3, <2>4, <2>7, <2>8, <2>9, <2>10, <2>11
          DEF Next, Step, Write, Quiet
<1>2. IInv /\ [Next]_vars => [Grows]_vars
    BY <1>1
<1> QED BY <1>2, Invariance, PTL DEF Spec, RecordGrows
=============================================================================
