-------------------------- MODULE RoleUpdateProofs --------------------------
(***************************************************************************)
(* For every set of roles, versions and manifests, any number of commands  *)
(* and a death of the updater before any of its durable writes: completed  *)
(* transactions agree with the links, the links name complete versions,    *)
(* switches respect the floor, the accepted state only advances and no     *)
(* unfinished record is lost.                                              *)
(***************************************************************************)
EXTENDS RoleUpdate, TLAPS

USE RankAssumption, ManifestAssumption, NoneAssumption, CountAssumption

-----------------------------------------------------------------------------
(* The inductive invariant, in parts.                                      *)

\* Phases before and after the durable intent of an update is written.
Staging == {"prepare", "binary", "metadata", "archive", "record"}
Activating == {"activate", "retain", "switch", "pending", "restart", "probe",
               "unready", "fallback"}

\* A registration works on a role without a transaction and never moves a link
\* that is set; what it links is staged and at or above the floor.
RegistrationInv ==
    /\ pc = "link" => job.kind = "register"
    /\ pc \in {"binary", "metadata", "link"} /\ job.kind = "register" =>
         /\ journal[job.role] = None
         /\ current[job.role] \in {None, Version[job.man]}
         /\ floor # None /\ Rank[Version[job.man]] >= Rank[floor]

\* A command that stages an update found the role's last transaction complete,
\* or failed and about to be superseded, and moves the role forward only.
StagingInv ==
    /\ pc \in {"prepare", "archive", "record"} => job.kind \in {"apply", "repair"}
    /\ pc \in {"binary", "metadata"} => job.kind # "resume"
    /\ pc \in Staging /\ job.kind # "register" =>
         /\ current[job.role] # None
         /\ Rank[Version[job.man]] >= Rank[current[job.role]]
    /\ pc \in Staging /\ job.kind = "apply" =>
         (journal[job.role] # None => Terminal(journal[job.role]))
    /\ pc \in Staging /\ job.kind = "repair" =>
         journal[job.role] # None /\ journal[job.role].stage = "recovery_required"
    /\ pc = "archive" => job.kind = "repair"
    /\ pc = "record" /\ job.kind = "repair" => archive[job.role] = journal[job.role]

\* Bytes before metadata, both before a link.
StagedInv ==
    /\ pc \in {"metadata", "link"} => binary[Version[job.man]] # None
    /\ pc = "link" => metadata[Version[job.man]] # None

\* Every record names the version the role had and one that is not older, its
\* role is linked to one of the two, and Control never goes back.
RecordInv ==
    \A r \in Roles : journal[r] # None =>
        /\ current[r] \in {journal[r].prev, Version[journal[r].man]}
        /\ Rank[Version[journal[r].man]] >= Rank[journal[r].prev]
        /\ r = Control => journal[r].dir = "install"

\* While a transaction runs its record is not terminal, and the links follow it
\* in the order of its phases.
ActivationInv ==
    /\ pc \in Activating =>
         journal[job.role] # None /\ ~Terminal(journal[job.role])
    /\ pc \in {"retain", "switch"} => Installed(Selected(journal[job.role]))
    /\ pc \in {"switch", "pending", "restart", "probe"} =>
         previous[job.role] = Retained(journal[job.role])
    /\ pc \in {"pending", "restart", "probe"} =>
         current[job.role] = Selected(journal[job.role])

UpdateInv ==
    /\ TypeOK
    /\ RegistrationInv /\ StagingInv /\ StagedInv
    /\ RecordInv /\ ActivationInv
    /\ OutcomeMatchesLinks /\ CurrentIsInstalled

-----------------------------------------------------------------------------
(* Facts about the record of a role.                                       *)

\* A change of stage touches nothing else, in the record or in another role.
LEMMA StageOnly ==
    ASSUME TypeOK, pc # "idle", journal[job.role] # None, NEW st \in Stages, SetStage(st)
    PROVE  /\ journal'[job.role] = [journal[job.role] EXCEPT !.stage = st]
           /\ journal'[job.role] \in Record
           /\ \A r \in Roles : r # job.role => journal'[r] = journal[r]
<1>1. job.role \in Roles /\ journal[job.role] \in Record
  BY DEF TypeOK, Job
<1> QED BY <1>1 DEF SetStage, TypeOK, Record

-----------------------------------------------------------------------------
(* Every step keeps every part.                                            *)

\* Every step keeps the files, links and records in their shapes.
LEMMA TypeStep == UpdateInv /\ [Next]_vars => TypeOK'
<1> SUFFICES ASSUME UpdateInv, [Next]_vars PROVE TypeOK'
  OBVIOUS
<1>1. CASE Prepare
  BY <1>1 DEF Prepare, Finish, files, TypeOK, Phases, UpdateInv
<1>2. CASE StageBinary
  BY <1>2 DEF StageBinary, Finish, TypeOK, Phases, Job, UpdateInv, StagedInv
<1>3. CASE StageMetadata
  BY <1>3 DEF StageMetadata, TypeOK, Phases, Job, UpdateInv
<1>4. CASE Link
  BY <1>4 DEF Link, Finish, TypeOK, Phases, Job, UpdateInv
<1>5. CASE Archive
  BY <1>5 DEF Archive, TypeOK, Phases, Job, UpdateInv
<1>6. CASE SaveRecord
  BY <1>6 DEF SaveRecord, TypeOK, Record, Phases, Job, Stages, UpdateInv, StagingInv, Staging
<1>7. CASE Activate
  BY <1>7 DEF Activate, SetStage, Finish, TypeOK, Record, Phases, Stages, UpdateInv,
     ActivationInv, Activating
<1>8. CASE RetainPrevious
  BY <1>8 DEF RetainPrevious, Retained, TypeOK, Record, Phases, Job, UpdateInv, ActivationInv,
     Activating
<1>9. CASE SwitchCurrent
  BY <1>9 DEF SwitchCurrent, Selected, TypeOK, Record, Phases, Job, UpdateInv, ActivationInv,
     Activating
<1>10. CASE MarkRestartPending
  BY <1>10 DEF MarkRestartPending, SetStage, TypeOK, Record, Phases, Job, Stages, UpdateInv,
     ActivationInv, Activating
<1>11. CASE RestartRole
  BY <1>11 DEF RestartRole, files, TypeOK, Phases, UpdateInv, Terminal
<1>12. CASE Ready
  BY <1>12 DEF Ready, SetStage, Finish, TypeOK, Record, Phases, Job, Stages, UpdateInv,
     ActivationInv, Activating, Terminal
<1>13. CASE NotReady
  BY <1>13 DEF NotReady, SetStage, Finish, TypeOK, Record, Phases, Job, Stages, UpdateInv,
     RegistrationInv, ActivationInv, Activating, Retained
<1>14. CASE Fallback
  BY <1>14 DEF Fallback, RequestRollback, Finish, TypeOK, Record, Phases, Job, UpdateInv,
     ActivationInv, Staging, Activating
<1>15. CASE Crash
  BY <1>15 DEF Crash, Finish, files, TypeOK, Phases, UpdateInv
<1>16. ASSUME NEW r \in Roles, NEW m \in Manifests, Register(r, m) PROVE TypeOK'
  BY <1>16 DEF Register, AcceptManifest, Begin, TypeOK, Phases, Job, UpdateInv
<1>17. ASSUME NEW r \in Roles, NEW m \in Manifests, NEW q \in Requests, Apply(r, m, q) PROVE TypeOK'
  BY <1>17 DEF Apply, AcceptManifest, Begin, TypeOK, Phases, Job, UpdateInv
<1>18. ASSUME NEW r \in Roles, NEW m \in Manifests, NEW q \in Requests, Repair(r, m, q)
       PROVE  TypeOK'
  BY <1>18 DEF Repair, AcceptManifest, Begin, TypeOK, Phases, Job, UpdateInv
<1>19. ASSUME NEW r \in Roles, Recover(r) PROVE TypeOK'
  BY <1>19 DEF Recover, Begin, files, TypeOK, Record, Phases, Job, UpdateInv
<1>20. ASSUME NEW r \in Roles, Rollback(r) PROVE TypeOK'
  BY <1>20 DEF Rollback, Terminal, RequestRollback, TypeOK, Record, UpdateInv
<1>21. ASSUME NEW r \in Roles, ServiceStart(r) PROVE TypeOK'
  BY <1>21 DEF ServiceStart, files, TypeOK, UpdateInv
<1>22. CASE UNCHANGED vars
  BY <1>22 DEF vars, files, UpdateInv, TypeOK, files
<1>23. CASE ActivationFails
  <2>1. /\ pc # "idle" /\ job.role \in Roles /\ journal[job.role] # None
        /\ SetStage("recovery_required")
    BY <1>23 DEF ActivationFails, UpdateInv, ActivationInv, Activating, TypeOK, Job
  <2>2. journal'[job.role] \in Record /\ \A r \in Roles : r # job.role => journal'[r] = journal[r]
    BY <2>1, StageOnly DEF UpdateInv, Stages
  <2>3. journal' \in [Roles -> Record \union {None}]
    BY <2>1, <2>2 DEF SetStage, UpdateInv, TypeOK
  <2> QED BY <1>23, <2>3 DEF ActivationFails, Finish, TypeOK, Phases, UpdateInv
<1> QED BY <1>1, <1>2, <1>3, <1>4, <1>5, <1>6, <1>7, <1>8, <1>9, <1>10, <1>11, <1>12, <1>13,
   <1>14, <1>15, <1>16, <1>17, <1>18, <1>19, <1>20, <1>21, <1>22,
   <1>23 DEF Next, Command, Updater

\* A registration in progress is not disturbed, and its floor does not move.
LEMMA RegistrationStep == UpdateInv /\ [Next]_vars => RegistrationInv'
<1> SUFFICES ASSUME UpdateInv, [Next]_vars PROVE RegistrationInv'
  OBVIOUS
<1>1. CASE Prepare
  BY <1>1 DEF Prepare, Finish, RegistrationInv, UpdateInv, StagingInv
<1>2. CASE StageBinary
  BY <1>2 DEF StageBinary, Finish, RegistrationInv, UpdateInv
<1>3. CASE StageMetadata
  BY <1>3 DEF StageMetadata, RegistrationInv, UpdateInv
<1>4. CASE Link
  BY <1>4 DEF Link, Finish, RegistrationInv
<1>5. CASE Archive
  BY <1>5 DEF Archive, RegistrationInv
<1>6. CASE SaveRecord
  BY <1>6 DEF SaveRecord, RegistrationInv
<1>7. CASE Activate
  BY <1>7 DEF Activate, Finish, RegistrationInv
<1>8. CASE RetainPrevious
  BY <1>8 DEF RetainPrevious, RegistrationInv
<1>9. CASE SwitchCurrent
  BY <1>9 DEF SwitchCurrent, RegistrationInv
<1>10. CASE MarkRestartPending
  BY <1>10 DEF MarkRestartPending, RegistrationInv
<1>11. CASE RestartRole
  BY <1>11 DEF RestartRole, RegistrationInv
<1>12. CASE Ready
  BY <1>12 DEF Ready, Finish, RegistrationInv
<1>13. CASE NotReady
  BY <1>13 DEF NotReady, Finish, RegistrationInv
<1>14. CASE Fallback
  BY <1>14 DEF Fallback, Finish, RegistrationInv
<1>15. CASE Crash
  BY <1>15 DEF Crash, Finish, RegistrationInv
<1>16. ASSUME NEW r \in Roles, NEW m \in Manifests, Register(r, m) PROVE RegistrationInv'
  BY <1>16 DEF Register, Acceptable, AcceptManifest, Begin, RegistrationInv, UpdateInv, TypeOK
<1>17. ASSUME NEW r \in Roles, NEW m \in Manifests, NEW q \in Requests, Apply(r, m, q)
       PROVE  RegistrationInv'
  BY <1>17 DEF Apply, Begin, RegistrationInv
<1>18. ASSUME NEW r \in Roles, NEW m \in Manifests, NEW q \in Requests, Repair(r, m, q)
       PROVE  RegistrationInv'
  BY <1>18 DEF Repair, Begin, RegistrationInv
<1>19. ASSUME NEW r \in Roles, Recover(r) PROVE RegistrationInv'
  BY <1>19 DEF Recover, Begin, RegistrationInv
<1>20. ASSUME NEW r \in Roles, Rollback(r) PROVE RegistrationInv'
  BY <1>20 DEF Rollback, Begin, RegistrationInv
<1>21. ASSUME NEW r \in Roles, ServiceStart(r) PROVE RegistrationInv'
  BY <1>21 DEF ServiceStart, files, RegistrationInv, UpdateInv
<1>22. CASE UNCHANGED vars
  BY <1>22 DEF vars, files, UpdateInv, RegistrationInv, Job, files
<1>23. CASE ActivationFails
  BY <1>23 DEF ActivationFails, Finish, RegistrationInv
<1> QED BY <1>1, <1>2, <1>3, <1>4, <1>5, <1>6, <1>7, <1>8, <1>9, <1>10, <1>11, <1>12, <1>13,
   <1>14, <1>15, <1>16, <1>17, <1>18, <1>19, <1>20, <1>21, <1>22,
   <1>23 DEF Next, Command, Updater

\* What a staging command found stays as it found it: it holds the lock.
LEMMA StagingStep == UpdateInv /\ [Next]_vars => StagingInv'
<1> SUFFICES ASSUME UpdateInv, [Next]_vars PROVE StagingInv'
  OBVIOUS
<1>1. CASE Prepare
  BY <1>1 DEF Prepare, Finish, files, StagingInv, Staging, UpdateInv
<1>2. CASE StageBinary
  BY <1>2 DEF StageBinary, Finish, StagingInv, Staging, UpdateInv
<1>3. CASE StageMetadata
  BY <1>3 DEF StageMetadata, StagingInv, Staging, UpdateInv, TypeOK, Job
<1>4. CASE Link
  BY <1>4 DEF Link, Finish, StagingInv, Staging
<1>5. CASE Archive
  BY <1>5 DEF Archive, StagingInv, Staging, UpdateInv, TypeOK, Job
<1>6. CASE SaveRecord
  BY <1>6 DEF SaveRecord, StagingInv, Staging
<1>7. CASE Activate
  BY <1>7 DEF Activate, Finish, StagingInv, Staging
<1>8. CASE RetainPrevious
  BY <1>8 DEF RetainPrevious, StagingInv, Staging
<1>9. CASE SwitchCurrent
  BY <1>9 DEF SwitchCurrent, StagingInv, Staging
<1>10. CASE MarkRestartPending
  BY <1>10 DEF MarkRestartPending, StagingInv, Staging
<1>11. CASE RestartRole
  BY <1>11 DEF RestartRole, StagingInv, Staging
<1>12. CASE Ready
  BY <1>12 DEF Ready, Finish, StagingInv, Staging
<1>13. CASE NotReady
  BY <1>13 DEF NotReady, Finish, StagingInv, Staging
<1>14. CASE Fallback
  BY <1>14 DEF Fallback, Finish, StagingInv, Staging
<1>15. CASE Crash
  BY <1>15 DEF Crash, Finish, StagingInv, Staging
<1>16. ASSUME NEW r \in Roles, NEW m \in Manifests, Register(r, m) PROVE StagingInv'
  BY <1>16 DEF Register, Begin, StagingInv
<1>17. ASSUME NEW r \in Roles, NEW m \in Manifests, NEW q \in Requests, Apply(r, m, q)
       PROVE  StagingInv'
  BY <1>17 DEF Apply, Acceptable, Begin, ValidCandidate, StagingInv
<1>18. ASSUME NEW r \in Roles, NEW m \in Manifests, NEW q \in Requests, Repair(r, m, q)
       PROVE  StagingInv'
  BY <1>18 DEF Repair, Acceptable, Begin, ValidCandidate, StagingInv
<1>19. ASSUME NEW r \in Roles, Recover(r) PROVE StagingInv'
  BY <1>19 DEF Recover, Begin, StagingInv, Staging
<1>20. ASSUME NEW r \in Roles, Rollback(r) PROVE StagingInv'
  BY <1>20 DEF Rollback, Begin, StagingInv, Staging
<1>21. ASSUME NEW r \in Roles, ServiceStart(r) PROVE StagingInv'
  BY <1>21 DEF ServiceStart, files, StagingInv, UpdateInv
<1>22. CASE UNCHANGED vars
  BY <1>22 DEF vars, files, UpdateInv, StagingInv, files
<1>23. CASE ActivationFails
  BY <1>23 DEF ActivationFails, Finish, StagingInv, Staging
<1> QED BY <1>1, <1>2, <1>3, <1>4, <1>5, <1>6, <1>7, <1>8, <1>9, <1>10, <1>11, <1>12, <1>13,
   <1>14, <1>15, <1>16, <1>17, <1>18, <1>19, <1>20, <1>21, <1>22,
   <1>23 DEF Next, Command, Updater

\* Bytes come before metadata and are never removed.
LEMMA StagedStep == UpdateInv /\ [Next]_vars => StagedInv'
<1> SUFFICES ASSUME UpdateInv, [Next]_vars PROVE StagedInv'
  OBVIOUS
<1>1. CASE Prepare
  BY <1>1 DEF Prepare, Finish, StagedInv
<1>2. CASE StageBinary
  BY <1>2 DEF StageBinary, Finish, StagedInv, UpdateInv, TypeOK, Job
<1>3. CASE StageMetadata
  BY <1>3 DEF StageMetadata, StagedInv, UpdateInv, TypeOK, Job
<1>4. CASE Link
  BY <1>4 DEF Link, Finish, StagedInv
<1>5. CASE Archive
  BY <1>5 DEF Archive, StagedInv
<1>6. CASE SaveRecord
  BY <1>6 DEF SaveRecord, StagedInv
<1>7. CASE Activate
  BY <1>7 DEF Activate, Finish, StagedInv
<1>8. CASE RetainPrevious
  BY <1>8 DEF RetainPrevious, StagedInv
<1>9. CASE SwitchCurrent
  BY <1>9 DEF SwitchCurrent, StagedInv
<1>10. CASE MarkRestartPending
  BY <1>10 DEF MarkRestartPending, StagedInv
<1>11. CASE RestartRole
  BY <1>11 DEF RestartRole, StagedInv
<1>12. CASE Ready
  BY <1>12 DEF Ready, Finish, StagedInv
<1>13. CASE NotReady
  BY <1>13 DEF NotReady, Finish, StagedInv
<1>14. CASE Fallback
  BY <1>14 DEF Fallback, Finish, StagedInv
<1>15. CASE Crash
  BY <1>15 DEF Crash, Finish, StagedInv
<1>16. ASSUME NEW r \in Roles, NEW m \in Manifests, Register(r, m) PROVE StagedInv'
  BY <1>16 DEF Register, Begin, StagedInv
<1>17. ASSUME NEW r \in Roles, NEW m \in Manifests, NEW q \in Requests, Apply(r, m, q)
       PROVE  StagedInv'
  BY <1>17 DEF Apply, Begin, StagedInv
<1>18. ASSUME NEW r \in Roles, NEW m \in Manifests, NEW q \in Requests, Repair(r, m, q)
       PROVE  StagedInv'
  BY <1>18 DEF Repair, Begin, StagedInv
<1>19. ASSUME NEW r \in Roles, Recover(r) PROVE StagedInv'
  BY <1>19 DEF Recover, Begin, StagedInv
<1>20. ASSUME NEW r \in Roles, Rollback(r) PROVE StagedInv'
  BY <1>20 DEF Rollback, Begin, StagedInv
<1>21. ASSUME NEW r \in Roles, ServiceStart(r) PROVE StagedInv'
  BY <1>21 DEF ServiceStart, files, StagedInv, UpdateInv
<1>22. CASE UNCHANGED vars
  BY <1>22 DEF vars, files, UpdateInv, StagedInv, Job, files
<1>23. CASE ActivationFails
  BY <1>23 DEF ActivationFails, Finish, StagedInv
<1> QED BY <1>1, <1>2, <1>3, <1>4, <1>5, <1>6, <1>7, <1>8, <1>9, <1>10, <1>11, <1>12, <1>13,
   <1>14, <1>15, <1>16, <1>17, <1>18, <1>19, <1>20, <1>21, <1>22,
   <1>23 DEF Next, Command, Updater

\* Links and records change together with the command that owns the role.
LEMMA RecordStep == UpdateInv /\ [Next]_vars => RecordInv'
<1> SUFFICES ASSUME UpdateInv, [Next]_vars PROVE RecordInv'
  OBVIOUS
<1>1. CASE Prepare
  BY <1>1 DEF Prepare, files, RecordInv, UpdateInv
<1>2. CASE StageBinary
  BY <1>2 DEF StageBinary, RecordInv, UpdateInv
<1>3. CASE StageMetadata
  BY <1>3 DEF StageMetadata, RecordInv, UpdateInv
<1>4. CASE Link
  BY <1>4 DEF Link, RecordInv, UpdateInv, RegistrationInv
<1>5. CASE Archive
  BY <1>5 DEF Archive, RecordInv, UpdateInv
<1>6. CASE SaveRecord
  BY <1>6 DEF SaveRecord, RecordInv, UpdateInv, StagingInv, Staging
<1>7. CASE Activate
  BY <1>7 DEF Activate, SetStage, RecordInv, UpdateInv, TypeOK, ActivationInv,
     CurrentIsInstalled, Activating, Record
<1>8. CASE RetainPrevious
  BY <1>8 DEF RetainPrevious, RecordInv, UpdateInv
<1>9. CASE SwitchCurrent
  BY <1>9 DEF SwitchCurrent, Selected, RecordInv, UpdateInv
<1>10. CASE MarkRestartPending
  <2>1. \E st \in Stages : SetStage(st)
    BY <1>10 DEF MarkRestartPending, Stages
  <2>2. pc # "idle" /\ journal[job.role] # None
    BY <1>10 DEF MarkRestartPending, UpdateInv, ActivationInv, Activating
  <2>3. /\ journal'[job.role] \in Record
        /\ \E st \in Stages : journal'[job.role] = [journal[job.role] EXCEPT !.stage = st]
        /\ \A r \in Roles : r # job.role => journal'[r] = journal[r]
    BY <2>1, <2>2, StageOnly DEF UpdateInv
  <2> QED BY <1>10, <2>2, <2>3 DEF MarkRestartPending, RecordInv, UpdateInv, TypeOK,
     OutcomeMatchesLinks, Record, files
<1>11. CASE RestartRole
  BY <1>11 DEF RestartRole, files, RecordInv, UpdateInv
<1>12. CASE Ready
  <2>1. \E st \in Stages : SetStage(st)
    BY <1>12 DEF Ready, Stages
  <2>2. pc # "idle" /\ journal[job.role] # None
    BY <1>12 DEF Ready, UpdateInv, ActivationInv, Activating
  <2>3. /\ journal'[job.role] \in Record
        /\ \E st \in Stages : journal'[job.role] = [journal[job.role] EXCEPT !.stage = st]
        /\ \A r \in Roles : r # job.role => journal'[r] = journal[r]
    BY <2>1, <2>2, StageOnly DEF UpdateInv
  <2> QED BY <1>12, <2>2, <2>3 DEF Ready, RecordInv, UpdateInv, Job, Record, files
<1>13. CASE NotReady
  <2>1. \E st \in Stages : SetStage(st)
    BY <1>13 DEF NotReady, Stages
  <2>2. pc # "idle" /\ journal[job.role] # None
    BY <1>13 DEF NotReady, UpdateInv, ActivationInv, Activating
  <2>3. /\ journal'[job.role] \in Record
        /\ \E st \in Stages : journal'[job.role] = [journal[job.role] EXCEPT !.stage = st]
        /\ \A r \in Roles : r # job.role => journal'[r] = journal[r]
    BY <2>1, <2>2, StageOnly DEF UpdateInv
  <2> QED BY <1>13, <2>2, <2>3 DEF NotReady, RecordInv, UpdateInv, Job, Record, files
<1>14. CASE Fallback
  BY <1>14 DEF Fallback, RequestRollback, RecordInv, UpdateInv, TypeOK, ActivationInv,
     CurrentIsInstalled, Activating, Record
<1>15. CASE Crash
  BY <1>15 DEF Crash, files, RecordInv, UpdateInv
<1>16. ASSUME NEW r \in Roles, NEW m \in Manifests, Register(r, m) PROVE RecordInv'
  BY <1>16 DEF Register, RecordInv, UpdateInv
<1>17. ASSUME NEW r \in Roles, NEW m \in Manifests, NEW q \in Requests, Apply(r, m, q)
       PROVE  RecordInv'
  BY <1>17 DEF Apply, RecordInv, UpdateInv
<1>18. ASSUME NEW r \in Roles, NEW m \in Manifests, NEW q \in Requests, Repair(r, m, q)
       PROVE  RecordInv'
  BY <1>18 DEF Repair, RecordInv, UpdateInv
<1>19. ASSUME NEW r \in Roles, Recover(r) PROVE RecordInv'
  BY <1>19 DEF Recover, files, RecordInv, UpdateInv
<1>20. ASSUME NEW r \in Roles, Rollback(r) PROVE RecordInv'
  BY <1>20 DEF Rollback, RequestRollback, RecordInv, UpdateInv, TypeOK
<1>21. ASSUME NEW r \in Roles, ServiceStart(r) PROVE RecordInv'
  BY <1>21 DEF ServiceStart, files, RecordInv, UpdateInv
<1>22. CASE UNCHANGED vars
  BY <1>22 DEF vars, files, UpdateInv, RecordInv, Job, files
<1>23. CASE ActivationFails
  <2>1. /\ pc # "idle" /\ job.role \in Roles /\ journal[job.role] # None
        /\ SetStage("recovery_required")
    BY <1>23 DEF ActivationFails, UpdateInv, ActivationInv, Activating, TypeOK, Job
  <2>2. /\ journal'[job.role] = [journal[job.role] EXCEPT !.stage = "recovery_required"]
        /\ journal[job.role] \in Record
        /\ \A r \in Roles : r # job.role => journal'[r] = journal[r]
    BY <2>1, StageOnly DEF UpdateInv, Stages, TypeOK
  <2>3. journal'[job.role].man = journal[job.role].man /\ journal'[job.role].prev = journal[job.role].prev
        /\ journal'[job.role].dir = journal[job.role].dir
    BY <2>2 DEF Record
  <2> QED BY ZenonT(60), <1>23, <2>1, <2>2, <2>3 DEF ActivationFails, RecordInv, UpdateInv
<1> QED BY <1>1, <1>2, <1>3, <1>4, <1>5, <1>6, <1>7, <1>8, <1>9, <1>10, <1>11, <1>12, <1>13,
   <1>14, <1>15, <1>16, <1>17, <1>18, <1>19, <1>20, <1>21, <1>22,
   <1>23 DEF Next, Command, Updater

\* The links follow the phases of the running transaction.
LEMMA ActivationStep == UpdateInv /\ [Next]_vars => ActivationInv'
<1> SUFFICES ASSUME UpdateInv, [Next]_vars PROVE ActivationInv'
  OBVIOUS
<1>1. CASE Prepare
  BY <1>1 DEF Prepare, Finish, ActivationInv, Activating, Job
<1>2. CASE StageBinary
  BY <1>2 DEF StageBinary, Finish, ActivationInv, Activating, Job, files
<1>3. CASE StageMetadata
  BY <1>3 DEF StageMetadata, ActivationInv, Activating, Job, files
<1>4. CASE Link
  BY <1>4 DEF Link, Finish, ActivationInv, Activating, Job, files
<1>5. CASE Archive
  BY <1>5 DEF Archive, ActivationInv, Activating, Job, files
<1>6. CASE SaveRecord
  BY <1>6 DEF SaveRecord, ActivationInv, Terminal, UpdateInv, TypeOK, StagingInv, Staging, Job,
     Record, Stages, files
<1>7. CASE Activate
  BY <1>7 DEF Activate, Installed, Finish, ActivationInv, Activating, UpdateInv, Job, files
<1>8. CASE RetainPrevious
  BY <1>8 DEF RetainPrevious, ActivationInv, Activating, Installed, UpdateInv, TypeOK, Job,
     files
<1>9. CASE SwitchCurrent
  BY <1>9 DEF SwitchCurrent, ActivationInv, Activating, UpdateInv, TypeOK, Job, files
<1>10. CASE MarkRestartPending
  BY <1>10 DEF MarkRestartPending, SetStage, ActivationInv, Activating, Terminal, Selected,
     Retained, UpdateInv, TypeOK, Record, Stages, files
<1>11. CASE RestartRole
  BY <1>11 DEF RestartRole, files, ActivationInv, Activating, UpdateInv, Job
<1>12. CASE Ready
  BY <1>12 DEF Ready, Finish, ActivationInv, Activating, Job, files
<1>13. CASE NotReady
  <2>1. pc # "idle" /\ journal[job.role] # None
    BY <1>13 DEF NotReady, UpdateInv, ActivationInv, Activating
  <2>2. journal'[job.role] \in Record /\ journal'[job.role].stage = "recovery_required"
    BY <1>13, <2>1, StageOnly DEF NotReady, UpdateInv, Stages, Record
  <2>3. (pc' = "fallback" /\ job' = job) \/ pc' = "idle"
    BY <1>13 DEF NotReady, Finish
  <2> QED BY <2>2, <2>3 DEF ActivationInv, Activating, Terminal
<1>14. CASE Fallback
  BY <1>14 DEF Fallback, RequestRollback, Finish, ActivationInv, Activating, Terminal,
     UpdateInv, TypeOK, Staging, Record, files
<1>15. CASE Crash
  BY <1>15 DEF Crash, Finish, ActivationInv, Activating, Job
<1>16. ASSUME NEW r \in Roles, NEW m \in Manifests, Register(r, m) PROVE ActivationInv'
  BY <1>16 DEF Register, Begin, ActivationInv, Activating, Job, files
<1>17. ASSUME NEW r \in Roles, NEW m \in Manifests, NEW q \in Requests, Apply(r, m, q)
       PROVE  ActivationInv'
  BY <1>17 DEF Apply, Begin, ActivationInv, Activating, Job, files
<1>18. ASSUME NEW r \in Roles, NEW m \in Manifests, NEW q \in Requests, Repair(r, m, q)
       PROVE  ActivationInv'
  BY <1>18 DEF Repair, Begin, ActivationInv, Activating, Job, files
<1>19. ASSUME NEW r \in Roles, Recover(r) PROVE ActivationInv'
  BY <1>19 DEF Recover, Begin, files, ActivationInv, Job
<1>20. ASSUME NEW r \in Roles, Rollback(r) PROVE ActivationInv'
  BY <1>20 DEF Rollback, Terminal, RequestRollback, UpdateInv, TypeOK, Record, files
<1>21. ASSUME NEW r \in Roles, ServiceStart(r) PROVE ActivationInv'
  BY <1>21 DEF ServiceStart, files, ActivationInv, Installed, UpdateInv, Job
<1>22. CASE UNCHANGED vars
  BY <1>22 DEF vars, files, UpdateInv, ActivationInv, files, Installed
<1>23. CASE ActivationFails
  BY <1>23 DEF ActivationFails, Installed, Finish, ActivationInv, Activating, UpdateInv, Job, files
<1> QED BY <1>1, <1>2, <1>3, <1>4, <1>5, <1>6, <1>7, <1>8, <1>9, <1>10, <1>11, <1>12, <1>13,
   <1>14, <1>15, <1>16, <1>17, <1>18, <1>19, <1>20, <1>21, <1>22,
   <1>23 DEF Next, Command, Updater

\* Only a transaction whose links are in place becomes terminal.
LEMMA OutcomeStep == UpdateInv /\ [Next]_vars => OutcomeMatchesLinks'
<1> SUFFICES ASSUME UpdateInv, [Next]_vars PROVE OutcomeMatchesLinks'
  OBVIOUS
<1>1. CASE Prepare
  BY <1>1 DEF Prepare, files, OutcomeMatchesLinks, UpdateInv
<1>2. CASE StageBinary
  BY <1>2 DEF StageBinary, OutcomeMatchesLinks, UpdateInv
<1>3. CASE StageMetadata
  BY <1>3 DEF StageMetadata, OutcomeMatchesLinks, UpdateInv
<1>4. CASE Link
  BY <1>4 DEF Link, OutcomeMatchesLinks, UpdateInv, RegistrationInv
<1>5. CASE Archive
  BY <1>5 DEF Archive, OutcomeMatchesLinks, UpdateInv
<1>6. CASE SaveRecord
  BY <1>6 DEF SaveRecord, OutcomeMatchesLinks, Terminal, UpdateInv
<1>7. CASE Activate
  BY <1>7 DEF Activate, SetStage, OutcomeMatchesLinks, Terminal, UpdateInv, TypeOK,
     ActivationInv, Activating, Record, files
<1>8. CASE RetainPrevious
  BY <1>8 DEF RetainPrevious, OutcomeMatchesLinks, UpdateInv
<1>9. CASE SwitchCurrent
  BY <1>9 DEF SwitchCurrent, OutcomeMatchesLinks, UpdateInv
<1>10. CASE MarkRestartPending
  BY <1>10 DEF MarkRestartPending, SetStage, OutcomeMatchesLinks, Terminal, UpdateInv
<1>11. CASE RestartRole
  BY <1>11 DEF RestartRole, files, OutcomeMatchesLinks, UpdateInv
<1>12. CASE Ready
  BY <1>12 DEF Ready, SetStage, OutcomeMatchesLinks, Selected, Retained, UpdateInv,
     ActivationInv
<1>13. CASE NotReady
  BY <1>13 DEF NotReady, SetStage, OutcomeMatchesLinks, Terminal, UpdateInv
<1>14. CASE Fallback
  BY <1>14 DEF Fallback, RequestRollback, OutcomeMatchesLinks, Terminal, UpdateInv, TypeOK,
     ActivationInv, Activating, Record, files
<1>15. CASE Crash
  BY <1>15 DEF Crash, files, OutcomeMatchesLinks, UpdateInv
<1>16. ASSUME NEW r \in Roles, NEW m \in Manifests, Register(r, m) PROVE OutcomeMatchesLinks'
  BY <1>16 DEF Register, OutcomeMatchesLinks, UpdateInv
<1>17. ASSUME NEW r \in Roles, NEW m \in Manifests, NEW q \in Requests, Apply(r, m, q)
       PROVE  OutcomeMatchesLinks'
  BY <1>17 DEF Apply, OutcomeMatchesLinks, UpdateInv
<1>18. ASSUME NEW r \in Roles, NEW m \in Manifests, NEW q \in Requests, Repair(r, m, q)
       PROVE  OutcomeMatchesLinks'
  BY <1>18 DEF Repair, OutcomeMatchesLinks, UpdateInv
<1>19. ASSUME NEW r \in Roles, Recover(r) PROVE OutcomeMatchesLinks'
  BY <1>19 DEF Recover, files, OutcomeMatchesLinks, UpdateInv
<1>20. ASSUME NEW r \in Roles, Rollback(r) PROVE OutcomeMatchesLinks'
  BY <1>20 DEF Rollback, Terminal, RequestRollback, OutcomeMatchesLinks, UpdateInv, TypeOK,
     Job, files
<1>21. ASSUME NEW r \in Roles, ServiceStart(r) PROVE OutcomeMatchesLinks'
  BY <1>21 DEF ServiceStart, files, OutcomeMatchesLinks, UpdateInv
<1>22. CASE UNCHANGED vars
  BY <1>22 DEF vars, files, UpdateInv, OutcomeMatchesLinks, files
<1>23. CASE ActivationFails
  BY <1>23 DEF ActivationFails, SetStage, OutcomeMatchesLinks, Terminal, UpdateInv, TypeOK,
     ActivationInv, Activating, Record, files
<1> QED BY <1>1, <1>2, <1>3, <1>4, <1>5, <1>6, <1>7, <1>8, <1>9, <1>10, <1>11, <1>12, <1>13,
   <1>14, <1>15, <1>16, <1>17, <1>18, <1>19, <1>20, <1>21, <1>22,
   <1>23 DEF Next, Command, Updater

\* Links move to complete versions only.
LEMMA CurrentStep == UpdateInv /\ [Next]_vars => CurrentIsInstalled'
<1> SUFFICES ASSUME UpdateInv, [Next]_vars PROVE CurrentIsInstalled'
  OBVIOUS
<1>1. CASE Prepare
  BY <1>1 DEF Prepare, files, CurrentIsInstalled, UpdateInv
<1>2. CASE StageBinary
  BY <1>2 DEF StageBinary, CurrentIsInstalled, UpdateInv, TypeOK
<1>3. CASE StageMetadata
  BY <1>3 DEF StageMetadata, CurrentIsInstalled, UpdateInv, TypeOK, Job
<1>4. CASE Link
  BY <1>4 DEF Link, CurrentIsInstalled, UpdateInv, StagedInv
<1>5. CASE Archive
  BY <1>5 DEF Archive, CurrentIsInstalled, UpdateInv
<1>6. CASE SaveRecord
  BY <1>6 DEF SaveRecord, CurrentIsInstalled, UpdateInv
<1>7. CASE Activate
  BY <1>7 DEF Activate, CurrentIsInstalled, UpdateInv
<1>8. CASE RetainPrevious
  BY <1>8 DEF RetainPrevious, CurrentIsInstalled, UpdateInv
<1>9. CASE SwitchCurrent
  BY <1>9 DEF SwitchCurrent, CurrentIsInstalled, UpdateInv, ActivationInv, Installed
<1>10. CASE MarkRestartPending
  BY <1>10 DEF MarkRestartPending, CurrentIsInstalled, UpdateInv
<1>11. CASE RestartRole
  BY <1>11 DEF RestartRole, files, CurrentIsInstalled, UpdateInv
<1>12. CASE Ready
  BY <1>12 DEF Ready, CurrentIsInstalled, UpdateInv
<1>13. CASE NotReady
  BY <1>13 DEF NotReady, CurrentIsInstalled, UpdateInv
<1>14. CASE Fallback
  BY <1>14 DEF Fallback, CurrentIsInstalled, UpdateInv
<1>15. CASE Crash
  BY <1>15 DEF Crash, files, CurrentIsInstalled, UpdateInv
<1>16. ASSUME NEW r \in Roles, NEW m \in Manifests, Register(r, m) PROVE CurrentIsInstalled'
  BY <1>16 DEF Register, CurrentIsInstalled, UpdateInv
<1>17. ASSUME NEW r \in Roles, NEW m \in Manifests, NEW q \in Requests, Apply(r, m, q)
       PROVE  CurrentIsInstalled'
  BY <1>17 DEF Apply, CurrentIsInstalled, UpdateInv
<1>18. ASSUME NEW r \in Roles, NEW m \in Manifests, NEW q \in Requests, Repair(r, m, q)
       PROVE  CurrentIsInstalled'
  BY <1>18 DEF Repair, CurrentIsInstalled, UpdateInv
<1>19. ASSUME NEW r \in Roles, Recover(r) PROVE CurrentIsInstalled'
  BY <1>19 DEF Recover, files, CurrentIsInstalled, UpdateInv
<1>20. ASSUME NEW r \in Roles, Rollback(r) PROVE CurrentIsInstalled'
  BY <1>20 DEF Rollback, CurrentIsInstalled, UpdateInv
<1>21. ASSUME NEW r \in Roles, ServiceStart(r) PROVE CurrentIsInstalled'
  BY <1>21 DEF ServiceStart, files, CurrentIsInstalled, UpdateInv
<1>22. CASE UNCHANGED vars
  BY <1>22 DEF vars, files, UpdateInv, CurrentIsInstalled, Job, files
<1>23. CASE ActivationFails
  BY <1>23 DEF ActivationFails, CurrentIsInstalled, UpdateInv
<1> QED BY <1>1, <1>2, <1>3, <1>4, <1>5, <1>6, <1>7, <1>8, <1>9, <1>10, <1>11, <1>12, <1>13,
   <1>14, <1>15, <1>16, <1>17, <1>18, <1>19, <1>20, <1>21, <1>22,
   <1>23 DEF Next, Command, Updater

-----------------------------------------------------------------------------
(* The invariant and what follows from it.                                 *)

\* Nothing is installed, linked or recorded at first.
LEMMA UpdateInit == Init => UpdateInv
<1> SUFFICES ASSUME Init PROVE UpdateInv
  OBVIOUS
<1>1. TypeOK
  BY DEF Init, TypeOK, Phases
<1> QED BY <1>1 DEF Init, UpdateInv, RegistrationInv, StagingInv, Staging, StagedInv,
   RecordInv, ActivationInv, Activating, OutcomeMatchesLinks, CurrentIsInstalled

\* Every step of an update, a crash included, keeps the invariant.
LEMMA UpdateInductive == UpdateInv /\ [Next]_vars => UpdateInv'
BY TypeStep, RegistrationStep, StagingStep, StagedStep, RecordStep, ActivationStep,
   OutcomeStep, CurrentStep DEF UpdateInv

\* The inductive invariant holds in every behaviour.
THEOREM UpdateInvariant == Spec => []UpdateInv
BY UpdateInit, UpdateInductive, PTL DEF Spec

\* However often the updater dies, a completed transaction of a role agrees with
\* the role's links: run_update_transaction records the outcome last.
THEOREM OutcomesAreTrue == Spec => []OutcomeMatchesLinks
<1>1. UpdateInv => OutcomeMatchesLinks BY DEF UpdateInv
<1> QED BY <1>1, UpdateInvariant, PTL

\* The link a unit starts from always names a version whose bytes and metadata
\* are on disk: stage_versioned ends before any link moves.
THEOREM LinksAreRunnable == Spec => []CurrentIsInstalled
<1>1. UpdateInv => CurrentIsInstalled BY DEF UpdateInv
<1> QED BY <1>1, UpdateInvariant, PTL

\* The steps that move a link.
LEMMA LinkMoves ==
    ASSUME UpdateInv, [Next]_vars, NEW r \in Roles, current'[r] # current[r]
    PROVE  (Link \/ SwitchCurrent) /\ r = job.role
<1>1. CASE Updater
  BY <1>1 DEF Updater, Prepare, StageBinary, StageMetadata, Link, Archive, SaveRecord,
     Activate, RetainPrevious, SwitchCurrent, MarkRestartPending, RestartRole, Ready, NotReady,
     Fallback, files, UpdateInv, TypeOK
<1>2. CASE Command
  BY <1>2 DEF Command, Register, Apply, Repair, Recover, Rollback, files
<1>3. CASE ActivationFails \/ Crash \/ UNCHANGED vars \/ \E q \in Roles : ServiceStart(q)
  BY <1>3 DEF ActivationFails, Crash, ServiceStart, vars, files
<1> QED BY <1>1, <1>2, <1>3 DEF Next

\* A role is only switched to a version at or above the strongest floor any role
\* has accepted, and Control never back: verify_installed_version reads the floor
\* again after the intent was recorded.
THEOREM SwitchesRespectFloor == Spec => SwitchesAreAllowed
<1> DEFINE Allowed == \A r \in Roles : current[r]' # current[r] =>
                         /\ Rank[current[r]'] >= Rank[floor]
                         /\ r = Control /\ current[r] # None
                              => Rank[current[r]'] >= Rank[current[r]]
<1>1. UpdateInv /\ [Next]_vars => Allowed
  <2> SUFFICES ASSUME UpdateInv, [Next]_vars, NEW r \in Roles, current'[r] # current[r]
               PROVE  /\ Rank[current'[r]] >= Rank[floor]
                      /\ r = Control /\ current[r] # None => Rank[current'[r]] >= Rank[current[r]]
    OBVIOUS
  <2>1. r = job.role /\ (Link \/ SwitchCurrent) BY LinkMoves
  <2>2. CASE Link
    BY <2>2 DEF Link, UpdateInv, RegistrationInv
  <2>3. CASE SwitchCurrent
    <3>1. /\ journal[r] \in Record /\ journal[r] # None
          /\ current'[r] = Selected(journal[r]) /\ Installed(Selected(journal[r]))
      BY <2>3 DEF SwitchCurrent, UpdateInv, ActivationInv, Activating, TypeOK
    <3>2. /\ current[r] \in {journal[r].prev, Version[journal[r].man]}
          /\ Rank[Version[journal[r].man]] >= Rank[journal[r].prev]
          /\ r = Control => journal[r].dir = "install"
      BY <3>1 DEF UpdateInv, RecordInv
    <3> QED BY <3>1, <3>2 DEF Selected, Installed
  <2> QED BY <2>1, <2>2, <2>3
<1>2. [][Allowed]_vars => SwitchesAreAllowed BY PTL DEF SwitchesAreAllowed
<1> QED BY <1>1, <1>2, UpdateInvariant, PTL DEF Spec

\* accept_manifest: sequence numbers grow and name one manifest for ever, and the
\* floor never drops, whichever role's command accepts a manifest.
THEOREM AcceptanceAdvances == Spec => AcceptedOnlyAdvances
<1> DEFINE Advances == accepted' # accepted /\ accepted # None =>
                          Sequence[accepted'] > Sequence[accepted] /\ Rank[floor'] >= Rank[floor]
<1>1. UpdateInv /\ [Next]_vars => Advances
  <2> SUFFICES ASSUME UpdateInv, [Next]_vars, accepted' # accepted, accepted # None
               PROVE  Sequence[accepted'] > Sequence[accepted] /\ Rank[floor'] >= Rank[floor]
    OBVIOUS
  <2>1. Command
    BY DEF Next, vars, files, ActivationFails, Crash, ServiceStart, Updater, Prepare, StageBinary,
       StageMetadata, Link, Archive, SaveRecord, Activate, RetainPrevious, SwitchCurrent,
       MarkRestartPending, RestartRole, Ready, NotReady, Fallback
  <2>2. \E m \in Manifests, v \in Versions : Acceptable(m, v) /\ AcceptManifest(m)
    BY <2>1 DEF Command, Register, Apply, Repair, Recover, Rollback, files, UpdateInv, TypeOK
  <2>3. accepted \in Manifests /\ floor \in Versions
    BY DEF UpdateInv, TypeOK
  <2> QED BY <2>2, <2>3 DEF Acceptable, AcceptManifest
<1>2. [][Advances]_vars => AcceptedOnlyAdvances BY PTL DEF AcceptedOnlyAdvances
<1> QED BY <1>1, <1>2, UpdateInvariant, PTL DEF Spec

\* A record is replaced only when it is complete, or failed and in the archive:
\* prepare_approved saves the superseded record first.
THEOREM WorkIsKept == Spec => UnfinishedWorkIsKept
<1> DEFINE Kept == \A r \in Roles :
          journal[r] # None /\ (journal[r]'.man # journal[r].man \/ journal[r]'.req # journal[r].req)
              => \/ Terminal(journal[r])
                 \/ journal[r].stage = "recovery_required" /\ archive[r]' = journal[r]
<1>1. UpdateInv /\ [Next]_vars => Kept
  <2> SUFFICES ASSUME UpdateInv, [Next]_vars, NEW r \in Roles, journal[r] # None,
                      journal'[r].man # journal[r].man \/ journal'[r].req # journal[r].req
               PROVE  \/ Terminal(journal[r])
                      \/ journal[r].stage = "recovery_required" /\ archive'[r] = journal[r]
    OBVIOUS
  <2>1. journal \in [Roles -> Record \union {None}] /\ journal[r] \in Record
    BY DEF UpdateInv, TypeOK
  <2>2. CASE SaveRecord
    BY <2>2 DEF SaveRecord, UpdateInv, StagingInv, Staging
  <2>3. CASE \E st \in Stages : SetStage(st)
    BY <2>3 DEF SetStage
  <2>4. CASE \E q \in Roles : RequestRollback(q)
    BY <2>1, <2>4 DEF RequestRollback
  <2>5. CASE UNCHANGED journal
    BY <2>5
  <2>6. CASE Updater
    BY <2>2, <2>3, <2>4, <2>6 DEF Updater, Prepare, StageBinary, StageMetadata, Link, Archive,
       Activate, RetainPrevious, SwitchCurrent, MarkRestartPending, RestartRole, Ready,
       NotReady, Fallback, files, Stages, UpdateInv, TypeOK, Job
  <2>7. CASE Command
    BY <2>4, <2>7 DEF Command, Register, Apply, Repair, Recover, Rollback, files
  <2>8. CASE ActivationFails \/ Crash \/ UNCHANGED vars \/ \E q \in Roles : ServiceStart(q)
    BY <2>3, <2>8 DEF ActivationFails, Crash, ServiceStart, vars, files, Stages
  <2> QED BY <2>6, <2>7, <2>8 DEF Next
<1>2. [][Kept]_vars => UnfinishedWorkIsKept BY PTL DEF UnfinishedWorkIsKept
<1> QED BY <1>1, <1>2, UpdateInvariant, PTL DEF Spec
=============================================================================
