----------------------------- MODULE RoleUpdate -----------------------------
(***************************************************************************)
(* Versioned updates of the roles of one installation root: the accepted   *)
(* release state (accepted_state.rs), the immutable version directories    *)
(* and role links (versioned.rs), the durable transaction of each role     *)
(* (transaction.rs) and the commands that drive them (update_commands.rs,  *)
(* update_register.rs, update_recovery.rs).                                *)
(*                                                                         *)
(* One command holds the installation lock at a time; it is the process    *)
(* `pc`/`job`.  Every durable write (a renamed and synced file or link) is *)
(* a step of its own, and the process may die before any of them: what the *)
(* next command finds is the variables of the file system only.            *)
(*                                                                         *)
(* Abstractions.  A manifest is a model value with a sequence, a version   *)
(* and a rollback floor; two manifests of the same version carry different *)
(* artifacts.  Versions are compared by Rank, their SemVer precedence, and *)
(* told apart by name.  Expiry, signatures and schema or wire              *)
(* compatibility are settled before a manifest is enumerated: all of       *)
(* Manifests pass them.  A request is the health URL with the approved     *)
(* preview.  Commands that change nothing (status, preview, a completed    *)
(* retry, every refusal) are stuttering steps.                             *)
(***************************************************************************)
EXTENDS Naturals

CONSTANTS Roles,        \* registered roles
          Control,      \* the role whose database migrations cannot be undone
          Versions,     \* release versions
          Rank,         \* SemVer precedence of a version
          Manifests,    \* signed release manifests
          Sequence, Version, Floor,   \* fields of a manifest
          Requests,     \* health URL and approved preview of an apply command
          None,         \* an absent file, link or record
          MaxCommands,  \* bound on commands
          MaxCrashes    \* bound on crashes of the updater and errors of its file operations

ASSUME RankAssumption == Rank \in [Versions -> Nat]
ASSUME ManifestAssumption ==
    /\ Sequence \in [Manifests -> Nat \ {0}]
    /\ Version \in [Manifests -> Versions] /\ Floor \in [Manifests -> Versions]
    /\ \A m \in Manifests : Rank[Version[m]] >= Rank[Floor[m]]
ASSUME CountAssumption == MaxCommands \in Nat /\ MaxCrashes \in Nat

VARIABLES
  accepted,   \* accepted-update.json: manifest with the highest sequence
  floor,      \* accepted-update.json: strongest rollback floor
  binary,     \* versions/<v>/peerward: the manifest its bytes came from
  metadata,   \* versions/<v>/compatibility.json
  current,    \* roles/<role>/current
  previous,   \* roles/<role>/previous
  journal,    \* roles/<role>/update-transaction.json
  archive,    \* roles/<role>/previous-update-transaction.json
  running,    \* version the systemd unit of the role executes
  pc, job,    \* the command that holds the installation lock
  commands, crashes

files == <<accepted, floor, binary, metadata, current, previous, journal, archive>>
vars == <<files, running, pc, job, commands, crashes>>

Stages == {"prepared", "restart_pending", "recovery_required", "succeeded", "rolled_back"}

Record == [man : Manifests, prev : Versions, req : Requests,
           dir : {"install", "rollback"}, stage : Stages]

Job == [role : Roles, man : Manifests, req : Requests,
        kind : {"register", "apply", "repair", "resume"}]

ASSUME NoneAssumption == None \notin Versions \union Manifests \union Record \union Job

Phases == {"idle", "prepare", "binary", "metadata", "link", "archive", "record",
           "activate", "retain", "switch", "pending", "restart", "probe", "unready", "fallback"}

Terminal(rec) == rec.stage \in {"succeeded", "rolled_back"}

\* selected_version, and the other version of the transaction.
Selected(rec) == IF rec.dir = "install" THEN Version[rec.man] ELSE rec.prev
Retained(rec) == IF rec.dir = "install" THEN rec.prev ELSE Version[rec.man]

Init ==
    /\ accepted = None /\ floor = None
    /\ binary = [v \in Versions |-> None] /\ metadata = [v \in Versions |-> None]
    /\ current = [r \in Roles |-> None] /\ previous = [r \in Roles |-> None]
    /\ journal = [r \in Roles |-> None] /\ archive = [r \in Roles |-> None]
    /\ running = [r \in Roles |-> None]
    /\ pc = "idle" /\ job = None
    /\ commands = 0 /\ crashes = 0

-----------------------------------------------------------------------------
(* accept_manifest                                                         *)

\* validate_candidate against the version the role runs from.
ValidCandidate(m, cur) ==
    /\ Rank[cur] >= Rank[Floor[m]]
    /\ Rank[Version[m]] >= Rank[cur]

\* candidate_update_state: the sequence never decreases and is only repeated by
\* the same manifest.
Acceptable(m, cur) ==
    /\ ValidCandidate(m, cur)
    /\ accepted # None =>
         /\ Sequence[m] >= Sequence[accepted]
         /\ Sequence[m] = Sequence[accepted] => m = accepted
         /\ Rank[Version[m]] >= Rank[floor]

\* Mutant: the newest manifest decides the floor alone.
AcceptManifestFloor(m) ==
    /\ accepted' = m
    /\ floor' = Floor[m]

\* write_update_state; a repeated manifest leaves the file alone.
AcceptManifest(m) ==
    /\ accepted' = m
    /\ floor' = IF accepted # None /\ (m = accepted \/ Rank[floor] > Rank[Floor[m]])
                THEN floor ELSE Floor[m]

-----------------------------------------------------------------------------
(* Commands                                                                *)

Begin(p, r, m, q, k) ==
    /\ pc = "idle" /\ commands < MaxCommands
    /\ commands' = commands + 1
    /\ pc' = p
    /\ job' = [role |-> r, man |-> m, req |-> q, kind |-> k]
    /\ UNCHANGED <<running, crashes>>

Finish == pc' = "idle" /\ job' = None

\* verify_installed_version
Installed(v) ==
    /\ metadata[v] # None /\ binary[v] # None
    /\ floor # None /\ Rank[v] >= Rank[floor]

\* register_versioned_role: only a role without a transaction, and only to the
\* version it already has.
Register(r, m) ==
    /\ journal[r] = None
    /\ current[r] \in {None, Version[m]}
    /\ Acceptable(m, Version[m])
    /\ AcceptManifest(m)
    /\ \E q \in Requests : Begin("binary", r, m, q, "register")
    /\ UNCHANGED <<binary, metadata, current, previous, journal, archive>>

\* update apply: the last transaction is complete and is not this request, and
\* the service runs the registered binary.
Apply(r, m, q) ==
    /\ current[r] # None
    /\ journal[r] # None => Terminal(journal[r]) /\ ~(journal[r].man = m /\ journal[r].req = q)
    /\ running[r] = current[r]
    /\ Acceptable(m, current[r])
    /\ AcceptManifest(m)
    /\ Begin("prepare", r, m, q, "apply")
    /\ UNCHANGED <<binary, metadata, current, previous, journal, archive>>

\* update apply --repair: supersedes failed work only.
Repair(r, m, q) ==
    /\ current[r] # None
    /\ journal[r] # None /\ journal[r].stage = "recovery_required"
    /\ Acceptable(m, current[r])
    /\ AcceptManifest(m)
    /\ Begin("prepare", r, m, q, "repair")
    /\ UNCHANGED <<binary, metadata, current, previous, journal, archive>>

\* update recover
Recover(r) ==
    /\ journal[r] # None /\ ~Terminal(journal[r])
    /\ Begin("activate", r, journal[r].man, journal[r].req, "resume")
    /\ UNCHANGED files

\* request_rollback, which Control refuses.
RequestRollback(r) ==
    /\ r # Control
    /\ Installed(journal[r].prev)
    /\ journal' = [journal EXCEPT ![r].dir = "rollback", ![r].stage = "prepared"]

\* update rollback of a completed installation.
Rollback(r) ==
    /\ journal[r] # None /\ Terminal(journal[r]) /\ journal[r].dir = "install"
    /\ RequestRollback(r)
    /\ Begin("activate", r, journal[r].man, journal[r].req, "resume")
    /\ UNCHANGED <<accepted, floor, binary, metadata, current, previous, archive>>

-----------------------------------------------------------------------------
(* prepare_approved and stage_versioned                                    *)

\* The repaired release is newer than the failed one.
Supersedes(m, rec) ==
    /\ Sequence[m] > Sequence[rec.man]
    /\ Version[m] # Version[rec.man]
    /\ Rank[Version[m]] >= Rank[Version[rec.man]]

Prepare ==
    /\ pc = "prepare"
    /\ LET r == job.role IN
       IF /\ job.kind = "repair" => Supersedes(job.man, journal[r])
          /\ current[r] # Version[job.man]
       THEN pc' = "binary" /\ UNCHANGED job
       ELSE Finish
    /\ UNCHANGED <<files, running, commands, crashes>>

\* Mutant: bytes that are already there are taken for a complete version.
StageBinaryEarly ==
    /\ pc = "binary"
    /\ LET v == Version[job.man] IN
       \/ /\ binary[v] = None
          /\ binary' = [binary EXCEPT ![v] = job.man]
          /\ pc' = "metadata" /\ UNCHANGED job
       \/ /\ binary[v] = job.man
          /\ pc' = IF job.kind = "register" THEN "link" ELSE "record"
          /\ UNCHANGED <<job, binary>>
       \/ /\ binary[v] \notin {None, job.man}
          /\ Finish /\ UNCHANGED binary
    /\ UNCHANGED <<accepted, floor, metadata, current, previous, journal, archive,
                   running, commands, crashes>>

\* The bytes are immutable: those already there must be the artifact's.
StageBinary ==
    /\ pc = "binary"
    /\ LET v == Version[job.man] IN
       \/ /\ binary[v] \in {None, job.man}
          /\ binary' = [binary EXCEPT ![v] = job.man]
          /\ pc' = "metadata" /\ UNCHANGED job
       \/ /\ binary[v] \notin {None, job.man}
          /\ Finish /\ UNCHANGED binary
    /\ UNCHANGED <<accepted, floor, metadata, current, previous, journal, archive,
                   running, commands, crashes>>

\* A compatibility.json that is there is the same manifest's: the bytes of another
\* one have been refused by StageBinary.
StageMetadata ==
    /\ pc = "metadata"
    /\ metadata' = [metadata EXCEPT ![Version[job.man]] = job.man]
    /\ pc' = CASE job.kind = "register" -> "link"
               [] job.kind = "repair" -> "archive"
               [] OTHER -> "record"
    /\ UNCHANGED <<accepted, floor, binary, current, previous, journal, archive,
                   running, job, commands, crashes>>

\* install_versioned_inner: the role has no other version here, so `previous`
\* is left alone.
Link ==
    /\ pc = "link"
    /\ current' = [current EXCEPT ![job.role] = Version[job.man]]
    /\ Finish
    /\ UNCHANGED <<accepted, floor, binary, metadata, previous, journal, archive,
                   running, commands, crashes>>

\* Mutant: the failed record is overwritten without being kept.
ArchiveSkipped ==
    /\ pc = "archive"
    /\ pc' = "record"
    /\ UNCHANGED <<files, running, job, commands, crashes>>

\* A repair keeps the record it replaces.
Archive ==
    /\ pc = "archive"
    /\ archive' = [archive EXCEPT ![job.role] = journal[job.role]]
    /\ pc' = "record"
    /\ UNCHANGED <<accepted, floor, binary, metadata, current, previous, journal,
                   running, job, commands, crashes>>

\* The durable intent, before any link changes.
SaveRecord ==
    /\ pc = "record"
    /\ journal' = [journal EXCEPT ![job.role] =
                     [man |-> job.man, prev |-> current[job.role], req |-> job.req,
                      dir |-> "install", stage |-> "prepared"]]
    /\ pc' = "activate"
    /\ UNCHANGED <<accepted, floor, binary, metadata, current, previous, archive,
                   running, job, commands, crashes>>

-----------------------------------------------------------------------------
(* run_update_transaction                                                  *)

SetStage(s) == journal' = [journal EXCEPT ![job.role].stage = s]

\* Mutant: the floor accepted meanwhile by another role is not consulted.
ActivateStale ==
    /\ pc = "activate"
    /\ LET rec == journal[job.role] IN
       IF metadata[Selected(rec)] # None /\ binary[Selected(rec)] # None
       THEN pc' = "retain" /\ UNCHANGED <<job, journal>>
       ELSE SetStage("recovery_required") /\ Finish
    /\ UNCHANGED <<accepted, floor, binary, metadata, current, previous, archive,
                   running, commands, crashes>>

\* activate, up to the link changes; a failed check records the failure.
Activate ==
    /\ pc = "activate"
    /\ LET rec == journal[job.role] IN
       IF /\ Installed(Selected(rec))
          /\ current[job.role] \in {rec.prev, Version[rec.man]}
       THEN pc' = "retain" /\ UNCHANGED <<job, journal>>
       ELSE SetStage("recovery_required") /\ Finish
    /\ UNCHANGED <<accepted, floor, binary, metadata, current, previous, archive,
                   running, commands, crashes>>

RetainPrevious ==
    /\ pc = "retain"
    /\ previous' = [previous EXCEPT ![job.role] = Retained(journal[job.role])]
    /\ pc' = "switch"
    /\ UNCHANGED <<accepted, floor, binary, metadata, current, journal, archive,
                   running, job, commands, crashes>>

\* Mutant: the links are swapped instead of being set from the record.
SwitchToggle ==
    /\ pc = "switch"
    /\ current' = [current EXCEPT ![job.role] =
                     IF @ = journal[job.role].prev THEN Version[journal[job.role].man]
                                                   ELSE journal[job.role].prev]
    /\ pc' = "pending"
    /\ UNCHANGED <<accepted, floor, binary, metadata, previous, journal, archive,
                   running, job, commands, crashes>>

SwitchCurrent ==
    /\ pc = "switch"
    /\ current' = [current EXCEPT ![job.role] = Selected(journal[job.role])]
    /\ pc' = "pending"
    /\ UNCHANGED <<accepted, floor, binary, metadata, previous, journal, archive,
                   running, job, commands, crashes>>

\* An error while the links are read or changed or the record is saved; here and
\* after a failed check run_update_transaction calls record_failure and returns.
ActivationFails ==
    /\ pc \in {"activate", "retain", "switch", "pending"} /\ crashes < MaxCrashes
    /\ crashes' = crashes + 1
    /\ SetStage("recovery_required") /\ Finish
    /\ UNCHANGED <<accepted, floor, binary, metadata, current, previous, archive,
                   running, commands>>

MarkRestartPending ==
    /\ pc = "pending"
    /\ SetStage("restart_pending")
    /\ pc' = "restart"
    /\ UNCHANGED <<accepted, floor, binary, metadata, current, previous, archive,
                   running, job, commands, crashes>>

\* restart_role: systemctl may also fail, or be given up, before or after it has
\* stopped or started the unit; then readiness is not awaited.
RestartRole ==
    /\ pc = "restart"
    /\ \/ /\ running' = [running EXCEPT ![job.role] = current[job.role]]
          /\ pc' = "probe"
       \/ /\ \E v \in {running[job.role], current[job.role], None} :
                running' = [running EXCEPT ![job.role] = v]
          /\ pc' = "unready"
    /\ UNCHANGED <<files, job, commands, crashes>>

\* wait_for_role_health: readiness, and the process runs the selected binary;
\* then record_ready.
Ready ==
    /\ pc = "probe"
    /\ running[job.role] = current[job.role]
    /\ SetStage(IF journal[job.role].dir = "install" THEN "succeeded" ELSE "rolled_back")
    /\ Finish
    /\ UNCHANGED <<accepted, floor, binary, metadata, current, previous, archive,
                   running, commands, crashes>>

\* Mutant: a failed rollback is attempted again and again.
NotReadyRetries ==
    /\ pc \in {"probe", "unready"}
    /\ SetStage("recovery_required")
    /\ IF job.role # Control
       THEN pc' = "fallback" /\ UNCHANGED job
       ELSE Finish
    /\ UNCHANGED <<accepted, floor, binary, metadata, current, previous, archive,
                   running, commands, crashes>>

\* The restart failed or the readiness deadline passed: record_failure.  Control
\* and a failed rollback stop here.
NotReady ==
    /\ pc \in {"probe", "unready"}
    /\ SetStage("recovery_required")
    /\ IF job.role # Control /\ journal[job.role].dir = "install"
       THEN pc' = "fallback" /\ UNCHANGED job
       ELSE Finish
    /\ UNCHANGED <<accepted, floor, binary, metadata, current, previous, archive,
                   running, commands, crashes>>

\* request_rollback of the failed installation, then the second attempt.
Fallback ==
    /\ pc = "fallback"
    /\ \/ /\ RequestRollback(job.role)
          /\ pc' = "activate" /\ UNCHANGED job
       \/ /\ ~(job.role # Control /\ Installed(journal[job.role].prev))
          /\ Finish /\ UNCHANGED journal
    /\ UNCHANGED <<accepted, floor, binary, metadata, current, previous, archive,
                   running, commands, crashes>>

-----------------------------------------------------------------------------
(* Environment                                                             *)

\* The updater process dies; the lock goes with it.
Crash ==
    /\ pc # "idle" /\ crashes < MaxCrashes
    /\ crashes' = crashes + 1
    /\ Finish
    /\ UNCHANGED <<files, running, commands>>

\* systemd starts the unit of a role from its `current` link: after a reboot, an
\* operator's restart or the reviewed drop-in of a registration.
ServiceStart(r) ==
    /\ current[r] # None /\ running[r] # current[r]
    /\ running' = [running EXCEPT ![r] = current[r]]
    /\ UNCHANGED <<files, pc, job, commands, crashes>>

Command ==
    \E r \in Roles :
        \/ \E m \in Manifests : Register(r, m)
        \/ \E m \in Manifests, q \in Requests : Apply(r, m, q) \/ Repair(r, m, q)
        \/ Recover(r) \/ Rollback(r)

Updater ==
    \/ Prepare \/ StageBinary \/ StageMetadata \/ Link \/ Archive \/ SaveRecord
    \/ Activate \/ RetainPrevious \/ SwitchCurrent \/ MarkRestartPending
    \/ RestartRole \/ Ready \/ NotReady \/ Fallback

Next == Command \/ Updater \/ ActivationFails \/ Crash \/ \E r \in Roles : ServiceStart(r)

Spec == Init /\ [][Next]_vars

\* A running command finishes: each wait in it is bounded (one minute for the
\* restart, 30 seconds for readiness).
FairSpec == Spec /\ WF_vars(Updater)

-----------------------------------------------------------------------------
(* Properties                                                              *)

\* Every file, link and record has the shape the code writes.
TypeOK ==
    /\ accepted \in Manifests \union {None} /\ floor \in Versions \union {None}
    /\ (accepted = None) = (floor = None)
    /\ binary \in [Versions -> Manifests \union {None}]
    /\ metadata \in [Versions -> Manifests \union {None}]
    /\ current \in [Roles -> Versions \union {None}]
    /\ previous \in [Roles -> Versions \union {None}]
    /\ journal \in [Roles -> Record \union {None}]
    /\ archive \in [Roles -> Record \union {None}]
    /\ running \in [Roles -> Versions \union {None}]
    /\ pc \in Phases /\ job \in Job \union {None} /\ (job = None) = (pc = "idle")
    /\ commands \in Nat /\ crashes \in Nat

\* A completed transaction tells the truth about the links whatever crashed on
\* the way: its selected version is `current` and the other one is retained
\* (upgrade-recovery.md: "Repeating rollback does not toggle links").
OutcomeMatchesLinks ==
    \A r \in Roles : journal[r] # None /\ Terminal(journal[r]) =>
        /\ current[r] = Selected(journal[r])
        /\ previous[r] = Retained(journal[r])

\* The link a unit starts from always names complete, immutable bytes: no crash
\* between staging and switching leaves the role without a runnable binary.
CurrentIsInstalled ==
    \A r \in Roles : current[r] # None =>
        binary[current[r]] # None /\ metadata[current[r]] # None

\* A role is only switched to a version at or above the strongest floor accepted
\* so far, by any role of the installation, and Control only forwards.
SwitchesAreAllowed ==
    [][\A r \in Roles : current[r]' # current[r] =>
          /\ Rank[current[r]'] >= Rank[floor]
          /\ r = Control /\ current[r] # None => Rank[current[r]'] >= Rank[current[r]]]_vars

\* The accepted state only moves forward: a sequence names one manifest for ever
\* and the floor never drops.
AcceptedOnlyAdvances ==
    [][accepted' # accepted /\ accepted # None =>
          Sequence[accepted'] > Sequence[accepted] /\ Rank[floor'] >= Rank[floor]]_vars

\* No unfinished work is lost: a record is replaced only when it is complete, or
\* failed and kept in the archive.
UnfinishedWorkIsKept ==
    [][\A r \in Roles :
          journal[r] # None /\ (journal[r]'.man # journal[r].man \/ journal[r]'.req # journal[r].req)
              => \/ Terminal(journal[r])
                 \/ journal[r].stage = "recovery_required" /\ archive[r]' = journal[r]]_vars

\* A command always gives the installation lock back.
CommandsEnd == (pc # "idle") ~> (pc = "idle")
=============================================================================
