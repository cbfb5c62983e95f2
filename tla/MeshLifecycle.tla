--------------------------- MODULE MeshLifecycle ---------------------------
(***************************************************************************)
(* The life of a dynamic Mesh: the API calls that request its creation and  *)
(* its deletion, the two leased jobs that carry them out (mesh_lifecycle.rs *)
(* in the store), and the Control processes that work on them               *)
(* (dynamic_mesh.rs), with the key bundle and the recovery archive they     *)
(* keep on a shared directory.                                              *)
(*                                                                          *)
(* A step of a job runs in a transaction that holds the Mesh's lifecycle    *)
(* lock, the job row and the Mesh row from its first check to its commit,   *)
(* so it is one action here; so are the API transactions, which lock the    *)
(* Mesh row.  Files are written inside the transaction and are not undone   *)
(* when it rolls back: StepAborted.  A claim is identified by               *)
(* generation and owner; a process works on one claim at a time, so a claim *)
(* is current exactly when the row's holder is still that process.  A       *)
(* crashed process comes back under another owner id.                       *)
(***************************************************************************)
EXTENDS RelayHosts

CONSTANT FailureLimit   \* consecutive failures after which a job has failed (10)

ASSUME FailureLimitAssumption == FailureLimit \in Nat \ {0}

VARIABLES
    files,          \* bundle and recovery archive: the root each holds, or 0
    job,            \* the create and the delete job
    worker,         \* per Control process: its claim and where it stands
    default         \* the default Relay host

meshVars == <<files, job, worker, default>>
lifecycleVars == <<mesh, registry, assignment, directory, lease,
                   maintenance, host, faults, files, job, worker, default>>

Operations == {"create", "delete"}

NoMesh == [life |-> "none", authority |-> 0, tomb |-> "none", tombRoot |-> 0,
           dirty |-> FALSE]
NoJob == [status |-> "none", holder |-> NoOne, leased |-> FALSE, failures |-> 0]
QueuedJob == [NoJob EXCEPT !.status = "queued"]
IdleWorker == [up |-> TRUE, op |-> "none", pc |-> "idle", result |-> "none",
               root |-> 0]

(***************************************************************************)
(* API calls                                                                *)
(***************************************************************************)
\* A request creates the Mesh, its job and an assignment to the default host.
\* Only a host without maintenance takes assignments (admissible: see there).
RequestCreate(admissible) ==
    /\ mesh.life = "none" /\ mesh.tomb = "none"
    /\ maintenance[default] = "active" /\ default \in admissible
    /\ mesh' = [mesh EXCEPT !.life = "creating", !.dirty = TRUE]
    /\ job' = [job EXCEPT !["create"] = QueuedJob]
    /\ assignment' = [assignment EXCEPT ![default] = NewAssignment]
    /\ UNCHANGED <<registry, directory, lease, maintenance, host, faults,
                   files, worker, default>>

\* Accepting a deletion marks the Mesh and cancels an unfinished creation.
RequestDelete ==
    /\ mesh.life \in Live
    /\ mesh' = [mesh EXCEPT !.life = "deleting"]
    /\ job' = [create |-> IF job["create"].status = "succeeded" THEN job["create"]
                          ELSE [job["create"] EXCEPT !.status = "failed",
                                  !.holder = NoOne, !.leased = FALSE],
               delete |-> QueuedJob]
    /\ UNCHANGED <<registry, assignment, directory, lease, maintenance,
                   host, faults, files, worker, default>>

RetryJob(op) ==
    /\ job[op].status = "failed"
    /\ op = "delete" \/ mesh.life = "creating"
    /\ job' = [job EXCEPT ![op] = [@ EXCEPT !.status = "queued", !.failures = 0]]
    /\ UNCHANGED <<mesh, registry, assignment, directory, lease,
                   maintenance, host, faults, files, worker, default>>

\* Mutant: the maintenance state of the host is not looked at.
AssignRegardless(h, admissible) ==
    /\ mesh.life = "active" /\ h \in admissible
    /\ ~Assigned(h)
    /\ assignment' = [assignment EXCEPT ![h] = NewAssignment]
    /\ UNCHANGED <<mesh, registry, directory, lease, maintenance, host,
                   faults, files, job, worker, default>>

\* The Mesh takes another host, on an administrator's request.
AssignHost(h, admissible) ==
    /\ mesh.life = "active"
    /\ maintenance[h] = "active" /\ h \in admissible
    /\ ~Assigned(h)
    /\ assignment' = [assignment EXCEPT ![h] = NewAssignment]
    /\ UNCHANGED <<mesh, registry, directory, lease, maintenance, host,
                   faults, files, job, worker, default>>

(***************************************************************************)
(* The worker's loop: reload and renew now and then, claim, step, finish.   *)
(***************************************************************************)
Idle(w) == worker[w].up /\ worker[w].pc = "idle"

\* Every bundle of a Mesh that is not gone is loaded into the registry.
Loaded == IF mesh.life \in Live \cup {"deleting"} /\ files.bundle # 0
          THEN files.bundle ELSE 0

ReloadIssuers(w) ==
    /\ Idle(w) /\ Loaded \notin {0, registry[w]}
    /\ registry' = [registry EXCEPT ![w] = Loaded]
    /\ UNCHANGED <<mesh, assignment, directory, lease, maintenance, host,
                   faults, files, job, worker, default>>

\* A credential near its end, or of another Authority, is replaced under the
\* key the host registered, as a new revision of the assignment.
RenewCredential(w, h) ==
    /\ Idle(w)
    /\ mesh.life = "active" /\ ActiveIssuer(w)
    /\ assignment[h].desired = "active" /\ assignment[h].cred \in 1..(MaxCred - 1)
    /\ assignment' = [assignment EXCEPT
         ![h] = [Redirected(@, "active") EXCEPT !.cred = assignment[h].cred + 1]]
    /\ mesh' = [mesh EXCEPT !.dirty = TRUE]
    /\ UNCHANGED <<registry, directory, lease, maintenance, host, faults,
                   files, job, worker, default>>

\* The publisher signs the Relay directory of a Mesh that is not being deleted.
Publish(w) ==
    /\ worker[w].up /\ ActiveIssuer(w) /\ mesh.life \in Live
    /\ mesh.dirty
    /\ directory' = DirectoryNow
    /\ mesh' = [mesh EXCEPT !.dirty = FALSE]
    /\ UNCHANGED <<registry, assignment, lease, maintenance, host, faults,
                   files, job, worker, default>>

\* Mutant: the job of a dead process is never taken over.
ClaimableOnce(op) == job[op].status \in {"queued", "waiting"} /\ ~job[op].leased

Claimable(op) ==
    /\ job[op].status \in {"queued", "running", "waiting"}
    /\ ~job[op].leased

Claim(w, op) ==
    /\ Idle(w) /\ Claimable(op)
    /\ job' = [job EXCEPT ![op] = [@ EXCEPT !.status = "running", !.holder = w, !.leased = TRUE]]
    /\ worker' = [worker EXCEPT ![w] = [@ EXCEPT !.op = op, !.pc = "step"]]
    /\ UNCHANGED <<mesh, registry, assignment, directory, lease,
                   maintenance, host, faults, files, default>>

Current(w, op) ==
    /\ job[op].status = "running" /\ job[op].holder = w /\ job[op].leased

At(w, op, pc) == worker[w].up /\ worker[w].op = op /\ worker[w].pc = pc

Concluded(w, result) == [worker EXCEPT ![w] = [@ EXCEPT !.pc = "finish", !.result = result]]

\* Mutant: a repeated step generates another bundle.
RegeneratedBundle == files.made + 1

\* The bundle is generated once and read back afterwards; its root is
\* archived before anything else learns of it.
PreparedBundle == IF files.bundle # 0 THEN files.bundle ELSE files.made + 1

ArchiveRoot ==
    /\ PreparedBundle \in Roots
    /\ files' = [bundle |-> PreparedBundle, recovery |-> PreparedBundle,
                 made |-> IF files.bundle # 0 THEN files.made ELSE files.made + 1]

\* A step of a claim that is not current any more ends without effect.
StepFenced(w, op) ==
    /\ At(w, op, "step") /\ ~Current(w, op)
    /\ worker' = Concluded(w, "error")
    /\ UNCHANGED <<mesh, registry, assignment, directory, lease,
                   maintenance, host, faults, files, job, default>>

(***************************************************************************)
(* create_mesh_step                                                         *)
(***************************************************************************)
\* Some host serves the Mesh and every one that should has said it does.
RelaysReady ==
    LET active == {h \in Hosts : assignment[h].desired = "active"}
    IN  /\ active # {}
        /\ \A h \in active : /\ assignment[h].state = "ready"
                             /\ assignment[h].applied = assignment[h].revision

CreateDone(w) ==
    /\ At(w, "create", "step") /\ Current(w, "create")
    /\ mesh.life = "active"
    /\ worker' = Concluded(w, "done")
    /\ UNCHANGED <<mesh, registry, assignment, directory, lease, maintenance,
                   host, faults, files, job, default>>

CreateCommit(w) ==
    /\ At(w, "create", "step") /\ Current(w, "create")
    /\ mesh.life = "creating"
    /\ ArchiveRoot
    /\ mesh' = [mesh EXCEPT
         !.authority = IF @ = 0 THEN PreparedBundle ELSE @,
         !.life = IF RelaysReady THEN "active" ELSE @]
    /\ worker' = [worker EXCEPT ![w] = [@ EXCEPT
         !.pc = "publish", !.root = PreparedBundle,
         !.result = IF RelaysReady THEN "done" ELSE "wait"]]
    /\ UNCHANGED <<registry, assignment, directory, lease, maintenance, host,
                   faults, job, default>>

\* The issuer is installed and the signed state published before a Relay can
\* be ready; a Mesh that is being deleted meanwhile refuses the publication.
CreatePublish(w) ==
    /\ At(w, "create", "publish")
    /\ registry' = [registry EXCEPT ![w] = worker[w].root]
    /\ IF mesh.life \in Live
         THEN /\ directory' = DirectoryNow
              /\ mesh' = [mesh EXCEPT !.dirty = FALSE]
              /\ worker' = Concluded(w, worker[w].result)
         ELSE /\ worker' = Concluded(w, "error")
              /\ UNCHANGED <<mesh, directory>>
    /\ UNCHANGED <<assignment, lease, maintenance, host, faults, files,
                   job, default>>

(***************************************************************************)
(* delete_mesh_step: sign the termination and direct every host to remove   *)
(* the Mesh; wait for all of them; delete the rows; erase the bundle.       *)
(***************************************************************************)
\* The issuer that signs: the active one of the registry, or, if this process
\* has loaded none, the bundle's.
TerminationIssuer(w) ==
    IF registry[w] = 0 THEN PreparedBundle
    ELSE IF ActiveIssuer(w) THEN registry[w] ELSE 0

DeleteCommit(w) ==
    /\ At(w, "delete", "step") /\ Current(w, "delete")
    /\ mesh.tomb = "none"
    /\ ArchiveRoot
    /\ TerminationIssuer(w) # 0
    /\ mesh' = [mesh EXCEPT !.tomb = "signed", !.tombRoot = TerminationIssuer(w)]
    /\ assignment' = [h \in Hosts |-> IF Assigned(h)
                        THEN Redirected(assignment[h], "removed") ELSE assignment[h]]
    /\ worker' = Concluded(w, "wait")
    /\ UNCHANGED <<registry, directory, lease, maintenance, host, faults, job,
                   default>>

\* The registry has an issuer but the Mesh has no such active Authority.
DeleteUnsigned(w) ==
    /\ At(w, "delete", "step") /\ Current(w, "delete")
    /\ mesh.tomb = "none"
    /\ ArchiveRoot
    /\ TerminationIssuer(w) = 0
    /\ worker' = Concluded(w, "error")
    /\ UNCHANGED <<mesh, registry, assignment, directory, lease, maintenance,
                   host, faults, job, default>>

\* Mutant: rows are deleted without asking the hosts.
NeverWaiting == FALSE

WaitingForRelay ==
    \E h \in Hosts : /\ Assigned(h)
                     /\ \/ assignment[h].state # "removed"
                        \/ assignment[h].applied # assignment[h].revision

DeleteWaits(w) ==
    /\ At(w, "delete", "step") /\ Current(w, "delete")
    /\ mesh.tomb = "signed" /\ WaitingForRelay
    /\ worker' = Concluded(w, "wait")
    /\ UNCHANGED <<mesh, registry, assignment, directory, lease,
                   maintenance, host, faults, files, job, default>>

\* Mutant: the job ends with the rows, the bundle stays.
DeleteRowsOnly(w) ==
    /\ At(w, "delete", "step") /\ Current(w, "delete")
    /\ mesh.tomb = "signed" /\ ~WaitingForRelay
    /\ mesh' = [mesh EXCEPT !.life = "none", !.authority = 0, !.tomb = "cleaned"]
    /\ worker' = Concluded(w, "done")
    /\ UNCHANGED <<registry, assignment, directory, lease, maintenance, host,
                   faults, files, job, default>>

\* One transaction deletes the Mesh with everything that depends on it.  The
\* assignments and the jobs stay: they do not refer to the Mesh row.
DeleteRows(w) ==
    /\ At(w, "delete", "step") /\ Current(w, "delete")
    /\ mesh.tomb = "signed" /\ ~WaitingForRelay
    /\ mesh' = [mesh EXCEPT !.life = "none", !.authority = 0, !.tomb = "cleaned",
                            !.dirty = FALSE]
    /\ directory' = [h \in Hosts |-> 0]
    /\ lease' = [h \in Hosts |-> FALSE]
    /\ worker' = [worker EXCEPT ![w].pc = "erase"]
    /\ UNCHANGED <<registry, assignment, maintenance, host, faults, files,
                   job, default>>

\* The online keys go last, now or when the job is claimed again.
DeleteBundle(w) ==
    /\ \/ At(w, "delete", "erase")
       \/ /\ At(w, "delete", "step") /\ Current(w, "delete")
          /\ mesh.tomb = "cleaned"
    /\ registry' = [registry EXCEPT ![w] = 0]
    /\ files' = [files EXCEPT !.bundle = 0]
    /\ worker' = Concluded(w, "done")
    /\ UNCHANGED <<mesh, assignment, directory, lease, maintenance, host,
                   faults, job, default>>

(***************************************************************************)
(* The end of a step, and what can go wrong in it.                          *)
(***************************************************************************)
StatusAfter(j, result) ==
    IF result = "done" THEN "succeeded"
    ELSE IF result = "error" /\ j.failures + 1 >= FailureLimit THEN "failed"
    ELSE "waiting"

Released(j, result) ==
    [status |-> StatusAfter(j, result), holder |-> NoOne, leased |-> FALSE,
     failures |-> IF result = "error" THEN j.failures + 1 ELSE 0]

\* Mutant: the claim is not compared with the row.
FinishUnfenced(w, op) ==
    /\ At(w, op, "finish")
    /\ job' = [job EXCEPT ![op] = Released(@, worker[w].result)]
    /\ worker' = [worker EXCEPT ![w] = IdleWorker]
    /\ UNCHANGED <<mesh, registry, assignment, directory, lease, maintenance,
                   host, faults, files, default>>

FinishStep(w, op) ==
    /\ At(w, op, "finish")
    /\ job' = IF Current(w, op)
              THEN [job EXCEPT ![op] = Released(@, worker[w].result)] ELSE job
    /\ worker' = [worker EXCEPT ![w] = IdleWorker]
    /\ UNCHANGED <<mesh, registry, assignment, directory, lease,
                   maintenance, host, faults, files, default>>

\* A database or file operation of the step fails; the transaction is rolled back.
StepFails(w) ==
    /\ worker[w].up /\ worker[w].pc \in {"step", "publish", "erase"}
    /\ faults > 0
    /\ worker' = Concluded(w, "error")
    /\ faults' = faults - 1
    /\ UNCHANGED <<mesh, registry, assignment, directory, lease, maintenance,
                   host, files, job, default>>

\* The row keeps the owner id of the dead process until its lease lapses.
Crashed(w) ==
    /\ worker' = [worker EXCEPT ![w] = [IdleWorker EXCEPT !.up = FALSE]]
    /\ registry' = [registry EXCEPT ![w] = 0]
    /\ job' = [op \in Operations |->
                 IF job[op].holder = w THEN [job[op] EXCEPT !.holder = NoOne]
                                       ELSE job[op]]

WorkerCrash(w) ==
    /\ worker[w].up /\ faults > 0
    /\ Crashed(w)
    /\ faults' = faults - 1
    /\ UNCHANGED <<mesh, assignment, directory, lease, maintenance, host, files,
                   default>>

\* The step has written its files, then fails, or its process dies, before the
\* transaction commits.
StepAborted(w, op) ==
    /\ At(w, op, "step") /\ Current(w, op) /\ faults > 0
    /\ IF op = "create" THEN mesh.life = "creating" ELSE mesh.tomb = "none"
    /\ ArchiveRoot
    /\ \/ worker' = Concluded(w, "error") /\ UNCHANGED <<registry, job>>
       \/ Crashed(w)
    /\ faults' = faults - 1
    /\ UNCHANGED <<mesh, assignment, directory, lease, maintenance, host, default>>

WorkerRestart(w) ==
    /\ ~worker[w].up
    /\ worker' = [worker EXCEPT ![w].up = TRUE]
    /\ registry' = [registry EXCEPT ![w] = Loaded]
    /\ UNCHANGED <<mesh, assignment, directory, lease, maintenance, host,
                   faults, files, job, default>>

\* Thirty seconds: a process that still works on its claim has stalled.
JobLeaseLapses(op) ==
    /\ job[op].leased
    /\ IF job[op].holder = NoOne THEN UNCHANGED faults
                                 ELSE faults > 0 /\ faults' = faults - 1
    /\ job' = [job EXCEPT ![op].leased = FALSE]
    /\ UNCHANGED <<mesh, registry, assignment, directory, lease,
                   maintenance, host, files, worker, default>>

\* What a Control process does by itself on its jobs, without failing.
WorkerStep(w) ==
    \/ ReloadIssuers(w)
    \/ \E op \in Operations : Claim(w, op) \/ StepFenced(w, op) \/ FinishStep(w, op)
    \/ CreateDone(w)
    \/ CreateCommit(w)
    \/ CreatePublish(w)
    \/ DeleteCommit(w)
    \/ DeleteUnsigned(w)
    \/ DeleteWaits(w)
    \/ DeleteRows(w)
    \/ DeleteBundle(w)
    \/ WorkerRestart(w)

\* The shape of the rows, the files and the state of a process.
MeshRow == [life : {"none", "creating", "active", "deleting"},
            authority : Roots \cup {0}, tomb : {"none", "signed", "cleaned"},
            tombRoot : Roots \cup {0}, dirty : BOOLEAN]

KeyFiles == [bundle : Roots \cup {0}, recovery : Roots \cup {0}, made : Nat]

JobRow == [status : {"none", "queued", "running", "waiting", "failed", "succeeded"},
           holder : Workers \cup {NoOne}, leased : BOOLEAN, failures : 0..FailureLimit]

WorkerState == [up : BOOLEAN, op : Operations \cup {"none"},
                pc : {"idle", "step", "publish", "erase", "finish"},
                result : {"none", "done", "wait", "error"}, root : Roots \cup {0}]

LifecycleTypeOK ==
    /\ HostTypeOK
    /\ mesh \in MeshRow
    /\ registry \in [Workers -> Roots \cup {0}]
    /\ faults \in Nat
    /\ files \in KeyFiles
    /\ job \in [Operations -> JobRow]
    /\ worker \in [Workers -> WorkerState]
    /\ default \in Hosts
=============================================================================
