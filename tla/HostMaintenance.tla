-------------------------- MODULE HostMaintenance --------------------------
(***************************************************************************)
(* Maintenance of Relay hosts (maintenance_tasks.rs, maintenance_worker.rs) *)
(* on top of the life of the Mesh: a host is drained onto a replacement     *)
(* that serves the Mesh, then suspended; later it is resumed.  Control      *)
(* advances a task in database-atomic steps and waits for the host's own    *)
(* acknowledgements in between.  The module closes the system: what every   *)
(* Control process, every host and the administrator may do to one Mesh.    *)
(*                                                                          *)
(* Freshness is an input of the steps that look at it: `fresh' is the set   *)
(* of hosts heard from in the last thirty seconds, `expired' whether the    *)
(* task is past its deadline.                                               *)
(***************************************************************************)
EXTENDS MeshLifecycle

CONSTANT
    Scopes          \* instances to check: records of bounds and a starting point

\* An instance is about processes and hosts that exist.
ASSUME ScopesAssumption ==
    \A s \in Scopes :
      /\ s.workers \subseteq Workers /\ s.hosts \subseteq Hosts
      /\ s.serving \subseteq Hosts /\ s.default \in Hosts
      /\ s.faults \in Nat /\ s.drains \in Nat

VARIABLES
    task,           \* per host: its latest maintenance task
    drains,         \* bound: drains the administrator may still start
    scope           \* the instance being checked

vars == <<mesh, registry, assignment, directory, lease, maintenance, host,
          faults, files, job, worker, default, task, drains, scope>>

NoTask == [op |-> "none", status |-> "none", stage |-> "none", grace |-> "none",
           replacement |-> NoOne]

Unfinished(h) == task[h].status \in {"queued", "waiting", "failed"}

\* Hosts that may take an assignment as far as maintenance is concerned.
Admissible == {h \in Hosts : ~Unfinished(h)}

\* The assignment of the host that maintenance is about.
Affected(h) == Assigned(h) /\ assignment[h].desired # "removed" /\ mesh.life = "active"

(***************************************************************************)
(* A host is ready to serve the Mesh for another one: it is not under       *)
(* maintenance and was heard from, it acknowledged this very revision, its  *)
(* runtime holds a lease and a credential, and the directory of the current *)
(* revision is published.                                                   *)
(***************************************************************************)
\* Mutant: an assignment is enough.
ReplacementAssigned(r, fresh) ==
    /\ r \in fresh
    /\ maintenance[r] = "active" /\ assignment[r].desired = "active"

ReplacementReady(r, fresh) ==
    /\ r \in fresh
    /\ maintenance[r] = "active"
    /\ lease[r] /\ assignment[r].cred # 0 /\ mesh.authority # 0
    /\ mesh.life = "active" /\ ~mesh.dirty
    /\ assignment[r].desired = "active" /\ assignment[r].state = "ready"
    /\ assignment[r].applied = assignment[r].revision

(***************************************************************************)
(* Creating a task repeats the preview's checks in its own transaction.     *)
(***************************************************************************)
\* An assignment of a Mesh that is being created or deleted blocks a task.
Blocked(h) == /\ Assigned(h) /\ assignment[h].desired # "removed"
              /\ mesh.life \in {"creating", "deleting"}

CreateDrain(h, r, fresh) ==
    /\ h # r /\ {h, r} \subseteq fresh
    /\ maintenance[h] = "active" /\ maintenance[r] = "active"
    /\ ~Blocked(h) /\ ~Unfinished(h)
    /\ Affected(h) => ReplacementReady(r, fresh)
    /\ drains > 0 /\ drains' = drains - 1
    /\ task' = [task EXCEPT ![h] = [op |-> "drain", status |-> "queued",
                  stage |-> "queued", grace |-> "none", replacement |-> r]]
    /\ maintenance' = [maintenance EXCEPT ![h] = "draining"]
    /\ default' = IF default = h THEN r ELSE default
    /\ UNCHANGED <<mesh, registry, assignment, directory, lease, host,
                   faults, files, job, worker>>

CreateResume(h, fresh) ==
    /\ h \in fresh
    /\ maintenance[h] = "suspended"
    /\ ~Blocked(h) /\ ~Unfinished(h)
    /\ task' = [task EXCEPT ![h] = [NoTask EXCEPT !.op = "resume",
                  !.status = "queued", !.stage = "queued"]]
    /\ UNCHANGED <<mesh, registry, assignment, directory, lease,
                   maintenance, host, faults, files, job, worker, default, drains>>

RetryTask(h) ==
    /\ task[h].status = "failed"
    /\ task' = [task EXCEPT ![h].status = "waiting"]
    /\ UNCHANGED <<mesh, registry, assignment, directory, lease,
                   maintenance, host, faults, files, job, worker, default, drains>>

(***************************************************************************)
(* One step of a task.                                                      *)
(***************************************************************************)
Due(h) == task[h].status \in {"queued", "waiting"}

Wait(h, stage) == task' = [task EXCEPT ![h] = [@ EXCEPT !.status = "waiting", !.stage = stage]]

\* change_host_assignments: the assignment turns, with the directory's revision.
ChangeAssignments(h, desired) ==
    IF Affected(h) /\ assignment[h].desired # desired
    THEN /\ assignment' = [assignment EXCEPT ![h] = Redirected(@, desired)]
         /\ mesh' = [mesh EXCEPT !.dirty = TRUE]
    ELSE UNCHANGED <<assignment, mesh>>

TaskExpires(h) ==
    /\ Due(h) /\ faults > 0
    /\ task' = [task EXCEPT ![h].status = "failed"]
    /\ faults' = faults - 1
    /\ UNCHANGED <<mesh, registry, assignment, directory, lease,
                   maintenance, host, files, job, worker, default, drains>>

Replaced(h, fresh) == Affected(h) => ReplacementReady(task[h].replacement, fresh)

\* The stage the assignment has reached, and whether the host has confirmed it.
Suspending(h) == Affected(h) => assignment[h].desired = "suspended"
ExpectedStage(h) == IF Suspending(h) THEN "suspended" ELSE "draining"

Confirmed(h, fresh) ==
    Affected(h) => /\ assignment[h].state = ExpectedStage(h) /\ h \in fresh
                   /\ assignment[h].applied = assignment[h].revision

\* The code reads the assignments just before it locks their Meshes: a change that
\* commits in between is one the task sees in its next step.  The margins on
\* observations and on validity (30 and 60 seconds) are the set `fresh'.
AdvanceDrain(h, fresh) ==
    /\ Due(h) /\ task[h].op = "drain"
    /\ \/ /\ ~Replaced(h, fresh)
          /\ Wait(h, task[h].stage)
          /\ UNCHANGED <<mesh, assignment, maintenance>>
       \/ /\ Replaced(h, fresh) /\ task[h].grace = "none"
          /\ ChangeAssignments(h, "draining")
          /\ task' = [task EXCEPT ![h] = [@ EXCEPT !.status = "waiting", !.stage = "draining",
                                                   !.grace = "running"]]
          /\ UNCHANGED maintenance
       \/ /\ Replaced(h, fresh) /\ task[h].grace # "none" /\ ~Confirmed(h, fresh)
          /\ Wait(h, ExpectedStage(h))
          /\ UNCHANGED <<mesh, assignment, maintenance>>
       \/ /\ Replaced(h, fresh) /\ task[h].grace # "none" /\ Confirmed(h, fresh)
          /\ ~Suspending(h)
          /\ IF task[h].grace = "elapsed"
               THEN ChangeAssignments(h, "suspended") /\ Wait(h, "suspending")
               ELSE UNCHANGED <<mesh, assignment>> /\ Wait(h, "draining")
          /\ UNCHANGED maintenance
       \/ /\ Replaced(h, fresh) /\ task[h].grace # "none" /\ Confirmed(h, fresh)
          /\ Suspending(h)
          /\ IF assignment[h].desired = "suspended" /\ lease[h]
               THEN /\ Wait(h, "suspending")
                    /\ UNCHANGED maintenance
               ELSE /\ task' = [task EXCEPT ![h] = [@ EXCEPT !.status = "succeeded",
                                                             !.stage = "suspended"]]
                    /\ maintenance' = [maintenance EXCEPT ![h] = "suspended"]
          /\ UNCHANGED <<mesh, assignment>>
    /\ UNCHANGED <<registry, directory, lease, host, faults, files, job,
                   worker, default, drains>>

GraceElapses(h) ==
    /\ task[h].grace = "running"
    /\ task' = [task EXCEPT ![h].grace = "elapsed"]
    /\ UNCHANGED <<mesh, registry, assignment, directory, lease,
                   maintenance, host, faults, files, job, worker, default, drains>>

AdvanceResume(h, fresh) ==
    /\ Due(h) /\ task[h].op = "resume"
    /\ \/ /\ task[h].stage = "queued"
          /\ maintenance' = [maintenance EXCEPT ![h] = "active"]
          /\ ChangeAssignments(h, "active")
          /\ Wait(h, "restoring")
       \/ /\ task[h].stage # "queued"
          /\ IF Affected(h) => ReplacementReady(h, fresh)
               THEN task' = [task EXCEPT ![h] = [@ EXCEPT !.status = "succeeded",
                                                          !.stage = "ready"]]
               ELSE Wait(h, "restoring")
          /\ UNCHANGED <<mesh, assignment, maintenance>>
    /\ UNCHANGED <<registry, directory, lease, host, faults, files, job,
                   worker, default, drains>>

(***************************************************************************)
(* The system.  An instance starts before the Mesh is requested, or with a  *)
(* Mesh that serves on some hosts.                                          *)
(***************************************************************************)
ServedBy(hs) ==
    /\ mesh = [NoMesh EXCEPT !.life = "active", !.authority = 1]
    /\ files = [bundle |-> 1, recovery |-> 1, made |-> 1]
    /\ registry = [w \in Workers |-> 1]
    /\ job = [create |-> [NoJob EXCEPT !.status = "succeeded"], delete |-> NoJob]
    /\ assignment = [h \in Hosts |-> IF h \in hs
                       THEN [NewAssignment EXCEPT !.applied = 1, !.state = "ready",
                                                  !.cred = 1]
                       ELSE Unassigned]
    /\ directory = [h \in Hosts |-> IF h \in hs THEN 1 ELSE 0]
    /\ lease = [h \in Hosts |-> h \in hs]
    /\ host = [h \in Hosts |-> IF h \in hs
                 THEN [StoppedHost EXCEPT !.run = 1, !.accepting = TRUE,
                                          !.key = TRUE, !.root = 1]
                 ELSE StoppedHost]

Requested ==
    /\ mesh = NoMesh
    /\ files = [bundle |-> 0, recovery |-> 0, made |-> 0]
    /\ registry = [w \in Workers |-> 0]
    /\ job = [op \in Operations |-> NoJob]
    /\ assignment = [h \in Hosts |-> Unassigned]
    /\ directory = [h \in Hosts |-> 0]
    /\ lease = [h \in Hosts |-> FALSE]
    /\ host = [h \in Hosts |-> StoppedHost]

Init ==
    /\ scope \in Scopes
    /\ IF scope.serving = {} THEN Requested ELSE ServedBy(scope.serving)
    /\ faults = scope.faults
    /\ worker = [w \in Workers |-> [IdleWorker EXCEPT !.up = w \in scope.workers]]
    /\ maintenance = [h \in Hosts |-> "active"]
    /\ default = scope.default
    /\ task = [h \in Hosts |-> NoTask]
    /\ drains = scope.drains

\* The Control processes that answer a host.
Controls == {w \in scope.workers : worker[w].up}

AdministratorStep ==
    \/ RequestCreate(Admissible)
    \/ scope.deletes /\ RequestDelete
    \/ \E op \in Operations : RetryJob(op)
    \/ \E h \in scope.hosts : scope.assigns /\ AssignHost(h, Admissible)

Next ==
    /\ UNCHANGED scope
    /\ \/ /\ \/ AdministratorStep
             \/ \E op \in Operations : JobLeaseLapses(op)
             \/ \E w \in scope.workers :
                  \/ WorkerStep(w)
                  \/ Publish(w)
                  \/ StepFails(w)
                  \/ \E op \in Operations : StepAborted(w, op)
                  \/ WorkerCrash(w)
                  \/ \E h \in scope.hosts : scope.renews /\ RenewCredential(w, h)
          /\ UNCHANGED <<task, drains>>
       \/ /\ \E h \in scope.hosts : HostStep(h, Controls) \/ HostFault(h) \/ LeaseLapses(h)
          /\ UNCHANGED <<files, job, worker, default, task, drains>>
       \/ \E h \in scope.hosts, fresh \in SUBSET scope.hosts :
            \/ \E r \in scope.hosts : CreateDrain(h, r, fresh)
            \/ CreateResume(h, fresh)
            \/ AdvanceDrain(h, fresh)
            \/ AdvanceResume(h, fresh)
       \/ \E h \in scope.hosts : RetryTask(h) \/ TaskExpires(h) \/ GraceElapses(h)

Spec == Init /\ [][Next]_vars

(***************************************************************************)
(* Fairness.  The worker's and the host's loops run for as long as their    *)
(* processes do; reloading and publishing happen on timers of their own,    *)
(* whatever jobs there are to work on; tasks are looked at every two         *)
(* seconds, again and again while the hosts are fresh; an operator retries  *)
(* what has failed.                                                         *)
(***************************************************************************)
Loop(w) == w \in scope.workers /\ WorkerStep(w) /\ UNCHANGED <<task, drains, scope>>
Timers(w) == /\ w \in scope.workers /\ (ReloadIssuers(w) \/ Publish(w))
             /\ UNCHANGED <<task, drains, scope>>
Pass(h) == /\ h \in scope.hosts /\ HostStep(h, Controls)
           /\ UNCHANGED <<files, job, worker, default, task, drains, scope>>
TaskPass == /\ \E h \in scope.hosts : AdvanceDrain(h, scope.hosts)
                                       \/ AdvanceResume(h, scope.hosts)
            /\ UNCHANGED scope
TimePasses ==
    \/ /\ \E op \in Operations : JobLeaseLapses(op)
       /\ UNCHANGED <<task, drains, scope>>
    \/ /\ \E h \in scope.hosts : LeaseLapses(h)
       /\ UNCHANGED <<files, job, worker, default, task, drains, scope>>
    \/ /\ \E h \in scope.hosts : GraceElapses(h)
       /\ UNCHANGED scope
Retries ==
    \/ /\ \E op \in Operations : RetryJob(op)
       /\ UNCHANGED <<task, drains, scope>>
    \/ /\ \E h \in scope.hosts : RetryTask(h)
       /\ UNCHANGED scope

Fairness ==
    /\ \A w \in Workers : WF_vars(Loop(w)) /\ SF_vars(Timers(w))
    /\ \A h \in Hosts : WF_vars(Pass(h))
    /\ WF_vars(TaskPass)
    /\ WF_vars(TimePasses)
    /\ WF_vars(Retries)

FairSpec == Spec /\ Fairness

(***************************************************************************)
(* Properties                                                               *)
(***************************************************************************)
Task == [op : {"none", "drain", "resume"},
         status : {"none", "queued", "waiting", "failed", "succeeded"},
         stage : {"none", "queued", "draining", "suspending", "suspended", "restoring", "ready"},
         grace : {"none", "running", "elapsed"}, replacement : Hosts \cup {NoOne}]

\* Every variable has its type.
TypeOK ==
    /\ LifecycleTypeOK
    /\ task \in [Hosts -> Task]
    /\ drains \in Nat
    /\ scope \in Scopes

\* The root under which an Authority was certified, a termination signed or a
\* host pinned its trust is the one in the recovery archive, even if a step was
\* repeated by another process after a crash between its files and its commit.
RecoveryMatchesRoot ==
    /\ mesh.authority \in {0, files.recovery}
    /\ mesh.tomb # "none" => mesh.tombRoot = files.recovery
    /\ \A h \in Hosts : host[h].root \in {0, files.recovery}

\* A host whose drain has completed runs no Mesh that is in service: the task
\* rests on an acknowledgement of the very revision that suspends it.
SuspendedHostIsIdle ==
    \A h \in Hosts :
      maintenance[h] = "suspended" /\ mesh.life = "active" => host[h].run = 0

\* A drain never takes the last Relay: when Control directs a host to suspend
\* the Mesh, another one really admits peers, or its runtime has died and its
\* lease has not lapsed yet (maintenance_worker.rs, replacement_ready: it trusts
\* acknowledgements of the current revision and leases).
SuspendsOntoServing ==
    [][\A h \in Hosts :
         assignment[h].desired # "suspended" /\ assignment'[h].desired = "suspended"
           => \E r \in Hosts \ {h} :
                host[r].accepting \/ (lease[r] /\ host[r].run = 0)]_vars

\* "A replaced worker cannot acknowledge another generation or revive a
\* cancelled create operation": once the Mesh is being deleted, the creation
\* job keeps the status the deletion left it with.
CancelledStaysCancelled ==
    [][mesh.life = "deleting" => job'["create"].status = job["create"].status]_vars

\* The phase of a Mesh, read from its row and its tombstone.
PhaseOf(m) ==
    CASE m.tomb = "cleaned" -> "gone"
      [] m.tomb = "signed" -> "terminated"
      [] OTHER -> CASE m.life = "none" -> "absent"
                    [] m.life = "creating" -> "requested"
                    [] m.life = "active" -> "serving"
                    [] m.life = "deleting" -> "ending"

KeyHolders == {h \in Hosts : host[h].key}

Promise == INSTANCE MeshPromise WITH phase <- PhaseOf(mesh), keyHolders <- KeyHolders

\* What the whole does is what is promised of a Mesh.
KeepsPromise == Promise!Spec

\* A requested Mesh comes to serve, or is deleted: hosts, processes and their
\* acknowledgements may fail along the way, and failed jobs are retried.
CreationCompletes == mesh.life = "creating" ~> mesh.life # "creating"

\* A Mesh whose Authority was established is deleted once that is requested, its
\* online key bundle included (the last step erases it after the rows are gone).
DeletionCompletes ==
    (mesh.life = "deleting" /\ mesh.authority # 0)
        ~> (mesh.tomb = "cleaned" /\ files.bundle = 0)

\* A maintenance task ends, whatever fails on the way, unless its replacement
\* comes under maintenance itself, or the host was drained before it had ever
\* registered its key: a draining assignment cannot register one.
MaintenanceCompletes ==
    \A h \in Hosts :
      Unfinished(h) ~>
        \/ ~Unfinished(h)
        \/ task[h].op = "drain" /\ maintenance[task[h].replacement] # "active"
        \/ Affected(h) /\ assignment[h].cred = 0

\* The same of any Mesh: "Deletion may win before the creation worker ever
\* archives the Root" (dynamic_mesh.rs), and cleanup continues asynchronously
\* (spec/API.md).
EveryDeletionCompletes == mesh.life = "deleting" ~> mesh.tomb = "cleaned"
=============================================================================
