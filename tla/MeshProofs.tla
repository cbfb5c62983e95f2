----------------------------- MODULE MeshProofs -----------------------------
(***************************************************************************)
(* The life of a dynamic Mesh for every set of hosts and of Control        *)
(* processes, any number of failures, of drains and of root keys: the      *)
(* archived root is the one everybody trusts, a cancelled creation stays   *)
(* cancelled, a drain never takes the last Relay and leaves its host idle, *)
(* and the whole implements MeshPromise.                                   *)
(***************************************************************************)
EXTENDS HostMaintenance, TLAPS

-----------------------------------------------------------------------------
(* The inductive invariant, in parts.                                      *)

\* The Mesh row, its tombstone and the two jobs move together.
LifeInv ==
    /\ mesh.tomb = "signed" => mesh.life = "deleting"
    /\ mesh.tomb = "cleaned" => mesh.life = "none"
    /\ job["delete"].status # "none" /\ mesh.tomb = "none" => mesh.life = "deleting"
    /\ mesh.life = "deleting" => job["create"].status \in {"succeeded", "failed"}
    /\ \A op \in Operations : job[op].status # "failed" => job[op].failures < FailureLimit
    /\ \A w \in Workers : worker[w].pc = "erase" => mesh.tomb = "cleaned"

\* There is one root: the archived one.  Until the rows are gone the bundle
\* holds it as well, so that a repeated step reads it back.
RootInv ==
    /\ mesh.tomb = "none" => files.bundle = files.recovery
    /\ files.bundle \in {0, files.recovery}
    /\ mesh.authority \in {0, files.recovery}
    /\ mesh.tombRoot \in {0, files.recovery}
    /\ mesh.tomb # "none" => mesh.tombRoot = files.recovery
    /\ \A w \in Workers : /\ registry[w] \in {0, files.recovery}
                          /\ worker[w].root \in {0, files.recovery}
    /\ \A h \in Hosts : /\ host[h].root \in {0, files.recovery}
                        /\ host[h].snap.root \in {0, files.recovery}

\* A host works on its assignment or an earlier revision of it.
SnapInv ==
    \A h \in Hosts :
      /\ ~Assigned(h) <=> assignment[h].revision = 0
      /\ ~Assigned(h) => host[h].run = 0 /\ host[h].pc = "idle" /\ ~host[h].key
      /\ Assigned(h) => mesh.life # "none" \/ mesh.tomb # "none"
      /\ host[h].pc = "idle" => host[h].snap = NoSnapshot
      /\ host[h].pc # "idle" => host[h].snap.revision # 0
      /\ host[h].snap.revision <= assignment[h].revision
      /\ host[h].snap.revision = assignment[h].revision =>
           host[h].snap.desired = assignment[h].desired
      /\ host[h].run <= assignment[h].revision
      /\ Assigned(h) /\ assignment[h].applied = assignment[h].revision =>
           host[h].pc = "idle" \/ host[h].snap.revision = assignment[h].revision

\* Who has a key, and who has given it up for good.
KeyInv ==
    \A h \in Hosts :
      /\ assignment[h].desired = "removed" => mesh.tomb # "none"
      /\ host[h].snap.desired = "removed" => mesh.tomb # "none"
      /\ host[h].terminal => mesh.tomb # "none"
      /\ host[h].pc = "erase" => host[h].terminal /\ host[h].snap.desired = "removed"
      /\ host[h].pc = "ack" /\ host[h].reply = "removed" => host[h].terminal /\ ~host[h].key
      /\ assignment[h].state = "removed" => host[h].terminal /\ ~host[h].key
      /\ mesh.tomb = "cleaned" => ~host[h].key /\ (Assigned(h) => host[h].terminal)

\* What an acknowledged suspension rests on.
SuspendInv ==
    \A h \in Hosts :
      /\ host[h].pc = "ack" /\ host[h].snap.desired = "suspended" => host[h].run = 0
      /\ assignment[h].desired = "suspended" /\ assignment[h].applied = assignment[h].revision
           => host[h].run = 0
      /\ assignment[h].state = "suspended" => assignment[h].applied = assignment[h].revision

\* Where a host and its tasks stand.
TaskInv ==
    \A h \in Hosts :
      /\ task[h].op = "drain" => task[h].replacement \in Hosts \ {h}
      /\ task[h].op = "drain" /\ Unfinished(h) => maintenance[h] = "draining"
      /\ mesh.life = "creating" /\ Assigned(h) => maintenance[h] = "active"
      /\ maintenance[h] = "suspended" /\ mesh.life = "active" /\ Assigned(h) =>
           /\ assignment[h].desired = "suspended"
           /\ assignment[h].applied = assignment[h].revision

\* What an acknowledged start rests on: a runtime that admits nobody was told so.
ReadyInv ==
    \A h \in Hosts :
      /\ host[h].run # 0 /\ ~host[h].accepting =>
           /\ assignment[h].revision = host[h].run => assignment[h].desired = "draining"
           /\ host[h].snap.revision = host[h].run => host[h].snap.desired = "draining"
      /\ host[h].pc = "ack" /\ host[h].reply = "ready" => host[h].accepting
      /\ assignment[h].state = "ready" =>
           /\ assignment[h].desired = "active"
           /\ assignment[h].applied = assignment[h].revision
           /\ host[h].run # 0 => host[h].accepting

MeshInv ==
    /\ TypeOK /\ LifeInv /\ RootInv /\ SnapInv /\ KeyInv
    /\ SuspendInv /\ TaskInv /\ ReadyInv

-----------------------------------------------------------------------------
(* Facts about the operators of the model.                                 *)

\* A host that turns to its acknowledgement, or idles, is a host process.
LEMMA ProcessShapes ==
    ASSUME NEW p \in HostProcess
    PROVE  Idling(p) \in HostProcess /\ \A r \in States : Answering(p, r) \in HostProcess
<1>1. NoSnapshot \in Snapshot
  BY RelayHostsAssumption DEF NoSnapshot, Snapshot
<1>2. Idling(p) \in HostProcess BY <1>1 DEF Idling, HostProcess
<1>3. ASSUME NEW r \in States PROVE Answering(p, r) \in HostProcess
  BY DEF Answering, HostProcess
<1> QED BY <1>2, <1>3

\* A host process in the place of another keeps the hosts hosts.
LEMMA HostReplaced ==
    ASSUME host \in [Hosts -> HostProcess], NEW h \in Hosts, NEW p \in HostProcess,
           host' = [host EXCEPT ![h] = p]
    PROVE  host' \in [Hosts -> HostProcess]
OBVIOUS

\* A row is never acknowledged ahead of its revision.
Row(a) == a \in AssignmentRow /\ a.applied <= a.revision

\* A new, redirected or acknowledged assignment is still a row, applied at most at its
\* revision.
LEMMA RowShapes ==
    ASSUME NEW a, Row(a)
    PROVE  /\ Row(NewAssignment)
           /\ \A d \in Desired : Row(Redirected(a, d))
           /\ \A n \in Nat, r \in States \cup {"none"} : Row(Recorded(a, n, r))
<1>1. Row(NewAssignment)
  BY RelayHostsAssumption DEF Row, NewAssignment, AssignmentRow, Desired, States
<1>2. a \in AssignmentRow /\ a.applied \in Nat /\ a.revision \in Nat /\ a.applied <= a.revision
  BY DEF Row, AssignmentRow
<1>3. ASSUME NEW d \in Desired PROVE Row(Redirected(a, d))
  <2> DEFINE n == a.revision + 1
  <2>. n \in Nat BY <1>2
  <2> HIDE DEF n
  <2>0. [a EXCEPT !.desired = d, !.revision = n, !.state = "pending"] \in AssignmentRow
    BY <1>2 DEF AssignmentRow, States
  <2>1. Redirected(a, d) \in AssignmentRow BY <2>0 DEF Redirected, n
  <2>2. /\ Redirected(a, d).applied = a.applied
        /\ Redirected(a, d).revision = a.revision + 1
    BY <1>2 DEF Redirected
  <2> QED BY <1>2, <2>1, <2>2 DEF Row
<1>4. ASSUME NEW n \in Nat, NEW r \in States \cup {"none"}
      PROVE  Row(Recorded(a, n, r))
  <2>1. CASE ~Accepts(a, n, r) BY <2>1 DEF Recorded
  <2>2. CASE Accepts(a, n, r)
    <3>1. Recorded(a, n, r) = [a EXCEPT !.applied = n, !.state = r] BY <2>2 DEF Recorded
    <3>2. Recorded(a, n, r) \in AssignmentRow BY <1>2, <3>1 DEF AssignmentRow
    <3>3. Recorded(a, n, r).applied = n /\ Recorded(a, n, r).revision = n
      BY <1>2, <2>2, <3>1 DEF AssignmentRow, Accepts
    <3> QED BY <3>2, <3>3 DEF Row
  <2> QED BY <2>1, <2>2
<1> QED BY <1>1, <1>3, <1>4

\* Replacing one assignment by a row keeps all of them rows.
LEMMA RowReplaced ==
    ASSUME assignment \in [Hosts -> AssignmentRow],
           \A i \in Hosts : assignment[i].applied <= assignment[i].revision,
           NEW h \in Hosts, NEW a, Row(a), assignment' = [assignment EXCEPT ![h] = a]
    PROVE  /\ assignment' \in [Hosts -> AssignmentRow]
           /\ \A i \in Hosts : assignment'[i].applied <= assignment'[i].revision
BY DEF Row

\* Jobs as they are queued and as they were before.
LEMMA JobShapes == NoJob \in JobRow /\ QueuedJob \in JobRow
<1>1. NoJob \in JobRow BY FailureLimitAssumption DEF NoJob, JobRow
<1> QED BY <1>1 DEF QueuedJob, JobRow

\* The root is generated once.
LEMMA ArchiveEffect ==
    ASSUME files \in KeyFiles, files.bundle = files.recovery, ArchiveRoot
    PROVE  /\ PreparedBundle \in Roots
           /\ files'.bundle = PreparedBundle /\ files'.recovery = PreparedBundle
           /\ files.recovery \in {0, PreparedBundle}
BY DEF ArchiveRoot, PreparedBundle, KeyFiles

\* What one step of a drain does to its task, its assignment and its host.
Turned(h, d) ==
    /\ Affected(h) /\ assignment[h].desired # d
    /\ assignment' = [assignment EXCEPT ![h] = Redirected(@, d)]
    /\ mesh' = [mesh EXCEPT !.dirty = TRUE]

Advanced(h) ==
    \E t \in Task : /\ task' = [task EXCEPT ![h] = t]
                    /\ t.op = task[h].op /\ t.replacement = task[h].replacement
                    /\ t.status \in {"waiting", "succeeded"}

DrainChanges(h, fresh) ==
    /\ Due(h) /\ task[h].op = "drain" /\ Advanced(h)
    /\ \/ UNCHANGED <<assignment, mesh>>
       \/ /\ Replaced(h, fresh) /\ UNCHANGED maintenance
          /\ \E d \in {"draining", "suspended"} : Turned(h, d)
    /\ \/ UNCHANGED maintenance
       \/ /\ maintenance' = [maintenance EXCEPT ![h] = "suspended"]
          /\ UNCHANGED <<assignment, mesh>>
          /\ task'[h].status = "succeeded"
          /\ Affected(h) => /\ assignment[h].desired = "suspended"
                            /\ assignment[h].applied = assignment[h].revision
    /\ UNCHANGED <<registry, directory, lease, host, faults, files, job, worker, default, drains>>

\* That is all advance_relay_drain changes.
LEMMA DrainEffect ==
    ASSUME task \in [Hosts -> Task], NEW h \in Hosts, NEW fresh, AdvanceDrain(h, fresh)
    PROVE  DrainChanges(h, fresh)
<1>1. task[h] \in Task OBVIOUS
<1>2. Due(h) /\ task[h].op = "drain" BY DEF AdvanceDrain
<1>3. ASSUME NEW st \in {"waiting", "succeeded"},
             NEW sg \in {"none", "queued", "draining", "suspending", "suspended", "restoring", "ready"},
             task' = [task EXCEPT ![h] = [@ EXCEPT !.status = st, !.stage = sg]]
      PROVE  Advanced(h) /\ task'[h].status = st
  <2> DEFINE t == [task[h] EXCEPT !.status = st, !.stage = sg]
  <2>1. t \in Task /\ t.op = task[h].op /\ t.replacement = task[h].replacement /\ t.status = st
    BY <1>1 DEF Task
  <2>2. task' = [task EXCEPT ![h] = t] BY <1>3
  <2> HIDE DEF t
  <2> QED BY <2>1, <2>2 DEF Advanced
<1>4. task[h].stage \in {"none", "queued", "draining", "suspending", "suspended", "restoring", "ready"}
  BY DEF Task
<1>5. ASSUME NEW d \in {"draining", "suspended"}, ChangeAssignments(h, d)
      PROVE  UNCHANGED <<assignment, mesh>> \/ \E e \in {"draining", "suspended"} : Turned(h, e)
  BY <1>5 DEF ChangeAssignments, Turned
<1>6. ExpectedStage(h) \in {"draining", "suspended"} BY DEF ExpectedStage
<1>7. UNCHANGED <<registry, directory, lease, host, faults, files, job, worker, default, drains>>
  BY DEF AdvanceDrain
<1>8. CASE ~Replaced(h, fresh)
  <2>1. Wait(h, task[h].stage) /\ UNCHANGED <<mesh, assignment, maintenance>>
    BY <1>8 DEF AdvanceDrain
  <2> QED BY <1>2, <1>3, <1>4, <1>7, <2>1 DEF DrainChanges, Wait
<1>9. CASE Replaced(h, fresh) /\ task[h].grace = "none"
  <2>1. /\ ChangeAssignments(h, "draining") /\ UNCHANGED maintenance
        /\ task' = [task EXCEPT ![h] = [@ EXCEPT !.status = "waiting", !.stage = "draining",
                                                 !.grace = "running"]]
    BY <1>9 DEF AdvanceDrain
  <2> DEFINE t == [task[h] EXCEPT !.status = "waiting", !.stage = "draining", !.grace = "running"]
  <2>2. t \in Task /\ t.op = task[h].op /\ t.replacement = task[h].replacement /\ t.status = "waiting"
    BY <1>1 DEF Task
  <2>3. task' = [task EXCEPT ![h] = t] BY <2>1
  <2> HIDE DEF t
  <2>4. Advanced(h) BY <2>2, <2>3 DEF Advanced
  <2> QED BY <1>2, <1>5, <1>7, <1>9, <2>1, <2>4 DEF DrainChanges
<1>10. CASE Replaced(h, fresh) /\ task[h].grace # "none" /\ ~Confirmed(h, fresh)
  <2>1. Wait(h, ExpectedStage(h)) /\ UNCHANGED <<mesh, assignment, maintenance>>
    BY <1>10 DEF AdvanceDrain
  <2> QED BY <1>2, <1>3, <1>6, <1>7, <2>1 DEF DrainChanges, Wait
<1>11. CASE /\ Replaced(h, fresh) /\ task[h].grace # "none" /\ Confirmed(h, fresh)
            /\ ~Suspending(h)
  <2>1. /\ UNCHANGED maintenance
        /\ \/ ChangeAssignments(h, "suspended") /\ Wait(h, "suspending")
           \/ UNCHANGED <<mesh, assignment>> /\ Wait(h, "draining")
    BY <1>11 DEF AdvanceDrain
  <2>2. Advanced(h) BY <1>3, <2>1 DEF Wait
  <2> QED BY <1>2, <1>5, <1>7, <1>11, <2>1, <2>2 DEF DrainChanges
<1>12. CASE /\ Replaced(h, fresh) /\ task[h].grace # "none" /\ Confirmed(h, fresh)
            /\ Suspending(h)
  <2>1. /\ UNCHANGED <<mesh, assignment>>
        /\ \/ UNCHANGED maintenance /\ Wait(h, "suspending")
           \/ /\ task' = [task EXCEPT ![h] = [@ EXCEPT !.status = "succeeded", !.stage = "suspended"]]
              /\ maintenance' = [maintenance EXCEPT ![h] = "suspended"]
    BY <1>12 DEF AdvanceDrain
  <2>2. Affected(h) => /\ assignment[h].desired = "suspended"
                       /\ assignment[h].applied = assignment[h].revision
    BY <1>12 DEF Confirmed, Suspending
  <2> QED BY <1>2, <1>3, <1>7, <2>1, <2>2 DEF DrainChanges, Wait
<1> QED BY <1>8, <1>9, <1>10, <1>11, <1>12

\* What one step of a resumption does.
ResumeChanges(h, fresh) ==
    /\ Due(h) /\ task[h].op = "resume" /\ Advanced(h)
    /\ \/ UNCHANGED <<assignment, mesh, maintenance>>
       \/ /\ maintenance' = [maintenance EXCEPT ![h] = "active"]
          /\ \/ UNCHANGED <<assignment, mesh>> /\ (Affected(h) => assignment[h].desired = "active")
             \/ Turned(h, "active")
    /\ UNCHANGED <<registry, directory, lease, host, faults, files, job, worker, default, drains>>

\* That is all advance_relay_resume changes.
LEMMA ResumeEffect ==
    ASSUME task \in [Hosts -> Task], NEW h \in Hosts, NEW fresh, AdvanceResume(h, fresh)
    PROVE  ResumeChanges(h, fresh)
<1>1. task[h] \in Task OBVIOUS
<1>2. Due(h) /\ task[h].op = "resume" BY DEF AdvanceResume
<1>3. ASSUME NEW st \in {"waiting", "succeeded"}, NEW sg \in {"restoring", "ready"},
             task' = [task EXCEPT ![h] = [@ EXCEPT !.status = st, !.stage = sg]]
      PROVE  Advanced(h)
  <2> DEFINE t == [task[h] EXCEPT !.status = st, !.stage = sg]
  <2>1. t \in Task /\ t.op = task[h].op /\ t.replacement = task[h].replacement /\ t.status = st
    BY <1>1 DEF Task
  <2>2. task' = [task EXCEPT ![h] = t] BY <1>3
  <2> HIDE DEF t
  <2> QED BY <2>1, <2>2 DEF Advanced
<1>4. Advanced(h) BY <1>3 DEF AdvanceResume, Wait
<1>5. \/ UNCHANGED <<assignment, mesh, maintenance>>
      \/ /\ maintenance' = [maintenance EXCEPT ![h] = "active"]
         /\ \/ UNCHANGED <<assignment, mesh>> /\ (Affected(h) => assignment[h].desired = "active")
            \/ Turned(h, "active")
  BY DEF AdvanceResume, ChangeAssignments, Turned
<1>6. UNCHANGED <<registry, directory, lease, host, faults, files, job, worker, default, drains>>
  BY DEF AdvanceResume
<1> QED BY <1>2, <1>4, <1>5, <1>6 DEF ResumeChanges

\* A turned assignment is a new revision that nobody has fetched.
LEMMA TurnKeeps ==
    ASSUME MeshInv, NEW h \in Hosts, NEW d \in Desired \ {"removed"}, Turned(h, d), UNCHANGED host
    PROVE  SnapInv' /\ KeyInv' /\ SuspendInv' /\ ReadyInv'
<1>1. /\ assignment \in [Hosts -> AssignmentRow]
      /\ \A i \in Hosts : /\ assignment[i].applied \in Nat /\ assignment[i].revision \in Nat
                          /\ assignment[i].applied <= assignment[i].revision
  BY DEF MeshInv, TypeOK, LifecycleTypeOK, HostTypeOK, AssignmentRow
<1>2. \A i \in Hosts : host[i].run \in Nat /\ host[i].snap.revision \in Nat
  BY DEF MeshInv, TypeOK, LifecycleTypeOK, HostTypeOK, HostProcess, Snapshot
<1>3. /\ assignment'[h].desired = d /\ assignment'[h].state = "pending"
      /\ assignment'[h].revision = assignment[h].revision + 1
      /\ assignment'[h].applied = assignment[h].applied
      /\ \A i \in Hosts \ {h} : assignment'[i] = assignment[i]
  BY <1>1 DEF Turned, Redirected
<1>4. mesh'.life = mesh.life /\ mesh'.tomb = mesh.tomb
  BY DEF Turned
<1>5. Assigned(h) /\ host' = host /\ d # "none" /\ d # "removed" BY DEF Turned, Affected,
   Desired
<1>6. SnapInv' BY <1>1, <1>2, <1>3, <1>4, <1>5 DEF MeshInv, SnapInv, Assigned
<1>7. KeyInv' BY <1>1, <1>3, <1>4, <1>5 DEF MeshInv, KeyInv, Assigned
<1>8. SuspendInv' BY <1>1, <1>3, <1>5 DEF MeshInv, SuspendInv
<1>9. ReadyInv' BY <1>1, <1>2, <1>3, <1>5 DEF MeshInv, ReadyInv, SnapInv
<1> QED BY <1>6, <1>7, <1>8, <1>9

\* What the termination of a Mesh does to its assignments.
RemovalDirected ==
    /\ \A i \in Hosts :
         /\ ~Assigned(i) => assignment'[i] = assignment[i]
         /\ Assigned(i) => /\ assignment'[i].desired = "removed"
                           /\ assignment'[i].state = "pending"
                           /\ assignment'[i].revision = assignment[i].revision + 1
                           /\ assignment'[i].applied = assignment[i].applied
    /\ mesh'.life = mesh.life /\ mesh'.authority = mesh.authority /\ mesh'.tomb = "signed"
    /\ mesh.tomb = "none"

\* The commit of a deletion step directs every host to remove the Mesh.
LEMMA CommitEffect ==
    ASSUME MeshInv, NEW w \in Workers, DeleteCommit(w)
    PROVE  RemovalDirected
<1>1. assignment \in [Hosts -> AssignmentRow] /\ mesh \in MeshRow
  BY DEF MeshInv, TypeOK, LifecycleTypeOK, HostTypeOK
<1>2. assignment' = [i \in Hosts |-> IF Assigned(i) THEN Redirected(assignment[i], "removed")
                                                   ELSE assignment[i]]
  BY DEF DeleteCommit
<1>3. \A i \in Hosts : assignment[i] \in AssignmentRow BY <1>1
<1>4. \A a \in AssignmentRow : LET b == Redirected(a, "removed") IN
        /\ b.desired = "removed" /\ b.state = "pending"
        /\ b.revision = a.revision + 1 /\ b.applied = a.applied
  BY DEF Redirected
<1>5. /\ mesh'.life = mesh.life /\ mesh'.authority = mesh.authority /\ mesh'.tomb = "signed"
      /\ mesh.tomb = "none"
  BY <1>1 DEF DeleteCommit
<1> QED BY <1>2, <1>3, <1>4, <1>5 DEF RemovalDirected

-----------------------------------------------------------------------------
(* Every step keeps every part.                                            *)

\* Every step keeps every variable in its type.
LEMMA TypeStep ==
    ASSUME MeshInv, [Next]_vars
    PROVE  TypeOK'
<1>mesh. mesh \in MeshRow
  BY DEF MeshInv, TypeOK, LifecycleTypeOK
<1>registry. registry \in [Workers -> Roots \cup {0}]
  BY DEF MeshInv, TypeOK, LifecycleTypeOK
<1>assignment. /\ assignment \in [Hosts -> AssignmentRow]
              /\ \A i \in Hosts : assignment[i].applied <= assignment[i].revision
  BY DEF MeshInv, TypeOK, LifecycleTypeOK, HostTypeOK
<1>directory. directory \in [Hosts -> 0..MaxCred]
  BY DEF MeshInv, TypeOK, LifecycleTypeOK, HostTypeOK
<1>lease. lease \in [Hosts -> BOOLEAN]
  BY DEF MeshInv, TypeOK, LifecycleTypeOK, HostTypeOK
<1>maintenance. maintenance \in [Hosts -> {"active", "draining", "suspended"}]
  BY DEF MeshInv, TypeOK, LifecycleTypeOK, HostTypeOK
<1>host. host \in [Hosts -> HostProcess]
  BY DEF MeshInv, TypeOK, LifecycleTypeOK, HostTypeOK
<1>faults. faults \in Nat
  BY DEF MeshInv, TypeOK, LifecycleTypeOK
<1>files. files \in KeyFiles
  BY DEF MeshInv, TypeOK, LifecycleTypeOK
<1>job. job \in [Operations -> JobRow]
  BY DEF MeshInv, TypeOK, LifecycleTypeOK
<1>worker. worker \in [Workers -> WorkerState]
  BY DEF MeshInv, TypeOK, LifecycleTypeOK
<1>default. default \in Hosts
  BY DEF MeshInv, TypeOK, LifecycleTypeOK
<1>task. task \in [Hosts -> Task]
  BY DEF MeshInv, TypeOK
<1>drains. drains \in Nat
  BY DEF MeshInv, TypeOK
<1>1. ASSUME RequestCreate(Admissible), UNCHANGED <<task, drains, scope>> PROVE TypeOK'
  <2>1. mesh' \in MeshRow
    BY <1>1, <1>mesh DEF RequestCreate, MeshRow
  <2>2. /\ assignment' \in [Hosts -> AssignmentRow]
        /\ \A i \in Hosts : assignment'[i].applied <= assignment'[i].revision
    <3>1. Row(assignment[default]) BY <1>assignment, <1>default DEF Row
    <3>2. Row(NewAssignment) BY <3>1, RowShapes
    <3> QED BY <1>1, <1>assignment, <1>default, <3>2, RowReplaced DEF RequestCreate
  <2>3. job' \in [Operations -> JobRow]
    BY <1>1, <1>job, JobShapes DEF RequestCreate, Operations
  <2> QED BY <1>1, <2>1, <2>2, <2>3 DEF RequestCreate, MeshInv, TypeOK, LifecycleTypeOK,
     HostTypeOK
<1>2. ASSUME RequestDelete, UNCHANGED <<task, drains, scope>> PROVE TypeOK'
  <2>1. mesh' \in MeshRow
    BY <1>2, <1>mesh DEF RequestDelete, MeshRow
  <2>2. job' \in [Operations -> JobRow]
    <3>1. job["create"] \in JobRow BY <1>job DEF Operations
    <3> DEFINE c == IF job["create"].status = "succeeded" THEN job["create"]
                    ELSE [job["create"] EXCEPT !.status = "failed", !.holder = NoOne,
                                               !.leased = FALSE]
    <3>2. c \in JobRow BY <3>1 DEF JobRow
    <3>3. job' = [create |-> c, delete |-> QueuedJob] BY <1>2 DEF RequestDelete
    <3> HIDE DEF c
    <3> QED BY <3>2, <3>3, JobShapes DEF Operations
  <2> QED BY <1>2, <2>1, <2>2 DEF RequestDelete, MeshInv, TypeOK, LifecycleTypeOK, HostTypeOK
<1>3. ASSUME NEW op \in Operations, RetryJob(op), UNCHANGED <<task, drains, scope>> PROVE TypeOK'
  <2>1. job' \in [Operations -> JobRow]
    <3>1. job[op] \in JobRow BY <1>job
    <3>2. \A n \in 0..FailureLimit :
            [job[op] EXCEPT !.status = "queued", !.failures = n] \in JobRow
      BY <3>1 DEF JobRow
    <3>3. 0 \in 0..FailureLimit BY FailureLimitAssumption
    <3> QED BY <1>3, <1>job, <3>2, <3>3 DEF RetryJob
  <2> QED BY <1>3, <2>1 DEF RetryJob, MeshInv, TypeOK, LifecycleTypeOK, HostTypeOK
<1>4. ASSUME NEW h \in Hosts, AssignHost(h, Admissible), UNCHANGED <<task, drains, scope>>
      PROVE  TypeOK'
  <2>1. /\ assignment' \in [Hosts -> AssignmentRow]
        /\ \A i \in Hosts : assignment'[i].applied <= assignment'[i].revision
    BY <1>4, <1>assignment, RelayHostsAssumption DEF AssignHost, NewAssignment, AssignmentRow,
       Desired, States
  <2> QED BY <1>4, <2>1 DEF AssignHost, MeshInv, TypeOK, LifecycleTypeOK, HostTypeOK
<1>5. ASSUME NEW op \in Operations, JobLeaseLapses(op), UNCHANGED <<task, drains, scope>>
      PROVE  TypeOK'
  <2>1. faults' \in Nat
    BY <1>5, <1>faults DEF JobLeaseLapses
  <2>2. job' \in [Operations -> JobRow]
    BY <1>5, <1>job, FailureLimitAssumption DEF JobLeaseLapses, JobRow, Operations
  <2> QED BY <1>5, <2>1, <2>2 DEF JobLeaseLapses, MeshInv, TypeOK, LifecycleTypeOK, HostTypeOK
<1>6. ASSUME NEW w \in Workers, ReloadIssuers(w), UNCHANGED <<task, drains, scope>> PROVE TypeOK'
  <2>1. registry' \in [Workers -> Roots \cup {0}]
    BY <1>6, <1>registry, <1>files DEF ReloadIssuers, Loaded, Roots, KeyFiles
  <2> QED BY <1>6, <2>1 DEF ReloadIssuers, MeshInv, TypeOK, LifecycleTypeOK, HostTypeOK
<1>7. ASSUME NEW w \in Workers, NEW op \in Operations, Claim(w, op),
             UNCHANGED <<task, drains, scope>>
      PROVE  TypeOK'
  <2>1. job' \in [Operations -> JobRow]
    BY <1>7, <1>job, FailureLimitAssumption DEF Claim, JobRow, Operations
  <2>2. worker' \in [Workers -> WorkerState]
    BY ZenonT(60), <1>7, <1>worker DEF Claim, WorkerState, Operations
  <2> QED BY <1>7, <2>1, <2>2 DEF Claim, MeshInv, TypeOK, LifecycleTypeOK, HostTypeOK
<1>8. ASSUME NEW w \in Workers, NEW op \in Operations, StepFenced(w, op),
             UNCHANGED <<task, drains, scope>>
      PROVE  TypeOK'
  <2>1. worker' \in [Workers -> WorkerState]
    BY ZenonT(60), <1>8, <1>worker DEF StepFenced, Concluded, WorkerState
  <2> QED BY <1>8, <2>1 DEF StepFenced, MeshInv, TypeOK, LifecycleTypeOK, HostTypeOK
<1>9. ASSUME NEW w \in Workers, NEW op \in Operations, FinishStep(w, op),
             UNCHANGED <<task, drains, scope>>
      PROVE  TypeOK'
  <2>1. job' \in [Operations -> JobRow]
    BY <1>9, <1>job, FailureLimitAssumption DEF FinishStep, Released, StatusAfter, JobRow,
       Operations, LifeInv, MeshInv, Current
  <2>2. worker' \in [Workers -> WorkerState]
    BY <1>9, <1>worker DEF FinishStep, IdleWorker, WorkerState
  <2> QED BY <1>9, <2>1, <2>2 DEF FinishStep, MeshInv, TypeOK, LifecycleTypeOK, HostTypeOK
<1>10. ASSUME NEW w \in Workers, NEW op \in Operations, StepAborted(w, op),
              UNCHANGED <<task, drains, scope>>
       PROVE  TypeOK'
  <2>1. registry' \in [Workers -> Roots \cup {0}]
    BY <1>10, <1>registry DEF StepAborted, Crashed
  <2>2. faults' \in Nat
    BY <1>10, <1>faults DEF StepAborted
  <2>3. files' \in KeyFiles
    BY <1>10, <1>files, RelayHostsAssumption DEF StepAborted, ArchiveRoot, PreparedBundle,
       KeyFiles
  <2>4. job' \in [Operations -> JobRow]
    BY <1>10, <1>job, FailureLimitAssumption DEF StepAborted, Crashed, JobRow
  <2>5. worker' \in [Workers -> WorkerState]
    <3>1. worker[w] \in WorkerState BY <1>worker
    <3>2. [worker[w] EXCEPT !.pc = "finish", !.result = "error"] \in WorkerState
      BY <3>1 DEF WorkerState
    <3>3. [IdleWorker EXCEPT !.up = FALSE] \in WorkerState
      BY RelayHostsAssumption DEF IdleWorker, WorkerState
    <3> QED BY <1>10, <1>worker, <3>2, <3>3 DEF StepAborted, Concluded, Crashed
  <2> QED BY <1>10, <2>1, <2>2, <2>3, <2>4, <2>5 DEF StepAborted, MeshInv, TypeOK,
     LifecycleTypeOK, HostTypeOK
<1>11. ASSUME NEW w \in Workers, CreateDone(w), UNCHANGED <<task, drains, scope>> PROVE TypeOK'
  <2>1. worker' \in [Workers -> WorkerState]
    BY ZenonT(60), <1>11, <1>worker DEF CreateDone, Concluded, WorkerState
  <2> QED BY <1>11, <2>1 DEF CreateDone, MeshInv, TypeOK, LifecycleTypeOK, HostTypeOK
<1>12. ASSUME NEW w \in Workers, CreateCommit(w), UNCHANGED <<task, drains, scope>> PROVE TypeOK'
  <2>1. mesh' \in MeshRow
    BY <1>12, <1>mesh DEF CreateCommit, MeshRow, ArchiveRoot
  <2>2. files' \in KeyFiles
    BY <1>12, <1>files, RelayHostsAssumption DEF CreateCommit, ArchiveRoot, PreparedBundle,
       KeyFiles
  <2>3. worker' \in [Workers -> WorkerState]
    <3>1. PICK r \in {"done", "wait"} :
            worker' = [worker EXCEPT ![w] = [worker[w] EXCEPT !.pc = "publish",
                                               !.root = PreparedBundle, !.result = r]]
      BY <1>12 DEF CreateCommit
    <3>2. PreparedBundle \in Roots BY <1>12 DEF CreateCommit, ArchiveRoot
    <3> QED BY ZenonT(60), <1>worker, <3>1, <3>2 DEF WorkerState
  <2> QED BY <1>12, <2>1, <2>2, <2>3 DEF CreateCommit, MeshInv, TypeOK, LifecycleTypeOK,
     HostTypeOK
<1>13. ASSUME NEW w \in Workers, CreatePublish(w), UNCHANGED <<task, drains, scope>> PROVE TypeOK'
  <2>1. mesh' \in MeshRow
    BY <1>13, <1>mesh DEF CreatePublish, MeshRow
  <2>2. registry' \in [Workers -> Roots \cup {0}]
    BY <1>13, <1>registry, <1>worker DEF CreatePublish, Roots, WorkerState
  <2>3. directory' \in [Hosts -> 0..MaxCred]
    BY <1>13, <1>directory, RelayHostsAssumption, <1>assignment DEF CreatePublish,
       DirectoryNow, AssignmentRow
  <2>4. worker' \in [Workers -> WorkerState]
    <3>1. worker[w] \in WorkerState BY <1>13, <1>worker
    <3>2. \A r \in {"none", "done", "wait", "error"} :
            [worker[w] EXCEPT !.pc = "finish", !.result = r] \in WorkerState
      BY <3>1 DEF WorkerState
    <3>3. worker[w].result \in {"none", "done", "wait", "error"} BY <3>1 DEF WorkerState
    <3>4. \E r \in {"none", "done", "wait", "error"} : worker' = Concluded(w, r)
      BY <1>13, <3>3 DEF CreatePublish
    <3> QED BY <1>worker, <3>2, <3>4 DEF Concluded
  <2> QED BY <1>13, <2>1, <2>2, <2>3, <2>4 DEF CreatePublish, MeshInv, TypeOK, LifecycleTypeOK,
     HostTypeOK
<1>14. ASSUME NEW w \in Workers, DeleteCommit(w), UNCHANGED <<task, drains, scope>> PROVE TypeOK'
  <2>1. mesh' \in MeshRow
    BY <1>14, <1>mesh, <1>registry DEF DeleteCommit, MeshRow, TerminationIssuer, ArchiveRoot
  <2>2. /\ assignment' \in [Hosts -> AssignmentRow]
        /\ \A i \in Hosts : assignment'[i].applied <= assignment'[i].revision
    <3>1. \A i \in Hosts : Row(assignment[i]) BY <1>assignment DEF Row
    <3>2. \A i \in Hosts : Row(Redirected(assignment[i], "removed"))
      BY <3>1, RowShapes DEF Desired
    <3>3. assignment' = [i \in Hosts |-> IF Assigned(i) THEN Redirected(assignment[i], "removed")
                                                       ELSE assignment[i]]
      BY <1>14 DEF DeleteCommit
    <3>4. \A i \in Hosts : Row(assignment'[i]) BY <3>1, <3>2, <3>3
    <3> QED BY <3>3, <3>4 DEF Row
  <2>3. files' \in KeyFiles
    BY <1>14, <1>files, RelayHostsAssumption DEF DeleteCommit, ArchiveRoot, PreparedBundle,
       KeyFiles
  <2>4. worker' \in [Workers -> WorkerState]
    BY ZenonT(60), <1>14, <1>worker DEF DeleteCommit, Concluded, WorkerState
  <2> QED BY <1>14, <2>1, <2>2, <2>3, <2>4 DEF DeleteCommit, MeshInv, TypeOK, LifecycleTypeOK,
     HostTypeOK
<1>15. ASSUME NEW w \in Workers, DeleteUnsigned(w), UNCHANGED <<task, drains, scope>> PROVE TypeOK'
  <2>1. files' \in KeyFiles
    BY <1>15, <1>files, RelayHostsAssumption DEF DeleteUnsigned, ArchiveRoot, PreparedBundle,
       KeyFiles
  <2>2. worker' \in [Workers -> WorkerState]
    BY ZenonT(60), <1>15, <1>worker DEF DeleteUnsigned, Concluded, WorkerState
  <2> QED BY <1>15, <2>1, <2>2 DEF DeleteUnsigned, MeshInv, TypeOK, LifecycleTypeOK, HostTypeOK
<1>16. ASSUME NEW w \in Workers, DeleteWaits(w), UNCHANGED <<task, drains, scope>> PROVE TypeOK'
  <2>1. worker' \in [Workers -> WorkerState]
    BY ZenonT(60), <1>16, <1>worker DEF DeleteWaits, Concluded, WorkerState
  <2> QED BY <1>16, <2>1 DEF DeleteWaits, MeshInv, TypeOK, LifecycleTypeOK, HostTypeOK
<1>17. ASSUME NEW w \in Workers, DeleteRows(w), UNCHANGED <<task, drains, scope>> PROVE TypeOK'
  <2>1. mesh' \in MeshRow
    BY <1>17, <1>mesh DEF DeleteRows, MeshRow, Roots
  <2>2. directory' \in [Hosts -> 0..MaxCred]
    BY <1>17, <1>directory, RelayHostsAssumption, <1>assignment DEF DeleteRows
  <2>3. lease' \in [Hosts -> BOOLEAN]
    BY <1>17, <1>lease DEF DeleteRows
  <2>4. worker' \in [Workers -> WorkerState]
    BY <1>17, <1>worker DEF DeleteRows, WorkerState
  <2> QED BY <1>17, <2>1, <2>2, <2>3, <2>4 DEF DeleteRows, MeshInv, TypeOK, LifecycleTypeOK,
     HostTypeOK
<1>18. ASSUME NEW w \in Workers, DeleteBundle(w), UNCHANGED <<task, drains, scope>> PROVE TypeOK'
  <2>1. registry' \in [Workers -> Roots \cup {0}]
    BY <1>18, <1>registry DEF DeleteBundle
  <2>2. files' \in KeyFiles
    BY <1>18, <1>files, RelayHostsAssumption DEF DeleteBundle, KeyFiles
  <2>3. worker' \in [Workers -> WorkerState]
    BY ZenonT(60), <1>18, <1>worker DEF DeleteBundle, Concluded, WorkerState
  <2> QED BY <1>18, <2>1, <2>2, <2>3 DEF DeleteBundle, MeshInv, TypeOK, LifecycleTypeOK,
     HostTypeOK
<1>19. ASSUME NEW w \in Workers, WorkerRestart(w), UNCHANGED <<task, drains, scope>> PROVE TypeOK'
  <2>1. registry' \in [Workers -> Roots \cup {0}]
    BY <1>19, <1>registry, <1>files DEF WorkerRestart, Loaded, Roots, KeyFiles
  <2>2. worker' \in [Workers -> WorkerState]
    BY ZenonT(60), <1>19, <1>worker DEF WorkerRestart, WorkerState
  <2> QED BY <1>19, <2>1, <2>2 DEF WorkerRestart, MeshInv, TypeOK, LifecycleTypeOK, HostTypeOK
<1>20. ASSUME NEW w \in Workers, Publish(w), UNCHANGED <<task, drains, scope>> PROVE TypeOK'
  <2>1. mesh' \in MeshRow
    BY <1>20, <1>mesh DEF Publish, MeshRow
  <2>2. directory' \in [Hosts -> 0..MaxCred]
    BY <1>20, <1>directory, RelayHostsAssumption, <1>assignment DEF Publish, DirectoryNow,
       AssignmentRow
  <2> QED BY <1>20, <2>1, <2>2 DEF Publish, MeshInv, TypeOK, LifecycleTypeOK, HostTypeOK
<1>21. ASSUME NEW w \in Workers, StepFails(w), UNCHANGED <<task, drains, scope>> PROVE TypeOK'
  <2>1. faults' \in Nat
    BY <1>21, <1>faults DEF StepFails
  <2>2. worker' \in [Workers -> WorkerState]
    BY ZenonT(60), <1>21, <1>worker DEF StepFails, Concluded, WorkerState
  <2> QED BY <1>21, <2>1, <2>2 DEF StepFails, MeshInv, TypeOK, LifecycleTypeOK, HostTypeOK
<1>22. ASSUME NEW w \in Workers, WorkerCrash(w), UNCHANGED <<task, drains, scope>> PROVE TypeOK'
  <2>1. registry' \in [Workers -> Roots \cup {0}]
    BY <1>22, <1>registry DEF WorkerCrash, Crashed
  <2>2. faults' \in Nat
    BY <1>22, <1>faults DEF WorkerCrash
  <2>3. job' \in [Operations -> JobRow]
    BY <1>22, <1>job, FailureLimitAssumption DEF WorkerCrash, Crashed, JobRow
  <2>4. worker' \in [Workers -> WorkerState]
    BY <1>22, <1>worker DEF WorkerCrash, IdleWorker, Crashed, WorkerState, Operations
  <2> QED BY <1>22, <2>1, <2>2, <2>3, <2>4 DEF WorkerCrash, MeshInv, TypeOK, LifecycleTypeOK,
     HostTypeOK
<1>23. ASSUME NEW w \in Workers, NEW h \in Hosts, RenewCredential(w, h),
              UNCHANGED <<task, drains, scope>>
       PROVE  TypeOK'
  <2>1. mesh' \in MeshRow
    BY <1>23, <1>mesh DEF RenewCredential, MeshRow
  <2>2. /\ assignment' \in [Hosts -> AssignmentRow]
        /\ \A i \in Hosts : assignment'[i].applied <= assignment'[i].revision
    <3> DEFINE a == Redirected(assignment[h], "active")
    <3>1. Row(assignment[h]) BY <1>assignment DEF Row
    <3>2. Row(a) BY <3>1, RowShapes DEF Desired
    <3>3. assignment[h].cred + 1 \in 0..MaxCred
      BY <1>23, RelayHostsAssumption DEF RenewCredential
    <3>4. assignment' = [assignment EXCEPT ![h] = [a EXCEPT !.cred = assignment[h].cred + 1]]
      BY <1>23 DEF RenewCredential
    <3> HIDE DEF a
    <3>5. Row([a EXCEPT !.cred = assignment[h].cred + 1]) BY <3>2, <3>3 DEF Row, AssignmentRow
    <3> QED BY <1>assignment, <3>4, <3>5, RowReplaced
  <2> QED BY <1>23, <2>1, <2>2 DEF RenewCredential, MeshInv, TypeOK, LifecycleTypeOK, HostTypeOK
<1>24. ASSUME NEW h \in Hosts, NEW w \in Workers, Fetch(h, w),
              UNCHANGED <<files, job, worker, default, task, drains, scope>>
       PROVE  TypeOK'
  <2>1. host' \in [Hosts -> HostProcess]
    <3> DEFINE s == [desired |-> assignment[h].desired, revision |-> assignment[h].revision,
            cred |-> IF registry[w] # 0 THEN assignment[h].cred ELSE 0,
            root |-> IF assignment[h].desired = "removed" THEN mesh.tombRoot ELSE registry[w]]
    <3>1. host[h] \in HostProcess BY <1>host
    <3>2. assignment[h] \in AssignmentRow BY <1>assignment
    <3>3. mesh.tombRoot \in Roots \cup {0} /\ registry[w] \in Roots \cup {0}
      BY <1>24, <1>mesh, <1>registry DEF MeshRow
    <3>4. s \in Snapshot BY <3>2, <3>3, RelayHostsAssumption DEF AssignmentRow, Snapshot
    <3>5. host' = [host EXCEPT ![h] = [host[h] EXCEPT !.pc = "apply",
       !.snap = s]] BY <1>24 DEF Fetch
    <3> HIDE DEF s
    <3>6. [host[h] EXCEPT !.pc = "apply", !.snap = s] \in HostProcess BY <3>1,
       <3>4 DEF HostProcess
    <3> QED BY <1>host, <3>5, <3>6
  <2> QED BY <1>24, <2>1 DEF Fetch, MeshInv, TypeOK, LifecycleTypeOK, HostTypeOK
<1>25. ASSUME NEW h \in Hosts, NEW w \in Workers, RegisterKey(h, w),
              UNCHANGED <<files, job, worker, default, task, drains, scope>>
       PROVE  TypeOK'
  <2>1. mesh' \in MeshRow
    BY <1>25, <1>mesh DEF RegisterKey, MeshRow
  <2>2. /\ assignment' \in [Hosts -> AssignmentRow]
        /\ \A i \in Hosts : assignment'[i].applied <= assignment'[i].revision
    BY <1>25, <1>assignment, RelayHostsAssumption DEF RegisterKey, AssignmentRow
  <2>3. host' \in [Hosts -> HostProcess]
    <3>1. host[h] \in HostProcess BY <1>host
    <3>2. Idling(host[h]) \in HostProcess /\ Answering(host[h], "failed") \in HostProcess
      BY <3>1, ProcessShapes DEF States
    <3>3. \/ host' = [host EXCEPT ![h] = Idling(host[h])]
          \/ host' = [host EXCEPT ![h] = Answering(host[h], "failed")]
      BY <1>25 DEF RegisterKey
    <3> QED BY <1>host, <3>2, <3>3
  <2> QED BY <1>25, <2>1, <2>2, <2>3 DEF RegisterKey, MeshInv, TypeOK, LifecycleTypeOK,
     HostTypeOK
<1>26. ASSUME NEW h \in Hosts, ApplySuspended(h),
              UNCHANGED <<files, job, worker, default, task, drains, scope>>
       PROVE  TypeOK'
  <2>1. lease' \in [Hosts -> BOOLEAN]
    BY <1>26, <1>lease, <1>host DEF ApplySuspended, StopRuntime
  <2>2. host' \in [Hosts -> HostProcess]
    <3>1. host[h] \in HostProcess BY <1>host
    <3>2. Answering(host[h], "suspended") \in HostProcess BY <3>1, ProcessShapes DEF States
    <3>3. [Answering(host[h], "suspended") EXCEPT !.run = 0,
       !.accepting = FALSE] \in HostProcess BY <3>1, <3>2 DEF HostProcess
    <3> QED BY <1>26, <1>host, <3>3, HostReplaced DEF ApplySuspended, StopRuntime
  <2> QED BY <1>26, <2>1, <2>2 DEF ApplySuspended, MeshInv, TypeOK, LifecycleTypeOK, HostTypeOK
<1>27. ASSUME NEW h \in Hosts, ApplyTermination(h),
              UNCHANGED <<files, job, worker, default, task, drains, scope>>
       PROVE  TypeOK'
  <2>1. lease' \in [Hosts -> BOOLEAN]
    BY <1>27, <1>lease, <1>host DEF ApplyTermination
  <2>2. host' \in [Hosts -> HostProcess]
    <3>1. host[h] \in HostProcess BY <1>host
    <3>2. [host[h] EXCEPT !.terminal = TRUE, !.run = 0, !.accepting = FALSE,
       !.pc = "erase"] \in HostProcess BY <3>1 DEF HostProcess
    <3> QED BY <1>27, <1>host, <3>2, HostReplaced DEF ApplyTermination
  <2> QED BY <1>27, <2>1, <2>2 DEF ApplyTermination, MeshInv, TypeOK, LifecycleTypeOK,
     HostTypeOK
<1>28. ASSUME NEW h \in Hosts, EraseKey(h),
              UNCHANGED <<files, job, worker, default, task, drains, scope>>
       PROVE  TypeOK'
  <2>1. host' \in [Hosts -> HostProcess]
    <3>1. host[h] \in HostProcess BY <1>host
    <3>2. Answering(host[h], "removed") \in HostProcess BY <3>1, ProcessShapes DEF States
    <3>3. [Answering(host[h], "removed") EXCEPT !.key = FALSE] \in HostProcess BY <3>1,
       <3>2 DEF HostProcess
    <3> QED BY <1>28, <1>host, <3>3, HostReplaced DEF EraseKey
  <2> QED BY <1>28, <2>1 DEF EraseKey, MeshInv, TypeOK, LifecycleTypeOK, HostTypeOK
<1>29. ASSUME NEW h \in Hosts, RefuseTermination(h),
              UNCHANGED <<files, job, worker, default, task, drains, scope>>
       PROVE  TypeOK'
  <2>1. host' \in [Hosts -> HostProcess]
    <3>1. host[h] \in HostProcess BY <1>host
    <3>2. Idling(host[h]) \in HostProcess BY <3>1, ProcessShapes DEF States
    <3> QED BY <1>29, <1>host, <3>2, HostReplaced DEF RefuseTermination
  <2> QED BY <1>29, <2>1 DEF RefuseTermination, MeshInv, TypeOK, LifecycleTypeOK, HostTypeOK
<1>30. ASSUME NEW h \in Hosts, KeepDraining(h),
              UNCHANGED <<files, job, worker, default, task, drains, scope>>
       PROVE  TypeOK'
  <2>1. host' \in [Hosts -> HostProcess]
    <3>1. host[h] \in HostProcess BY <1>host
    <3>2. Snap(h) \in Snapshot /\ Snap(h).revision \in Nat /\ Snap(h).root \in Roots \cup {0}
      BY <3>1 DEF HostProcess, Snapshot, Snap
    <3>3. Answering(host[h], "draining") \in HostProcess BY <3>1, ProcessShapes DEF States
    <3>4. [Answering(host[h], "draining") EXCEPT !.accepting = FALSE,
       !.run = Snap(h).revision] \in HostProcess BY <3>1, <3>2, <3>3 DEF HostProcess
    <3> QED BY <1>30, <1>host, <3>4, HostReplaced DEF KeepDraining
  <2> QED BY <1>30, <2>1 DEF KeepDraining, MeshInv, TypeOK, LifecycleTypeOK, HostTypeOK
<1>31. ASSUME NEW h \in Hosts, KeepActive(h),
              UNCHANGED <<files, job, worker, default, task, drains, scope>>
       PROVE  TypeOK'
  <2>1. host' \in [Hosts -> HostProcess]
    <3>1. host[h] \in HostProcess BY <1>host
    <3>2. Answering(host[h], "ready") \in HostProcess BY <3>1, ProcessShapes DEF States
    <3> QED BY <1>31, <1>host, <3>2, HostReplaced DEF KeepActive
  <2> QED BY <1>31, <2>1 DEF KeepActive, MeshInv, TypeOK, LifecycleTypeOK, HostTypeOK
<1>32. ASSUME NEW h \in Hosts, GenerateKey(h),
              UNCHANGED <<files, job, worker, default, task, drains, scope>>
       PROVE  TypeOK'
  <2>1. host' \in [Hosts -> HostProcess]
    BY ZenonT(60), <1>32, <1>host DEF GenerateKey, HostProcess, States
  <2> QED BY <1>32, <2>1 DEF GenerateKey, MeshInv, TypeOK, LifecycleTypeOK, HostTypeOK
<1>33. ASSUME NEW h \in Hosts, StartRuntime(h),
              UNCHANGED <<files, job, worker, default, task, drains, scope>>
       PROVE  TypeOK'
  <2>1. lease' \in [Hosts -> BOOLEAN]
    BY <1>33, <1>lease DEF StartRuntime
  <2>2. host' \in [Hosts -> HostProcess]
    <3> DEFINE r == IF Snap(h).desired = "draining" THEN "draining" ELSE "ready"
               b == Snap(h).desired = "active"
    <3>1. host[h] \in HostProcess BY <1>host
    <3>2. Snap(h) \in Snapshot /\ Snap(h).revision \in Nat /\ Snap(h).root \in Roots \cup {0}
      BY <3>1 DEF HostProcess, Snapshot, Snap
    <3>3. r \in States /\ b \in BOOLEAN BY DEF States
    <3>4. host' = [host EXCEPT ![h] = [Answering(host[h], r) EXCEPT !.run = Snap(h).revision,
                     !.root = Snap(h).root, !.accepting = b]]
      BY <1>33 DEF StartRuntime
    <3> HIDE DEF r, b
    <3>5. Answering(host[h], r) \in HostProcess BY <3>1, <3>3, ProcessShapes
    <3>6. [Answering(host[h], r) EXCEPT !.run = Snap(h).revision, !.root = Snap(h).root,
             !.accepting = b] \in HostProcess
      BY <3>2, <3>3, <3>5 DEF HostProcess
    <3> QED BY <1>host, <3>4, <3>6
  <2> QED BY <1>33, <2>1, <2>2 DEF StartRuntime, MeshInv, TypeOK, LifecycleTypeOK, HostTypeOK
<1>34. ASSUME NEW h \in Hosts, StartRefused(h),
              UNCHANGED <<files, job, worker, default, task, drains, scope>>
       PROVE  TypeOK'
  <2>1. lease' \in [Hosts -> BOOLEAN]
    BY <1>34, <1>lease, <1>host DEF StartRefused
  <2>2. host' \in [Hosts -> HostProcess]
    <3>1. host[h] \in HostProcess BY <1>host
    <3>2. Snap(h) \in Snapshot /\ Snap(h).revision \in Nat /\ Snap(h).root \in Roots \cup {0}
      BY <3>1 DEF HostProcess, Snapshot, Snap
    <3>3. Answering(host[h], "failed") \in HostProcess BY <3>1, ProcessShapes DEF States
    <3>4. [Answering(host[h], "failed") EXCEPT !.run = 0, !.accepting = FALSE,
             !.root = Snap(h).root] \in HostProcess
      BY <3>2, <3>3 DEF HostProcess
    <3>5. \/ host' = [host EXCEPT ![h] = Answering(host[h], "failed")]
          \/ host' = [host EXCEPT ![h] = [Answering(host[h], "failed") EXCEPT
                        !.run = 0, !.accepting = FALSE, !.root = Snap(h).root]]
      BY <1>34 DEF StartRefused
    <3> QED BY <1>host, <3>3, <3>4, <3>5
  <2> QED BY <1>34, <2>1, <2>2 DEF StartRefused, MeshInv, TypeOK, LifecycleTypeOK, HostTypeOK
<1>35. ASSUME NEW h \in Hosts, ServiceForbidden(h),
              UNCHANGED <<files, job, worker, default, task, drains, scope>>
       PROVE  TypeOK'
  <2>1. host' \in [Hosts -> HostProcess]
    <3>1. host[h] \in HostProcess BY <1>host
    <3>2. Answering(host[h], "failed") \in HostProcess BY <3>1, ProcessShapes DEF States
    <3> QED BY <1>35, <1>host, <3>2, HostReplaced DEF ServiceForbidden
  <2> QED BY <1>35, <2>1 DEF ServiceForbidden, MeshInv, TypeOK, LifecycleTypeOK, HostTypeOK
<1>36. ASSUME NEW h \in Hosts, Acknowledge(h),
              UNCHANGED <<files, job, worker, default, task, drains, scope>>
       PROVE  TypeOK'
  <2>1. /\ assignment' \in [Hosts -> AssignmentRow]
        /\ \A i \in Hosts : assignment'[i].applied <= assignment'[i].revision
    <3>1. Row(assignment[h]) BY <1>assignment DEF Row
    <3>2. host[h].reply \in States \cup {"none"} /\ Snap(h).revision \in Nat
      BY <1>host DEF HostProcess, Snapshot, Snap
    <3>3. Row(Recorded(assignment[h], Snap(h).revision, host[h].reply))
      BY <3>1, <3>2, RowShapes
    <3> QED BY <1>36, <1>assignment, <3>3, RowReplaced DEF Acknowledge
  <2>2. host' \in [Hosts -> HostProcess]
    <3>1. host[h] \in HostProcess BY <1>host
    <3>2. Snap(h).revision \in Nat BY <3>1 DEF HostProcess, Snapshot, Snap
    <3>3. Idling(host[h]) \in HostProcess BY <3>1, ProcessShapes
    <3>4. /\ [Idling(host[h]) EXCEPT !.done = Snap(h).revision] \in HostProcess
          /\ [Idling(host[h]) EXCEPT !.done = host[h].done] \in HostProcess
      BY <3>1, <3>2, <3>3 DEF HostProcess
    <3> DEFINE c == /\ host[h].reply = "removed"
                    /\ Accepts(assignment[h], Snap(h).revision, "removed")
    <3>5. host' = [host EXCEPT ![h] = [Idling(host[h]) EXCEPT
                     !.done = IF c THEN Snap(h).revision ELSE host[h].done]]
      BY <1>36 DEF Acknowledge
    <3> HIDE DEF c
    <3>6. CASE c
      <4>1. host' = [host EXCEPT ![h] = [Idling(host[h]) EXCEPT !.done = Snap(h).revision]]
        BY <3>5, <3>6
      <4> QED BY <1>host, <3>4, <4>1
    <3>7. CASE ~c
      <4>1. host' = [host EXCEPT ![h] = [Idling(host[h]) EXCEPT !.done = host[h].done]]
        BY <3>5, <3>7
      <4> QED BY <1>host, <3>4, <4>1
    <3> QED BY <3>6, <3>7
  <2> QED BY <1>36, <2>1, <2>2 DEF Acknowledge, MeshInv, TypeOK, LifecycleTypeOK, HostTypeOK
<1>37. ASSUME NEW h \in Hosts, HostRestart(h),
              UNCHANGED <<files, job, worker, default, task, drains, scope>>
       PROVE  TypeOK'
  <2>1. host' \in [Hosts -> HostProcess]
    BY ZenonT(60), <1>37, <1>host DEF HostRestart, HostProcess, States
  <2> QED BY <1>37, <2>1 DEF HostRestart, MeshInv, TypeOK, LifecycleTypeOK, HostTypeOK
<1>38. ASSUME NEW h \in Hosts, AcknowledgementLost(h),
              UNCHANGED <<files, job, worker, default, task, drains, scope>>
       PROVE  TypeOK'
  <2>1. /\ assignment' \in [Hosts -> AssignmentRow]
        /\ \A i \in Hosts : assignment'[i].applied <= assignment'[i].revision
    <3>1. Row(assignment[h]) BY <1>assignment DEF Row
    <3>2. host[h].reply \in States \cup {"none"} /\ Snap(h).revision \in Nat
      BY <1>host DEF HostProcess, Snapshot, Snap
    <3>3. Row(Recorded(assignment[h], Snap(h).revision, host[h].reply))
      BY <3>1, <3>2, RowShapes
    <3>4. PICK a : /\ a \in {assignment[h], Recorded(assignment[h], Snap(h).revision, host[h].reply)}
                   /\ assignment' = [assignment EXCEPT
                        ![h] = Recorded(a, Snap(h).revision, "failed")]
      BY <1>38 DEF AcknowledgementLost
    <3>5. Row(Recorded(a, Snap(h).revision, "failed"))
      BY <3>1, <3>2, <3>3, <3>4, RowShapes DEF States
    <3> QED BY <1>assignment, <3>4, <3>5, RowReplaced
  <2>2. host' \in [Hosts -> HostProcess]
    <3>1. host[h] \in HostProcess BY <1>host
    <3>2. Idling(host[h]) \in HostProcess BY <3>1, ProcessShapes DEF States
    <3> QED BY <1>38, <1>host, <3>2, HostReplaced DEF AcknowledgementLost
  <2>3. faults' \in Nat
    BY <1>38, <1>faults DEF AcknowledgementLost
  <2> QED BY <1>38, <2>1, <2>2, <2>3 DEF AcknowledgementLost, MeshInv, TypeOK, LifecycleTypeOK,
     HostTypeOK
<1>39. ASSUME NEW h \in Hosts, RuntimeFails(h),
              UNCHANGED <<files, job, worker, default, task, drains, scope>>
       PROVE  TypeOK'
  <2>1. lease' \in [Hosts -> BOOLEAN]
    BY <1>39, <1>lease DEF RuntimeFails
  <2>2. host' \in [Hosts -> HostProcess]
    <3>1. host[h] \in HostProcess BY <1>host
    <3>2. [host[h] EXCEPT !.run = 0,
       !.accepting = FALSE] \in HostProcess BY <3>1 DEF HostProcess
    <3> QED BY <1>39, <1>host, <3>2, HostReplaced DEF RuntimeFails
  <2>3. faults' \in Nat
    BY <1>39, <1>faults DEF RuntimeFails
  <2> QED BY <1>39, <2>1, <2>2, <2>3 DEF RuntimeFails, MeshInv, TypeOK, LifecycleTypeOK,
     HostTypeOK
<1>40. ASSUME NEW h \in Hosts, HostCrash(h),
              UNCHANGED <<files, job, worker, default, task, drains, scope>>
       PROVE  TypeOK'
  <2>1. host' \in [Hosts -> HostProcess]
    <3>1. host[h] \in HostProcess BY <1>host
    <3>2. NoSnapshot \in Snapshot BY RelayHostsAssumption DEF NoSnapshot, Snapshot
    <3>3. StoppedHost \in HostProcess BY <3>2 DEF StoppedHost, HostProcess
    <3>4. [StoppedHost EXCEPT !.up = FALSE, !.key = host[h].key, !.root = host[h].root,
             !.terminal = host[h].terminal] \in HostProcess
      BY <3>1, <3>3 DEF HostProcess
    <3> QED BY <1>40, <1>host, <3>4, HostReplaced DEF HostCrash
  <2>2. faults' \in Nat
    BY <1>40, <1>faults DEF HostCrash
  <2> QED BY <1>40, <2>1, <2>2 DEF HostCrash, MeshInv, TypeOK, LifecycleTypeOK, HostTypeOK
<1>41. ASSUME NEW h \in Hosts, LeaseLapses(h),
              UNCHANGED <<files, job, worker, default, task, drains, scope>>
       PROVE  TypeOK'
  <2>1. lease' \in [Hosts -> BOOLEAN]
    BY <1>41, <1>lease DEF LeaseLapses
  <2> QED BY <1>41, <2>1 DEF LeaseLapses, MeshInv, TypeOK, LifecycleTypeOK, HostTypeOK
<1>42. ASSUME NEW h \in Hosts, NEW r \in Hosts, NEW fresh, CreateDrain(h, r, fresh), UNCHANGED scope
       PROVE  TypeOK'
  <2>1. maintenance' \in [Hosts -> {"active", "draining", "suspended"}]
    BY <1>42, <1>maintenance DEF CreateDrain
  <2>2. default' \in Hosts
    BY <1>42, <1>default DEF CreateDrain
  <2>3. task' \in [Hosts -> Task]
    BY <1>42, <1>task DEF CreateDrain, Task
  <2>4. drains' \in Nat
    BY <1>42, <1>drains DEF CreateDrain
  <2> QED BY <1>42, <2>1, <2>2, <2>3, <2>4 DEF CreateDrain, MeshInv, TypeOK, LifecycleTypeOK,
     HostTypeOK
<1>43. ASSUME NEW h \in Hosts, NEW fresh, CreateResume(h, fresh), UNCHANGED scope PROVE TypeOK'
  <2>1. task' \in [Hosts -> Task]
    BY <1>43, <1>task DEF CreateResume, NoTask, Task
  <2> QED BY <1>43, <2>1 DEF CreateResume, MeshInv, TypeOK, LifecycleTypeOK, HostTypeOK
<1>44. ASSUME NEW h \in Hosts, NEW fresh, AdvanceDrain(h, fresh), UNCHANGED scope PROVE TypeOK'
  <2>1. mesh' \in MeshRow
    <3>1. mesh' = mesh \/ mesh' = [mesh EXCEPT !.dirty = TRUE]
      BY <1>44, <1>task, DrainEffect DEF DrainChanges, Turned
    <3> QED BY <1>mesh, <3>1 DEF MeshRow
  <2>2. /\ assignment' \in [Hosts -> AssignmentRow]
        /\ \A i \in Hosts : assignment'[i].applied <= assignment'[i].revision
    <3>1. UNCHANGED assignment \/ \E d \in {"draining", "suspended"} : Turned(h, d)
      BY <1>44, <1>task, DrainEffect DEF DrainChanges
    <3>2. CASE UNCHANGED assignment BY <1>assignment, <3>2
    <3>3. ASSUME NEW d \in {"draining", "suspended"}, Turned(h, d)
          PROVE  Row(Redirected(assignment[h], d))
      BY <1>assignment, RowShapes DEF Row, Desired
    <3> QED BY <1>assignment, <3>1, <3>2, <3>3, RowReplaced DEF Turned
  <2>3. maintenance' \in [Hosts -> {"active", "draining", "suspended"}]
    BY <1>44, <1>maintenance, <1>task, DrainEffect DEF DrainChanges
  <2>4. task' \in [Hosts -> Task]
    <3>1. Advanced(h) BY <1>44, <1>task, DrainEffect DEF DrainChanges
    <3> QED BY <1>task, <3>1 DEF Advanced
  <2> QED BY <1>44, <2>1, <2>2, <2>3, <2>4 DEF AdvanceDrain, ChangeAssignments, MeshInv,
     TypeOK, LifecycleTypeOK, HostTypeOK
<1>45. ASSUME NEW h \in Hosts, NEW fresh, AdvanceResume(h, fresh), UNCHANGED scope PROVE TypeOK'
  <2>1. mesh' \in MeshRow
    <3>1. mesh' = mesh \/ mesh' = [mesh EXCEPT !.dirty = TRUE]
      BY <1>45, <1>task, ResumeEffect DEF ResumeChanges, Turned
    <3> QED BY <1>mesh, <3>1 DEF MeshRow
  <2>2. /\ assignment' \in [Hosts -> AssignmentRow]
        /\ \A i \in Hosts : assignment'[i].applied <= assignment'[i].revision
    <3>1. UNCHANGED assignment \/ \E d \in {"active"} : Turned(h, d)
      BY <1>45, <1>task, ResumeEffect DEF ResumeChanges
    <3>2. CASE UNCHANGED assignment BY <1>assignment, <3>2
    <3>3. ASSUME NEW d \in {"active"}, Turned(h, d) PROVE Row(Redirected(assignment[h], d))
      BY <1>assignment, RowShapes DEF Row, Desired
    <3> QED BY <1>assignment, <3>1, <3>2, <3>3, RowReplaced DEF Turned
  <2>3. maintenance' \in [Hosts -> {"active", "draining", "suspended"}]
    BY <1>45, <1>maintenance, <1>task, ResumeEffect DEF ResumeChanges
  <2>4. task' \in [Hosts -> Task]
    <3>1. Advanced(h) BY <1>45, <1>task, ResumeEffect DEF ResumeChanges
    <3> QED BY <1>task, <3>1 DEF Advanced
  <2> QED BY <1>45, <2>1, <2>2, <2>3, <2>4 DEF AdvanceResume, ChangeAssignments, MeshInv,
     TypeOK, LifecycleTypeOK, HostTypeOK
<1>46. ASSUME NEW h \in Hosts, RetryTask(h), UNCHANGED scope PROVE TypeOK'
  <2>1. task' \in [Hosts -> Task]
    BY <1>46, <1>task DEF RetryTask, Task
  <2> QED BY <1>46, <2>1 DEF RetryTask, MeshInv, TypeOK, LifecycleTypeOK, HostTypeOK
<1>47. ASSUME NEW h \in Hosts, TaskExpires(h), UNCHANGED scope PROVE TypeOK'
  <2>1. faults' \in Nat
    BY <1>47, <1>faults DEF TaskExpires
  <2>2. task' \in [Hosts -> Task]
    BY <1>47, <1>task DEF TaskExpires, Task
  <2> QED BY <1>47, <2>1, <2>2 DEF TaskExpires, MeshInv, TypeOK, LifecycleTypeOK, HostTypeOK
<1>48. ASSUME NEW h \in Hosts, GraceElapses(h), UNCHANGED scope PROVE TypeOK'
  <2>1. task' \in [Hosts -> Task]
    BY <1>48, <1>task DEF GraceElapses, Task
  <2> QED BY <1>48, <2>1 DEF GraceElapses, MeshInv, TypeOK, LifecycleTypeOK, HostTypeOK
<1>49. CASE UNCHANGED vars
  BY SMTT(60), <1>49 DEF vars, MeshInv, TypeOK, LifecycleTypeOK, HostTypeOK
<1> QED BY ScopesAssumption, <1>1, <1>2, <1>3, <1>4, <1>5, <1>6, <1>7, <1>8, <1>9, <1>10,
   <1>11, <1>12, <1>13, <1>14, <1>15, <1>16, <1>17, <1>18, <1>19, <1>20, <1>21, <1>22, <1>23,
   <1>24, <1>25, <1>26, <1>27, <1>28, <1>29, <1>30, <1>31, <1>32, <1>33, <1>34, <1>35, <1>36,
   <1>37, <1>38, <1>39, <1>40, <1>41, <1>42, <1>43, <1>44, <1>45, <1>46, <1>47, <1>48,
   <1>49 DEF Next, AdministratorStep, WorkerStep, HostStep, HostFault, Controls, vars, MeshInv,
   TypeOK

\* A job that is not current changes nothing, and the tombstone only advances.
LEMMA LifeStep ==
    ASSUME MeshInv, [Next]_vars
    PROVE  LifeInv'
<1>1. ASSUME RequestCreate(Admissible), UNCHANGED <<task, drains, scope>> PROVE LifeInv'
  BY <1>1, RelayHostsAssumption, FailureLimitAssumption DEF RequestCreate, QueuedJob,
     NewAssignment, NoJob, MeshInv, TypeOK, LifecycleTypeOK, HostTypeOK, LifeInv
<1>2. ASSUME RequestDelete, UNCHANGED <<task, drains, scope>> PROVE LifeInv'
  BY <1>2, RelayHostsAssumption, FailureLimitAssumption DEF RequestDelete, Live, QueuedJob,
     NoJob, MeshInv, TypeOK, LifecycleTypeOK, HostTypeOK, LifeInv, Operations, JobRow
<1>3. ASSUME NEW op \in Operations, RetryJob(op), UNCHANGED <<task, drains, scope>> PROVE LifeInv'
  BY <1>3, RelayHostsAssumption, FailureLimitAssumption DEF RetryJob, MeshInv, TypeOK,
     LifecycleTypeOK, HostTypeOK, LifeInv, Operations
<1>4. ASSUME NEW op \in Operations, JobLeaseLapses(op), UNCHANGED <<task, drains, scope>>
      PROVE  LifeInv'
  BY <1>4, RelayHostsAssumption, FailureLimitAssumption DEF JobLeaseLapses, MeshInv, TypeOK,
     LifecycleTypeOK, HostTypeOK, LifeInv, Operations
<1>5. ASSUME NEW w \in Workers, NEW op \in Operations, Claim(w, op),
             UNCHANGED <<task, drains, scope>>
      PROVE  LifeInv'
  BY <1>5, RelayHostsAssumption, FailureLimitAssumption DEF Claim, Idle, Claimable, MeshInv,
     TypeOK, LifecycleTypeOK, HostTypeOK, LifeInv, Operations
<1>6. ASSUME NEW w \in Workers, NEW op \in Operations, StepFenced(w, op),
             UNCHANGED <<task, drains, scope>>
      PROVE  LifeInv'
  BY <1>6, RelayHostsAssumption, FailureLimitAssumption DEF StepFenced, At, Current, Concluded,
     MeshInv, TypeOK, LifecycleTypeOK, HostTypeOK, LifeInv
<1>7. ASSUME NEW w \in Workers, NEW op \in Operations, FinishStep(w, op),
             UNCHANGED <<task, drains, scope>>
      PROVE  LifeInv'
  BY <1>7, RelayHostsAssumption, FailureLimitAssumption DEF FinishStep, At, Current, Released,
     IdleWorker, StatusAfter, MeshInv, TypeOK, LifecycleTypeOK, HostTypeOK, LifeInv,
     Operations, JobRow
<1>8. ASSUME NEW w \in Workers, NEW op \in Operations, StepAborted(w, op),
             UNCHANGED <<task, drains, scope>>
      PROVE  LifeInv'
  <2>1. worker \in [Workers -> WorkerState] /\ job \in [Operations -> JobRow] BY DEF MeshInv,
     TypeOK, LifecycleTypeOK
  <2>2. UNCHANGED mesh /\ ((worker' = Concluded(w, "error") /\ UNCHANGED job) \/ Crashed(w))
    BY <1>8 DEF StepAborted
  <2>3. \A v \in Workers : worker'[v].pc = "erase" => worker[v].pc = "erase"
    BY ZenonT(60), <2>1, <2>2 DEF Concluded, Crashed, IdleWorker, WorkerState
  <2>4. \A o \in Operations : /\ job'[o].status = job[o].status
                              /\ job'[o].failures = job[o].failures
    BY <2>1, <2>2 DEF Crashed, JobRow
  <2> QED BY <2>2, <2>3, <2>4 DEF MeshInv, LifeInv, Operations
<1>9. ASSUME NEW w \in Workers, CreateDone(w), UNCHANGED <<task, drains, scope>> PROVE LifeInv'
  BY <1>9, RelayHostsAssumption, FailureLimitAssumption DEF CreateDone, At, Current, Concluded,
     MeshInv, TypeOK, LifecycleTypeOK, HostTypeOK, LifeInv
<1>10. ASSUME NEW w \in Workers, CreateCommit(w), UNCHANGED <<task, drains, scope>> PROVE LifeInv'
  BY <1>10, RelayHostsAssumption, FailureLimitAssumption DEF CreateCommit, At, Current,
     ArchiveRoot, PreparedBundle, RelaysReady, Roots, MeshInv, TypeOK, LifecycleTypeOK,
     HostTypeOK, LifeInv
<1>11. ASSUME NEW w \in Workers, CreatePublish(w), UNCHANGED <<task, drains, scope>> PROVE LifeInv'
  <2>1. worker \in [Workers -> WorkerState] /\ mesh \in MeshRow BY DEF MeshInv, TypeOK,
     LifecycleTypeOK
  <2>2. \E r : worker' = Concluded(w, r) BY <1>11 DEF CreatePublish
  <2>3. \A v \in Workers : worker'[v].pc = "erase" => worker[v].pc = "erase"
    BY <2>1, <2>2 DEF Concluded
  <2>4. UNCHANGED job /\ mesh'.life = mesh.life /\ mesh'.tomb = mesh.tomb
    BY <1>11, <2>1 DEF CreatePublish, MeshRow
  <2> QED BY <2>3, <2>4 DEF MeshInv, LifeInv
<1>12. ASSUME NEW w \in Workers, DeleteCommit(w), UNCHANGED <<task, drains, scope>> PROVE LifeInv'
  <2>1. RemovalDirected BY <1>12, CommitEffect
  <2>2. worker \in [Workers -> WorkerState] BY DEF MeshInv, TypeOK, LifecycleTypeOK
  <2>3. UNCHANGED job /\ \A v \in Workers : worker'[v].pc = "erase" => worker[v].pc = "erase"
    BY <1>12, <2>2 DEF DeleteCommit, Concluded
  <2>4. job["delete"].status = "running" BY <1>12 DEF DeleteCommit, Current
  <2> QED BY <2>1, <2>3, <2>4 DEF RemovalDirected, MeshInv, LifeInv
<1>13. ASSUME NEW w \in Workers, DeleteUnsigned(w), UNCHANGED <<task, drains, scope>> PROVE LifeInv'
  BY <1>13, RelayHostsAssumption, FailureLimitAssumption DEF DeleteUnsigned, At, Current,
     ArchiveRoot, TerminationIssuer, Concluded, PreparedBundle, Roots, ActiveIssuer, MeshInv,
     TypeOK, LifecycleTypeOK, HostTypeOK, LifeInv, Operations, JobRow
<1>14. ASSUME NEW w \in Workers, DeleteWaits(w), UNCHANGED <<task, drains, scope>> PROVE LifeInv'
  BY <1>14, RelayHostsAssumption, FailureLimitAssumption DEF DeleteWaits, At, Current,
     WaitingForRelay, Concluded, Assigned, MeshInv, TypeOK, LifecycleTypeOK, HostTypeOK, LifeInv
<1>15. ASSUME NEW w \in Workers, DeleteRows(w), UNCHANGED <<task, drains, scope>> PROVE LifeInv'
  BY <1>15, RelayHostsAssumption, FailureLimitAssumption DEF DeleteRows, At, Current,
     WaitingForRelay, Assigned, MeshInv, TypeOK, LifecycleTypeOK, HostTypeOK, LifeInv
<1>16. ASSUME NEW w \in Workers, DeleteBundle(w), UNCHANGED <<task, drains, scope>> PROVE LifeInv'
  BY <1>16, RelayHostsAssumption, FailureLimitAssumption DEF DeleteBundle, At, Current,
     Concluded, MeshInv, TypeOK, LifecycleTypeOK, HostTypeOK, LifeInv
<1>17. ASSUME NEW w \in Workers, WorkerRestart(w), UNCHANGED <<task, drains, scope>> PROVE LifeInv'
  BY <1>17, RelayHostsAssumption, FailureLimitAssumption DEF WorkerRestart, Loaded, Live,
     MeshInv, TypeOK, LifecycleTypeOK, HostTypeOK, LifeInv
<1>18. ASSUME NEW w \in Workers, Publish(w), UNCHANGED <<task, drains, scope>> PROVE LifeInv'
  BY <1>18, RelayHostsAssumption, FailureLimitAssumption DEF Publish, ActiveIssuer, Live,
     DirectoryNow, MeshInv, TypeOK, LifecycleTypeOK, HostTypeOK, LifeInv
<1>19. ASSUME NEW w \in Workers, StepFails(w), UNCHANGED <<task, drains, scope>> PROVE LifeInv'
  BY <1>19, RelayHostsAssumption, FailureLimitAssumption DEF StepFails, Concluded, MeshInv,
     TypeOK, LifecycleTypeOK, HostTypeOK, LifeInv, Operations
<1>20. ASSUME NEW w \in Workers, WorkerCrash(w), UNCHANGED <<task, drains, scope>> PROVE LifeInv'
  BY <1>20, RelayHostsAssumption, FailureLimitAssumption DEF WorkerCrash, Crashed, IdleWorker,
     Operations, MeshInv, TypeOK, LifecycleTypeOK, HostTypeOK, LifeInv
<1>21. ASSUME NEW w \in Workers, NEW h \in Hosts, RenewCredential(w, h),
              UNCHANGED <<task, drains, scope>>
       PROVE  LifeInv'
  BY <1>21, RelayHostsAssumption, FailureLimitAssumption DEF RenewCredential, Idle,
     ActiveIssuer, Redirected, MeshInv, TypeOK, LifecycleTypeOK, HostTypeOK, LifeInv
<1>22. ASSUME NEW h \in Hosts, NEW w \in Workers, RegisterKey(h, w),
              UNCHANGED <<files, job, worker, default, task, drains, scope>>
       PROVE  LifeInv'
  BY <1>22, RelayHostsAssumption, FailureLimitAssumption DEF RegisterKey, MustBuild, Snap,
     MayRegister, Idling, ActiveIssuer, Answering, Serving, Live, NoSnapshot, Applying,
     MeshInv, TypeOK, LifecycleTypeOK, HostTypeOK, LifeInv, Operations, JobRow, MeshRow,
     WorkerState
<1>23. ASSUME NEW h \in Hosts, NEW fresh, AdvanceDrain(h, fresh), UNCHANGED scope PROVE LifeInv'
  BY <1>23, RelayHostsAssumption, FailureLimitAssumption DEF AdvanceDrain, Due, Replaced, Wait,
     ChangeAssignments, Confirmed, ExpectedStage, Suspending, Affected, ReplacementReady,
     Redirected, Assigned, MeshInv, TypeOK, LifecycleTypeOK, HostTypeOK, LifeInv, Operations,
     JobRow, MeshRow, WorkerState, Live
<1>24. ASSUME NEW h \in Hosts, NEW fresh, AdvanceResume(h, fresh), UNCHANGED scope PROVE LifeInv'
  BY <1>24, RelayHostsAssumption, FailureLimitAssumption DEF AdvanceResume, Due,
     ChangeAssignments, Wait, Affected, ReplacementReady, Redirected, Assigned, MeshInv,
     TypeOK, LifecycleTypeOK, HostTypeOK, LifeInv, Operations, JobRow, MeshRow, WorkerState,
     Live
<1>25. CASE UNCHANGED <<mesh, job, worker>>
  BY <1>25 DEF MeshInv, LifeInv
<1> QED
  BY ZenonT(60), ScopesAssumption, <1>1, <1>2, <1>3, <1>4, <1>5, <1>6, <1>7, <1>8, <1>9, <1>10,
   <1>11, <1>12, <1>13, <1>14, <1>15, <1>16, <1>17, <1>18, <1>19, <1>20, <1>21, <1>22, <1>23,
   <1>24, <1>25 DEF Next, AdministratorStep, WorkerStep, HostStep, HostFault, Controls, vars,
   MeshInv, TypeOK, AssignHost, ReloadIssuers, Fetch, ApplySuspended, StopRuntime,
   ApplyTermination, EraseKey, RefuseTermination, KeepDraining, KeepActive, GenerateKey,
   StartRuntime, StartRefused, ServiceForbidden, Acknowledge, HostRestart, AcknowledgementLost,
   RuntimeFails, HostCrash, LeaseLapses, CreateDrain, CreateResume, RetryTask, TaskExpires,
   GraceElapses

\* The root is generated once: a repeated step reads it back.
LEMMA RootStep ==
    ASSUME MeshInv, [Next]_vars
    PROVE  RootInv'
<1>1. ASSUME RequestCreate(Admissible), UNCHANGED <<task, drains, scope>> PROVE RootInv'
  BY <1>1, RelayHostsAssumption, FailureLimitAssumption DEF RequestCreate, QueuedJob,
     NewAssignment, NoJob, MeshInv, TypeOK, LifecycleTypeOK, HostTypeOK, RootInv, LifeInv,
     KeyFiles, HostProcess, Snapshot, Desired
<1>2. ASSUME RequestDelete, UNCHANGED <<task, drains, scope>> PROVE RootInv'
  BY <1>2, RelayHostsAssumption, FailureLimitAssumption DEF RequestDelete, Live, QueuedJob,
     NoJob, MeshInv, TypeOK, LifecycleTypeOK, HostTypeOK, RootInv, LifeInv, KeyFiles,
     HostProcess, Snapshot
<1>3. ASSUME NEW w \in Workers, ReloadIssuers(w), UNCHANGED <<task, drains, scope>> PROVE RootInv'
  BY <1>3, RelayHostsAssumption, FailureLimitAssumption DEF ReloadIssuers, Idle, Loaded, Live,
     MeshInv, TypeOK, LifecycleTypeOK, HostTypeOK, RootInv, LifeInv, KeyFiles, HostProcess,
     Snapshot
<1>4. ASSUME NEW w \in Workers, NEW op \in Operations, Claim(w, op),
             UNCHANGED <<task, drains, scope>>
      PROVE  RootInv'
  BY <1>4, RelayHostsAssumption, FailureLimitAssumption DEF Claim, Idle, Claimable, MeshInv,
     TypeOK, LifecycleTypeOK, HostTypeOK, RootInv, LifeInv, KeyFiles, HostProcess, Snapshot,
     Desired
<1>5. ASSUME NEW w \in Workers, NEW op \in Operations, StepFenced(w, op),
             UNCHANGED <<task, drains, scope>>
      PROVE  RootInv'
  BY <1>5, RelayHostsAssumption, FailureLimitAssumption DEF StepFenced, At, Current, Concluded,
     MeshInv, TypeOK, LifecycleTypeOK, HostTypeOK, RootInv, LifeInv, KeyFiles, HostProcess,
     Snapshot, Desired
<1>6. ASSUME NEW w \in Workers, NEW op \in Operations, FinishStep(w, op),
             UNCHANGED <<task, drains, scope>>
      PROVE  RootInv'
  BY <1>6, RelayHostsAssumption, FailureLimitAssumption DEF FinishStep, At, Current, Released,
     IdleWorker, StatusAfter, MeshInv, TypeOK, LifecycleTypeOK, HostTypeOK, RootInv, LifeInv,
     KeyFiles, HostProcess, Snapshot
<1>7. ASSUME NEW w \in Workers, NEW op \in Operations, StepAborted(w, op),
             UNCHANGED <<task, drains, scope>>
      PROVE  RootInv'
  <2>1. /\ worker \in [Workers -> WorkerState] /\ mesh \in MeshRow
        /\ registry \in [Workers -> Roots \cup {0}] /\ files \in KeyFiles
    BY DEF MeshInv, TypeOK, LifecycleTypeOK
  <2>2. mesh.tomb = "none"
    BY <1>7, <2>1 DEF StepAborted, Operations, MeshInv, LifeInv, MeshRow
  <2>3. /\ files'.bundle = PreparedBundle /\ files'.recovery = PreparedBundle
        /\ files.recovery \in {0, PreparedBundle}
    BY <1>7, <2>1, <2>2, ArchiveEffect DEF StepAborted, MeshInv, RootInv
  <2>4. UNCHANGED <<mesh, host>> BY <1>7 DEF StepAborted
  <2>5. /\ UNCHANGED registry \/ registry' = [registry EXCEPT ![w] = 0]
        /\ \/ worker' = Concluded(w, "error")
           \/ worker' = [worker EXCEPT ![w] = [IdleWorker EXCEPT !.up = FALSE]]
    BY <1>7 DEF StepAborted, Crashed
  <2>6. \A v \in Workers : worker'[v].root \in {0, worker[v].root}
    <3>1. CASE worker' = Concluded(w, "error") BY <2>1, <3>1 DEF Concluded
    <3>2. CASE worker' = [worker EXCEPT ![w] = [IdleWorker EXCEPT !.up = FALSE]]
      BY <2>1, <3>2 DEF IdleWorker
    <3> QED BY <2>5, <3>1, <3>2
  <2>7. \A v \in Workers : registry'[v] \in {0, registry[v]} BY <2>1, <2>5
  <2> QED BY <2>2, <2>3, <2>4, <2>6, <2>7 DEF MeshInv, RootInv
<1>8. ASSUME NEW w \in Workers, CreateDone(w), UNCHANGED <<task, drains, scope>> PROVE RootInv'
  BY <1>8, RelayHostsAssumption, FailureLimitAssumption DEF CreateDone, At, Current, Concluded,
     MeshInv, TypeOK, LifecycleTypeOK, HostTypeOK, RootInv, LifeInv, KeyFiles, HostProcess,
     Snapshot, Desired
<1>9. ASSUME NEW w \in Workers, CreateCommit(w), UNCHANGED <<task, drains, scope>> PROVE RootInv'
  BY <1>9, RelayHostsAssumption, FailureLimitAssumption DEF CreateCommit, At, Current,
     ArchiveRoot, PreparedBundle, RelaysReady, Roots, MeshInv, TypeOK, LifecycleTypeOK,
     HostTypeOK, RootInv, LifeInv, KeyFiles, HostProcess, Snapshot, Desired, States, MeshRow,
     WorkerState, Operations, Live
<1>10. ASSUME NEW w \in Workers, CreatePublish(w), UNCHANGED <<task, drains, scope>> PROVE RootInv'
  <2>1. /\ worker \in [Workers -> WorkerState] /\ mesh \in MeshRow
        /\ registry \in [Workers -> Roots \cup {0}]
    BY DEF MeshInv, TypeOK, LifecycleTypeOK
  <2>2. \E r : worker' = Concluded(w, r) BY <1>10 DEF CreatePublish
  <2>3. \A v \in Workers : worker'[v].root = worker[v].root
    BY <2>1, <2>2 DEF Concluded
  <2>4. /\ UNCHANGED <<files, host>> /\ mesh'.authority = mesh.authority
        /\ mesh'.tombRoot = mesh.tombRoot /\ mesh'.tomb = mesh.tomb
    BY <1>10, <2>1 DEF CreatePublish, MeshRow
  <2>5. \A v \in Workers : registry'[v] \in {registry[v], worker[v].root}
    BY <1>10 DEF CreatePublish
  <2> QED BY <2>3, <2>4, <2>5 DEF MeshInv, RootInv
<1>11. ASSUME NEW w \in Workers, DeleteCommit(w), UNCHANGED <<task, drains, scope>> PROVE RootInv'
  <2>1. /\ worker \in [Workers -> WorkerState] /\ mesh \in MeshRow
        /\ registry \in [Workers -> Roots \cup {0}] /\ files \in KeyFiles
    BY DEF MeshInv, TypeOK, LifecycleTypeOK
  <2>2. mesh.tomb = "none" BY <1>11 DEF DeleteCommit
  <2>3. /\ files'.bundle = PreparedBundle /\ files'.recovery = PreparedBundle
        /\ files.recovery \in {0, PreparedBundle} /\ PreparedBundle \in Roots
    BY <1>11, <2>1, <2>2, ArchiveEffect DEF DeleteCommit, MeshInv, RootInv
  <2>4. UNCHANGED <<registry, host>> BY <1>11 DEF DeleteCommit
  <2>5. /\ mesh'.authority = mesh.authority /\ mesh'.tomb = "signed"
        /\ mesh'.tombRoot = TerminationIssuer(w)
    BY <1>11, <2>1 DEF DeleteCommit
  <2>6. \A v \in Workers : worker'[v].root = worker[v].root
    BY <1>11, <2>1 DEF DeleteCommit, Concluded
  <2>7. TerminationIssuer(w) = PreparedBundle
    BY <1>11, <2>1, <2>3 DEF DeleteCommit, TerminationIssuer, MeshInv, RootInv
  <2> QED BY <2>3, <2>4, <2>5, <2>6, <2>7 DEF MeshInv, RootInv
<1>12. ASSUME NEW w \in Workers, DeleteUnsigned(w), UNCHANGED <<task, drains, scope>> PROVE RootInv'
  BY <1>12, RelayHostsAssumption, FailureLimitAssumption DEF DeleteUnsigned, At, Current,
     ArchiveRoot, TerminationIssuer, Concluded, PreparedBundle, Roots, ActiveIssuer, MeshInv,
     TypeOK, LifecycleTypeOK, HostTypeOK, RootInv, LifeInv, KeyFiles, HostProcess
<1>13. ASSUME NEW w \in Workers, DeleteWaits(w), UNCHANGED <<task, drains, scope>> PROVE RootInv'
  BY <1>13, RelayHostsAssumption, FailureLimitAssumption DEF DeleteWaits, At, Current,
     WaitingForRelay, Concluded, Assigned, MeshInv, TypeOK, LifecycleTypeOK, HostTypeOK,
     RootInv, LifeInv, KeyFiles, HostProcess, Snapshot
<1>14. ASSUME NEW w \in Workers, DeleteRows(w), UNCHANGED <<task, drains, scope>> PROVE RootInv'
  BY <1>14, RelayHostsAssumption, FailureLimitAssumption DEF DeleteRows, At, Current,
     WaitingForRelay, Assigned, MeshInv, TypeOK, LifecycleTypeOK, HostTypeOK, RootInv, LifeInv,
     KeyFiles, HostProcess, Snapshot, Desired
<1>15. ASSUME NEW w \in Workers, DeleteBundle(w), UNCHANGED <<task, drains, scope>> PROVE RootInv'
  BY <1>15, RelayHostsAssumption, FailureLimitAssumption DEF DeleteBundle, At, Current,
     Concluded, MeshInv, TypeOK, LifecycleTypeOK, HostTypeOK, RootInv, LifeInv, KeyFiles,
     HostProcess, Snapshot, Desired
<1>16. ASSUME NEW w \in Workers, WorkerRestart(w), UNCHANGED <<task, drains, scope>> PROVE RootInv'
  BY <1>16, RelayHostsAssumption, FailureLimitAssumption DEF WorkerRestart, Loaded, Live,
     MeshInv, TypeOK, LifecycleTypeOK, HostTypeOK, RootInv, LifeInv, KeyFiles, HostProcess,
     Snapshot
<1>17. ASSUME NEW w \in Workers, Publish(w), UNCHANGED <<task, drains, scope>> PROVE RootInv'
  BY <1>17, RelayHostsAssumption, FailureLimitAssumption DEF Publish, ActiveIssuer, Live,
     DirectoryNow, MeshInv, TypeOK, LifecycleTypeOK, HostTypeOK, RootInv, LifeInv, KeyFiles,
     HostProcess, Snapshot
<1>18. ASSUME NEW w \in Workers, StepFails(w), UNCHANGED <<task, drains, scope>> PROVE RootInv'
  BY <1>18, RelayHostsAssumption, FailureLimitAssumption DEF StepFails, Concluded, MeshInv,
     TypeOK, LifecycleTypeOK, HostTypeOK, RootInv, LifeInv, KeyFiles, HostProcess, Snapshot,
     Desired
<1>19. ASSUME NEW w \in Workers, WorkerCrash(w), UNCHANGED <<task, drains, scope>> PROVE RootInv'
  BY <1>19, RelayHostsAssumption, FailureLimitAssumption DEF WorkerCrash, Crashed, IdleWorker,
     Operations, MeshInv, TypeOK, LifecycleTypeOK, HostTypeOK, RootInv, LifeInv, KeyFiles,
     HostProcess, Snapshot
<1>20. ASSUME NEW w \in Workers, NEW h \in Hosts, RenewCredential(w, h),
              UNCHANGED <<task, drains, scope>>
       PROVE  RootInv'
  BY <1>20, RelayHostsAssumption, FailureLimitAssumption DEF RenewCredential, Idle,
     ActiveIssuer, Redirected, MeshInv, TypeOK, LifecycleTypeOK, HostTypeOK, RootInv, LifeInv,
     KeyFiles, HostProcess, Snapshot, Desired
<1>21. ASSUME NEW h \in Hosts, NEW w \in Workers, Fetch(h, w),
              UNCHANGED <<files, job, worker, default, task, drains, scope>>
       PROVE  RootInv'
  BY <1>21, RelayHostsAssumption, FailureLimitAssumption DEF Fetch, Assigned, MeshInv, TypeOK,
     LifecycleTypeOK, HostTypeOK, RootInv, LifeInv, KeyFiles, HostProcess, Snapshot, Desired
<1>22. ASSUME NEW h \in Hosts, NEW w \in Workers, RegisterKey(h, w),
              UNCHANGED <<files, job, worker, default, task, drains, scope>>
       PROVE  RootInv'
  <2>1. /\ host \in [Hosts -> HostProcess] /\ assignment \in [Hosts -> AssignmentRow]
        /\ mesh \in MeshRow
    BY DEF MeshInv, TypeOK, LifecycleTypeOK, HostTypeOK
  <2>2. /\ host[h].pc = "apply" /\ ~host[h].terminal
        /\ host[h].snap.desired \in {"active", "draining"}
    BY <1>22 DEF RegisterKey, MustBuild, Serving, Applying, Snap
  <2>3. UNCHANGED <<files, registry, worker, task, maintenance>> BY <1>22 DEF RegisterKey
  <2>4. CASE host' = [host EXCEPT ![h] = Idling(host[h])] /\ UNCHANGED <<mesh, assignment>>
    BY <2>1, <2>2, <2>3, <2>4 DEF Idling, NoSnapshot, HostProcess, AssignmentRow, MeshInv,
       RootInv
  <2>5. CASE /\ assignment' = [assignment EXCEPT ![h].cred = 1]
             /\ mesh' = [mesh EXCEPT !.dirty = TRUE]
             /\ host' = [host EXCEPT ![h] = Idling(host[h])]
    <3>1. /\ mesh'.life = mesh.life /\ mesh'.tomb = mesh.tomb /\ mesh'.authority = mesh.authority
          /\ mesh'.tombRoot = mesh.tombRoot
      BY <2>1, <2>5
    <3>2. \A i \in Hosts : /\ assignment'[i].desired = assignment[i].desired
                           /\ assignment'[i].revision = assignment[i].revision
                           /\ assignment'[i].applied = assignment[i].applied
                           /\ assignment'[i].state = assignment[i].state
      BY <2>1, <2>5
    <3> QED BY <2>1, <2>2, <2>3, <2>5, <3>1, <3>2 DEF Idling, NoSnapshot, HostProcess,
       AssignmentRow, MeshInv, RootInv
  <2>6. CASE host' = [host EXCEPT ![h] = Answering(host[h], "failed")] /\ UNCHANGED <<mesh, assignment>>
    BY <2>1, <2>2, <2>3, <2>6 DEF Answering, HostProcess, MeshInv, RootInv
  <2> QED BY <1>22, <2>4, <2>5, <2>6 DEF RegisterKey
<1>23. ASSUME NEW h \in Hosts, ApplySuspended(h),
              UNCHANGED <<files, job, worker, default, task, drains, scope>>
       PROVE  RootInv'
  BY <1>23, RelayHostsAssumption, FailureLimitAssumption DEF ApplySuspended, Applying, Snap,
     StopRuntime, Answering, MeshInv, TypeOK, LifecycleTypeOK, HostTypeOK, RootInv, LifeInv,
     KeyFiles, HostProcess, Snapshot, Desired
<1>24. ASSUME NEW h \in Hosts, ApplyTermination(h),
              UNCHANGED <<files, job, worker, default, task, drains, scope>>
       PROVE  RootInv'
  BY <1>24, RelayHostsAssumption, FailureLimitAssumption DEF ApplyTermination, Applying, Snap,
     MeshInv, TypeOK, LifecycleTypeOK, HostTypeOK, RootInv, LifeInv, KeyFiles, HostProcess,
     Snapshot, Desired
<1>25. ASSUME NEW h \in Hosts, EraseKey(h),
              UNCHANGED <<files, job, worker, default, task, drains, scope>>
       PROVE  RootInv'
  BY <1>25, RelayHostsAssumption, FailureLimitAssumption DEF EraseKey, Answering, MeshInv,
     TypeOK, LifecycleTypeOK, HostTypeOK, RootInv, LifeInv, KeyFiles, HostProcess, Snapshot,
     Desired
<1>26. ASSUME NEW h \in Hosts, RefuseTermination(h),
              UNCHANGED <<files, job, worker, default, task, drains, scope>>
       PROVE  RootInv'
  BY <1>26, RelayHostsAssumption, FailureLimitAssumption DEF RefuseTermination, Applying, Snap,
     Idling, NoSnapshot, MeshInv, TypeOK, LifecycleTypeOK, HostTypeOK, RootInv, LifeInv,
     KeyFiles, HostProcess, Snapshot, Desired
<1>27. ASSUME NEW h \in Hosts, KeepDraining(h),
              UNCHANGED <<files, job, worker, default, task, drains, scope>>
       PROVE  RootInv'
  BY <1>27, RelayHostsAssumption, FailureLimitAssumption DEF KeepDraining, Serving, Snap,
     Answering, Applying, MeshInv, TypeOK, LifecycleTypeOK, HostTypeOK, RootInv, LifeInv,
     KeyFiles, HostProcess, Snapshot, Desired
<1>28. ASSUME NEW h \in Hosts, KeepActive(h),
              UNCHANGED <<files, job, worker, default, task, drains, scope>>
       PROVE  RootInv'
  BY <1>28, RelayHostsAssumption, FailureLimitAssumption DEF KeepActive, Serving, Snap,
     Answering, Applying, MeshInv, TypeOK, LifecycleTypeOK, HostTypeOK, RootInv, LifeInv,
     KeyFiles, HostProcess, Snapshot, Desired
<1>29. ASSUME NEW h \in Hosts, GenerateKey(h),
              UNCHANGED <<files, job, worker, default, task, drains, scope>>
       PROVE  RootInv'
  BY <1>29, RelayHostsAssumption, FailureLimitAssumption DEF GenerateKey, MustBuild, Serving,
     Snap, Applying, MeshInv, TypeOK, LifecycleTypeOK, HostTypeOK, RootInv, LifeInv, KeyFiles,
     HostProcess, Snapshot, Desired
<1>30. ASSUME NEW h \in Hosts, StartRuntime(h),
              UNCHANGED <<files, job, worker, default, task, drains, scope>>
       PROVE  RootInv'
  BY <1>30, RelayHostsAssumption, FailureLimitAssumption DEF StartRuntime, MustBuild, Snap,
     RootMatches, Answering, Serving, Applying, MeshInv, TypeOK, LifecycleTypeOK, HostTypeOK,
     RootInv, LifeInv, KeyFiles, HostProcess, Snapshot
<1>31. ASSUME NEW h \in Hosts, StartRefused(h),
              UNCHANGED <<files, job, worker, default, task, drains, scope>>
       PROVE  RootInv'
  <2>1. /\ host \in [Hosts -> HostProcess] /\ assignment \in [Hosts -> AssignmentRow]
        /\ mesh \in MeshRow
    BY DEF MeshInv, TypeOK, LifecycleTypeOK, HostTypeOK
  <2>2. /\ host[h].pc = "apply" /\ ~host[h].terminal
        /\ host[h].snap.desired \in {"active", "draining"}
    BY <1>31 DEF StartRefused, MustBuild, Serving, Applying, Snap
  <2>3. UNCHANGED <<files, registry, worker, mesh, assignment>> BY <1>31 DEF StartRefused
  <2>4. CASE host' = [host EXCEPT ![h] = Answering(host[h], "failed")]
    BY <2>1, <2>2, <2>3, <2>4 DEF Answering, HostProcess, MeshInv, RootInv
  <2>5. CASE host' = [host EXCEPT ![h] = [Answering(host[h], "failed") EXCEPT
                        !.run = 0, !.accepting = FALSE, !.root = Snap(h).root]]
    BY <2>1, <2>2, <2>3, <2>5 DEF Answering, HostProcess, Snapshot, Snap, AssignmentRow,
       MeshInv, RootInv
  <2> QED BY <1>31, <2>4, <2>5 DEF StartRefused
<1>32. ASSUME NEW h \in Hosts, ServiceForbidden(h),
              UNCHANGED <<files, job, worker, default, task, drains, scope>>
       PROVE  RootInv'
  BY <1>32, RelayHostsAssumption, FailureLimitAssumption DEF ServiceForbidden, Applying, Snap,
     Answering, MeshInv, TypeOK, LifecycleTypeOK, HostTypeOK, RootInv, LifeInv, KeyFiles,
     HostProcess, Snapshot, Desired
<1>33. ASSUME NEW h \in Hosts, Acknowledge(h),
              UNCHANGED <<files, job, worker, default, task, drains, scope>>
       PROVE  RootInv'
  BY <1>33, RelayHostsAssumption, FailureLimitAssumption DEF Acknowledge, Recorded, Snap,
     Idling, Accepts, NoSnapshot, MeshInv, TypeOK, LifecycleTypeOK, HostTypeOK, RootInv,
     LifeInv, KeyFiles, HostProcess, Snapshot
<1>34. ASSUME NEW h \in Hosts, HostRestart(h),
              UNCHANGED <<files, job, worker, default, task, drains, scope>>
       PROVE  RootInv'
  BY <1>34, RelayHostsAssumption, FailureLimitAssumption DEF HostRestart, MeshInv, TypeOK,
     LifecycleTypeOK, HostTypeOK, RootInv, LifeInv
<1>35. ASSUME NEW h \in Hosts, AcknowledgementLost(h),
              UNCHANGED <<files, job, worker, default, task, drains, scope>>
       PROVE  RootInv'
  BY <1>35, RelayHostsAssumption, FailureLimitAssumption DEF AcknowledgementLost, Recorded,
     Snap, Idling, Accepts, NoSnapshot, MeshInv, TypeOK, LifecycleTypeOK, HostTypeOK, RootInv,
     LifeInv, KeyFiles, HostProcess, Snapshot
<1>36. ASSUME NEW h \in Hosts, RuntimeFails(h),
              UNCHANGED <<files, job, worker, default, task, drains, scope>>
       PROVE  RootInv'
  BY <1>36, RelayHostsAssumption, FailureLimitAssumption DEF RuntimeFails, MeshInv, TypeOK,
     LifecycleTypeOK, HostTypeOK, RootInv, LifeInv
<1>37. ASSUME NEW h \in Hosts, HostCrash(h),
              UNCHANGED <<files, job, worker, default, task, drains, scope>>
       PROVE  RootInv'
  BY <1>37, RelayHostsAssumption, FailureLimitAssumption DEF HostCrash, StoppedHost,
     NoSnapshot, MeshInv, TypeOK, LifecycleTypeOK, HostTypeOK, RootInv, LifeInv, KeyFiles,
     HostProcess, Snapshot, Desired
<1>38. ASSUME NEW h \in Hosts, NEW fresh, AdvanceDrain(h, fresh), UNCHANGED scope PROVE RootInv'
  BY <1>38, RelayHostsAssumption, FailureLimitAssumption DEF AdvanceDrain, Due, Replaced, Wait,
     ChangeAssignments, Confirmed, ExpectedStage, Suspending, Affected, ReplacementReady,
     Redirected, Assigned, MeshInv, TypeOK, LifecycleTypeOK, HostTypeOK, RootInv, LifeInv,
     KeyFiles, HostProcess, Snapshot, Desired, States, MeshRow
<1>39. ASSUME NEW h \in Hosts, NEW fresh, AdvanceResume(h, fresh), UNCHANGED scope PROVE RootInv'
  BY <1>39, RelayHostsAssumption, FailureLimitAssumption DEF AdvanceResume, Due,
     ChangeAssignments, Wait, Affected, ReplacementReady, Redirected, Assigned, MeshInv,
     TypeOK, LifecycleTypeOK, HostTypeOK, RootInv, LifeInv, KeyFiles, HostProcess, Snapshot,
     Desired, States, MeshRow
<1>40. CASE UNCHANGED <<mesh, registry, host, files, worker>>
  BY SMTT(60), <1>40 DEF MeshInv, RootInv
<1> QED BY ScopesAssumption, <1>1, <1>2, <1>3, <1>4, <1>5, <1>6, <1>7, <1>8, <1>9, <1>10,
   <1>11, <1>12, <1>13, <1>14, <1>15, <1>16, <1>17, <1>18, <1>19, <1>20, <1>21, <1>22, <1>23,
   <1>24, <1>25, <1>26, <1>27, <1>28, <1>29, <1>30, <1>31, <1>32, <1>33, <1>34, <1>35, <1>36,
   <1>37, <1>38, <1>39, <1>40 DEF Next, AdministratorStep, WorkerStep, HostStep, HostFault,
   Controls, vars, MeshInv, TypeOK, RetryJob, AssignHost, JobLeaseLapses, LeaseLapses,
   CreateDrain, CreateResume, RetryTask, TaskExpires, GraceElapses

\* Revisions only grow, and a host takes one snapshot at a time.
LEMMA SnapStep ==
    ASSUME MeshInv, [Next]_vars
    PROVE  SnapInv'
<1>1. ASSUME RequestCreate(Admissible), UNCHANGED <<task, drains, scope>> PROVE SnapInv'
  BY <1>1, RelayHostsAssumption, FailureLimitAssumption DEF RequestCreate, QueuedJob,
     NewAssignment, NoJob, MeshInv, TypeOK, LifecycleTypeOK, HostTypeOK, SnapInv, Assigned,
     NoSnapshot, AssignmentRow
<1>2. ASSUME RequestDelete, UNCHANGED <<task, drains, scope>> PROVE SnapInv'
  BY <1>2, RelayHostsAssumption, FailureLimitAssumption DEF RequestDelete, Live, QueuedJob,
     NoJob, MeshInv, TypeOK, LifecycleTypeOK, HostTypeOK, SnapInv, Assigned, NoSnapshot,
     AssignmentRow
<1>3. ASSUME NEW h \in Hosts, AssignHost(h, Admissible), UNCHANGED <<task, drains, scope>>
      PROVE  SnapInv'
  BY <1>3, RelayHostsAssumption, FailureLimitAssumption DEF AssignHost, Assigned,
     NewAssignment, MeshInv, TypeOK, LifecycleTypeOK, HostTypeOK, SnapInv, NoSnapshot,
     AssignmentRow, Desired
<1>4. ASSUME NEW w \in Workers, CreateCommit(w), UNCHANGED <<task, drains, scope>> PROVE SnapInv'
  BY <1>4, RelayHostsAssumption, FailureLimitAssumption DEF CreateCommit, At, Current,
     ArchiveRoot, PreparedBundle, RelaysReady, Roots, MeshInv, TypeOK, LifecycleTypeOK,
     HostTypeOK, SnapInv, Assigned, NoSnapshot, AssignmentRow
<1>5. ASSUME NEW w \in Workers, CreatePublish(w), UNCHANGED <<task, drains, scope>> PROVE SnapInv'
  BY <1>5, RelayHostsAssumption, FailureLimitAssumption DEF CreatePublish, At, Live,
     DirectoryNow, Concluded, MeshInv, TypeOK, LifecycleTypeOK, HostTypeOK, SnapInv, Assigned,
     NoSnapshot, AssignmentRow, Desired, States, HostProcess, Snapshot, MeshRow
<1>6. ASSUME NEW w \in Workers, DeleteCommit(w), UNCHANGED <<task, drains, scope>> PROVE SnapInv'
  <2>1. RemovalDirected BY <1>6, CommitEffect
  <2>2. UNCHANGED <<host, task, maintenance>> BY <1>6 DEF DeleteCommit
  <2>3. \A i \in Hosts : /\ assignment[i].applied \in Nat /\ assignment[i].revision \in Nat
                         /\ assignment[i].applied <= assignment[i].revision
                         /\ host[i].run \in Nat /\ host[i].snap.revision \in Nat
    BY DEF MeshInv, TypeOK, LifecycleTypeOK, HostTypeOK, AssignmentRow, HostProcess, Snapshot
  <2>4. mesh.life = "deleting"
    BY <1>6, <2>1 DEF DeleteCommit, Current, RemovalDirected, MeshInv, LifeInv
  <2> QED BY <2>1, <2>2, <2>3, <2>4 DEF RemovalDirected, MeshInv, SnapInv, Assigned, LifeInv
<1>7. ASSUME NEW w \in Workers, DeleteRows(w), UNCHANGED <<task, drains, scope>> PROVE SnapInv'
  BY <1>7, RelayHostsAssumption, FailureLimitAssumption DEF DeleteRows, At, Current,
     WaitingForRelay, Assigned, MeshInv, TypeOK, LifecycleTypeOK, HostTypeOK, SnapInv,
     NoSnapshot, AssignmentRow
<1>8. ASSUME NEW w \in Workers, Publish(w), UNCHANGED <<task, drains, scope>> PROVE SnapInv'
  BY <1>8, RelayHostsAssumption, FailureLimitAssumption DEF Publish, ActiveIssuer, Live,
     DirectoryNow, MeshInv, TypeOK, LifecycleTypeOK, HostTypeOK, SnapInv, Assigned, NoSnapshot,
     AssignmentRow
<1>9. ASSUME NEW w \in Workers, NEW h \in Hosts, RenewCredential(w, h),
             UNCHANGED <<task, drains, scope>>
      PROVE  SnapInv'
  BY <1>9, RelayHostsAssumption, FailureLimitAssumption DEF RenewCredential, Idle,
     ActiveIssuer, Redirected, MeshInv, TypeOK, LifecycleTypeOK, HostTypeOK, SnapInv, Assigned,
     NoSnapshot, AssignmentRow, Desired, States, HostProcess, Snapshot, MeshRow, Live
<1>10. ASSUME NEW h \in Hosts, NEW w \in Workers, Fetch(h, w),
              UNCHANGED <<files, job, worker, default, task, drains, scope>>
       PROVE  SnapInv'
  BY <1>10, RelayHostsAssumption, FailureLimitAssumption DEF Fetch, Assigned, MeshInv, TypeOK,
     LifecycleTypeOK, HostTypeOK, SnapInv, NoSnapshot, AssignmentRow, Desired
<1>11. ASSUME NEW h \in Hosts, NEW w \in Workers, RegisterKey(h, w),
              UNCHANGED <<files, job, worker, default, task, drains, scope>>
       PROVE  SnapInv'
  <2>1. /\ host \in [Hosts -> HostProcess] /\ assignment \in [Hosts -> AssignmentRow]
        /\ mesh \in MeshRow
    BY DEF MeshInv, TypeOK, LifecycleTypeOK, HostTypeOK
  <2>2. /\ host[h].pc = "apply" /\ ~host[h].terminal
        /\ host[h].snap.desired \in {"active", "draining"}
    BY <1>11 DEF RegisterKey, MustBuild, Serving, Applying, Snap
  <2>3. UNCHANGED <<files, registry, worker, task, maintenance>> BY <1>11 DEF RegisterKey
  <2>4. CASE host' = [host EXCEPT ![h] = Idling(host[h])] /\ UNCHANGED <<mesh, assignment>>
    BY <2>1, <2>2, <2>3, <2>4 DEF Idling, NoSnapshot, HostProcess, AssignmentRow, MeshInv,
       SnapInv, Assigned, LifeInv
  <2>5. CASE /\ assignment' = [assignment EXCEPT ![h].cred = 1]
             /\ mesh' = [mesh EXCEPT !.dirty = TRUE]
             /\ host' = [host EXCEPT ![h] = Idling(host[h])]
    <3>1. /\ mesh'.life = mesh.life /\ mesh'.tomb = mesh.tomb /\ mesh'.authority = mesh.authority
          /\ mesh'.tombRoot = mesh.tombRoot
      BY <2>1, <2>5
    <3>2. \A i \in Hosts : /\ assignment'[i].desired = assignment[i].desired
                           /\ assignment'[i].revision = assignment[i].revision
                           /\ assignment'[i].applied = assignment[i].applied
                           /\ assignment'[i].state = assignment[i].state
      BY <2>1, <2>5
    <3> QED BY <2>1, <2>2, <2>3, <2>5, <3>1, <3>2 DEF Idling, NoSnapshot, HostProcess,
       AssignmentRow, MeshInv, SnapInv, Assigned, LifeInv
  <2>6. CASE host' = [host EXCEPT ![h] = Answering(host[h], "failed")] /\ UNCHANGED <<mesh, assignment>>
    BY <2>1, <2>2, <2>3, <2>6 DEF Answering, HostProcess, MeshInv, SnapInv, Assigned, LifeInv
  <2> QED BY <1>11, <2>4, <2>5, <2>6 DEF RegisterKey
<1>12. ASSUME NEW h \in Hosts, ApplySuspended(h),
              UNCHANGED <<files, job, worker, default, task, drains, scope>>
       PROVE  SnapInv'
  BY <1>12, RelayHostsAssumption, FailureLimitAssumption DEF ApplySuspended, Applying, Snap,
     StopRuntime, Answering, MeshInv, TypeOK, LifecycleTypeOK, HostTypeOK, SnapInv, Assigned,
     NoSnapshot, AssignmentRow
<1>13. ASSUME NEW h \in Hosts, ApplyTermination(h),
              UNCHANGED <<files, job, worker, default, task, drains, scope>>
       PROVE  SnapInv'
  BY <1>13, RelayHostsAssumption, FailureLimitAssumption DEF ApplyTermination, Applying, Snap,
     MeshInv, TypeOK, LifecycleTypeOK, HostTypeOK, SnapInv, Assigned, NoSnapshot,
     AssignmentRow, Desired
<1>14. ASSUME NEW h \in Hosts, EraseKey(h),
              UNCHANGED <<files, job, worker, default, task, drains, scope>>
       PROVE  SnapInv'
  BY <1>14, RelayHostsAssumption, FailureLimitAssumption DEF EraseKey, Answering, MeshInv,
     TypeOK, LifecycleTypeOK, HostTypeOK, SnapInv, Assigned, NoSnapshot, AssignmentRow, Desired
<1>15. ASSUME NEW h \in Hosts, RefuseTermination(h),
              UNCHANGED <<files, job, worker, default, task, drains, scope>>
       PROVE  SnapInv'
  BY <1>15, RelayHostsAssumption, FailureLimitAssumption DEF RefuseTermination, Applying, Snap,
     Idling, NoSnapshot, MeshInv, TypeOK, LifecycleTypeOK, HostTypeOK, SnapInv, Assigned,
     AssignmentRow
<1>16. ASSUME NEW h \in Hosts, KeepDraining(h),
              UNCHANGED <<files, job, worker, default, task, drains, scope>>
       PROVE  SnapInv'
  BY <1>16, RelayHostsAssumption, FailureLimitAssumption DEF KeepDraining, Serving, Snap,
     Answering, Applying, MeshInv, TypeOK, LifecycleTypeOK, HostTypeOK, SnapInv, Assigned,
     NoSnapshot, AssignmentRow
<1>17. ASSUME NEW h \in Hosts, KeepActive(h),
              UNCHANGED <<files, job, worker, default, task, drains, scope>>
       PROVE  SnapInv'
  BY <1>17, RelayHostsAssumption, FailureLimitAssumption DEF KeepActive, Serving, Snap,
     Answering, Applying, MeshInv, TypeOK, LifecycleTypeOK, HostTypeOK, SnapInv, Assigned,
     NoSnapshot, AssignmentRow
<1>18. ASSUME NEW h \in Hosts, GenerateKey(h),
              UNCHANGED <<files, job, worker, default, task, drains, scope>>
       PROVE  SnapInv'
  BY <1>18, RelayHostsAssumption, FailureLimitAssumption DEF GenerateKey, MustBuild, Serving,
     Snap, Applying, MeshInv, TypeOK, LifecycleTypeOK, HostTypeOK, SnapInv, Assigned,
     NoSnapshot, AssignmentRow
<1>19. ASSUME NEW h \in Hosts, StartRuntime(h),
              UNCHANGED <<files, job, worker, default, task, drains, scope>>
       PROVE  SnapInv'
  BY <1>19, RelayHostsAssumption, FailureLimitAssumption DEF StartRuntime, MustBuild, Snap,
     RootMatches, Answering, Serving, Applying, MeshInv, TypeOK, LifecycleTypeOK, HostTypeOK,
     SnapInv, Assigned, NoSnapshot, AssignmentRow
<1>20. ASSUME NEW h \in Hosts, StartRefused(h),
              UNCHANGED <<files, job, worker, default, task, drains, scope>>
       PROVE  SnapInv'
  <2>1. /\ host \in [Hosts -> HostProcess] /\ assignment \in [Hosts -> AssignmentRow]
        /\ mesh \in MeshRow
    BY DEF MeshInv, TypeOK, LifecycleTypeOK, HostTypeOK
  <2>2. /\ host[h].pc = "apply" /\ ~host[h].terminal
        /\ host[h].snap.desired \in {"active", "draining"}
    BY <1>20 DEF StartRefused, MustBuild, Serving, Applying, Snap
  <2>3. UNCHANGED <<files, registry, worker, mesh, assignment>> BY <1>20 DEF StartRefused
  <2>4. CASE host' = [host EXCEPT ![h] = Answering(host[h], "failed")]
    BY <2>1, <2>2, <2>3, <2>4 DEF Answering, HostProcess, MeshInv, SnapInv, Assigned, LifeInv
  <2>5. CASE host' = [host EXCEPT ![h] = [Answering(host[h], "failed") EXCEPT
                        !.run = 0, !.accepting = FALSE, !.root = Snap(h).root]]
    BY <2>1, <2>2, <2>3, <2>5 DEF Answering, HostProcess, Snapshot, Snap, AssignmentRow,
       MeshInv, SnapInv, Assigned, LifeInv
  <2> QED BY <1>20, <2>4, <2>5 DEF StartRefused
<1>21. ASSUME NEW h \in Hosts, ServiceForbidden(h),
              UNCHANGED <<files, job, worker, default, task, drains, scope>>
       PROVE  SnapInv'
  BY <1>21, RelayHostsAssumption, FailureLimitAssumption DEF ServiceForbidden, Applying, Snap,
     Answering, MeshInv, TypeOK, LifecycleTypeOK, HostTypeOK, SnapInv, Assigned, NoSnapshot,
     AssignmentRow
<1>22. ASSUME NEW h \in Hosts, Acknowledge(h),
              UNCHANGED <<files, job, worker, default, task, drains, scope>>
       PROVE  SnapInv'
  BY <1>22, RelayHostsAssumption, FailureLimitAssumption DEF Acknowledge, Recorded, Snap,
     Idling, Accepts, NoSnapshot, MeshInv, TypeOK, LifecycleTypeOK, HostTypeOK, SnapInv,
     Assigned, AssignmentRow
<1>23. ASSUME NEW h \in Hosts, HostRestart(h),
              UNCHANGED <<files, job, worker, default, task, drains, scope>>
       PROVE  SnapInv'
  BY <1>23, RelayHostsAssumption, FailureLimitAssumption DEF HostRestart, MeshInv, TypeOK,
     LifecycleTypeOK, HostTypeOK, SnapInv, Assigned, NoSnapshot, AssignmentRow, Desired
<1>24. ASSUME NEW h \in Hosts, AcknowledgementLost(h),
              UNCHANGED <<files, job, worker, default, task, drains, scope>>
       PROVE  SnapInv'
  BY <1>24, RelayHostsAssumption, FailureLimitAssumption DEF AcknowledgementLost, Recorded,
     Snap, Idling, Accepts, NoSnapshot, MeshInv, TypeOK, LifecycleTypeOK, HostTypeOK, SnapInv,
     Assigned, AssignmentRow
<1>25. ASSUME NEW h \in Hosts, RuntimeFails(h),
              UNCHANGED <<files, job, worker, default, task, drains, scope>>
       PROVE  SnapInv'
  BY <1>25, RelayHostsAssumption, FailureLimitAssumption DEF RuntimeFails, MeshInv, TypeOK,
     LifecycleTypeOK, HostTypeOK, SnapInv, Assigned, NoSnapshot, AssignmentRow, Desired
<1>26. ASSUME NEW h \in Hosts, HostCrash(h),
              UNCHANGED <<files, job, worker, default, task, drains, scope>>
       PROVE  SnapInv'
  BY <1>26, RelayHostsAssumption, FailureLimitAssumption DEF HostCrash, StoppedHost,
     NoSnapshot, MeshInv, TypeOK, LifecycleTypeOK, HostTypeOK, SnapInv, Assigned,
     AssignmentRow, Desired
<1>27. ASSUME NEW h \in Hosts, NEW fresh, AdvanceDrain(h, fresh), UNCHANGED scope PROVE SnapInv'
  <2>1. task \in [Hosts -> Task] BY DEF MeshInv, TypeOK
  <2>2. /\ UNCHANGED <<assignment, mesh>> \/ \E d \in {"draining", "suspended"} : Turned(h, d)
        /\ UNCHANGED host
    BY <1>27, <2>1, DrainEffect DEF DrainChanges
  <2>3. CASE UNCHANGED <<assignment, mesh>>
    BY <2>2, <2>3 DEF MeshInv, SnapInv, Assigned
  <2>4. ASSUME NEW d \in {"draining", "suspended"}, Turned(h, d) PROVE SnapInv'
    BY <2>2, <2>4, TurnKeeps DEF Desired
  <2> QED BY <2>2, <2>3, <2>4
<1>28. ASSUME NEW h \in Hosts, NEW fresh, AdvanceResume(h, fresh), UNCHANGED scope PROVE SnapInv'
  <2>1. task \in [Hosts -> Task] BY DEF MeshInv, TypeOK
  <2>2. /\ UNCHANGED <<assignment, mesh>> \/ \E d \in {"active"} : Turned(h, d)
        /\ UNCHANGED host
    BY <1>28, <2>1, ResumeEffect DEF ResumeChanges
  <2>3. CASE UNCHANGED <<assignment, mesh>>
    BY <2>2, <2>3 DEF MeshInv, SnapInv, Assigned
  <2>4. ASSUME NEW d \in {"active"}, Turned(h, d) PROVE SnapInv'
    BY <2>2, <2>4, TurnKeeps DEF Desired
  <2> QED BY <2>2, <2>3, <2>4
<1>29. CASE UNCHANGED <<mesh, assignment, host>>
  BY SMTT(60), <1>29 DEF MeshInv, SnapInv, Assigned
<1> QED
  BY ZenonT(60), ScopesAssumption, <1>1, <1>2, <1>3, <1>4, <1>5, <1>6, <1>7, <1>8, <1>9, <1>10,
   <1>11, <1>12, <1>13, <1>14, <1>15, <1>16, <1>17, <1>18, <1>19, <1>20, <1>21, <1>22, <1>23,
   <1>24, <1>25, <1>26, <1>27, <1>28, <1>29 DEF Next, AdministratorStep, WorkerStep, HostStep,
   HostFault, Controls, vars, MeshInv, TypeOK, RetryJob, JobLeaseLapses, ReloadIssuers, Claim,
   StepFenced, FinishStep, StepAborted, ArchiveRoot, Crashed, CreateDone, DeleteUnsigned,
   DeleteWaits, DeleteBundle, WorkerRestart, StepFails, WorkerCrash, LeaseLapses, CreateDrain,
   CreateResume, RetryTask, TaskExpires, GraceElapses

\* A key is erased before the removal is acknowledged, and none is made afterwards.
LEMMA KeyStep ==
    ASSUME MeshInv, [Next]_vars
    PROVE  KeyInv'
<1>1. ASSUME RequestCreate(Admissible), UNCHANGED <<task, drains, scope>> PROVE KeyInv'
  BY <1>1, RelayHostsAssumption, FailureLimitAssumption DEF RequestCreate, QueuedJob,
     NewAssignment, NoJob, MeshInv, TypeOK, LifecycleTypeOK, HostTypeOK, KeyInv, SnapInv,
     LifeInv, Assigned, AssignmentRow
<1>2. ASSUME RequestDelete, UNCHANGED <<task, drains, scope>> PROVE KeyInv'
  BY <1>2, RelayHostsAssumption, FailureLimitAssumption DEF RequestDelete, Live, QueuedJob,
     NoJob, MeshInv, TypeOK, LifecycleTypeOK, HostTypeOK, KeyInv, SnapInv, LifeInv, Assigned
<1>3. ASSUME NEW h \in Hosts, AssignHost(h, Admissible), UNCHANGED <<task, drains, scope>>
      PROVE  KeyInv'
  BY <1>3, RelayHostsAssumption, FailureLimitAssumption DEF AssignHost, Assigned,
     NewAssignment, MeshInv, TypeOK, LifecycleTypeOK, HostTypeOK, KeyInv, SnapInv, LifeInv,
     AssignmentRow, Desired
<1>4. ASSUME NEW w \in Workers, CreateCommit(w), UNCHANGED <<task, drains, scope>> PROVE KeyInv'
  BY <1>4, RelayHostsAssumption, FailureLimitAssumption DEF CreateCommit, At, Current,
     ArchiveRoot, PreparedBundle, RelaysReady, Roots, MeshInv, TypeOK, LifecycleTypeOK,
     HostTypeOK, KeyInv, SnapInv, LifeInv, Assigned
<1>5. ASSUME NEW w \in Workers, CreatePublish(w), UNCHANGED <<task, drains, scope>> PROVE KeyInv'
  BY <1>5, RelayHostsAssumption, FailureLimitAssumption DEF CreatePublish, At, Live,
     DirectoryNow, Concluded, MeshInv, TypeOK, LifecycleTypeOK, HostTypeOK, KeyInv, SnapInv,
     LifeInv, Assigned, AssignmentRow, Desired, States, HostProcess, Snapshot, MeshRow
<1>6. ASSUME NEW w \in Workers, DeleteCommit(w), UNCHANGED <<task, drains, scope>> PROVE KeyInv'
  <2>1. RemovalDirected BY <1>6, CommitEffect
  <2>2. UNCHANGED <<host, task, maintenance>> BY <1>6 DEF DeleteCommit
  <2>3. \A i \in Hosts : /\ assignment[i].applied \in Nat /\ assignment[i].revision \in Nat
                         /\ assignment[i].applied <= assignment[i].revision
                         /\ host[i].run \in Nat /\ host[i].snap.revision \in Nat
    BY DEF MeshInv, TypeOK, LifecycleTypeOK, HostTypeOK, AssignmentRow, HostProcess, Snapshot
  <2>4. mesh.life = "deleting"
    BY <1>6, <2>1 DEF DeleteCommit, Current, RemovalDirected, MeshInv, LifeInv
  <2> QED BY <2>1, <2>2, <2>3, <2>4 DEF RemovalDirected, MeshInv, KeyInv
<1>7. ASSUME NEW w \in Workers, DeleteRows(w), UNCHANGED <<task, drains, scope>> PROVE KeyInv'
  BY <1>7, RelayHostsAssumption, FailureLimitAssumption DEF DeleteRows, At, Current,
     WaitingForRelay, Assigned, MeshInv, TypeOK, LifecycleTypeOK, HostTypeOK, KeyInv, SnapInv,
     LifeInv, AssignmentRow
<1>8. ASSUME NEW w \in Workers, Publish(w), UNCHANGED <<task, drains, scope>> PROVE KeyInv'
  BY <1>8, RelayHostsAssumption, FailureLimitAssumption DEF Publish, ActiveIssuer, Live,
     DirectoryNow, MeshInv, TypeOK, LifecycleTypeOK, HostTypeOK, KeyInv, SnapInv, LifeInv,
     Assigned
<1>9. ASSUME NEW w \in Workers, NEW h \in Hosts, RenewCredential(w, h),
             UNCHANGED <<task, drains, scope>>
      PROVE  KeyInv'
  BY <1>9, RelayHostsAssumption, FailureLimitAssumption DEF RenewCredential, Idle,
     ActiveIssuer, Redirected, MeshInv, TypeOK, LifecycleTypeOK, HostTypeOK, KeyInv, SnapInv,
     LifeInv, Assigned, AssignmentRow
<1>10. ASSUME NEW h \in Hosts, NEW w \in Workers, Fetch(h, w),
              UNCHANGED <<files, job, worker, default, task, drains, scope>>
       PROVE  KeyInv'
  BY <1>10, RelayHostsAssumption, FailureLimitAssumption DEF Fetch, Assigned, MeshInv, TypeOK,
     LifecycleTypeOK, HostTypeOK, KeyInv, SnapInv, LifeInv, AssignmentRow, Desired
<1>11. ASSUME NEW h \in Hosts, NEW w \in Workers, RegisterKey(h, w),
              UNCHANGED <<files, job, worker, default, task, drains, scope>>
       PROVE  KeyInv'
  <2>1. /\ host \in [Hosts -> HostProcess] /\ assignment \in [Hosts -> AssignmentRow]
        /\ mesh \in MeshRow
    BY DEF MeshInv, TypeOK, LifecycleTypeOK, HostTypeOK
  <2>2. /\ host[h].pc = "apply" /\ ~host[h].terminal
        /\ host[h].snap.desired \in {"active", "draining"}
    BY <1>11 DEF RegisterKey, MustBuild, Serving, Applying, Snap
  <2>3. UNCHANGED <<files, registry, worker, task, maintenance>> BY <1>11 DEF RegisterKey
  <2>4. CASE host' = [host EXCEPT ![h] = Idling(host[h])] /\ UNCHANGED <<mesh, assignment>>
    BY <2>1, <2>2, <2>3, <2>4 DEF Idling, NoSnapshot, HostProcess, AssignmentRow, MeshInv,
       KeyInv, SnapInv, Assigned
  <2>5. CASE /\ assignment' = [assignment EXCEPT ![h].cred = 1]
             /\ mesh' = [mesh EXCEPT !.dirty = TRUE]
             /\ host' = [host EXCEPT ![h] = Idling(host[h])]
    <3>1. /\ mesh'.life = mesh.life /\ mesh'.tomb = mesh.tomb /\ mesh'.authority = mesh.authority
          /\ mesh'.tombRoot = mesh.tombRoot
      BY <2>1, <2>5
    <3>2. \A i \in Hosts : /\ assignment'[i].desired = assignment[i].desired
                           /\ assignment'[i].revision = assignment[i].revision
                           /\ assignment'[i].applied = assignment[i].applied
                           /\ assignment'[i].state = assignment[i].state
      BY <2>1, <2>5
    <3> QED BY <2>1, <2>2, <2>3, <2>5, <3>1, <3>2 DEF Idling, NoSnapshot, HostProcess,
       AssignmentRow, MeshInv, KeyInv, SnapInv, Assigned
  <2>6. CASE host' = [host EXCEPT ![h] = Answering(host[h], "failed")] /\ UNCHANGED <<mesh, assignment>>
    BY <2>1, <2>2, <2>3, <2>6 DEF Answering, HostProcess, MeshInv, KeyInv, SnapInv, Assigned
  <2> QED BY <1>11, <2>4, <2>5, <2>6 DEF RegisterKey
<1>12. ASSUME NEW h \in Hosts, ApplySuspended(h),
              UNCHANGED <<files, job, worker, default, task, drains, scope>>
       PROVE  KeyInv'
  BY <1>12, RelayHostsAssumption, FailureLimitAssumption DEF ApplySuspended, Applying, Snap,
     StopRuntime, Answering, MeshInv, TypeOK, LifecycleTypeOK, HostTypeOK, KeyInv, SnapInv,
     LifeInv, Assigned, AssignmentRow
<1>13. ASSUME NEW h \in Hosts, ApplyTermination(h),
              UNCHANGED <<files, job, worker, default, task, drains, scope>>
       PROVE  KeyInv'
  BY <1>13, RelayHostsAssumption, FailureLimitAssumption DEF ApplyTermination, Applying, Snap,
     MeshInv, TypeOK, LifecycleTypeOK, HostTypeOK, KeyInv, SnapInv, LifeInv, Assigned,
     AssignmentRow
<1>14. ASSUME NEW h \in Hosts, EraseKey(h),
              UNCHANGED <<files, job, worker, default, task, drains, scope>>
       PROVE  KeyInv'
  BY <1>14, RelayHostsAssumption, FailureLimitAssumption DEF EraseKey, Answering, MeshInv,
     TypeOK, LifecycleTypeOK, HostTypeOK, KeyInv, SnapInv, LifeInv, Assigned, AssignmentRow,
     Desired
<1>15. ASSUME NEW h \in Hosts, RefuseTermination(h),
              UNCHANGED <<files, job, worker, default, task, drains, scope>>
       PROVE  KeyInv'
  BY <1>15, RelayHostsAssumption, FailureLimitAssumption DEF RefuseTermination, Applying, Snap,
     Idling, NoSnapshot, MeshInv, TypeOK, LifecycleTypeOK, HostTypeOK, KeyInv, SnapInv,
     LifeInv, Assigned, AssignmentRow
<1>16. ASSUME NEW h \in Hosts, KeepDraining(h),
              UNCHANGED <<files, job, worker, default, task, drains, scope>>
       PROVE  KeyInv'
  BY <1>16, RelayHostsAssumption, FailureLimitAssumption DEF KeepDraining, Serving, Snap,
     Answering, Applying, MeshInv, TypeOK, LifecycleTypeOK, HostTypeOK, KeyInv, SnapInv,
     LifeInv, Assigned, AssignmentRow
<1>17. ASSUME NEW h \in Hosts, KeepActive(h),
              UNCHANGED <<files, job, worker, default, task, drains, scope>>
       PROVE  KeyInv'
  BY <1>17, RelayHostsAssumption, FailureLimitAssumption DEF KeepActive, Serving, Snap,
     Answering, Applying, MeshInv, TypeOK, LifecycleTypeOK, HostTypeOK, KeyInv, SnapInv,
     LifeInv, Assigned, AssignmentRow
<1>18. ASSUME NEW h \in Hosts, GenerateKey(h),
              UNCHANGED <<files, job, worker, default, task, drains, scope>>
       PROVE  KeyInv'
  BY <1>18, RelayHostsAssumption, FailureLimitAssumption DEF GenerateKey, MustBuild, Serving,
     Snap, Applying, MeshInv, TypeOK, LifecycleTypeOK, HostTypeOK, KeyInv, SnapInv, LifeInv,
     Assigned, AssignmentRow
<1>19. ASSUME NEW h \in Hosts, StartRuntime(h),
              UNCHANGED <<files, job, worker, default, task, drains, scope>>
       PROVE  KeyInv'
  BY <1>19, RelayHostsAssumption, FailureLimitAssumption DEF StartRuntime, MustBuild, Snap,
     RootMatches, Answering, Serving, Applying, MeshInv, TypeOK, LifecycleTypeOK, HostTypeOK,
     KeyInv, SnapInv, LifeInv, Assigned
<1>20. ASSUME NEW h \in Hosts, StartRefused(h),
              UNCHANGED <<files, job, worker, default, task, drains, scope>>
       PROVE  KeyInv'
  <2>1. /\ host \in [Hosts -> HostProcess] /\ assignment \in [Hosts -> AssignmentRow]
        /\ mesh \in MeshRow
    BY DEF MeshInv, TypeOK, LifecycleTypeOK, HostTypeOK
  <2>2. /\ host[h].pc = "apply" /\ ~host[h].terminal
        /\ host[h].snap.desired \in {"active", "draining"}
    BY <1>20 DEF StartRefused, MustBuild, Serving, Applying, Snap
  <2>3. UNCHANGED <<files, registry, worker, mesh, assignment>> BY <1>20 DEF StartRefused
  <2>4. CASE host' = [host EXCEPT ![h] = Answering(host[h], "failed")]
    BY <2>1, <2>2, <2>3, <2>4 DEF Answering, HostProcess, MeshInv, KeyInv, SnapInv, Assigned
  <2>5. CASE host' = [host EXCEPT ![h] = [Answering(host[h], "failed") EXCEPT
                        !.run = 0, !.accepting = FALSE, !.root = Snap(h).root]]
    BY <2>1, <2>2, <2>3, <2>5 DEF Answering, HostProcess, Snapshot, Snap, AssignmentRow,
       MeshInv, KeyInv, SnapInv, Assigned
  <2> QED BY <1>20, <2>4, <2>5 DEF StartRefused
<1>21. ASSUME NEW h \in Hosts, ServiceForbidden(h),
              UNCHANGED <<files, job, worker, default, task, drains, scope>>
       PROVE  KeyInv'
  BY <1>21, RelayHostsAssumption, FailureLimitAssumption DEF ServiceForbidden, Applying, Snap,
     Answering, MeshInv, TypeOK, LifecycleTypeOK, HostTypeOK, KeyInv, SnapInv, LifeInv,
     Assigned, AssignmentRow
<1>22. ASSUME NEW h \in Hosts, Acknowledge(h),
              UNCHANGED <<files, job, worker, default, task, drains, scope>>
       PROVE  KeyInv'
  BY <1>22, RelayHostsAssumption, FailureLimitAssumption DEF Acknowledge, Recorded, Snap,
     Idling, Accepts, NoSnapshot, MeshInv, TypeOK, LifecycleTypeOK, HostTypeOK, KeyInv,
     SnapInv, LifeInv, Assigned, AssignmentRow
<1>23. ASSUME NEW h \in Hosts, HostRestart(h),
              UNCHANGED <<files, job, worker, default, task, drains, scope>>
       PROVE  KeyInv'
  BY <1>23, RelayHostsAssumption, FailureLimitAssumption DEF HostRestart, MeshInv, TypeOK,
     LifecycleTypeOK, HostTypeOK, KeyInv, SnapInv, LifeInv, Assigned, AssignmentRow, Desired
<1>24. ASSUME NEW h \in Hosts, AcknowledgementLost(h),
              UNCHANGED <<files, job, worker, default, task, drains, scope>>
       PROVE  KeyInv'
  BY <1>24, RelayHostsAssumption, FailureLimitAssumption DEF AcknowledgementLost, Recorded,
     Snap, Idling, Accepts, NoSnapshot, MeshInv, TypeOK, LifecycleTypeOK, HostTypeOK, KeyInv,
     SnapInv, LifeInv, Assigned, AssignmentRow
<1>25. ASSUME NEW h \in Hosts, RuntimeFails(h),
              UNCHANGED <<files, job, worker, default, task, drains, scope>>
       PROVE  KeyInv'
  BY <1>25, RelayHostsAssumption, FailureLimitAssumption DEF RuntimeFails, MeshInv, TypeOK,
     LifecycleTypeOK, HostTypeOK, KeyInv, SnapInv, LifeInv, Assigned, AssignmentRow, Desired
<1>26. ASSUME NEW h \in Hosts, HostCrash(h),
              UNCHANGED <<files, job, worker, default, task, drains, scope>>
       PROVE  KeyInv'
  BY <1>26, RelayHostsAssumption, FailureLimitAssumption DEF HostCrash, StoppedHost,
     NoSnapshot, MeshInv, TypeOK, LifecycleTypeOK, HostTypeOK, KeyInv, SnapInv, LifeInv,
     Assigned, AssignmentRow
<1>27. ASSUME NEW h \in Hosts, NEW fresh, AdvanceDrain(h, fresh), UNCHANGED scope PROVE KeyInv'
  <2>1. task \in [Hosts -> Task] BY DEF MeshInv, TypeOK
  <2>2. /\ UNCHANGED <<assignment, mesh>> \/ \E d \in {"draining", "suspended"} : Turned(h, d)
        /\ UNCHANGED host
    BY <1>27, <2>1, DrainEffect DEF DrainChanges
  <2>3. CASE UNCHANGED <<assignment, mesh>>
    BY <2>2, <2>3 DEF MeshInv, KeyInv, Assigned
  <2>4. ASSUME NEW d \in {"draining", "suspended"}, Turned(h, d) PROVE KeyInv'
    BY <2>2, <2>4, TurnKeeps DEF Desired
  <2> QED BY <2>2, <2>3, <2>4
<1>28. ASSUME NEW h \in Hosts, NEW fresh, AdvanceResume(h, fresh), UNCHANGED scope PROVE KeyInv'
  <2>1. task \in [Hosts -> Task] BY DEF MeshInv, TypeOK
  <2>2. /\ UNCHANGED <<assignment, mesh>> \/ \E d \in {"active"} : Turned(h, d)
        /\ UNCHANGED host
    BY <1>28, <2>1, ResumeEffect DEF ResumeChanges
  <2>3. CASE UNCHANGED <<assignment, mesh>>
    BY <2>2, <2>3 DEF MeshInv, KeyInv, Assigned
  <2>4. ASSUME NEW d \in {"active"}, Turned(h, d) PROVE KeyInv'
    BY <2>2, <2>4, TurnKeeps DEF Desired
  <2> QED BY <2>2, <2>3, <2>4
<1>29. CASE UNCHANGED <<mesh, assignment, host>>
  BY SMTT(60), <1>29 DEF MeshInv, KeyInv, Assigned
<1> QED
  BY ZenonT(60), ScopesAssumption, <1>1, <1>2, <1>3, <1>4, <1>5, <1>6, <1>7, <1>8, <1>9, <1>10,
   <1>11, <1>12, <1>13, <1>14, <1>15, <1>16, <1>17, <1>18, <1>19, <1>20, <1>21, <1>22, <1>23,
   <1>24, <1>25, <1>26, <1>27, <1>28, <1>29 DEF Next, AdministratorStep, WorkerStep, HostStep,
   HostFault, Controls, vars, MeshInv, TypeOK, RetryJob, JobLeaseLapses, ReloadIssuers, Claim,
   StepFenced, FinishStep, StepAborted, ArchiveRoot, Crashed, CreateDone, DeleteUnsigned,
   DeleteWaits, DeleteBundle, WorkerRestart, StepFails, WorkerCrash, LeaseLapses, CreateDrain,
   CreateResume, RetryTask, TaskExpires, GraceElapses

\* A suspended revision is acknowledged with the runtime stopped.
LEMMA SuspendStep ==
    ASSUME MeshInv, [Next]_vars
    PROVE  SuspendInv'
<1>1. ASSUME RequestCreate(Admissible), UNCHANGED <<task, drains, scope>> PROVE SuspendInv'
  BY <1>1, RelayHostsAssumption, FailureLimitAssumption DEF RequestCreate, QueuedJob,
     NewAssignment, NoJob, MeshInv, TypeOK, LifecycleTypeOK, HostTypeOK, SuspendInv, SnapInv,
     KeyInv, AssignmentRow
<1>2. ASSUME NEW h \in Hosts, AssignHost(h, Admissible), UNCHANGED <<task, drains, scope>>
      PROVE  SuspendInv'
  BY <1>2, RelayHostsAssumption, FailureLimitAssumption DEF AssignHost, Assigned,
     NewAssignment, MeshInv, TypeOK, LifecycleTypeOK, HostTypeOK, SuspendInv, SnapInv, KeyInv,
     AssignmentRow
<1>3. ASSUME NEW w \in Workers, DeleteCommit(w), UNCHANGED <<task, drains, scope>> PROVE SuspendInv'
  <2>1. RemovalDirected BY <1>3, CommitEffect
  <2>2. UNCHANGED <<host, task, maintenance>> BY <1>3 DEF DeleteCommit
  <2>3. \A i \in Hosts : /\ assignment[i].applied \in Nat /\ assignment[i].revision \in Nat
                         /\ assignment[i].applied <= assignment[i].revision
                         /\ host[i].run \in Nat /\ host[i].snap.revision \in Nat
    BY DEF MeshInv, TypeOK, LifecycleTypeOK, HostTypeOK, AssignmentRow, HostProcess, Snapshot
  <2>4. mesh.life = "deleting"
    BY <1>3, <2>1 DEF DeleteCommit, Current, RemovalDirected, MeshInv, LifeInv
  <2> QED BY <2>1, <2>2, <2>3, <2>4 DEF RemovalDirected, MeshInv, SuspendInv
<1>4. ASSUME NEW w \in Workers, NEW h \in Hosts, RenewCredential(w, h),
             UNCHANGED <<task, drains, scope>>
      PROVE  SuspendInv'
  BY <1>4, RelayHostsAssumption, FailureLimitAssumption DEF RenewCredential, Idle,
     ActiveIssuer, Redirected, MeshInv, TypeOK, LifecycleTypeOK, HostTypeOK, SuspendInv,
     SnapInv, KeyInv, AssignmentRow
<1>5. ASSUME NEW h \in Hosts, NEW w \in Workers, Fetch(h, w),
             UNCHANGED <<files, job, worker, default, task, drains, scope>>
      PROVE  SuspendInv'
  BY <1>5, RelayHostsAssumption, FailureLimitAssumption DEF Fetch, Assigned, MeshInv, TypeOK,
     LifecycleTypeOK, HostTypeOK, SuspendInv, SnapInv, KeyInv, AssignmentRow
<1>6. ASSUME NEW h \in Hosts, NEW w \in Workers, RegisterKey(h, w),
             UNCHANGED <<files, job, worker, default, task, drains, scope>>
      PROVE  SuspendInv'
  <2>1. /\ host \in [Hosts -> HostProcess] /\ assignment \in [Hosts -> AssignmentRow]
        /\ mesh \in MeshRow
    BY DEF MeshInv, TypeOK, LifecycleTypeOK, HostTypeOK
  <2>2. /\ host[h].pc = "apply" /\ ~host[h].terminal
        /\ host[h].snap.desired \in {"active", "draining"}
    BY <1>6 DEF RegisterKey, MustBuild, Serving, Applying, Snap
  <2>3. UNCHANGED <<files, registry, worker, task, maintenance>> BY <1>6 DEF RegisterKey
  <2>4. CASE host' = [host EXCEPT ![h] = Idling(host[h])] /\ UNCHANGED <<mesh, assignment>>
    BY <2>1, <2>2, <2>3, <2>4 DEF Idling, NoSnapshot, HostProcess, AssignmentRow, MeshInv,
       SuspendInv
  <2>5. CASE /\ assignment' = [assignment EXCEPT ![h].cred = 1]
             /\ mesh' = [mesh EXCEPT !.dirty = TRUE]
             /\ host' = [host EXCEPT ![h] = Idling(host[h])]
    <3>1. /\ mesh'.life = mesh.life /\ mesh'.tomb = mesh.tomb /\ mesh'.authority = mesh.authority
          /\ mesh'.tombRoot = mesh.tombRoot
      BY <2>1, <2>5
    <3>2. \A i \in Hosts : /\ assignment'[i].desired = assignment[i].desired
                           /\ assignment'[i].revision = assignment[i].revision
                           /\ assignment'[i].applied = assignment[i].applied
                           /\ assignment'[i].state = assignment[i].state
      BY <2>1, <2>5
    <3> QED BY <2>1, <2>2, <2>3, <2>5, <3>1, <3>2 DEF Idling, NoSnapshot, HostProcess,
       AssignmentRow, MeshInv, SuspendInv
  <2>6. CASE host' = [host EXCEPT ![h] = Answering(host[h], "failed")] /\ UNCHANGED <<mesh, assignment>>
    BY <2>1, <2>2, <2>3, <2>6 DEF Answering, HostProcess, MeshInv, SuspendInv
  <2> QED BY <1>6, <2>4, <2>5, <2>6 DEF RegisterKey
<1>7. ASSUME NEW h \in Hosts, ApplySuspended(h),
             UNCHANGED <<files, job, worker, default, task, drains, scope>>
      PROVE  SuspendInv'
  BY <1>7, RelayHostsAssumption, FailureLimitAssumption DEF ApplySuspended, Applying, Snap,
     StopRuntime, Answering, MeshInv, TypeOK, LifecycleTypeOK, HostTypeOK, SuspendInv, SnapInv,
     KeyInv
<1>8. ASSUME NEW h \in Hosts, ApplyTermination(h),
             UNCHANGED <<files, job, worker, default, task, drains, scope>>
      PROVE  SuspendInv'
  BY <1>8, RelayHostsAssumption, FailureLimitAssumption DEF ApplyTermination, Applying, Snap,
     MeshInv, TypeOK, LifecycleTypeOK, HostTypeOK, SuspendInv, SnapInv, KeyInv, AssignmentRow
<1>9. ASSUME NEW h \in Hosts, EraseKey(h),
             UNCHANGED <<files, job, worker, default, task, drains, scope>>
      PROVE  SuspendInv'
  BY <1>9, RelayHostsAssumption, FailureLimitAssumption DEF EraseKey, Answering, MeshInv,
     TypeOK, LifecycleTypeOK, HostTypeOK, SuspendInv, SnapInv, KeyInv, AssignmentRow
<1>10. ASSUME NEW h \in Hosts, RefuseTermination(h),
              UNCHANGED <<files, job, worker, default, task, drains, scope>>
       PROVE  SuspendInv'
  BY <1>10, RelayHostsAssumption, FailureLimitAssumption DEF RefuseTermination, Applying, Snap,
     Idling, NoSnapshot, MeshInv, TypeOK, LifecycleTypeOK, HostTypeOK, SuspendInv, SnapInv,
     KeyInv
<1>11. ASSUME NEW h \in Hosts, KeepDraining(h),
              UNCHANGED <<files, job, worker, default, task, drains, scope>>
       PROVE  SuspendInv'
  BY <1>11, RelayHostsAssumption, FailureLimitAssumption DEF KeepDraining, Serving, Snap,
     Answering, Applying, MeshInv, TypeOK, LifecycleTypeOK, HostTypeOK, SuspendInv, SnapInv,
     KeyInv
<1>12. ASSUME NEW h \in Hosts, KeepActive(h),
              UNCHANGED <<files, job, worker, default, task, drains, scope>>
       PROVE  SuspendInv'
  BY <1>12, RelayHostsAssumption, FailureLimitAssumption DEF KeepActive, Serving, Snap,
     Answering, Applying, MeshInv, TypeOK, LifecycleTypeOK, HostTypeOK, SuspendInv, SnapInv,
     KeyInv
<1>13. ASSUME NEW h \in Hosts, GenerateKey(h),
              UNCHANGED <<files, job, worker, default, task, drains, scope>>
       PROVE  SuspendInv'
  BY <1>13, RelayHostsAssumption, FailureLimitAssumption DEF GenerateKey, MustBuild, Serving,
     Snap, Applying, MeshInv, TypeOK, LifecycleTypeOK, HostTypeOK, SuspendInv, SnapInv, KeyInv
<1>14. ASSUME NEW h \in Hosts, StartRuntime(h),
              UNCHANGED <<files, job, worker, default, task, drains, scope>>
       PROVE  SuspendInv'
  BY <1>14, RelayHostsAssumption, FailureLimitAssumption DEF StartRuntime, MustBuild, Snap,
     RootMatches, Answering, Serving, Applying, MeshInv, TypeOK, LifecycleTypeOK, HostTypeOK,
     SuspendInv, SnapInv, KeyInv
<1>15. ASSUME NEW h \in Hosts, StartRefused(h),
              UNCHANGED <<files, job, worker, default, task, drains, scope>>
       PROVE  SuspendInv'
  <2>1. /\ host \in [Hosts -> HostProcess] /\ assignment \in [Hosts -> AssignmentRow]
        /\ mesh \in MeshRow
    BY DEF MeshInv, TypeOK, LifecycleTypeOK, HostTypeOK
  <2>2. /\ host[h].pc = "apply" /\ ~host[h].terminal
        /\ host[h].snap.desired \in {"active", "draining"}
    BY <1>15 DEF StartRefused, MustBuild, Serving, Applying, Snap
  <2>3. UNCHANGED <<files, registry, worker, mesh, assignment>> BY <1>15 DEF StartRefused
  <2>4. CASE host' = [host EXCEPT ![h] = Answering(host[h], "failed")]
    BY <2>1, <2>2, <2>3, <2>4 DEF Answering, HostProcess, MeshInv, SuspendInv
  <2>5. CASE host' = [host EXCEPT ![h] = [Answering(host[h], "failed") EXCEPT
                        !.run = 0, !.accepting = FALSE, !.root = Snap(h).root]]
    BY <2>1, <2>2, <2>3, <2>5 DEF Answering, HostProcess, Snapshot, Snap, AssignmentRow,
       MeshInv, SuspendInv
  <2> QED BY <1>15, <2>4, <2>5 DEF StartRefused
<1>16. ASSUME NEW h \in Hosts, ServiceForbidden(h),
              UNCHANGED <<files, job, worker, default, task, drains, scope>>
       PROVE  SuspendInv'
  BY <1>16, RelayHostsAssumption, FailureLimitAssumption DEF ServiceForbidden, Applying, Snap,
     Answering, MeshInv, TypeOK, LifecycleTypeOK, HostTypeOK, SuspendInv, SnapInv, KeyInv,
     AssignmentRow
<1>17. ASSUME NEW h \in Hosts, Acknowledge(h),
              UNCHANGED <<files, job, worker, default, task, drains, scope>>
       PROVE  SuspendInv'
  BY <1>17, RelayHostsAssumption, FailureLimitAssumption DEF Acknowledge, Recorded, Snap,
     Idling, Accepts, NoSnapshot, MeshInv, TypeOK, LifecycleTypeOK, HostTypeOK, SuspendInv,
     SnapInv, KeyInv
<1>18. ASSUME NEW h \in Hosts, HostRestart(h),
              UNCHANGED <<files, job, worker, default, task, drains, scope>>
       PROVE  SuspendInv'
  BY <1>18, RelayHostsAssumption, FailureLimitAssumption DEF HostRestart, MeshInv, TypeOK,
     LifecycleTypeOK, HostTypeOK, SuspendInv, SnapInv, KeyInv, AssignmentRow
<1>19. ASSUME NEW h \in Hosts, AcknowledgementLost(h),
              UNCHANGED <<files, job, worker, default, task, drains, scope>>
       PROVE  SuspendInv'
  BY <1>19, RelayHostsAssumption, FailureLimitAssumption DEF AcknowledgementLost, Recorded,
     Snap, Idling, Accepts, NoSnapshot, MeshInv, TypeOK, LifecycleTypeOK, HostTypeOK,
     SuspendInv, SnapInv, KeyInv
<1>20. ASSUME NEW h \in Hosts, RuntimeFails(h),
              UNCHANGED <<files, job, worker, default, task, drains, scope>>
       PROVE  SuspendInv'
  BY <1>20, RelayHostsAssumption, FailureLimitAssumption DEF RuntimeFails, MeshInv, TypeOK,
     LifecycleTypeOK, HostTypeOK, SuspendInv, SnapInv, KeyInv, AssignmentRow
<1>21. ASSUME NEW h \in Hosts, HostCrash(h),
              UNCHANGED <<files, job, worker, default, task, drains, scope>>
       PROVE  SuspendInv'
  BY <1>21, RelayHostsAssumption, FailureLimitAssumption DEF HostCrash, StoppedHost,
     NoSnapshot, MeshInv, TypeOK, LifecycleTypeOK, HostTypeOK, SuspendInv, SnapInv, KeyInv,
     AssignmentRow
<1>22. ASSUME NEW h \in Hosts, NEW fresh, AdvanceDrain(h, fresh), UNCHANGED scope PROVE SuspendInv'
  <2>1. task \in [Hosts -> Task] BY DEF MeshInv, TypeOK
  <2>2. /\ UNCHANGED <<assignment, mesh>> \/ \E d \in {"draining", "suspended"} : Turned(h, d)
        /\ UNCHANGED host
    BY <1>22, <2>1, DrainEffect DEF DrainChanges
  <2>3. CASE UNCHANGED <<assignment, mesh>>
    BY <2>2, <2>3 DEF MeshInv, SuspendInv, Assigned
  <2>4. ASSUME NEW d \in {"draining", "suspended"}, Turned(h, d) PROVE SuspendInv'
    BY <2>2, <2>4, TurnKeeps DEF Desired
  <2> QED BY <2>2, <2>3, <2>4
<1>23. ASSUME NEW h \in Hosts, NEW fresh, AdvanceResume(h, fresh), UNCHANGED scope PROVE SuspendInv'
  <2>1. task \in [Hosts -> Task] BY DEF MeshInv, TypeOK
  <2>2. /\ UNCHANGED <<assignment, mesh>> \/ \E d \in {"active"} : Turned(h, d)
        /\ UNCHANGED host
    BY <1>23, <2>1, ResumeEffect DEF ResumeChanges
  <2>3. CASE UNCHANGED <<assignment, mesh>>
    BY <2>2, <2>3 DEF MeshInv, SuspendInv, Assigned
  <2>4. ASSUME NEW d \in {"active"}, Turned(h, d) PROVE SuspendInv'
    BY <2>2, <2>4, TurnKeeps DEF Desired
  <2> QED BY <2>2, <2>3, <2>4
<1>24. CASE UNCHANGED <<assignment, host>>
  BY SMTT(60), <1>24 DEF MeshInv, SuspendInv
<1> QED
  BY ZenonT(60), ScopesAssumption, <1>1, <1>2, <1>3, <1>4, <1>5, <1>6, <1>7, <1>8, <1>9, <1>10,
   <1>11, <1>12, <1>13, <1>14, <1>15, <1>16, <1>17, <1>18, <1>19, <1>20, <1>21, <1>22, <1>23,
   <1>24 DEF Next, AdministratorStep, WorkerStep, HostStep, HostFault, Controls, vars, MeshInv,
   TypeOK, RequestDelete, RetryJob, JobLeaseLapses, ReloadIssuers, Claim, StepFenced,
   FinishStep, StepAborted, ArchiveRoot, Crashed, CreateDone, CreateCommit, CreatePublish,
   DeleteUnsigned, DeleteWaits, DeleteRows, DeleteBundle, WorkerRestart, Publish, StepFails,
   WorkerCrash, LeaseLapses, CreateDrain, CreateResume, RetryTask, TaskExpires, GraceElapses

\* A drain ends in a suspension only if the host has confirmed it.
LEMMA TaskStep ==
    ASSUME MeshInv, [Next]_vars
    PROVE  TaskInv'
<1>1. ASSUME RequestCreate(Admissible), UNCHANGED <<task, drains, scope>> PROVE TaskInv'
  BY <1>1, RelayHostsAssumption, FailureLimitAssumption DEF RequestCreate, QueuedJob,
     NewAssignment, NoJob, MeshInv, TypeOK, LifecycleTypeOK, HostTypeOK, TaskInv, LifeInv,
     KeyInv, SnapInv, Unfinished, Assigned
<1>2. ASSUME RequestDelete, UNCHANGED <<task, drains, scope>> PROVE TaskInv'
  BY <1>2, RelayHostsAssumption, FailureLimitAssumption DEF RequestDelete, Live, QueuedJob,
     NoJob, MeshInv, TypeOK, LifecycleTypeOK, HostTypeOK, TaskInv, LifeInv, KeyInv, SnapInv,
     Unfinished
<1>3. ASSUME NEW h \in Hosts, AssignHost(h, Admissible), UNCHANGED <<task, drains, scope>>
      PROVE  TaskInv'
  BY <1>3, RelayHostsAssumption, FailureLimitAssumption DEF AssignHost, Assigned,
     NewAssignment, MeshInv, TypeOK, LifecycleTypeOK, HostTypeOK, TaskInv, LifeInv, KeyInv,
     SnapInv, Unfinished
<1>4. ASSUME NEW w \in Workers, CreateCommit(w), UNCHANGED <<task, drains, scope>> PROVE TaskInv'
  BY <1>4, RelayHostsAssumption, FailureLimitAssumption DEF CreateCommit, At, Current,
     ArchiveRoot, PreparedBundle, RelaysReady, Roots, MeshInv, TypeOK, LifecycleTypeOK,
     HostTypeOK, TaskInv, LifeInv, KeyInv, SnapInv, Unfinished, Assigned, AssignmentRow, Desired
<1>5. ASSUME NEW w \in Workers, CreatePublish(w), UNCHANGED <<task, drains, scope>> PROVE TaskInv'
  BY <1>5, RelayHostsAssumption, FailureLimitAssumption DEF CreatePublish, At, Live,
     DirectoryNow, Concluded, MeshInv, TypeOK, LifecycleTypeOK, HostTypeOK, TaskInv, LifeInv,
     KeyInv, SnapInv, Unfinished, Assigned, AssignmentRow, Desired, States, MeshRow, Task
<1>6. ASSUME NEW w \in Workers, DeleteCommit(w), UNCHANGED <<task, drains, scope>> PROVE TaskInv'
  <2>1. RemovalDirected BY <1>6, CommitEffect
  <2>2. UNCHANGED <<host, task, maintenance>> BY <1>6 DEF DeleteCommit
  <2>3. \A i \in Hosts : /\ assignment[i].applied \in Nat /\ assignment[i].revision \in Nat
                         /\ assignment[i].applied <= assignment[i].revision
                         /\ host[i].run \in Nat /\ host[i].snap.revision \in Nat
    BY DEF MeshInv, TypeOK, LifecycleTypeOK, HostTypeOK, AssignmentRow, HostProcess, Snapshot
  <2>4. mesh.life = "deleting"
    BY <1>6, <2>1 DEF DeleteCommit, Current, RemovalDirected, MeshInv, LifeInv
  <2> QED BY <2>1, <2>2, <2>3, <2>4 DEF RemovalDirected, MeshInv, TaskInv, Unfinished, Assigned
<1>7. ASSUME NEW w \in Workers, DeleteRows(w), UNCHANGED <<task, drains, scope>> PROVE TaskInv'
  BY <1>7, RelayHostsAssumption, FailureLimitAssumption DEF DeleteRows, At, Current,
     WaitingForRelay, Assigned, MeshInv, TypeOK, LifecycleTypeOK, HostTypeOK, TaskInv, LifeInv,
     KeyInv, SnapInv, Unfinished
<1>8. ASSUME NEW w \in Workers, Publish(w), UNCHANGED <<task, drains, scope>> PROVE TaskInv'
  BY <1>8, RelayHostsAssumption, FailureLimitAssumption DEF Publish, ActiveIssuer, Live,
     DirectoryNow, MeshInv, TypeOK, LifecycleTypeOK, HostTypeOK, TaskInv, LifeInv, KeyInv,
     SnapInv, Unfinished, Assigned, AssignmentRow, Desired
<1>9. ASSUME NEW w \in Workers, NEW h \in Hosts, RenewCredential(w, h),
             UNCHANGED <<task, drains, scope>>
      PROVE  TaskInv'
  BY <1>9, RelayHostsAssumption, FailureLimitAssumption DEF RenewCredential, Idle,
     ActiveIssuer, Redirected, MeshInv, TypeOK, LifecycleTypeOK, HostTypeOK, TaskInv, LifeInv,
     KeyInv, SnapInv, Unfinished, Assigned
<1>10. ASSUME NEW h \in Hosts, NEW w \in Workers, RegisterKey(h, w),
              UNCHANGED <<files, job, worker, default, task, drains, scope>>
       PROVE  TaskInv'
  <2>1. /\ host \in [Hosts -> HostProcess] /\ assignment \in [Hosts -> AssignmentRow]
        /\ mesh \in MeshRow
    BY DEF MeshInv, TypeOK, LifecycleTypeOK, HostTypeOK
  <2>2. /\ host[h].pc = "apply" /\ ~host[h].terminal
        /\ host[h].snap.desired \in {"active", "draining"}
    BY <1>10 DEF RegisterKey, MustBuild, Serving, Applying, Snap
  <2>3. UNCHANGED <<files, registry, worker, task, maintenance>> BY <1>10 DEF RegisterKey
  <2>4. CASE host' = [host EXCEPT ![h] = Idling(host[h])] /\ UNCHANGED <<mesh, assignment>>
    BY <2>1, <2>2, <2>3, <2>4 DEF Idling, NoSnapshot, HostProcess, AssignmentRow, MeshInv,
       TaskInv, Unfinished, Assigned, SnapInv
  <2>5. CASE /\ assignment' = [assignment EXCEPT ![h].cred = 1]
             /\ mesh' = [mesh EXCEPT !.dirty = TRUE]
             /\ host' = [host EXCEPT ![h] = Idling(host[h])]
    <3>1. /\ mesh'.life = mesh.life /\ mesh'.tomb = mesh.tomb /\ mesh'.authority = mesh.authority
          /\ mesh'.tombRoot = mesh.tombRoot
      BY <2>1, <2>5
    <3>2. \A i \in Hosts : /\ assignment'[i].desired = assignment[i].desired
                           /\ assignment'[i].revision = assignment[i].revision
                           /\ assignment'[i].applied = assignment[i].applied
                           /\ assignment'[i].state = assignment[i].state
      BY <2>1, <2>5
    <3> QED BY <2>1, <2>2, <2>3, <2>5, <3>1, <3>2 DEF Idling, NoSnapshot, HostProcess,
       AssignmentRow, MeshInv, TaskInv, Unfinished, Assigned
  <2>6. CASE host' = [host EXCEPT ![h] = Answering(host[h], "failed")] /\ UNCHANGED <<mesh, assignment>>
    BY <2>1, <2>2, <2>3, <2>6 DEF Answering, HostProcess, MeshInv, TaskInv, Unfinished,
       Assigned, SnapInv
  <2> QED BY <1>10, <2>4, <2>5, <2>6 DEF RegisterKey
<1>11. ASSUME NEW h \in Hosts, Acknowledge(h),
              UNCHANGED <<files, job, worker, default, task, drains, scope>>
       PROVE  TaskInv'
  BY <1>11, RelayHostsAssumption, FailureLimitAssumption DEF Acknowledge, Recorded, Snap,
     Idling, Accepts, NoSnapshot, MeshInv, TypeOK, LifecycleTypeOK, HostTypeOK, TaskInv,
     LifeInv, KeyInv, SnapInv, Unfinished, Assigned, AssignmentRow, Desired
<1>12. ASSUME NEW h \in Hosts, AcknowledgementLost(h),
              UNCHANGED <<files, job, worker, default, task, drains, scope>>
       PROVE  TaskInv'
  BY <1>12, RelayHostsAssumption, FailureLimitAssumption DEF AcknowledgementLost, Recorded,
     Snap, Idling, Accepts, NoSnapshot, MeshInv, TypeOK, LifecycleTypeOK, HostTypeOK, TaskInv,
     LifeInv, KeyInv, SnapInv, Unfinished, Assigned, AssignmentRow, Desired
<1>13. ASSUME NEW h \in Hosts, NEW r \in Hosts, NEW fresh, CreateDrain(h, r, fresh), UNCHANGED scope
       PROVE  TaskInv'
  BY <1>13, RelayHostsAssumption, FailureLimitAssumption DEF CreateDrain, Blocked, Unfinished,
     Affected, ReplacementReady, Assigned, MeshInv, TypeOK, LifecycleTypeOK, HostTypeOK,
     TaskInv, LifeInv, KeyInv, SnapInv, AssignmentRow, Desired, States, MeshRow, Task, Live
<1>14. ASSUME NEW h \in Hosts, NEW fresh, CreateResume(h, fresh), UNCHANGED scope PROVE TaskInv'
  BY <1>14, RelayHostsAssumption, FailureLimitAssumption DEF CreateResume, Blocked, Unfinished,
     NoTask, Assigned, MeshInv, TypeOK, LifecycleTypeOK, HostTypeOK, TaskInv, LifeInv, KeyInv,
     SnapInv
<1>15. ASSUME NEW h \in Hosts, NEW fresh, AdvanceDrain(h, fresh), UNCHANGED scope PROVE TaskInv'
  <2>1. /\ task \in [Hosts -> Task] /\ assignment \in [Hosts -> AssignmentRow]
        /\ maintenance \in [Hosts -> {"active", "draining", "suspended"}] /\ mesh \in MeshRow
    BY DEF MeshInv, TypeOK, LifecycleTypeOK, HostTypeOK
  <2>2. DrainChanges(h, fresh) BY <1>15, <2>1, DrainEffect
  <2>3. /\ \A i \in Hosts \ {h} : task'[i] = task[i] /\ maintenance'[i] = maintenance[i]
        /\ task[h].op = "drain" /\ task'[h].op = "drain" /\ task'[h].replacement = task[h].replacement
        /\ maintenance[h] = "draining"
    BY <2>1, <2>2 DEF DrainChanges, Advanced, Due, Unfinished, MeshInv, TaskInv
  <2>4. CASE UNCHANGED <<assignment, mesh, maintenance>>
    BY <2>2, <2>3, <2>4 DEF MeshInv, TaskInv, Unfinished, Assigned
  <2>5. ASSUME NEW d \in {"draining", "suspended"}, Turned(h, d), UNCHANGED maintenance
        PROVE  TaskInv'
    <3>1. mesh'.life = mesh.life /\ mesh.life = "active" BY <2>1, <2>5 DEF Turned, Affected
    <3>2. \A i \in Hosts \ {h} : assignment'[i] = assignment[i] BY <2>1, <2>5 DEF Turned
    <3> QED BY <2>3, <2>5, <3>1, <3>2 DEF MeshInv, TaskInv, Unfinished, Assigned
  <2>6. CASE /\ maintenance' = [maintenance EXCEPT ![h] = "suspended"]
             /\ UNCHANGED <<assignment, mesh>> /\ task'[h].status = "succeeded"
             /\ Affected(h) => /\ assignment[h].desired = "suspended"
                               /\ assignment[h].applied = assignment[h].revision
    <3>1. Assigned(h) /\ mesh.life = "active" => Affected(h)
      BY DEF Affected, MeshInv, KeyInv, LifeInv, MeshRow, TypeOK, LifecycleTypeOK
    <3> QED BY <2>1, <2>3, <2>6, <3>1 DEF MeshInv, TaskInv, Unfinished, Assigned
  <2> QED BY <2>2, <2>4, <2>5, <2>6 DEF DrainChanges
<1>16. ASSUME NEW h \in Hosts, NEW fresh, AdvanceResume(h, fresh), UNCHANGED scope PROVE TaskInv'
  <2>1. /\ task \in [Hosts -> Task] /\ assignment \in [Hosts -> AssignmentRow]
        /\ maintenance \in [Hosts -> {"active", "draining", "suspended"}] /\ mesh \in MeshRow
    BY DEF MeshInv, TypeOK, LifecycleTypeOK, HostTypeOK
  <2>2. ResumeChanges(h, fresh) BY <1>16, <2>1, ResumeEffect
  <2>3. /\ \A i \in Hosts \ {h} : task'[i] = task[i] /\ maintenance'[i] = maintenance[i]
        /\ task'[h].op = "resume"
    BY <2>1, <2>2 DEF ResumeChanges, Advanced
  <2>4. CASE UNCHANGED <<assignment, mesh, maintenance>>
    BY <2>2, <2>3, <2>4 DEF MeshInv, TaskInv, Unfinished, Assigned
  <2>5. CASE maintenance' = [maintenance EXCEPT ![h] = "active"] /\ UNCHANGED <<assignment, mesh>>
    BY <2>1, <2>3, <2>5 DEF MeshInv, TaskInv, Unfinished, Assigned
  <2>6. CASE maintenance' = [maintenance EXCEPT ![h] = "active"] /\ Turned(h, "active")
    <3>1. mesh'.life = mesh.life BY <2>1, <2>6 DEF Turned
    <3>2. \A i \in Hosts \ {h} : assignment'[i] = assignment[i] BY <2>1, <2>6 DEF Turned
    <3>3. maintenance'[h] = "active" BY <2>1, <2>6
    <3> QED BY <2>3, <3>1, <3>2, <3>3 DEF MeshInv, TaskInv, Unfinished, Assigned
  <2> QED BY <2>2, <2>4, <2>5, <2>6 DEF ResumeChanges
<1>17. ASSUME NEW h \in Hosts, RetryTask(h), UNCHANGED scope PROVE TaskInv'
  BY <1>17, RelayHostsAssumption, FailureLimitAssumption DEF RetryTask, MeshInv, TypeOK,
     LifecycleTypeOK, HostTypeOK, TaskInv, LifeInv, KeyInv, SnapInv, Unfinished, Assigned,
     AssignmentRow
<1>18. ASSUME NEW h \in Hosts, TaskExpires(h), UNCHANGED scope PROVE TaskInv'
  BY <1>18, RelayHostsAssumption, FailureLimitAssumption DEF TaskExpires, Due, MeshInv, TypeOK,
     LifecycleTypeOK, HostTypeOK, TaskInv, LifeInv, KeyInv, SnapInv, Unfinished, Assigned
<1>19. ASSUME NEW h \in Hosts, GraceElapses(h), UNCHANGED scope PROVE TaskInv'
  BY <1>19, RelayHostsAssumption, FailureLimitAssumption DEF GraceElapses, MeshInv, TypeOK,
     LifecycleTypeOK, HostTypeOK, TaskInv, LifeInv, KeyInv, SnapInv, Unfinished, Assigned,
     AssignmentRow
<1>20. CASE UNCHANGED <<mesh, assignment, maintenance, task>>
  BY SMTT(60), <1>20 DEF MeshInv, TaskInv, Unfinished, Assigned
<1> QED
  BY ZenonT(60), ScopesAssumption, <1>1, <1>2, <1>3, <1>4, <1>5, <1>6, <1>7, <1>8, <1>9, <1>10,
   <1>11, <1>12, <1>13, <1>14, <1>15, <1>16, <1>17, <1>18, <1>19, <1>20 DEF Next,
   AdministratorStep, WorkerStep, HostStep, HostFault, Controls, vars, MeshInv, TypeOK,
   RetryJob, JobLeaseLapses, ReloadIssuers, Claim, StepFenced, FinishStep, StepAborted,
   ArchiveRoot, Crashed, CreateDone, DeleteUnsigned, DeleteWaits, DeleteBundle, WorkerRestart,
   StepFails, WorkerCrash, Fetch, ApplySuspended, StopRuntime, ApplyTermination, EraseKey,
   RefuseTermination, KeepDraining, KeepActive, GenerateKey, StartRuntime, StartRefused,
   ServiceForbidden, HostRestart, RuntimeFails, HostCrash, LeaseLapses

\* A runtime is ready only of the revision it was started for.
LEMMA ReadyStep ==
    ASSUME MeshInv, [Next]_vars
    PROVE  ReadyInv'
<1>1. ASSUME RequestCreate(Admissible), UNCHANGED <<task, drains, scope>> PROVE ReadyInv'
  BY <1>1, RelayHostsAssumption, FailureLimitAssumption DEF RequestCreate, QueuedJob,
     NewAssignment, NoJob, MeshInv, TypeOK, LifecycleTypeOK, HostTypeOK, ReadyInv, SnapInv,
     AssignmentRow
<1>2. ASSUME NEW h \in Hosts, AssignHost(h, Admissible), UNCHANGED <<task, drains, scope>>
      PROVE  ReadyInv'
  BY <1>2, RelayHostsAssumption, FailureLimitAssumption DEF AssignHost, Assigned,
     NewAssignment, MeshInv, TypeOK, LifecycleTypeOK, HostTypeOK, ReadyInv, SnapInv,
     AssignmentRow
<1>3. ASSUME NEW w \in Workers, DeleteCommit(w), UNCHANGED <<task, drains, scope>> PROVE ReadyInv'
  <2>1. RemovalDirected BY <1>3, CommitEffect
  <2>2. UNCHANGED <<host, task, maintenance>> BY <1>3 DEF DeleteCommit
  <2>3. \A i \in Hosts : /\ assignment[i].applied \in Nat /\ assignment[i].revision \in Nat
                         /\ assignment[i].applied <= assignment[i].revision
                         /\ host[i].run \in Nat /\ host[i].snap.revision \in Nat
    BY DEF MeshInv, TypeOK, LifecycleTypeOK, HostTypeOK, AssignmentRow, HostProcess, Snapshot
  <2>4. mesh.life = "deleting"
    BY <1>3, <2>1 DEF DeleteCommit, Current, RemovalDirected, MeshInv, LifeInv
  <2> QED BY <2>1, <2>2, <2>3, <2>4 DEF RemovalDirected, MeshInv, ReadyInv, SnapInv
<1>4. ASSUME NEW w \in Workers, NEW h \in Hosts, RenewCredential(w, h),
             UNCHANGED <<task, drains, scope>>
      PROVE  ReadyInv'
  BY <1>4, RelayHostsAssumption, FailureLimitAssumption DEF RenewCredential, Idle,
     ActiveIssuer, Redirected, MeshInv, TypeOK, LifecycleTypeOK, HostTypeOK, ReadyInv, SnapInv,
     AssignmentRow
<1>5. ASSUME NEW h \in Hosts, NEW w \in Workers, Fetch(h, w),
             UNCHANGED <<files, job, worker, default, task, drains, scope>>
      PROVE  ReadyInv'
  BY <1>5, RelayHostsAssumption, FailureLimitAssumption DEF Fetch, Assigned, MeshInv, TypeOK,
     LifecycleTypeOK, HostTypeOK, ReadyInv, SnapInv, AssignmentRow
<1>6. ASSUME NEW h \in Hosts, NEW w \in Workers, RegisterKey(h, w),
             UNCHANGED <<files, job, worker, default, task, drains, scope>>
      PROVE  ReadyInv'
  <2>1. /\ host \in [Hosts -> HostProcess] /\ assignment \in [Hosts -> AssignmentRow]
        /\ mesh \in MeshRow
    BY DEF MeshInv, TypeOK, LifecycleTypeOK, HostTypeOK
  <2>2. /\ host[h].pc = "apply" /\ ~host[h].terminal
        /\ host[h].snap.desired \in {"active", "draining"}
    BY <1>6 DEF RegisterKey, MustBuild, Serving, Applying, Snap
  <2>3. UNCHANGED <<files, registry, worker, task, maintenance>> BY <1>6 DEF RegisterKey
  <2>4. CASE host' = [host EXCEPT ![h] = Idling(host[h])] /\ UNCHANGED <<mesh, assignment>>
    BY <2>1, <2>2, <2>3, <2>4 DEF Idling, NoSnapshot, HostProcess, AssignmentRow, MeshInv,
       ReadyInv, SnapInv
  <2>5. CASE /\ assignment' = [assignment EXCEPT ![h].cred = 1]
             /\ mesh' = [mesh EXCEPT !.dirty = TRUE]
             /\ host' = [host EXCEPT ![h] = Idling(host[h])]
    <3>1. /\ mesh'.life = mesh.life /\ mesh'.tomb = mesh.tomb /\ mesh'.authority = mesh.authority
          /\ mesh'.tombRoot = mesh.tombRoot
      BY <2>1, <2>5
    <3>2. \A i \in Hosts : /\ assignment'[i].desired = assignment[i].desired
                           /\ assignment'[i].revision = assignment[i].revision
                           /\ assignment'[i].applied = assignment[i].applied
                           /\ assignment'[i].state = assignment[i].state
      BY <2>1, <2>5
    <3> QED BY <2>1, <2>2, <2>3, <2>5, <3>1, <3>2 DEF Idling, NoSnapshot, HostProcess,
       AssignmentRow, MeshInv, ReadyInv, SnapInv
  <2>6. CASE host' = [host EXCEPT ![h] = Answering(host[h], "failed")] /\ UNCHANGED <<mesh, assignment>>
    BY <2>1, <2>2, <2>3, <2>6 DEF Answering, HostProcess, MeshInv, ReadyInv, SnapInv
  <2> QED BY <1>6, <2>4, <2>5, <2>6 DEF RegisterKey
<1>7. ASSUME NEW h \in Hosts, ApplySuspended(h),
             UNCHANGED <<files, job, worker, default, task, drains, scope>>
      PROVE  ReadyInv'
  BY <1>7, RelayHostsAssumption, FailureLimitAssumption DEF ApplySuspended, Applying, Snap,
     StopRuntime, Answering, MeshInv, TypeOK, LifecycleTypeOK, HostTypeOK, ReadyInv, SnapInv,
     AssignmentRow
<1>8. ASSUME NEW h \in Hosts, ApplyTermination(h),
             UNCHANGED <<files, job, worker, default, task, drains, scope>>
      PROVE  ReadyInv'
  BY <1>8, RelayHostsAssumption, FailureLimitAssumption DEF ApplyTermination, Applying, Snap,
     MeshInv, TypeOK, LifecycleTypeOK, HostTypeOK, ReadyInv, SnapInv, AssignmentRow
<1>9. ASSUME NEW h \in Hosts, EraseKey(h),
             UNCHANGED <<files, job, worker, default, task, drains, scope>>
      PROVE  ReadyInv'
  BY <1>9, RelayHostsAssumption, FailureLimitAssumption DEF EraseKey, Answering, MeshInv,
     TypeOK, LifecycleTypeOK, HostTypeOK, ReadyInv, SnapInv, AssignmentRow
<1>10. ASSUME NEW h \in Hosts, RefuseTermination(h),
              UNCHANGED <<files, job, worker, default, task, drains, scope>>
       PROVE  ReadyInv'
  BY <1>10, RelayHostsAssumption, FailureLimitAssumption DEF RefuseTermination, Applying, Snap,
     Idling, NoSnapshot, MeshInv, TypeOK, LifecycleTypeOK, HostTypeOK, ReadyInv, SnapInv,
     AssignmentRow
<1>11. ASSUME NEW h \in Hosts, KeepDraining(h),
              UNCHANGED <<files, job, worker, default, task, drains, scope>>
       PROVE  ReadyInv'
  BY <1>11, RelayHostsAssumption, FailureLimitAssumption DEF KeepDraining, Serving, Snap,
     Answering, Applying, MeshInv, TypeOK, LifecycleTypeOK, HostTypeOK, ReadyInv, SnapInv,
     AssignmentRow
<1>12. ASSUME NEW h \in Hosts, KeepActive(h),
              UNCHANGED <<files, job, worker, default, task, drains, scope>>
       PROVE  ReadyInv'
  BY <1>12, RelayHostsAssumption, FailureLimitAssumption DEF KeepActive, Serving, Snap,
     Answering, Applying, MeshInv, TypeOK, LifecycleTypeOK, HostTypeOK, ReadyInv, SnapInv,
     AssignmentRow
<1>13. ASSUME NEW h \in Hosts, GenerateKey(h),
              UNCHANGED <<files, job, worker, default, task, drains, scope>>
       PROVE  ReadyInv'
  BY <1>13, RelayHostsAssumption, FailureLimitAssumption DEF GenerateKey, MustBuild, Serving,
     Snap, Applying, MeshInv, TypeOK, LifecycleTypeOK, HostTypeOK, ReadyInv, SnapInv,
     AssignmentRow
<1>14. ASSUME NEW h \in Hosts, StartRuntime(h),
              UNCHANGED <<files, job, worker, default, task, drains, scope>>
       PROVE  ReadyInv'
  BY <1>14, RelayHostsAssumption, FailureLimitAssumption DEF StartRuntime, MustBuild, Snap,
     RootMatches, Answering, Serving, Applying, MeshInv, TypeOK, LifecycleTypeOK, HostTypeOK,
     ReadyInv, SnapInv, AssignmentRow, Desired, States, HostProcess, Snapshot, Live
<1>15. ASSUME NEW h \in Hosts, StartRefused(h),
              UNCHANGED <<files, job, worker, default, task, drains, scope>>
       PROVE  ReadyInv'
  <2>1. /\ host \in [Hosts -> HostProcess] /\ assignment \in [Hosts -> AssignmentRow]
        /\ mesh \in MeshRow
    BY DEF MeshInv, TypeOK, LifecycleTypeOK, HostTypeOK
  <2>2. /\ host[h].pc = "apply" /\ ~host[h].terminal
        /\ host[h].snap.desired \in {"active", "draining"}
    BY <1>15 DEF StartRefused, MustBuild, Serving, Applying, Snap
  <2>3. UNCHANGED <<files, registry, worker, mesh, assignment>> BY <1>15 DEF StartRefused
  <2>4. CASE host' = [host EXCEPT ![h] = Answering(host[h], "failed")]
    BY <2>1, <2>2, <2>3, <2>4 DEF Answering, HostProcess, MeshInv, ReadyInv, SnapInv
  <2>5. CASE host' = [host EXCEPT ![h] = [Answering(host[h], "failed") EXCEPT
                        !.run = 0, !.accepting = FALSE, !.root = Snap(h).root]]
    BY <2>1, <2>2, <2>3, <2>5 DEF Answering, HostProcess, Snapshot, Snap, AssignmentRow,
       MeshInv, ReadyInv, SnapInv
  <2> QED BY <1>15, <2>4, <2>5 DEF StartRefused
<1>16. ASSUME NEW h \in Hosts, ServiceForbidden(h),
              UNCHANGED <<files, job, worker, default, task, drains, scope>>
       PROVE  ReadyInv'
  BY <1>16, RelayHostsAssumption, FailureLimitAssumption DEF ServiceForbidden, Applying, Snap,
     Answering, MeshInv, TypeOK, LifecycleTypeOK, HostTypeOK, ReadyInv, SnapInv, AssignmentRow
<1>17. ASSUME NEW h \in Hosts, Acknowledge(h),
              UNCHANGED <<files, job, worker, default, task, drains, scope>>
       PROVE  ReadyInv'
  BY <1>17, RelayHostsAssumption, FailureLimitAssumption DEF Acknowledge, Recorded, Snap,
     Idling, Accepts, NoSnapshot, MeshInv, TypeOK, LifecycleTypeOK, HostTypeOK, ReadyInv,
     SnapInv
<1>18. ASSUME NEW h \in Hosts, HostRestart(h),
              UNCHANGED <<files, job, worker, default, task, drains, scope>>
       PROVE  ReadyInv'
  BY <1>18, RelayHostsAssumption, FailureLimitAssumption DEF HostRestart, MeshInv, TypeOK,
     LifecycleTypeOK, HostTypeOK, ReadyInv, SnapInv, AssignmentRow, Desired
<1>19. ASSUME NEW h \in Hosts, AcknowledgementLost(h),
              UNCHANGED <<files, job, worker, default, task, drains, scope>>
       PROVE  ReadyInv'
  BY <1>19, RelayHostsAssumption, FailureLimitAssumption DEF AcknowledgementLost, Recorded,
     Snap, Idling, Accepts, NoSnapshot, MeshInv, TypeOK, LifecycleTypeOK, HostTypeOK, ReadyInv,
     SnapInv
<1>20. ASSUME NEW h \in Hosts, RuntimeFails(h),
              UNCHANGED <<files, job, worker, default, task, drains, scope>>
       PROVE  ReadyInv'
  BY <1>20, RelayHostsAssumption, FailureLimitAssumption DEF RuntimeFails, MeshInv, TypeOK,
     LifecycleTypeOK, HostTypeOK, ReadyInv, SnapInv, AssignmentRow, Desired
<1>21. ASSUME NEW h \in Hosts, HostCrash(h),
              UNCHANGED <<files, job, worker, default, task, drains, scope>>
       PROVE  ReadyInv'
  BY <1>21, RelayHostsAssumption, FailureLimitAssumption DEF HostCrash, StoppedHost,
     NoSnapshot, MeshInv, TypeOK, LifecycleTypeOK, HostTypeOK, ReadyInv, SnapInv, AssignmentRow
<1>22. ASSUME NEW h \in Hosts, NEW fresh, AdvanceDrain(h, fresh), UNCHANGED scope PROVE ReadyInv'
  <2>1. task \in [Hosts -> Task] BY DEF MeshInv, TypeOK
  <2>2. /\ UNCHANGED <<assignment, mesh>> \/ \E d \in {"draining", "suspended"} : Turned(h, d)
        /\ UNCHANGED host
    BY <1>22, <2>1, DrainEffect DEF DrainChanges
  <2>3. CASE UNCHANGED <<assignment, mesh>>
    BY <2>2, <2>3 DEF MeshInv, ReadyInv, Assigned
  <2>4. ASSUME NEW d \in {"draining", "suspended"}, Turned(h, d) PROVE ReadyInv'
    BY <2>2, <2>4, TurnKeeps DEF Desired
  <2> QED BY <2>2, <2>3, <2>4
<1>23. ASSUME NEW h \in Hosts, NEW fresh, AdvanceResume(h, fresh), UNCHANGED scope PROVE ReadyInv'
  <2>1. task \in [Hosts -> Task] BY DEF MeshInv, TypeOK
  <2>2. /\ UNCHANGED <<assignment, mesh>> \/ \E d \in {"active"} : Turned(h, d)
        /\ UNCHANGED host
    BY <1>23, <2>1, ResumeEffect DEF ResumeChanges
  <2>3. CASE UNCHANGED <<assignment, mesh>>
    BY <2>2, <2>3 DEF MeshInv, ReadyInv, Assigned
  <2>4. ASSUME NEW d \in {"active"}, Turned(h, d) PROVE ReadyInv'
    BY <2>2, <2>4, TurnKeeps DEF Desired
  <2> QED BY <2>2, <2>3, <2>4
<1>24. CASE UNCHANGED <<assignment, host>>
  BY <1>24 DEF MeshInv, ReadyInv
<1> QED
  BY ZenonT(60), ScopesAssumption, <1>1, <1>2, <1>3, <1>4, <1>5, <1>6, <1>7, <1>8, <1>9, <1>10,
   <1>11, <1>12, <1>13, <1>14, <1>15, <1>16, <1>17, <1>18, <1>19, <1>20, <1>21, <1>22, <1>23,
   <1>24 DEF Next, AdministratorStep, WorkerStep, HostStep, HostFault, Controls, vars, MeshInv,
   TypeOK, RequestDelete, RetryJob, JobLeaseLapses, ReloadIssuers, Claim, StepFenced,
   FinishStep, StepAborted, ArchiveRoot, Crashed, CreateDone, CreateCommit, CreatePublish,
   DeleteUnsigned, DeleteWaits, DeleteRows, DeleteBundle, WorkerRestart, Publish, StepFails,
   WorkerCrash, LeaseLapses, CreateDrain, CreateResume, RetryTask, TaskExpires, GraceElapses

-----------------------------------------------------------------------------
(* The invariant holds from the start on.                                  *)

\* An instance starts in the invariant, before the request or with the Mesh
\* served by some hosts.
LEMMA MeshInitially == Init => MeshInv
<1> SUFFICES ASSUME Init PROVE MeshInv
  OBVIOUS
<1>1. /\ scope.workers \subseteq Workers /\ scope.hosts \subseteq Hosts
      /\ scope.serving \subseteq Hosts /\ scope.default \in Hosts
      /\ scope.faults \in Nat /\ scope.drains \in Nat /\ scope \in Scopes
  BY ScopesAssumption DEF Init
<1>2. /\ faults \in Nat /\ drains \in Nat /\ default \in Hosts
      /\ maintenance = [h \in Hosts |-> "active"] /\ task = [h \in Hosts |-> NoTask]
  BY <1>1 DEF Init
<1>3. NoTask \in Task BY DEF NoTask, Task
<1>4. /\ worker \in [Workers -> WorkerState]
      /\ \A w \in Workers : worker[w].pc = "idle" /\ worker[w].root = 0
  <2>1. IdleWorker \in WorkerState BY DEF IdleWorker, WorkerState
  <2>2. \A b \in BOOLEAN : /\ [IdleWorker EXCEPT !.up = b] \in WorkerState
                           /\ [IdleWorker EXCEPT !.up = b].pc = "idle"
                           /\ [IdleWorker EXCEPT !.up = b].root = 0
    BY <2>1 DEF IdleWorker, WorkerState
  <2>3. \A w \in Workers : (w \in scope.workers) \in BOOLEAN OBVIOUS
  <2>4. worker = [w \in Workers |-> [IdleWorker EXCEPT !.up = w \in scope.workers]] BY DEF Init
  <2> QED BY <2>2, <2>3, <2>4
<1>5. NoSnapshot \in Snapshot BY RelayHostsAssumption DEF NoSnapshot, Snapshot
<1>6. StoppedHost \in HostProcess BY <1>5 DEF StoppedHost, HostProcess
<1>7. Unassigned \in AssignmentRow BY RelayHostsAssumption DEF Unassigned, AssignmentRow
<1>8. CASE Requested
  <2>1. /\ mesh \in MeshRow /\ mesh.life = "none" /\ mesh.tomb = "none" /\ mesh.authority = 0
        /\ mesh.tombRoot = 0
    BY <1>8 DEF Requested, NoMesh, MeshRow
  <2>2. files \in KeyFiles /\ files.bundle = 0 /\ files.recovery = 0
    BY <1>8 DEF Requested, KeyFiles
  <2>3. job \in [Operations -> JobRow] BY <1>8, JobShapes DEF Requested
  <2>4. /\ job["create"] = NoJob /\ job["delete"] = NoJob BY <1>8 DEF Requested, Operations
  <2>5. /\ assignment = [h \in Hosts |-> Unassigned] /\ host = [h \in Hosts |-> StoppedHost]
        /\ assignment \in [Hosts -> AssignmentRow] /\ host \in [Hosts -> HostProcess]
    BY <1>6, <1>7, <1>8 DEF Requested
  <2>6. /\ registry = [w \in Workers |-> 0] /\ directory \in [Hosts -> 0..MaxCred]
        /\ lease \in [Hosts -> BOOLEAN]
    BY <1>8, RelayHostsAssumption DEF Requested
  <2>7. TypeOK
    BY <1>1, <1>2, <1>3, <1>4, <2>1, <2>2, <2>3, <2>5, <2>6 DEF TypeOK, LifecycleTypeOK,
       HostTypeOK, Unassigned
  <2>8. LifeInv BY <1>4, <2>1, <2>4, FailureLimitAssumption DEF LifeInv, NoJob, Operations
  <2>9. RootInv BY <1>4, <2>1, <2>2, <2>5, <2>6 DEF RootInv, StoppedHost, NoSnapshot
  <2>10. SnapInv BY <2>5 DEF SnapInv, Assigned, Unassigned, StoppedHost, NoSnapshot
  <2>11. KeyInv BY <2>1, <2>5 DEF KeyInv, Unassigned, StoppedHost, NoSnapshot
  <2>12. SuspendInv /\ ReadyInv
    BY <2>5 DEF SuspendInv, ReadyInv, Unassigned, StoppedHost
  <2>13. TaskInv BY <1>2, <2>1 DEF TaskInv, NoTask
  <2> QED BY <2>7, <2>8, <2>9, <2>10, <2>11, <2>12, <2>13 DEF MeshInv
<1>9. CASE ServedBy(scope.serving)
  <2> DEFINE a == [NewAssignment EXCEPT !.applied = 1, !.state = "ready", !.cred = 1]
             p == [StoppedHost EXCEPT !.run = 1, !.accepting = TRUE, !.key = TRUE, !.root = 1]
  <2>0. 1 \in Roots /\ 1 \in 0..MaxCred BY RelayHostsAssumption DEF Roots
  <2>1. /\ mesh \in MeshRow /\ mesh.life = "active" /\ mesh.tomb = "none" /\ mesh.authority = 1
        /\ mesh.tombRoot = 0
    BY <1>9, <2>0 DEF ServedBy, NoMesh, MeshRow
  <2>2. files \in KeyFiles /\ files.bundle = 1 /\ files.recovery = 1
    BY <1>9, RelayHostsAssumption DEF ServedBy, KeyFiles, Roots
  <2>3. [NoJob EXCEPT !.status = "succeeded"] \in JobRow BY JobShapes DEF JobRow
  <2>4. job \in [Operations -> JobRow] BY <1>9, <2>3, JobShapes DEF ServedBy, Operations
  <2>5. /\ job["create"].status = "succeeded" /\ job["create"].failures = 0
        /\ job["delete"] = NoJob
    BY <1>9 DEF ServedBy, NoJob
  <2>6. /\ assignment = [h \in Hosts |-> IF h \in scope.serving THEN a ELSE Unassigned]
        /\ host = [h \in Hosts |-> IF h \in scope.serving THEN p ELSE StoppedHost]
    BY <1>9 DEF ServedBy
  <2>7. /\ registry = [w \in Workers |-> 1] /\ directory \in [Hosts -> 0..MaxCred]
        /\ lease \in [Hosts -> BOOLEAN] /\ registry \in [Workers -> Roots \cup {0}]
    BY <1>9, RelayHostsAssumption DEF ServedBy, Roots
  <2>8. a \in AssignmentRow
    <3>1. NewAssignment \in AssignmentRow
      BY RelayHostsAssumption DEF NewAssignment, AssignmentRow, Desired, States
    <3> QED BY <2>0, <3>1 DEF AssignmentRow, States
  <2>9. p \in HostProcess BY <1>6, <2>0 DEF HostProcess
  <2>10. /\ a.desired = "active" /\ a.revision = 1 /\ a.applied = 1 /\ a.state = "ready"
         /\ p.run = 1 /\ p.pc = "idle" /\ p.snap = NoSnapshot /\ p.accepting /\ p.root = 1
         /\ p.reply = "none" /\ ~p.terminal
    BY DEF NewAssignment, StoppedHost
  <2> HIDE DEF a, p
  <2>11. /\ assignment \in [Hosts -> AssignmentRow] /\ host \in [Hosts -> HostProcess]
    BY <1>6, <1>7, <2>6, <2>8, <2>9
  <2>12. \A h \in Hosts : assignment[h].applied <= assignment[h].revision
    BY <2>6, <2>10 DEF Unassigned
  <2>13. TypeOK
    BY <1>1, <1>2, <1>3, <1>4, <2>1, <2>2, <2>4, <2>7, <2>11, <2>12 DEF TypeOK,
       LifecycleTypeOK, HostTypeOK
  <2>14. LifeInv BY <1>4, <2>1, <2>5, FailureLimitAssumption DEF LifeInv, NoJob, Operations
  <2>15. RootInv BY <1>4, <2>1, <2>2, <2>6, <2>7, <2>10 DEF RootInv, StoppedHost, NoSnapshot
  <2>16. SnapInv BY <2>1, <2>6, <2>10 DEF SnapInv, Assigned, Unassigned, StoppedHost, NoSnapshot
  <2>17. KeyInv BY <2>1, <2>6, <2>10 DEF KeyInv, Unassigned, StoppedHost, NoSnapshot
  <2>18. SuspendInv BY <2>6, <2>10 DEF SuspendInv, Unassigned, StoppedHost
  <2>19. ReadyInv BY <2>6, <2>10 DEF ReadyInv, Unassigned, StoppedHost
  <2>20. TaskInv BY <1>2, <2>1 DEF TaskInv, NoTask
  <2> QED BY <2>13, <2>14, <2>15, <2>16, <2>17, <2>18, <2>19, <2>20 DEF MeshInv
<1> QED BY <1>8, <1>9 DEF Init

\* What a Mesh, its hosts and its tasks may be together, for any number of
\* hosts, Control processes, failures and drains.
THEOREM MeshInvariant == Spec => []MeshInv
<1>1. MeshInv /\ [Next]_vars => MeshInv'
  BY TypeStep, LifeStep, RootStep, SnapStep, KeyStep, SuspendStep, TaskStep,
     ReadyStep DEF MeshInv
<1> QED BY MeshInitially, <1>1, PTL DEF Spec

\* One root per Mesh: whatever step is repeated by whichever process after a
\* crash, the Authority, the termination and every host's pinned trust are of
\* the archived root (dynamic_mesh.rs writes the archive first).
THEOREM RootsAreRecoverable == Spec => []RecoveryMatchesRoot
<1>1. MeshInv => RecoveryMatchesRoot BY DEF MeshInv, RootInv, RecoveryMatchesRoot
<1> QED BY MeshInvariant, <1>1, PTL

\* A completed drain rests on an acknowledgement of the suspending revision, and
\* the host runs nothing of a Mesh in service for as long as it is suspended.
THEOREM SuspendedAreIdle == Spec => []SuspendedHostIsIdle
<1>1. MeshInv => SuspendedHostIsIdle
  BY DEF MeshInv, TaskInv, SuspendInv, SnapInv, SuspendedHostIsIdle
<1> QED BY MeshInvariant, <1>1, PTL

-----------------------------------------------------------------------------
(* What a step may not do.                                                 *)

\* Only a deletion's own job changes once the deletion is accepted.
LEMMA CreationIsOver ==
    ASSUME MeshInv, [Next]_vars, mesh.life = "deleting"
    PROVE  job'["create"].status = job["create"].status
<1> DEFINE Same == job'["create"].status = job["create"].status
<1>1. job \in [Operations -> JobRow] BY DEF MeshInv, TypeOK, LifecycleTypeOK
<1>2. job["create"].status \in {"succeeded", "failed"} BY DEF MeshInv, LifeInv
<1>3. "create" \in Operations BY DEF Operations
<1>4. ASSUME NEW op \in Operations, RetryJob(op) PROVE Same
  BY <1>1, <1>4 DEF RetryJob
<1>5. ASSUME NEW op \in Operations, JobLeaseLapses(op)
      PROVE  Same
  BY <1>1, <1>3, <1>5 DEF JobLeaseLapses
<1>6. ASSUME NEW w \in Workers, NEW op \in Operations, Claim(w, op)
      PROVE  Same
  BY <1>1, <1>2, <1>6 DEF Claim, Claimable
<1>7. ASSUME NEW w \in Workers, NEW op \in Operations, FinishStep(w, op)
      PROVE  Same
  BY <1>1, <1>2, <1>7 DEF FinishStep, Current
<1>8. ASSUME NEW w \in Workers, Crashed(w) PROVE Same
  BY <1>1, <1>3, <1>8 DEF Crashed
<1>9. ASSUME NEW w \in Workers, NEW op \in Operations, StepAborted(w, op)
      PROVE  Same
  BY <1>8, <1>9 DEF StepAborted
<1>10. ASSUME NEW w \in Workers, WorkerCrash(w)
       PROVE  Same
  BY <1>8, <1>10 DEF WorkerCrash
<1>11. ASSUME RequestCreate(Admissible) \/ RequestDelete PROVE Same
  BY <1>11 DEF RequestCreate, RequestDelete, Live
<1>12. ASSUME UNCHANGED job PROVE Same BY <1>12
<1>13. ASSUME NEW w \in Workers,
              \/ ReloadIssuers(w) \/ CreateDone(w) \/ CreateCommit(w) \/ CreatePublish(w)
              \/ DeleteCommit(w) \/ DeleteUnsigned(w) \/ DeleteWaits(w) \/ DeleteRows(w)
              \/ DeleteBundle(w) \/ WorkerRestart(w) \/ Publish(w) \/ StepFails(w)
              \/ \E op \in Operations : StepFenced(w, op)
              \/ \E h \in Hosts : RenewCredential(w, h)
       PROVE  UNCHANGED job
  BY <1>13 DEF ReloadIssuers, CreateDone, CreateCommit, CreatePublish, DeleteCommit,
     DeleteUnsigned, DeleteWaits, DeleteRows, DeleteBundle, WorkerRestart, Publish, StepFails,
     StepFenced, RenewCredential
<1>14. ASSUME NEW h \in Hosts, NEW fresh,
              \/ CreateResume(h, fresh) \/ AdvanceDrain(h, fresh) \/ AdvanceResume(h, fresh)
              \/ \E r \in Hosts : CreateDrain(h, r, fresh)
       PROVE  UNCHANGED job
  BY <1>14 DEF CreateDrain, CreateResume, AdvanceDrain, AdvanceResume
<1>15. ASSUME NEW h \in Hosts,
              \/ AssignHost(h, Admissible) \/ RetryTask(h) \/ TaskExpires(h) \/ GraceElapses(h)
       PROVE  UNCHANGED job
  BY <1>15 DEF AssignHost, RetryTask, TaskExpires, GraceElapses
<1>16. scope.workers \subseteq Workers /\ scope.hosts \subseteq Hosts
  BY ScopesAssumption DEF MeshInv, TypeOK
<1> HIDE DEF Same
<1>17. ASSUME AdministratorStep PROVE Same
  BY <1>4, <1>11, <1>12, <1>15, <1>16, <1>17 DEF AdministratorStep
<1>18. ASSUME NEW w \in scope.workers,
              \/ WorkerStep(w) \/ Publish(w) \/ StepFails(w) \/ WorkerCrash(w)
              \/ \E op \in Operations : StepAborted(w, op)
              \/ \E h \in scope.hosts : RenewCredential(w, h)
       PROVE  Same
  BY <1>6, <1>7, <1>9, <1>10, <1>12, <1>13, <1>16, <1>18 DEF WorkerStep
<1>19. Same
  BY <1>5, <1>12, <1>14, <1>15, <1>16, <1>17, <1>18 DEF Next, vars
<1> QED BY <1>19 DEF Same

\* "A replaced worker cannot ... revive a cancelled create operation"
\* (store/mesh_lifecycle.rs): not by any interleaving of two processes, a
\* lapsed lease, a retry or a crash.
THEOREM CreationStaysCancelled == Spec => CancelledStaysCancelled
<1>1. MeshInv /\ [Next]_vars =>
        [mesh.life = "deleting" => job'["create"].status = job["create"].status]_vars
  BY SMTT(60), CreationIsOver
<1> QED BY MeshInvariant, <1>1, PTL DEF Spec, CancelledStaysCancelled

\* Only a drain suspends, onto the replacement it has just looked at.
LEMMA SuspensionIsADrain ==
    ASSUME MeshInv, [Next]_vars, NEW h \in Hosts,
           assignment[h].desired # "suspended", assignment'[h].desired = "suspended"
    PROVE  \E fresh : DrainChanges(h, fresh) /\ Turned(h, "suspended") /\ Replaced(h, fresh)
<1>1. assignment \in [Hosts -> AssignmentRow] /\ task \in [Hosts -> Task]
  BY DEF MeshInv, TypeOK, LifecycleTypeOK, HostTypeOK
<1>2. ~RequestCreate(Admissible)
  BY <1>1 DEF RequestCreate, NewAssignment, MeshInv
<1>3. \A i \in Hosts : ~AssignHost(i, Admissible)
  BY <1>1 DEF AssignHost, NewAssignment
<1>4. \A w \in Workers, i \in Hosts : ~RenewCredential(w, i)
  <2> SUFFICES ASSUME NEW w \in Workers, NEW i \in Hosts, RenewCredential(w, i) PROVE FALSE
    OBVIOUS
  <2>1. assignment'[i].desired = "active" /\ \A j \in Hosts \ {i} : assignment'[j] = assignment[j]
    BY <1>1 DEF RenewCredential, Redirected
  <2> QED BY <2>1
<1>5. \A w \in Workers : ~DeleteCommit(w)
  <2> SUFFICES ASSUME NEW w \in Workers, DeleteCommit(w) PROVE FALSE
    OBVIOUS
  <2> QED BY CommitEffect DEF RemovalDirected
<1>6. \A w \in Workers, i \in Hosts : ~RegisterKey(i, w)
  <2> SUFFICES ASSUME NEW w \in Workers, NEW i \in Hosts, RegisterKey(i, w) PROVE FALSE
    OBVIOUS
  <2>1. UNCHANGED assignment \/ assignment' = [assignment EXCEPT ![i].cred = 1]
    BY DEF RegisterKey
  <2> QED BY <1>1, <2>1 DEF AssignmentRow
<1>7. \A a \in AssignmentRow : \A n, r : Recorded(a, n, r).desired = a.desired
  BY DEF Recorded
<1>8. \A i \in Hosts : ~Acknowledge(i)
  BY <1>1, <1>7 DEF Acknowledge
<1>9. \A i \in Hosts : ~AcknowledgementLost(i)
  <2> SUFFICES ASSUME NEW i \in Hosts, AcknowledgementLost(i) PROVE FALSE
    OBVIOUS
  <2> DEFINE b == Recorded(assignment[i], Snap(i).revision, host[i].reply)
  <2>1. PICK a : /\ a \in {assignment[i], b}
                 /\ assignment' = [assignment EXCEPT ![i] = Recorded(a, Snap(i).revision, "failed")]
    BY DEF AcknowledgementLost
  <2>2. b \in AssignmentRow /\ b.desired = assignment[i].desired
    <3>1. Row(assignment[i]) BY <1>1 DEF Row, MeshInv, TypeOK, LifecycleTypeOK, HostTypeOK
    <3>2. host[i].reply \in States \cup {"none"} /\ Snap(i).revision \in Nat
      BY DEF HostProcess, Snapshot, Snap, MeshInv, TypeOK, LifecycleTypeOK, HostTypeOK
    <3>3. Row(b) BY <3>1, <3>2, RowShapes
    <3> QED BY <1>1, <1>7, <3>3 DEF Row
  <2> HIDE DEF b
  <2> QED BY <1>1, <1>7, <2>1, <2>2
<1>10. \A i \in Hosts : \A fresh : ~AdvanceResume(i, fresh)
  <2> SUFFICES ASSUME NEW i \in Hosts, NEW fresh, AdvanceResume(i, fresh) PROVE FALSE
    OBVIOUS
  <2>1. UNCHANGED assignment \/ Turned(i, "active") BY <1>1, ResumeEffect DEF ResumeChanges
  <2>2. CASE Turned(i, "active")
    <3>1. assignment'[i].desired = "active" BY <1>1, <2>2 DEF Turned, Redirected
    <3>2. \A j \in Hosts \ {i} : assignment'[j] = assignment[j] BY <1>1, <2>2 DEF Turned
    <3> QED BY <3>1, <3>2
  <2> QED BY <2>1, <2>2
<1>11. ASSUME NEW i \in Hosts, NEW fresh, AdvanceDrain(i, fresh)
       PROVE  i = h /\ DrainChanges(h, fresh) /\ Turned(h, "suspended") /\ Replaced(h, fresh)
  <2>1. DrainChanges(i, fresh) BY <1>1, <1>11, DrainEffect
  <2>2. ASSUME NEW d \in {"draining", "suspended"}, Turned(i, d) PROVE i = h /\ d = "suspended"
    BY <1>1, <2>2 DEF Turned, Redirected
  <2> QED BY <2>1, <2>2 DEF DrainChanges
<1>12. CASE UNCHANGED assignment BY <1>12
<1> QED BY ZenonT(60), ScopesAssumption, <1>2, <1>3, <1>4, <1>5, <1>6, <1>8, <1>9, <1>10, <1>11,
   <1>12 DEF Next, AdministratorStep, WorkerStep, HostStep, HostFault, Controls, vars, MeshInv,
   TypeOK, RequestDelete, RetryJob, JobLeaseLapses, ReloadIssuers, Claim, StepFenced,
   FinishStep, StepAborted, ArchiveRoot, Crashed, CreateDone, CreateCommit, CreatePublish,
   DeleteUnsigned, DeleteWaits, DeleteRows, DeleteBundle, WorkerRestart, Publish, StepFails,
   WorkerCrash, Fetch, ApplySuspended, StopRuntime, ApplyTermination, EraseKey,
   RefuseTermination, KeepDraining, KeepActive, GenerateKey, StartRuntime, StartRefused,
   ServiceForbidden, HostRestart, RuntimeFails, HostCrash, LeaseLapses, CreateDrain,
   CreateResume, RetryTask, TaskExpires, GraceElapses

\* A drain never takes the last Relay: a replacement that acknowledged the
\* current revision admits peers, unless its runtime has died since and its
\* lease still tells otherwise (maintenance_worker.rs, replacement_ready).
THEOREM DrainsOntoServing == Spec => SuspendsOntoServing
<1>1. ASSUME MeshInv, [Next]_vars, NEW h \in Hosts,
             assignment[h].desired # "suspended", assignment'[h].desired = "suspended"
      PROVE  \E r \in Hosts \ {h} : host[r].accepting \/ (lease[r] /\ host[r].run = 0)
  <2>1. PICK fresh : DrainChanges(h, fresh) /\ Turned(h, "suspended") /\ Replaced(h, fresh)
    BY <1>1, SuspensionIsADrain
  <2>2. task[h].replacement \in Hosts \ {h}
    BY <1>1, <2>1 DEF DrainChanges, MeshInv, TaskInv
  <2>3. /\ lease[task[h].replacement] /\ assignment[task[h].replacement].state = "ready"
    BY <2>1 DEF Turned, Replaced, ReplacementReady
  <2> QED BY <1>1, <2>2, <2>3 DEF MeshInv, ReadyInv
<1>2. MeshInv /\ [Next]_vars =>
        [\A h \in Hosts :
           assignment[h].desired # "suspended" /\ assignment'[h].desired = "suspended"
             => \E r \in Hosts \ {h} : host[r].accepting \/ (lease[r] /\ host[r].run = 0)]_vars
  BY <1>1
<1> QED BY MeshInvariant, <1>2, PTL DEF Spec, SuspendsOntoServing

-----------------------------------------------------------------------------
(* The whole keeps its promise.                                            *)

\* The phase of MeshPromise is read off the Mesh row and its tombstone.
LEMMA PhaseIs ==
    ASSUME NEW m \in MeshRow
    PROVE  /\ m.tomb = "cleaned" => PhaseOf(m) = "gone"
           /\ m.tomb = "signed" => PhaseOf(m) = "terminated"
           /\ m.tomb = "none" /\ m.life = "none" => PhaseOf(m) = "absent"
           /\ m.tomb = "none" /\ m.life = "creating" => PhaseOf(m) = "requested"
           /\ m.tomb = "none" /\ m.life = "active" => PhaseOf(m) = "serving"
           /\ m.tomb = "none" /\ m.life = "deleting" => PhaseOf(m) = "ending"
BY DEF PhaseOf

\* Most steps are of no concern to who was promised something.
LEMMA Stutters ==
    ASSUME mesh'.life = mesh.life, mesh'.tomb = mesh.tomb,
           \A i \in Hosts : host'[i].key = host[i].key
    PROVE  PhaseOf(mesh)' = PhaseOf(mesh) /\ KeyHolders' = KeyHolders
BY DEF PhaseOf, KeyHolders

Kept == Promise!Next \/ UNCHANGED Promise!vars

\* Every step of the system is a step of the promise or none.
LEMMA PromiseStep ==
    ASSUME MeshInv, [Next]_vars
    PROVE  Kept
<1>1. mesh \in MeshRow /\ host \in [Hosts -> HostProcess]
  BY DEF MeshInv, TypeOK, LifecycleTypeOK, HostTypeOK
<1>2. mesh' \in MeshRow BY TypeStep DEF TypeOK, LifecycleTypeOK
<1>3. LifeInv /\ SnapInv /\ KeyInv BY DEF MeshInv
<1>4. ASSUME mesh'.life = mesh.life, mesh'.tomb = mesh.tomb,
             \A i \in Hosts : host'[i].key = host[i].key
      PROVE  Kept
  BY <1>4, Stutters DEF Kept, Promise!vars
<1>5. ASSUME UNCHANGED host PROVE KeyHolders' = KeyHolders
  BY <1>5 DEF KeyHolders
<1>6. ASSUME RequestCreate(Admissible) PROVE Kept
  <2>1. /\ mesh.life = "none" /\ mesh.tomb = "none" /\ mesh'.life = "creating"
        /\ mesh'.tomb = "none" /\ UNCHANGED host
    BY <1>1, <1>6 DEF RequestCreate
  <2>2. Promise!Request
    BY <1>1, <1>2, <1>5, <2>1, PhaseIs DEF Promise!Request, Promise!Move
  <2> QED BY <2>2 DEF Kept, Promise!Next
<1>7. ASSUME RequestDelete PROVE Kept
  <2>1. /\ mesh.life \in Live /\ mesh'.life = "deleting" /\ mesh'.tomb = mesh.tomb
        /\ UNCHANGED host
    BY <1>1, <1>7 DEF RequestDelete
  <2>2. mesh.tomb = "none" BY <1>1, <1>3, <2>1 DEF LifeInv, Live, MeshRow
  <2>3. Promise!End
    BY <1>1, <1>2, <1>5, <2>1, <2>2, PhaseIs DEF Promise!End, Promise!Move, Live
  <2> QED BY <2>3 DEF Kept, Promise!Next
<1>8. ASSUME NEW w \in Workers, CreateCommit(w) PROVE Kept
  <2>1. /\ mesh.life = "creating" /\ mesh'.life \in {"creating", "active"}
        /\ mesh'.tomb = mesh.tomb /\ UNCHANGED host
    BY <1>1, <1>8 DEF CreateCommit
  <2>2. mesh.tomb = "none" BY <1>1, <1>3, <2>1 DEF LifeInv, MeshRow
  <2>3. CASE mesh'.life = "creating" BY <1>4, <2>1, <2>3
  <2>4. CASE mesh'.life = "active"
    <3>1. Promise!Serve
      BY <1>1, <1>2, <1>5, <2>1, <2>2, <2>4, PhaseIs DEF Promise!Serve, Promise!Move
    <3> QED BY <3>1 DEF Kept, Promise!Next
  <2> QED BY <2>1, <2>3, <2>4
<1>9. ASSUME NEW w \in Workers, DeleteCommit(w) PROVE Kept
  <2>1. RemovalDirected /\ UNCHANGED host BY <1>9, CommitEffect DEF DeleteCommit
  <2>2. mesh.life = "deleting"
    BY <1>3, <1>9, <2>1 DEF DeleteCommit, Current, RemovalDirected, LifeInv
  <2>3. Promise!Terminate
    BY <1>1, <1>2, <1>5, <2>1, <2>2, PhaseIs DEF Promise!Terminate, Promise!Move,
       RemovalDirected
  <2> QED BY <2>3 DEF Kept, Promise!Next
<1>10. ASSUME NEW w \in Workers, DeleteRows(w) PROVE Kept
  <2>1. mesh.tomb = "signed" /\ mesh'.tomb = "cleaned" /\ UNCHANGED host
    BY <1>1, <1>10 DEF DeleteRows
  <2>2. \A i \in Hosts : ~host[i].key
    BY <1>3, <1>10 DEF DeleteRows, WaitingForRelay, SnapInv, KeyInv
  <2>3. Promise!Disappear
    BY <1>1, <1>2, <1>5, <2>1, <2>2, PhaseIs DEF Promise!Disappear, Promise!Move, KeyHolders
  <2> QED BY <2>3 DEF Kept, Promise!Next
<1>11. ASSUME NEW h \in Hosts, GenerateKey(h) PROVE Kept
  <2>1. /\ UNCHANGED mesh /\ ~host[h].key /\ ~host[h].terminal /\ host[h].pc = "apply"
        /\ host' = [host EXCEPT ![h].key = TRUE]
    BY <1>11 DEF GenerateKey, MustBuild, Serving, Applying
  <2>2. KeyHolders' = KeyHolders \cup {h} /\ h \notin KeyHolders
    BY <1>1, <2>1 DEF KeyHolders
  <2>3. mesh.tomb # "cleaned" /\ (mesh.life # "none" \/ mesh.tomb # "none")
    BY <1>3, <2>1 DEF SnapInv, KeyInv
  <2>4. PhaseOf(mesh) \in Promise!Phases \ {"absent", "gone"}
    BY <1>1, <2>3, PhaseIs DEF Promise!Phases, MeshRow
  <2>5. Promise!Obtain(h) BY <2>1, <2>2, <2>4 DEF Promise!Obtain
  <2> QED BY <2>5 DEF Kept, Promise!Next
<1>12. ASSUME NEW h \in Hosts, EraseKey(h) PROVE Kept
  <2>1. /\ UNCHANGED mesh /\ host[h].pc = "erase"
        /\ host' = [host EXCEPT ![h] = [Answering(@, "removed") EXCEPT !.key = FALSE]]
    BY <1>12 DEF EraseKey
  <2>2. ~host'[h].key /\ \A i \in Hosts \ {h} : host'[i] = host[i]
    BY <1>1, <2>1
  <2>3. CASE ~host[h].key
    <3>1. host'[h].key = host[h].key BY <1>1, <2>1, <2>3 DEF Answering, HostProcess
    <3> QED BY <1>4, <2>1, <2>2, <3>1
  <2>4. CASE host[h].key
    <3>1. mesh.tomb = "signed" BY <1>1, <1>3, <2>1, <2>4 DEF KeyInv, MeshRow
    <3>2. KeyHolders' = KeyHolders \ {h} /\ h \in KeyHolders BY <2>2, <2>4 DEF KeyHolders
    <3>3. Promise!GiveUp(h) BY <1>1, <2>1, <3>1, <3>2, PhaseIs DEF Promise!GiveUp
    <3> QED BY <3>3 DEF Kept, Promise!Next
  <2> QED BY <2>3, <2>4
<1>13. ASSUME NEW w \in Workers,
              Publish(w) \/ CreatePublish(w) \/ \E h \in Hosts : RenewCredential(w, h)
       PROVE  mesh'.life = mesh.life /\ mesh'.tomb = mesh.tomb /\ UNCHANGED host
  BY <1>1, <1>13 DEF Publish, CreatePublish, RenewCredential, MeshRow
<1>14. ASSUME NEW h \in Hosts, NEW fresh, AdvanceDrain(h, fresh) \/ AdvanceResume(h, fresh)
       PROVE  mesh'.life = mesh.life /\ mesh'.tomb = mesh.tomb /\ UNCHANGED host
  <2>1. task \in [Hosts -> Task] BY DEF MeshInv, TypeOK
  <2>2. UNCHANGED host /\ (UNCHANGED mesh \/ mesh' = [mesh EXCEPT !.dirty = TRUE])
    BY <1>14, <2>1, DrainEffect, ResumeEffect DEF DrainChanges, ResumeChanges, Turned
  <2> QED BY <1>1, <2>2 DEF MeshRow
<1>15. ASSUME NEW h \in Hosts, NEW w \in Workers, RegisterKey(h, w)
       PROVE  /\ mesh'.life = mesh.life /\ mesh'.tomb = mesh.tomb
              /\ \A i \in Hosts : host'[i].key = host[i].key
  <2>1. /\ UNCHANGED mesh \/ mesh' = [mesh EXCEPT !.dirty = TRUE]
        /\ \/ host' = [host EXCEPT ![h] = Idling(host[h])]
           \/ host' = [host EXCEPT ![h] = Answering(host[h], "failed")]
    BY <1>15 DEF RegisterKey
  <2>2. mesh'.life = mesh.life /\ mesh'.tomb = mesh.tomb BY <1>1, <2>1 DEF MeshRow
  <2>3. CASE host' = [host EXCEPT ![h] = Idling(host[h])]
    BY <1>1, <2>2, <2>3 DEF Idling
  <2>4. CASE host' = [host EXCEPT ![h] = Answering(host[h], "failed")]
    BY <1>1, <2>2, <2>4 DEF Answering
  <2> QED BY <2>1, <2>3, <2>4
<1>16. ASSUME NEW h \in Hosts,
              \/ \E w \in Workers : Fetch(h, w)
              \/ ApplySuspended(h) \/ ApplyTermination(h) \/ RefuseTermination(h)
              \/ KeepDraining(h) \/ KeepActive(h) \/ StartRuntime(h) \/ StartRefused(h)
              \/ ServiceForbidden(h) \/ Acknowledge(h) \/ HostRestart(h)
              \/ AcknowledgementLost(h) \/ RuntimeFails(h) \/ HostCrash(h)
       PROVE  UNCHANGED mesh /\ \A i \in Hosts : host'[i].key = host[i].key
  <2>1. CASE \E w \in Workers : Fetch(h, w) BY <1>1, <2>1 DEF Fetch
  <2>2. CASE ApplySuspended(h) BY <1>1, <2>2 DEF ApplySuspended, StopRuntime, Answering
  <2>3. CASE ApplyTermination(h) BY <1>1, <2>3 DEF ApplyTermination
  <2>4. CASE RefuseTermination(h) BY <1>1, <2>4 DEF RefuseTermination, Idling
  <2>5. CASE KeepDraining(h) BY <1>1, <2>5 DEF KeepDraining, Answering
  <2>6. CASE KeepActive(h) BY <1>1, <2>6 DEF KeepActive, Answering
  <2>7. CASE StartRuntime(h) BY <1>1, <2>7 DEF StartRuntime, Answering
  <2>8. CASE StartRefused(h)
    <3>1. CASE host' = [host EXCEPT ![h] = Answering(host[h], "failed")]
      <4>1. \A i \in Hosts : host'[i].key = host[i].key
        BY <1>1, <3>1 DEF Answering
      <4> QED BY <2>8, <4>1 DEF StartRefused
    <3>2. CASE host' = [host EXCEPT ![h] = [Answering(host[h], "failed") EXCEPT
                          !.run = 0, !.accepting = FALSE, !.root = Snap(h).root]]
      <4>1. \A i \in Hosts : host'[i].key = host[i].key
        BY <1>1, <3>2 DEF Answering
      <4> QED BY <2>8, <4>1 DEF StartRefused
    <3> QED BY <2>8, <3>1, <3>2 DEF StartRefused
  <2>9. CASE ServiceForbidden(h) BY <1>1, <2>9 DEF ServiceForbidden, Answering
  <2>10. CASE Acknowledge(h) BY <1>1, <2>10 DEF Acknowledge, Idling
  <2>11. CASE HostRestart(h) BY <1>1, <2>11 DEF HostRestart
  <2>12. CASE AcknowledgementLost(h) BY <1>1, <2>12 DEF AcknowledgementLost, Idling
  <2>13. CASE RuntimeFails(h) BY <1>1, <2>13 DEF RuntimeFails
  <2>14. CASE HostCrash(h) BY <1>1, <2>14 DEF HostCrash
  <2> QED BY <1>16, <2>1, <2>2, <2>3, <2>4, <2>5, <2>6, <2>7, <2>8, <2>9, <2>10, <2>11, <2>12,
     <2>13, <2>14
<1>17. ASSUME UNCHANGED <<mesh, host>> PROVE Kept BY <1>4, <1>17
<1>18. scope.workers \subseteq Workers /\ scope.hosts \subseteq Hosts /\ Controls \subseteq Workers
  BY ScopesAssumption DEF MeshInv, TypeOK, Controls
<1>19. ASSUME AdministratorStep PROVE Kept
  BY ZenonT(60), <1>6, <1>7, <1>17, <1>19 DEF AdministratorStep, RetryJob, AssignHost
<1>20. ASSUME NEW w \in Workers, WorkerStep(w) PROVE Kept
  BY <1>4, <1>8, <1>9, <1>10, <1>13, <1>17, <1>20 DEF WorkerStep, ReloadIssuers, Claim,
     StepFenced, FinishStep, CreateDone, DeleteUnsigned, DeleteWaits, DeleteBundle,
     WorkerRestart
<1>21. ASSUME NEW w \in Workers,
              \/ Publish(w) \/ StepFails(w) \/ WorkerCrash(w)
              \/ \E op \in Operations : StepAborted(w, op)
              \/ \E h \in Hosts : RenewCredential(w, h)
       PROVE  Kept
  BY <1>4, <1>13, <1>17, <1>21 DEF StepFails, WorkerCrash, StepAborted
<1>22. ASSUME NEW h \in Hosts, HostStep(h, Controls) \/ HostFault(h) \/ LeaseLapses(h)
       PROVE  Kept
  BY <1>4, <1>11, <1>12, <1>15, <1>16, <1>17, <1>18, <1>22 DEF HostStep, HostFault, LeaseLapses
<1>23. ASSUME NEW h \in Hosts, NEW fresh,
              \/ \E r \in Hosts : CreateDrain(h, r, fresh)
              \/ CreateResume(h, fresh) \/ AdvanceDrain(h, fresh) \/ AdvanceResume(h, fresh)
       PROVE  Kept
  BY <1>4, <1>14, <1>17, <1>23 DEF CreateDrain, CreateResume
<1>24. ASSUME NEW h \in Hosts, RetryTask(h) \/ TaskExpires(h) \/ GraceElapses(h) PROVE Kept
  BY <1>17, <1>24 DEF RetryTask, TaskExpires, GraceElapses
<1>25. ASSUME NEW op \in Operations, JobLeaseLapses(op) PROVE Kept
  BY <1>17, <1>25 DEF JobLeaseLapses
<1> QED BY <1>17, <1>18, <1>19, <1>20, <1>21, <1>22, <1>23, <1>24, <1>25 DEF Next, vars

\* The administrator's view (MeshPromise) is what hosts, Control processes and
\* tasks together implement: a Mesh ends for good, and is gone only once no host
\* holds a key of it, whatever fails on the way.
THEOREM MeshKeepsItsPromise == Spec => KeepsPromise
<1>1. Init => Promise!Init \/ Promise!InitServing
  <2>1. CASE Requested
    <3>1. mesh.tomb = "none" /\ mesh.life = "none" /\ mesh \in MeshRow
      BY <2>1 DEF Requested, NoMesh, MeshRow
    <3>2. KeyHolders = {} BY <2>1 DEF Requested, StoppedHost, KeyHolders
    <3> QED BY <3>1, <3>2, PhaseIs DEF Promise!Init
  <2>2. CASE ServedBy(scope.serving)
    <3>1. mesh.tomb = "none" /\ mesh.life = "active"
      BY <2>2 DEF ServedBy, NoMesh
    <3>2. KeyHolders \in SUBSET Hosts BY DEF KeyHolders
    <3> QED BY <3>1, <3>2 DEF Promise!InitServing, PhaseOf
  <2> QED BY <2>1, <2>2 DEF Init
<1>2. MeshInv /\ [Next]_vars => [Promise!Next]_(Promise!vars)
  BY PromiseStep DEF Kept
<1> QED BY MeshInvariant, <1>1, <1>2, PTL DEF Spec, KeepsPromise, Promise!Spec
=============================================================================
