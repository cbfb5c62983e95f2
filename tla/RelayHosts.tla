----------------------------- MODULE RelayHosts -----------------------------
(***************************************************************************)
(* One dynamic Mesh on the shared Relay hosts of an installation: the       *)
(* assignment rows Control keeps (relay_host_assignments), the endpoints a  *)
(* host calls (relay_host_api.rs), and the reconcile loop of a host         *)
(* (peerward-relay host.rs), which fetches its assignment, applies it to    *)
(* its own files and runtime, and acknowledges the revision it applied.     *)
(*                                                                          *)
(* A host is sequential: one assignment is fetched, applied and answered    *)
(* before the next fetch.  Everything it calls can change between two of    *)
(* its steps, and it can crash between any two of them; its key file, the   *)
(* pinned root and the termination record survive a crash.                  *)
(*                                                                          *)
(* Roots, keys and signatures are numbers: a signed record carries the      *)
(* number of the root it verifies under, 0 is "none".                       *)
(***************************************************************************)
EXTENDS Integers, FiniteSets

CONSTANTS
    Hosts,          \* registered Relay hosts
    Workers,        \* Control processes
    MaxCred,        \* bound: credentials issued to one Relay of the Mesh
    MaxRoots,       \* bound: root keys Control may generate
    NoOne           \* the absence of a host or worker

ASSUME RelayHostsAssumption ==
    /\ MaxCred \in Nat \ {0}
    /\ MaxRoots \in Nat \ {0}
    /\ NoOne \notin Hosts \cup Workers

VARIABLES
    mesh,           \* the Mesh row, its Authority and its tombstone
    registry,       \* per Control process: root of the issuer it has loaded, or 0
    assignment,     \* per host: its relay_host_assignments row
    directory,      \* per host: credential in the published Relay directory, or 0
    lease,          \* per host: its runtime lease in the database is live
    maintenance,    \* per host: relay_hosts.maintenance_state
    host,           \* per host: its process and its files
    faults          \* bound: failures the environment may still cause

Roots == 1..MaxRoots

hostVars == <<mesh, registry, assignment, directory, lease, maintenance,
              host, faults>>

(***************************************************************************)
(* An assignment row.  `state' is what the host last acknowledged and       *)
(* `applied' the revision it acknowledged; `cred' counts the credentials    *)
(* issued to the Relay, 0 before its public key is registered.              *)
(***************************************************************************)
Desired == {"active", "draining", "suspended", "removed"}
States == {"pending", "ready", "draining", "suspended", "failed", "removed"}

Unassigned == [desired |-> "none", revision |-> 0, applied |-> 0,
               state |-> "none", cred |-> 0]

NewAssignment == [desired |-> "active", revision |-> 1, applied |-> 0,
                  state |-> "pending", cred |-> 0]

Assigned(h) == assignment[h].desired # "none"

\* A change of the desired state starts a revision nobody has acknowledged.
Redirected(a, desired) ==
    [a EXCEPT !.desired = desired, !.revision = @ + 1, !.state = "pending"]

(***************************************************************************)
(* The publisher's Relay directory: every registered Relay of the Mesh with *)
(* its current credential, suspended ones left out.  mesh.dirty says that   *)
(* relay_revision is ahead of the directory that is published.              *)
(***************************************************************************)
\* Mutant: draining Relays are left out as well.
DirectoryWithoutDraining ==
    [h \in Hosts |-> IF assignment[h].desired \in {"none", "draining", "suspended"}
                     THEN 0 ELSE assignment[h].cred]

DirectoryNow ==
    [h \in Hosts |-> IF assignment[h].desired \in {"none", "suspended"}
                     THEN 0 ELSE assignment[h].cred]

(***************************************************************************)
(* A host process: `run' is the assignment revision of its runtime for the  *)
(* Mesh (0: none), `key', `root' and `terminal' are its files, `done' is    *)
(* the in-memory map of removals already acknowledged.                      *)
(***************************************************************************)
NoSnapshot == [desired |-> "none", revision |-> 0, cred |-> 0, root |-> 0]

StoppedHost == [up |-> TRUE, run |-> 0, accepting |-> FALSE, done |-> 0,
                pc |-> "idle", snap |-> NoSnapshot, reply |-> "none",
                key |-> FALSE, root |-> 0, terminal |-> FALSE]

Snap(h) == host[h].snap

Applying(h) == host[h].up /\ host[h].pc = "apply"

Live == {"creating", "active"}

\* registry of some running Control process knows the active Authority.
ActiveIssuer(w) == registry[w] # 0 /\ mesh.authority = registry[w]

(***************************************************************************)
(* The host asks a Control process for its assignment.  The answer carries  *)
(* the trust material only if that process has an issuer that verifies the  *)
(* credential, and the termination record once there is one.  A removal     *)
(* this process has already completed is skipped.                           *)
(***************************************************************************)
Fetch(h, w) ==
    /\ host[h].up /\ host[h].pc = "idle"
    /\ Assigned(h)
    /\ host[h].done < assignment[h].revision
    /\ host' = [host EXCEPT ![h] = [@ EXCEPT
         !.pc = "apply",
         !.snap = [desired  |-> assignment[h].desired,
                   revision |-> assignment[h].revision,
                   cred     |-> IF registry[w] # 0 THEN assignment[h].cred ELSE 0,
                   root     |-> IF assignment[h].desired = "removed"
                                THEN mesh.tombRoot ELSE registry[w]]]]
    /\ UNCHANGED <<mesh, registry, assignment, directory, lease,
                   maintenance, faults>>

\* The host is done with a snapshot.
Idling(p) == [p EXCEPT !.pc = "idle", !.snap = NoSnapshot, !.reply = "none"]

\* The host turns to the acknowledgement of what it has just applied.
Answering(p, reply) == [p EXCEPT !.pc = "ack", !.reply = reply]

\* A runtime that stops cancels its tasks and releases its lease row.
StopRuntime(h, reply) ==
    /\ host' = [host EXCEPT ![h] = [Answering(@, reply) EXCEPT !.run = 0, !.accepting = FALSE]]
    /\ lease' = [lease EXCEPT ![h] = IF host[h].run = 0 THEN @ ELSE FALSE]

ApplySuspended(h) ==
    /\ Applying(h) /\ Snap(h).desired = "suspended"
    /\ StopRuntime(h, "suspended")
    /\ UNCHANGED <<mesh, registry, assignment, directory, maintenance, faults>>

(***************************************************************************)
(* Removal: the termination must verify under the pinned root if there is   *)
(* one; then the record is stored, peers are told, the runtime is stopped,  *)
(* the private key erased and only then the removal acknowledged.           *)
(***************************************************************************)
ApplyTermination(h) ==
    /\ Applying(h) /\ Snap(h).desired = "removed"
    /\ host[h].root \in {0, Snap(h).root}
    /\ host' = [host EXCEPT ![h] = [@ EXCEPT !.terminal = TRUE, !.run = 0,
                                             !.accepting = FALSE, !.pc = "erase"]]
    /\ lease' = [lease EXCEPT ![h] = IF host[h].run = 0 THEN @ ELSE FALSE]
    /\ UNCHANGED <<mesh, registry, assignment, directory, maintenance, faults>>

EraseKey(h) ==
    /\ host[h].up /\ host[h].pc = "erase"
    /\ host' = [host EXCEPT ![h] = [Answering(@, "removed") EXCEPT !.key = FALSE]]
    /\ UNCHANGED <<mesh, registry, assignment, directory, lease,
                   maintenance, faults>>

\* A termination under another root is refused and not acknowledged.
RefuseTermination(h) ==
    /\ Applying(h) /\ Snap(h).desired = "removed"
    /\ host[h].root \notin {0, Snap(h).root}
    /\ host' = [host EXCEPT ![h] = Idling(@)]
    /\ UNCHANGED <<mesh, registry, assignment, directory, lease,
                   maintenance, faults>>

Serving(h) ==
    /\ Applying(h)
    /\ Snap(h).desired \in {"active", "draining"}
    /\ ~host[h].terminal

\* A draining runtime is kept: it only stops admitting peers.
KeepDraining(h) ==
    /\ Serving(h) /\ Snap(h).desired = "draining"
    /\ host[h].run \in 1..Snap(h).revision
    /\ host' = [host EXCEPT ![h] = [Answering(@, "draining") EXCEPT
                                      !.accepting = FALSE, !.run = Snap(h).revision]]
    /\ UNCHANGED <<mesh, registry, assignment, directory, lease,
                   maintenance, faults>>

\* The runtime of this very revision is running: say so again.
KeepActive(h) ==
    /\ Serving(h) /\ Snap(h).desired = "active"
    /\ host[h].run = Snap(h).revision
    /\ host' = [host EXCEPT ![h] = Answering(@, "ready")]
    /\ UNCHANGED <<mesh, registry, assignment, directory, lease,
                   maintenance, faults>>

\* There is a runtime to (re)build for this snapshot.  The host has a place for the
\* Mesh: one that is at max_mesh_contexts with other Meshes answers "failed", and
\* again at every pass, until it has.
MustBuild(h) ==
    /\ Serving(h)
    /\ IF Snap(h).desired = "draining" THEN host[h].run = 0
                                       ELSE host[h].run < Snap(h).revision

GenerateKey(h) ==
    /\ MustBuild(h) /\ ~host[h].key
    /\ host' = [host EXCEPT ![h].key = TRUE]
    /\ UNCHANGED <<mesh, registry, assignment, directory, lease,
                   maintenance, faults>>

(***************************************************************************)
(* Without material the host registers its public key with a Control        *)
(* process, which issues the first credential under the active Authority.   *)
(* A registration of another revision, of a Mesh that is being deleted or   *)
(* at a process without the active issuer is refused, and the refusal is    *)
(* acknowledged as a failure of the revision.                               *)
(***************************************************************************)
MayRegister(h) ==
    /\ mesh.life \in Live
    /\ assignment[h].revision = Snap(h).revision
    /\ assignment[h].desired = "active"

RegisterKey(h, w) ==
    /\ MustBuild(h) /\ host[h].key /\ Snap(h).cred = 0
    /\ IF MayRegister(h) /\ assignment[h].cred # 0
         THEN /\ host' = [host EXCEPT ![h] = Idling(@)]
              /\ UNCHANGED <<mesh, assignment>>
       ELSE IF MayRegister(h) /\ ActiveIssuer(w)
         THEN /\ assignment' = [assignment EXCEPT ![h].cred = 1]
              /\ mesh' = [mesh EXCEPT !.dirty = TRUE]
              /\ host' = [host EXCEPT ![h] = Idling(@)]
       ELSE   /\ host' = [host EXCEPT ![h] = Answering(@, "failed")]
              /\ UNCHANGED <<mesh, assignment>>
    /\ UNCHANGED <<registry, directory, lease, maintenance, faults>>

(***************************************************************************)
(* With material the host pins the root, stops the runtime it replaces and  *)
(* starts another one, which needs the Relay's own credential in the        *)
(* published directory; without it the host is left without a runtime and   *)
(* the revision is acknowledged as failed.                                  *)
(***************************************************************************)
\* The steps from the pinned root to the new runtime are one action: a crash between
\* them leaves the root, no runtime and no lease, as one after them does once the
\* lease has lapsed.
RootMatches(h) == host[h].root \in {0, Snap(h).root}

StartRuntime(h) ==
    /\ MustBuild(h) /\ host[h].key /\ Snap(h).cred # 0
    /\ RootMatches(h)
    /\ directory[h] = Snap(h).cred
    /\ host' = [host EXCEPT ![h] =
         [Answering(@, IF Snap(h).desired = "draining" THEN "draining" ELSE "ready")
            EXCEPT !.run = Snap(h).revision, !.root = Snap(h).root,
                   !.accepting = Snap(h).desired = "active"]]
    /\ lease' = [lease EXCEPT ![h] = TRUE]
    /\ UNCHANGED <<mesh, registry, assignment, directory, maintenance, faults>>

StartRefused(h) ==
    /\ MustBuild(h) /\ host[h].key /\ Snap(h).cred # 0
    /\ IF RootMatches(h)
         THEN /\ directory[h] # Snap(h).cred
              /\ host' = [host EXCEPT ![h] = [Answering(@, "failed") EXCEPT
                            !.run = 0, !.accepting = FALSE, !.root = Snap(h).root]]
              /\ lease' = [lease EXCEPT ![h] = IF host[h].run = 0 THEN @ ELSE FALSE]
         ELSE /\ host' = [host EXCEPT ![h] = Answering(@, "failed")]
              /\ UNCHANGED lease
    /\ UNCHANGED <<mesh, registry, assignment, directory, maintenance, faults>>

\* A stored termination, or a runtime newer than the snapshot, forbids serving.
ServiceForbidden(h) ==
    /\ Applying(h) /\ Snap(h).desired \in {"active", "draining"}
    /\ host[h].terminal \/ host[h].run > Snap(h).revision
    /\ host' = [host EXCEPT ![h] = Answering(@, "failed")]
    /\ UNCHANGED <<mesh, registry, assignment, directory, lease,
                   maintenance, faults>>

(***************************************************************************)
(* The acknowledgement names a revision and a state; Control records it     *)
(* only if both still fit the row.                                          *)
(***************************************************************************)
Accepts(a, revision, reply) ==
    /\ a.revision = revision
    /\ \/ reply = "removed" /\ a.desired = "removed"
       \/ reply = "ready" /\ a.desired = "active"
       \/ reply = a.desired /\ reply \in {"draining", "suspended"}
       \/ reply = "failed" /\ a.desired # "removed"

Recorded(a, revision, reply) ==
    IF Accepts(a, revision, reply)
    THEN [a EXCEPT !.applied = revision, !.state = reply] ELSE a

Acknowledge(h) ==
    /\ host[h].up /\ host[h].pc = "ack"
    /\ assignment' = [assignment EXCEPT
         ![h] = Recorded(@, Snap(h).revision, host[h].reply)]
    /\ host' = [host EXCEPT ![h] = [Idling(@) EXCEPT
         !.done = IF /\ host[h].reply = "removed"
                     /\ Accepts(assignment[h], Snap(h).revision, "removed")
                  THEN Snap(h).revision ELSE host[h].done]]
    /\ UNCHANGED <<mesh, registry, directory, lease, maintenance, faults>>

\* The request reaches Control, or not, and its answer is lost: the host
\* reports a failure of the revision, unless it was a removal.
AcknowledgementLost(h) ==
    /\ host[h].up /\ host[h].pc = "ack" /\ faults > 0
    /\ \E reached \in BOOLEAN :
         assignment' = [assignment EXCEPT
           ![h] = Recorded(IF reached THEN Recorded(@, Snap(h).revision, host[h].reply)
                                      ELSE @,
                           Snap(h).revision, "failed")]
    /\ host' = [host EXCEPT ![h] = Idling(@)]
    /\ faults' = faults - 1
    /\ UNCHANGED <<mesh, registry, directory, lease, maintenance>>

(***************************************************************************)
(* A running runtime renews its lease on every pass; one that can no longer *)
(* follow the signed state is stopped.  A crash loses the memory only, and  *)
(* leaves the lease row to lapse by itself.                                 *)
(***************************************************************************)
RuntimeFails(h) ==
    /\ host[h].up /\ host[h].pc = "idle" /\ host[h].run # 0 /\ faults > 0
    /\ host' = [host EXCEPT ![h] = [@ EXCEPT !.run = 0, !.accepting = FALSE]]
    /\ lease' = [lease EXCEPT ![h] = FALSE]
    /\ faults' = faults - 1
    /\ UNCHANGED <<mesh, registry, assignment, directory, maintenance>>

HostCrash(h) ==
    /\ host[h].up /\ faults > 0
    /\ host' = [host EXCEPT
         ![h] = [StoppedHost EXCEPT !.up = FALSE, !.key = host[h].key,
                   !.root = host[h].root, !.terminal = host[h].terminal]]
    /\ faults' = faults - 1
    /\ UNCHANGED <<mesh, registry, assignment, directory, lease, maintenance>>

HostRestart(h) ==
    /\ ~host[h].up
    /\ host' = [host EXCEPT ![h].up = TRUE]
    /\ UNCHANGED <<mesh, registry, assignment, directory, lease,
                   maintenance, faults>>

LeaseLapses(h) ==
    /\ lease[h] /\ host[h].run = 0
    /\ lease' = [lease EXCEPT ![h] = FALSE]
    /\ UNCHANGED <<mesh, registry, assignment, directory, maintenance,
                   host, faults>>

\* What a host does by itself, without failing, when `controls' answer it.
HostStep(h, controls) ==
    \/ \E w \in controls : Fetch(h, w)
    \/ ApplySuspended(h)
    \/ ApplyTermination(h)
    \/ EraseKey(h)
    \/ RefuseTermination(h)
    \/ KeepDraining(h)
    \/ KeepActive(h)
    \/ GenerateKey(h)
    \/ \E w \in controls : RegisterKey(h, w)
    \/ StartRuntime(h)
    \/ StartRefused(h)
    \/ ServiceForbidden(h)
    \/ Acknowledge(h)
    \/ HostRestart(h)

HostFault(h) ==
    \/ AcknowledgementLost(h)
    \/ RuntimeFails(h)
    \/ HostCrash(h)

\* The shape of a row and of a host's process and files.
AssignmentRow == [desired : Desired \cup {"none"}, revision : Nat, applied : Nat,
                  state : States \cup {"none"}, cred : 0..MaxCred]

Snapshot == [desired : Desired \cup {"none"}, revision : Nat, cred : 0..MaxCred,
             root : Roots \cup {0}]

HostProcess == [up : BOOLEAN, run : Nat, accepting : BOOLEAN, done : Nat,
                pc : {"idle", "apply", "erase", "ack"}, snap : Snapshot,
                reply : States \cup {"none"},
                key : BOOLEAN, root : Roots \cup {0}, terminal : BOOLEAN]

HostTypeOK ==
    /\ assignment \in [Hosts -> AssignmentRow]
    /\ \A h \in Hosts : assignment[h].applied <= assignment[h].revision
    /\ directory \in [Hosts -> 0..MaxCred]
    /\ lease \in [Hosts -> BOOLEAN]
    /\ maintenance \in [Hosts -> {"active", "draining", "suspended"}]
    /\ host \in [Hosts -> HostProcess]
=============================================================================
