# Peerward: specifications, model checking and proofs

Peerward is a private mesh network.  *Peers* (Linux and Android) hold WireGuard
tunnels to each other; *Relays* carry their encrypted frames when no direct path
exists; *Control* owns the administrative state in PostgreSQL and publishes it,
signed, to Relays and peers.  This directory holds TLA+ models of the parts of
that system whose correctness depends on the order of events, the TLC instances
that check them, and proofs of the central safety properties.

    tlc -workers 2 -config <cfg> <module>     # one run (see "Runs")
    tlapm <module>Proofs.tla                  # one module of proofs (see "Proofs")

`PROJECT.json` lists the components, runs, mutants, hazards and theorems, and maps
every definition to the source lines it stands for.

## 1. Inventory

Paths are below `src/crates/` unless they start with `apps/`.

| Component | State it keeps | Operations | What is hard | What makes it correct |
|---|---|---|---|---|
| Presence rows (`peerward-store` `identity_presence.rs`) | one generation counter per peer, one primary row per peer, one standby row per (peer, Relay), each a lease | acquire, renew, release, prune, revoke | replies lost after commit, rival attachments on two Relays | a generation is handed out once; only the exact incarnation renews or releases |
| Presence cache (`peerward-relay` `presence_cache.rs`) | believed incarnation and highest generation per key | observe, release, install a snapshot | announcements late, repeated, out of order; a snapshot older than what was learned during its query | a superseded incarnation never returns; a live one is never dropped |
| Router fence (`routing.rs`) | local attachment, known fence | install, detach, observe fence, revoke | a second mutex, taken after the cache's | only primaries fence; no attachment without a session |
| Peer session (`runtime_peer_session.rs`, `runtime_peer.rs`, `runtime_mutations.rs`) | role, generation, deadline | register, fence check, renew, promote, clean up | every call is an await between two views of the truth | a superseded session ends, a live one is not thrown out |
| Backbone (`runtime_backbone*.rs`) | links between Relays, bounded queues | announce, flood, bootstrap, forward | lost, duplicated, reordered records | a lost announcement only delays |
| Catch-up (`runtime_state.rs`, `runtime_serve.rs`, `runtime_freshness.rs`) | event cursor, signed state, age of the last database success | page events, load snapshot, expire | retention gaps, stale database | a Relay reaches the newest state or stops |
| Relay host (`host*.rs`, `relay_host_api.rs`) | assignment rows, one runtime, key file and termination record per Mesh | fetch, apply, register a key, acknowledge | crash between file, runtime and acknowledgement; the row moves on during an apply | no key outlives its Mesh; a suspended host serves nothing |
| Traffic (`traffic*.rs`) | queues, quotas | enqueue, drain, drop | queues at their limit | bounds hold, no peer starves another |
| Versioned updater (`peerward-updater`, `peerward-cli` `update_*.rs`) | accepted release state, version directories, role links, transaction record | register, apply, repair, recover, rollback | death of the process before any durable write; two roles share one floor | record and links agree; never below the floor; no lost work |
| Standalone updater (`peerward-updater/src/lib.rs`) | executable, rollback copy | install, rollback | crash between renames | an executable survives |
| Relay pool (`peerward-peer-core/src/relay_pool.rs`) | active generation, pending request, retry per slot | poll, complete, failed, refresh, close | answers to requests that are no longer current | stale answers change nothing; every slot is retried |
| Android adapter (`apps/peerward-android` `RelayPoolTransport.kt`) | installed transports | connect, install, fail, replace, close | two locks, never held together | no route and no connection is lost |
| Linux pool worker (`peerward-peer` `relay_pool*.rs`) | one task per slot | connect, replace identity | identity changes under a connection | as above |
| Session manager (`peerward-peer-core/src/lib.rs`, `schedule.rs`, `checkpoint.rs`) | inner sessions, schedules | handshake, rekey, checkpoint | simultaneous initiation, suspend | one session per peer pair |
| Runtime orchestrator, platform broker (`runtime.rs`, `platform.rs`) | lifecycle phase, pending platform requests, generation | start, stop, complete, advance | callbacks after stop | late answers are refused |
| WireGuard runtime (`wireguard_*.rs`, `peerward-wireguard`) | directory, paths, gateways | install directory, choose path | withdrawals racing packets | only authorised peers |
| Credential rotation (`credential_rotation*.rs`, `store/rotation.rs`) | staged files, marker, request row | stage, issue, activate, commit, recover | crash between four renames, lost reply | files and database converge on one identity |
| Network journal (`peerward-platform/src/lib.rs`) | applied operations, journal file | apply, roll back, recover | crash between change and record | nothing of Peerward stays behind |
| Event outbox (`store/events_auth.rs`) | sequence, retained events | append, page, prune | two queries per page | no consumer misses an event unknowingly |
| Join (`store/join_*.rs`, `control/join*.rs`) | tickets, applications, addresses | claim, approve, issue | two approvals, retries | one peer, one address, one credential |
| Mesh lifecycle (`store/mesh_lifecycle.rs`, `control/dynamic_mesh.rs`) | creation and deletion jobs, key bundle, recovery archive | request, claim, step, finish, retry | files inside a transaction that rolls back; deletion overtakes creation | one root per Mesh; requests complete; nothing is left behind |
| Maintenance (`control/maintenance_tasks.rs`, `maintenance_worker.rs`) | one task per host | drain, resume, advance, retry | a replacement that was ready and is not any more | the last Relay is never taken |
| Webhooks, deployment tasks (`control/webhook_worker.rs`, `deployment_tasks.rs`) | leased work items | claim, progress, finish | lease expires under a worker | the reclaimed worker cannot write |
| Publisher (`control/publisher*.rs`, `store/signed_state.rs`) | rows of a Mesh, one revision and signed body per kind, configuration manifest | every administrative transaction; elect, expire, issue, build, store, configure, prune | a change that moves no revision; two publishers; clocks | what is signed at the current revision is what the rows say |
| Carriers (`peerward-carrier`) | fragments, memory budget | push, expire | budget shared by links | what is taken is given back |
| Firewall (`peerward-dataplane`) | flows, fragments, policy revision | check, evict, replace | eviction at the limit | no flow outlives its policy |
| Policy, directory, credentials, wire, management, P2P | documents, formats, rules | evaluate, encode, verify | mostly pure | agreement with a reference definition |
| Control API (`control/peers.rs`, `relays.rs`, `policy.rs`, `bulk.rs`, ...) | the same rows | one transaction each | a value computed before the lock | see Publisher |
| CLI, local service, consoles, UI, scripts, packaging | requests, forms | one transaction each | little ordering of their own | covered by the modules below them |

Interactions.  A peer's pool (Android adapter or Linux worker) connects to a Relay
per slot.  The Relay registers the attachment in PostgreSQL, then in its router,
then in its presence cache, and announces it over the backbone.  Other Relays update
their caches and then their routers.  Changes in PostgreSQL append to the event
outbox; each Relay polls it and reloads a snapshot.  Control writes revocations and
deletes presence rows; Relays learn that by the same outbox and from signed state.

## 2. Plan

Modelled, in this order: presence (the mechanism every frame depends on), the role
updater (the only code that can leave a host without a working binary), the Relay pool,
the network journal, the signed state of Control, the life of a Mesh on Relay hosts with
an abstract specification, and credential rotation.  Left, in order of value:

1. `EventStream`: outbox append, paging and retention (`events_auth.rs:100`), the Relay's
   cursor and its database freshness (`runtime_freshness.rs`); replaces the flag `dirty`
   of `Presence`.  Webhook delivery is a second reader with leased claims.
2. `Join`: tickets, applications and address allocation (`join_applications.rs:179`).
3. `RuntimeLifecycle`: orchestrator, platform broker and late callbacks (`platform.rs:84`),
   with the Linux pool worker next to `RelayPoolTransport`.
4. Fragments with a shared budget (`fragments.rs`), the flow table at its limit
   (`firewall.rs`); policy evaluation and gateway selection as operators against a reference.
5. Two unlocked commands in `BinaryReplace`; the Android rotation next to
   `CredentialRotation`; deployment tasks next to `HostMaintenance`; the DNS preference
   journal and exit routes next to `NetworkJournal`.

Theorems: every safety property that a passing run checks is proved (section 6); what is
left to TLC is liveness.  Each module to follow gets its invariant and its proofs with it.

## 3. Modules

### PresenceCache, Presence, MCPresence

`PresenceCache` has the cache as pure operators, `Presence` the processes.  One
database transaction, or one critical section of a mutex, is one step.

| Variable | Code |
|---|---|
| `counter`, `rows`, `enabled` | `peer_presence_generations`, the two presence tables, `peers.enabled` |
| `issued` | history only: what each generation was handed out for |
| `entries`, `generations`, `fresh` | `PresenceCache.entries`, `.generations`, the keys whose `updates` exceed the snapshot's revision |
| `snap`, `snapRows`, `dirty`, `booted` | progress of `load_admission_snapshot`, cursor behind the outbox, start-up finished |
| `fence`, `attached`, `fencing` | `OpaqueRouter.known_fences`, `.attachments`, handlers between the two mutexes |
| `pc`, `role`, `gen`, `pend`, `deadline` | the local variables of `run_peer_session`; `pend` is a generation acquired and not yet in the lease record |
| `msgs` | every announcement ever sent |
| `scenario`, `faults`, `crashes`, `now` | environment: the bounds of the behaviour and what has been used of them |

Sessions: `Connect` (acquire), `InstallAcquired` (router), `ObserveAcquired` (cache and
broadcast), `FenceCheck`, `Disconnect`, `Renew`, `ObserveRenewal`, `PromoteRelease`, `PromoteForget`,
`PromoteAcquire`, then `Detach`, `ReleaseLocal`, `ReleaseRow`.  Relays: `Receive`, `ObserveFence`,
`Bootstrap`, `SnapshotStart/Read/Install`, `RevokeCredential`, `Crash`.  Environment: `DisablePeer`,
`Prune`, `Tick`.  A database call may fail before or after its commit.

Abstractions.  One peer: presence of different peers shares no key.  `msgs` only
grows, which covers loss, delay, duplication and reordering, and with them the links
that an error tears down.  The initial state draws a `scenario` (which sessions
connect, which faults may happen, how far the clock runs) and keeps it; `MCPresence` lists
the ones TLC explores, the proofs hold for any set of them.  `LiveSessionNotFenced` and
`EndedSessionIsGone` are claims about a database that answers: after a failed release or
promotion the row stays until its lease lapses, and a lapsed lease is no claim; both
state that condition.

### RoleUpdate, MCRoleUpdate

The variables are the files of an installation root: `accepted`/`floor`
(`accepted-update.json`), `binary`/`metadata` (a version directory), `current`/`previous` (links),
`journal`/`archive` (transaction record and its predecessor).  `pc`/`job` is the command that
holds the installation lock; each durable write is a step and `Crash` may come before
any of them.  `running` is what systemd executes: it can be restarted by others
(`ServiceStart`), and `restart_role` can fail before or after the restart happened.  An error
of `activate` between its checks and its record is `ActivationFails`.

### BinaryReplace

The four siblings of a standalone executable, one action per rename, with crashes
and failing renames, including the failure of an undo.  It serves one finding.

### RelayPool, RelayPoolTransport, MCRelayPool

`RelayPool` is the Rust state machine (one operator per method); `RelayPoolTransport`
EXTENDS it with the Kotlin adapter: `tasks` are the coroutines of `execute`,
`transports` the installed routes, `failing` the routes that `fail` has removed and not
yet reported, `open` the connected sockets.  `close` is three steps, as in the code.

### NetworkJournal

`StateCoordinator` and its callers.  `applied` and `journal` are the rollback list in
memory and on disk; `host` is what each operation has left on the host ("ours", "absent",
or somebody else's value) and `tun` whether the interface exists.  An operation is its
position in the plan.  Each command and each durable write is a step: `JournalFirst`,
`Run`, `Record`, `Commit` for `apply_operations_journaled` and `commit`; `Undo`, `Persist`, `Settle`
for `rollback_all`; `Start`, `Begin`, `Shutdown` are the calls, and `Resume` and `ReturnError` what the
caller does with the result (`goal` names the caller).  A failed write may have replaced
the file already (`AtomicStateStore::save` syncs the directory after the rename).
`PlanFails` is a value that cannot be read, or is none of the expected ones, while a plan is
built.  `worker` tells the resource worker, which journals every intent before it runs (`Pre`) and
goes on after an error, from start-up, which journals only the resolver's in advance and
leaves.

### ControlState, MCControlState

`db` holds the rows of one Mesh that signed state is projected from (lifecycle and issuer
of every serial, peers, Relays, services, policy, the seven revisions); `signed` the
stored bodies per kind and revision, `config` the newest configuration manifest.  Each
transaction of the API and of the store is one action, because it locks the Mesh row.
Three things are not atomic and are kept apart: `put_policy` computes its document before
the lock (`ComputePolicy`, `PutPolicy`, with `draft`); a publisher pass is a series of steps of
one Control instance (`pub`), several of which may run; deadlines (`clock`) pass at any time.
A pass expires credentials, finds its issuer, issues pending rotations, is elected with a
snapshot, rebuilds every kind whose revision moved and stores the configuration.
Bodies are the projections themselves.  Left out: the Relay topology kind, lease
sequences and renewals of unchanged bodies, signatures (the directory key is per Mesh, so
only the bundle depends on the issuer).  Expiry and the choice of the issuer are one step;
all pending rotations of a pass are issued in one step; an aborted pass counts as a lapse.
Where the code loops over devices inside one step (`RevokePeerAccess`, the admissions that
ended, the pending rotations), the model changes all rows at once and raises the revisions by
the number of devices (`Raise`), which is what the loop comes to.

### RelayHosts, MeshLifecycle, HostMaintenance, MeshPromise, MCHostMaintenance

Three modules, each EXTENDing the one before.  `RelayHosts` has the assignment rows of one
Mesh, the endpoints a host calls and its reconcile loop: `Fetch`, then one action per
branch of `apply_assignment` (suspended, termination in three steps, keep, generate a key,
register it, start), then `Acknowledge`.  `host` holds the process and the files that
survive it.  `MeshLifecycle` adds the creation and deletion jobs and the Control processes:
`job` are the two rows, `files` the key bundle and the recovery archive.  A step holds the
lifecycle lock from its first check to its commit and is one action; files are not undone
by a rollback, which is `StepAborted`.  `HostMaintenance` adds drains and resumes, closes the
system and states the properties.  `MeshPromise` is the abstract specification: phases of
a Mesh and the set of hosts with a private key.  The refinement maps tombstone and life of
the row to the phase and the key files to the holders.

Abstractions: one Mesh; a claim is fenced by the identity of its holder instead of a
generation number (a process that comes back is a new holder); freshness, online and
expired are inputs of the steps that read them; the failure limit of a job is 2 instead of
10; preview digests, paging, the enabled flag, imported authorities and the allocation of
identifiers and prefixes are left out.  An orderly shutdown of a host is a crash followed
by the lapse of its lease.

### CredentialRotation, MCCredentialRotation

`disk` is the four identity files, their `.next` siblings and the marker, `work` the file
operations the running call still has to do and what it does afterwards; each operation
is a step and `Crash` may come before any of them.  A start is `Recover`
(`recover_peer_identity_files`), then `CommitStaged` or `SkipStaged`
(`recover_activated_peer_identity`), then `Load` (`CredentialRotator::new`).  The rotator:
`RequestNow`, `SendPending`, `AcceptReplacement`, `Activate`, `InstallDirectory`, `Committed`;
it is used under one lock, so calls do not interleave.

The rotator is called by the control loop (`direct_control.rs`), the only reader of the
control channel that all slots share.  A call that sends waits in `dispatch` until a slot
takes its record (`Dispatching`), and meanwhile nothing is read.  `inbox` is the channel with
its capacity `InboxBound`; behind it stand the records of workers that wait for a place.
Such a worker (`Blocked`) takes no command, does not reconnect and does not see a new
identity.  `SendSlowly` is a slot that answers after the two seconds `dispatch` gives it, so
that the record goes out twice; `Traffic` and `ReceivePacket` are frames of other peers, which
use the same channel; `Report` and `Reported` are the other things the loop sends.  Every
attempt leaves a command in the queue of a blocked worker; while no slot takes the record,
that queue fills and `dispatch` waits for a place in it (`QueueFills`): the loop waits for the
worker and the worker for the loop.

Each slot has a session
(`Connect`, `Replace`, `Break`, `NoticeDeath`) that delivers the directory and the replacement
once.  `control` holds the credential and request rows and the published directory.
A generation stands for a set of keys with its credential, rotation ID and serial; the
end of the overlap is `OverlapLapses`.  The expiry of the active credential, an
administrator's stop of the device, signatures, the WireGuard stage, and the Android
rotation are left out.  Records that a dying process had sent may still be read
(`NoticeDeath` comes after them).

## 4. Runs

| Run | Question and result | Bounds |
|---|---|---|
| `presence` | Do snapshots, announcements, renewals, promotions, failures and lapses ever make a Relay throw out a live session, keep an ended one, share a generation, or bring a superseded incarnation back?  No (600,000 states). | 5 scenarios of 2 Relays and up to 2 sessions: a failed call; reconnection with a crash and disabling; lapse and reconnection; promotion around a lapse with a crash; renewals beside a promotion |
| `presence_liveness` | A superseded primary ends and a Relay that follows the outbox learns the live owner, though all announcements may be lost.  Hold, under fairness. | rivals, one refreshing Relay, 1 fault, 1 crash |
| `presence_promotion` | Do the cache's fences keep their role when a promotion fails half-way?  **No**, see Findings. | 1 fault |
| `role_update` | Record, links, versions and accepted state under crashes and file errors anywhere.  All hold; every command ends (387,000 states). | 2 roles (Control and another), 3 versions, 4 manifests, 6 commands, 2 crashes or errors |
| `binary_replace_atomic` | Is the rollback atomic as documented?  **No**, see Findings. | 3 builds, 5 commands, 2 faults |
| `relay_pool` | No ghost route, dead slot or leak before shutdown; slots recover.  Hold. | 2 slots with 2 and 1 endpoints, 4 faults |
| `network_journal` | Is every announced change in effect still listed, is a finished recovery clean, does a failed rollback keep back no other one, does the peer always get past recovery?  Yes; the last under fairness and unless somebody else holds a value it set. | either caller; 4 operations, 2 on the TUN, 1 owned; 3 plans, 3 faults, 2 deaths, 2 foreign changes |
| `network_rollback` | Is every rollback idempotent as documented?  **No**, see Findings. | a single failed command |
| `control_state` | Does every change move the revisions of what it shows, do the parts of a configuration fit together and never reuse a version, does a stopped device stay out, and does the publisher catch up?  Yes (507,000 states). | 7 scopes: any two transactions; one with a lapse or an aborted pass; 3 of a device's admission and life, 4 of its life; 3 of Authorities with a lapse; two publishers, with and without a lapse |
| `mesh_lifecycle` | Is a Mesh created, drained and deleted without mixing roots, taking the last Relay or leaving keys, although processes and hosts fail, and does it implement `MeshPromise`?  Yes (127,000 states). | 7 scopes: 1 or 2 Control processes, 1 or 2 hosts, up to 2 failures, 2 drains, a second assignment, a renewal |
| `mesh_deletion` | Does every accepted deletion complete?  **No**, see Findings. | one failure |
| `credential_rotation` | Does a peer ever load a mixed identity, does Control depend on one the peer does not hold, does a recorded rotation complete?  No, no, and yes unless the control loop and a worker wait for each other (770,000 states). | 2 slots, control channel of 1; 2 rotations without faults; 1 rotation with a death, a lost or repeated record or a broken session at any point; 1 rotation beside other traffic |

Why the bounds are enough.  A generation conflict needs two incarnations and two
observers, so two sessions and two Relays show it; the standby and the reconnecting
session (and, for liveness, the rival) are the ways in which two attachments share
state.  The protocol is symmetric in further Relays, and the
proofs of section 6 do not depend on their number.  The clock
appears where leases matter; elsewhere it stands still and a lease never lapses.  The
four manifests of `role_update` are chosen so that the floor rises between two updates
and one version is published twice with different bytes; six commands are a
registration and an update of both roles with a repair and a rollback.  Four faults
in `relay_pool` break a replacement twice on each of two slots.  Four operations hold
each kind with a neighbour on both sides; three faults fail a command, its rollback and
the write that follows, and two deaths interrupt a call and then its recovery.  The
shortest plan of `network_journal` is a start-up that stops after `prepare`.
A missed revision shows after one transaction that was preceded by at most one other
(create, then change), so any two transactions are explored, and four for the longest
protocol, the rotation of a device that is stopped and enabled again.  The scopes of
`mesh_lifecycle` pair each actor with each other one: two Control processes on one job,
two hosts in one drain, deletion with creation, drain, assignment and renewal.  In
`credential_rotation` two slots are what makes a replacement arrive twice; every delivery
to a process that has moved on ends it, so starts after deaths at many places are
explored without using up the fault, and the fault adds one death or loss anywhere.  One
place in the control channel is the smallest legal capacity (`packet_queue_capacity`,
`config.rs:350`).  For safety it is enough because sessions deliver when they like, so every
order in which the rotator can see records occurs; for progress it is the hardest case: the
second record blocks its worker, and the third both.

Deadlock is checked in `control_state`.  Elsewhere sessions end for good, bounded commands
run out, a closed pool stops, a deleted Mesh leaves nothing to do, and a peer in service
need not be asked for anything.

For each property of a passing run, `PROJECT.json` names a mutant: a definition
replaced by a plausible mistake (a dropped guard, a stale value, a missing report) for
which TLC finds the property violated.

## 5. Fairness

Presence: weak fairness on the steps of a session after it has begun and on the
steps of a Relay's refresh.  The session loop wakes at least every 10 ms and has
a renewal timer; catch-up runs every 5 s.  Nothing is assumed of peers (they need not
connect or ask for promotion), of announcements (they need not arrive) or of the
operator.  `role_update`: weak fairness of the running command, all of whose waits are
bounded (one minute for the restart, 30 s for readiness).  `relay_pool`: the worker
sleeps at most until the time `next_poll_millis` names, attempts time out, a runnable
coroutine runs; attempts may fail as long as the fault bound lasts, so `PoolRecovers`
says what happens once failures stop.  `network_journal`: a call that has begun
goes on, and a process that ended is started again, after a failure by systemd
(`Restart=on-failure` in `deploy/systemd/peerward-peer.service`); no plan need be asked for.
`control_state`: every instance goes on with its passes (5 s interval and event signal)
and a policy request that computed its document takes the lock; `EventuallyPublished` says
what holds once administration and clocks are quiet.  `mesh_lifecycle`: weak fairness of
the loops of processes and hosts, of task passes with fresh hosts, of the passing of leases
and grace periods, and of retries, which are the administrator's (a job or task that
failed for good is retried as the API offers); strong fairness of the reload and publish
timers, which run between other steps.  `credential_rotation`: starts (the same systemd
unit), the control loop with the rotator, each slot's session, the reading of records by each
slot's Relay, and the publisher; requests, faults, traffic and the end of an overlap are never
promised.  A blocked worker is not helped by fairness: its steps are not enabled.

## 6. Proofs

Eight modules of proofs (TLAPS) cover every safety property that a passing run checks.
They hold for all values of the constants: any sets of Relays, sessions, roles, versions,
slots, hosts, credentials, devices, services, Control processes and generations, and any
bounds on failures, deaths, changes and commands.  What is assumed of the constants is declared
next to them, and TLC evaluates it in the runs:

- `Presence`: each session has a host and a wanted role; keys and model values are distinct;
- `RoleUpdate`: ranks and sequence numbers are numbers, a manifest's version is not below
  its own floor (`peerward-updater/src/lib.rs:175` refuses others), and `None` is no version,
  manifest, record or job;
- `RelayPool`: finitely many numbered slots, each with an endpoint;
- `NetworkJournal`: finitely many numbered operations; no operation on the TUN is owned;
- `RelayHosts`, `MeshLifecycle`, `HostMaintenance`: what a scope of a behaviour may contain;
- `CredentialRotation`: bounds are numbers, and a budget has keys for its rotations;
- `ControlState`: finitely many devices, every serial and every service has its owner, the
  identities of the first installation exist, serials of different kinds are distinct, and at
  least one version of a signed state is retained.

Each proof has the same shape: an inductive invariant in named parts, one lemma per part
with a step per action (what an action does is stated once, in a lemma of its own, where
several parts need it), and the properties as consequences of the invariant.  TLC checked
each invariant on the run of its module before it was proved.

### PresenceProofs: generations

- `TypeCorrect`: `Spec => []TypeOK` (the other results rest on it; it is no property of a run).
- `FencingInvariant`: `Spec => []FencingInv`, the inductive invariant.
- `GenerationsAreUnique`: `Spec => []OneOwnerPerGeneration`.
- `FencesArePrimary`: `Spec => []RouterFencesArePrimary`.
- `ReleasedStaysReleased`: `Spec => NoResurrection`.

`OneOwnerPerGeneration` speaks of caches only and is not inductive: an entry arrives
from a row, from a snapshot read earlier or from an announcement in flight.
`FencingInv` therefore says of every such copy that it is *genuine*, that is, its
generation was handed out by `acquire_presence` for exactly that key and session
(recorded in `issued`, which only grows), that a router fence and a fence update in
flight were handed out for the primary key, and that a cached entry sits exactly at
the fence of its key.  Released announcements are excluded: they carry no claim of
ownership, and after a failed promotion they are in fact not genuine (first finding).
The proof has one lemma per group of state (store, sessions, caches, messages,
fences); `CacheStep` describes what one step may do to one cell of a cache and carries
both the invariant and `NoResurrection`.

### SessionProofs: leases, attachments, clean-up and liveliness of a session

- `LeasesBoundCopies` (`LeaseBoundsCopies`) from `LeaseInv`: rows read by a snapshot count as
  copies, and a deadline never moves back because it is never beyond one lease from now.
- `OwnViewAgrees` (`LocalObserveSucceeds`): from the above and from genuine generations.
- `AttachmentsAreDetached` (`NoOrphanAttachment`): what the router holds belongs to a session
  in a phase that comes to `Detach`.
- `EndedSessionsAreGone` (`EndedSessionIsGone`) from `CleanInv`: what names a session at its
  own Relay is its current row or entry, or a row read earlier whose generation that Relay
  has already seen and left (`Over`), so that installing it changes nothing.
- `LiveSessionsAreNotFenced` (`LiveSessionNotFenced`) from `StoreInv` and `QuietInv`: a row is
  the last allocation for its key; while nothing failed or lapsed, every fence of a key
  was handed out for that key and every message, a release too, names the session its
  generation was handed out to; so no fence passes a row, and only its own session can
  release it.  `ReadsCover` is the delicate part: a snapshot read before a row was written
  must not drop the entry when it is installed, which is what `fresh` is for.

### RoleUpdateProofs

`OutcomesAreTrue`, `LinksAreRunnable`, `SwitchesRespectFloor`, `AcceptanceAdvances` and `WorkIsKept`
prove the five safety properties of the run from `UpdateInv`.  Its parts follow the
command: what a registration, the staging of a version and an activation may rely on at
each `pc` (`RegistrationInv`, `StagingInv`, `StagedInv`, `ActivationInv`), and what a record says
when no command runs (`RecordInv`: its role is linked to one of its two versions, and the
new one is not older).  The last part is what survives a crash and is all a recovery has
to go by.  `SwitchesAreAllowed` needs the floor in `ActivationInv`: it may have risen since the
record was written, by a command of the other role, but not between the check of `activate`
and the switch, because the command holds the lock of the installation.

### RelayPoolProofs

`RoutesAreNotLost`, `SlotsStayAlive` and `TransportsDoNotLeak` from `PoolInv`.  Requests are
numbered by one counter for all slots, so a number names one coroutine or one transport
(`RequestsAreUnique`); what a coroutine is about to replace is no longer its slot's
connection, and what is still connecting never was one (`OldRoutesAreOld`): without this,
closing the replaced transport could close the route of a slot.  The numbers given by
`poll` to the due slots are distinct by a cardinality argument (`FiniteSetTheorems`).

### NetworkJournalProofs

- `NothingIsForgotten`: `Spec => []NothingForgotten`.  The strengthening `RunsListed` says
  that a command about to run which must be journaled first has been: without it the
  step `Run` would have no reason to keep the property.
- `RecoveryCleans`: `Spec => RecoveredIsClean`.  `RollbackInv` says that a rollback which has
  met no error has removed from the list exactly what it has visited, so that its end
  leaves neither list nor file; with `NothingForgotten` the host is then clean.
- `OthersAreAlwaysUndone`: `Spec => []OthersAreUndone`.  A rollback that ends has left in effect
  at most as many listed changes as there were failures.  `VisitedInv` carries this through the
  loop: the changes in effect that are listed and already visited (`Kept`) have each cost a
  failure, so they are counted by `faults` at every step of the rollback.
- `JournalTypes`: `Spec => []TypeOK`.

### MeshProofs

- `MeshInvariant`: `Spec => []MeshInv`, `RootsAreRecoverable` (`RecoveryMatchesRoot`),
  `SuspendedAreIdle` (`SuspendedHostIsIdle`), `CreationStaysCancelled`
  (`CancelledStaysCancelled`), `DrainsOntoServing` (`SuspendsOntoServing`).
- `MeshKeepsItsPromise`: `Spec => KeepsPromise`, that is, `HostMaintenance` implements
  `MeshPromise`: the initial states map to initial ones and each action to a step or a stutter.

`MeshInv` relates what four parties know.  `SnapInv`: the assignment a host applies is the
current one or an earlier revision, and equal revisions say the same.  `KeyInv`: who has
seen the termination has given up its key for good; this is what `Disappear` of the
abstract specification needs, since a host may be anywhere in an apply when the last
acknowledgement arrives.  `SuspendInv` and `ReadyInv`: what an acknowledgement of the
current revision rests on.  `TaskInv`: what a drain has made sure of.  `RootInv`: until the
rows are gone bundle and archive hold the same root, so that a repeated step reads it
back.  `LifeInv`: row, tombstone and jobs move together.

### RotationProofs

`StartsReadOneIdentity` (`IdentityWhole`) and `ActiveIdentityIsHeld` (`ActiveIsHeld`) from
`RotationInv`.  `DiskInv` says what the files are worth under each marker (from
"committing" on, each part is in place or staged with the marker's generation); `WorkInv`
lists how far each call may have got (`Asking`, `Staging`, `Finishing`, `Committing`), which
is where a crash may come; `WireInv` says that an activation in flight has a staged identity
behind it, or was answered; `MarkerInv` that nothing is moved before Control has made the
identity active, and that it stays the active one until its rotation is over: the next
request is made only then.

### ControlProofs

- `ControlInvariant`: `Spec => []ControlInv`, and `ControlTypes`: `Spec => []TypeOK` (no property
  of the run).
- `ProjectionsAreCurrent` (`NoStaleProjection`), `ConfigurationsFit` (`ConfigurationConsistent`),
  `VersionsAreNotReused` (`NoVersionReuse`), `StoppedStaysOut` (`StoppedDeviceStaysOut`).

The heart is a relation between two row sets, `Evolves(r, s)`: revisions only grow, serials
are used once, and a kind whose revision is the same in both is projected alike by both at
every time (`SameView`).  It holds from the rows before to the rows after each transaction,
and it is transitive, so it holds from the rows a pass has read to the present ones, however
many transactions of other instances came between (`PassInv`).  That is what makes it safe
to be elected with an old snapshot: what the pass stores at a revision which is still current
is what a fresh snapshot would give.

Comparing projections for each of some thirty transactions would be hopeless; `Kept` states
on the rows alone what each kind needs left as it was, one lemma per kind shows that this
keeps its view (`AuthoritiesView` to `RevocationsView`), and each transaction has a lemma
`...Steps` that it moves the revision of whatever it does not keep.  An `UPDATE`
that forgets one column, as two of the run's mutants do, would fail in its lemma.

The other parts: `RowsInv` (only an enabled device has addresses), `OverdueInv` (a passed
overlap deadline belongs to a present overlap: without it an activation could make a
deadline of an earlier overlap count), `StoredInv` (nothing is stored ahead of the rows) and
`BundleInv`.  The last is what `ConfigurationConsistent` needs and what is subtle about it: a
directory and the bundle of Authorities may have been signed by different passes, between
which credentials expired.  No transaction moves the Authorities without the directory, so the
bundle was signed at a time no later than the directory, and each issuer the directory
accepted was trusted by it.  `ConfigInv` says that a part at a current version has the stored
bytes, which together with `ReusedVersion` (the management revision is raised when the
resources changed under it) gives `VersionsAreNotReused`.

### Only model-checked

The liveness properties of all runs (`SupersededSessionEnds`, `OwnerBecomesKnown`,
`CommandsEnd`, `PoolRecovers`, `StartsAgain`, `EventuallyPublished`, `CreationCompletes`,
`DeletionCompletes`, `MaintenanceCompletes`, `RotationCompletes`): they need fairness and
`ENABLED` and are beyond this prover.  And the two findings about other modules' safety
(`presence_promotion`, `binary_replace_atomic`), which are violations.

## 7. Findings

1. `presence_promotion`.  `promote_standby` (`runtime_mutations.rs:162`) relabels its
   lease as primary before `acquire_presence` has produced the primary generation.  If
   that call fails, the clean-up of the session releases the *primary* key with the
   *standby* generation and announces it.  All keys of a peer share one counter, so the
   primary fence of a Relay can be raised to a generation handed out for a standby, and a
   live primary entry dropped, against `spec/PROTOCOL.md:98-99`.  The router fence is not
   affected (`FencesArePrimary` holds), but the Relay of the live primary no longer finds
   its entry and ends that session at its next fence check; the peer has to reconnect.
2. `binary_replace_atomic`.  The standalone `rollback` is documented as atomic
   (`lib.rs:374`) and is two renames.  A crash between them leaves no executable, and both
   commands then refuse; the copy is still there and must be moved back by hand.
3. `network_rollback`.  Routes of shared resources are journaled before they are added,
   and "every rollback is idempotent" (`peerward-platform/src/resource_network.rs:211`).
   Deleting a route that is not there is an error (`native_netlink.rs:142`, where only
   ENODEV counts as done).  One failed addition therefore leaves a rollback that cannot
   succeed: `apply_resource_network` begins with `self.shutdown()?` and fails at every tick
   until the process, and with it the TUN, is gone; a restart recovers (`StartsAgain`).  The
   unit test of this case uses a backend whose deletions always succeed.

4. `mesh_deletion`.  `delete_mesh_step` (`dynamic_mesh.rs:255`) takes its issuer from the
   registry when it has one, and then requires an active Authority row.  A creation step
   that wrote the key bundle and failed before its commit leaves a bundle without a row,
   which `reload_managed_issuers` loads.  A deletion accepted then fails at every attempt,
   although the comment two lines above provides for a deletion that wins over the
   creation, and `spec/API.md:44` says that cleanup continues asynchronously.

Behaviour worth knowing, noted without a run:

- When the Android pool is closed, a coroutine that has connected and waits for the
  cancellable `failures` lock (`RelayPoolTransport.kt:189`) is cancelled without closing its
  transport; `NoLeak` is stated until the cancellation.
- A host drained before it registered its key can never complete the drain: the
  registration asks for an active assignment (`relay_host_api.rs:117`).  It is the exception
  in `MaintenanceCompletes`.
- A host may be marked suspended while a Mesh that is being deleted still runs there
  (`SuspendedHostIsIdle` speaks of active Meshes), and after a crash of the replacement a
  drain may suspend onto it until its lease lapses (`SuspendsOntoServing`).
- A Control process that did not do the deletion keeps the issuer in memory until it ends:
  a reload only adds.
- Every slot's session delivers a replacement; the second delivery finds no pending
  rotation, is an invalid control message (`credential_rotation.rs:313`) and ends the process,
  although `spec/WIRE_STATE_MACHINE.md` calls a repeated edge the same result.  The service
  manager's restart recovers (`RotationCompletes`).
- A rotation request is marked sent for the life of the process
  (`credential_rotation.rs:301`): one that is lost with its session, or that the Relay could not
  store ("will be retried"), is repeated only by the next process.
- The control loop and the workers of the slots can wait for each other for good.  A worker
  that finds the shared control channel full waits in `controls.send` and polls neither its
  commands nor its keepalive (`relay_pool_worker.rs:213`); the loop that reads the channel waits
  in `dispatch`, which returns only when a slot has taken the record, and tries again for
  ever while one of them has a worker (`relay_pool.rs:303-339`).  If every slot in reach is
  blocked when the loop begins to send (a rotation, a receipt, the answer to a probe), nothing
  moves until the process is restarted.  A small capacity and busy frames make it likely, no
  capacity excludes it.  It is the state `Jammed`, excepted in `RotationCompletes`; the run reaches it
  with a rotation half done.
- If the overlap ends under a process that still runs with the old identity, only a
  restart tries the staged one (`Stranded` in `RotationCompletes`).

## 8. Not modelled

Cryptography, wire formats, TLS/QUIC/WSS, netlink and D-Bus calls, and user
interfaces: their correctness is not about the order of events, or lies in libraries.
Frame forwarding and traffic limits of a Relay are queues of opaque bytes; the event
outbox, join, the runtime lifecycle of a peer, fragments and the flow table are next in
the plan.  Most of the repository is request handling, formats, user interface and
platform calls around the parts modelled here, so the modules stand for a small share of
its lines.  Recursive data definitions (policy evaluation, directory chunks)
will be checked by TLC against references; what they compute for every input is beyond
the prover.
