------------------------------ MODULE Presence ------------------------------
(***************************************************************************)
(* Presence of one peer across the Relays of a mesh: the fenced leases in  *)
(* PostgreSQL (identity_presence.rs), the presence cache and the router    *)
(* fence of every Relay (presence_cache.rs, routing.rs), the peer sessions *)
(* that acquire, renew, promote and release leases                         *)
(* (runtime_peer_session.rs, runtime_peer.rs, runtime_mutations.rs), the   *)
(* announcements between Relays (runtime_backbone*.rs) and the snapshots   *)
(* that refresh a cache from the database (runtime_state.rs).              *)
(*                                                                         *)
(* One transaction, or one critical section of a mutex, is one step; what  *)
(* the source does after an await is a step of its own, so every order in  *)
(* which the database, the two mutexes and the backbone can be seen by     *)
(* concurrent tasks is explored.                                           *)
(*                                                                         *)
(* Abstractions.  Presence of different peers shares no key, so one peer   *)
(* is modelled.  Announcements are a set that only grows: any of them may  *)
(* reach a Relay late, out of order, more than once (reconnect bootstrap,  *)
(* sparse flooding) or never (full queue, torn link).  A failed handler    *)
(* tears its link down, which then loses or repeats announcements: already *)
(* covered.  The durable event cursor of a Relay is the flag `dirty`: it   *)
(* is behind the outbox.  A Relay that crashed is not booted until it has  *)
(* installed a snapshot, as its start-up does.                             *)
(***************************************************************************)
EXTENDS PresenceCache, Sequences

CONSTANTS Wanted,      \* role each attachment asks for in its handshake
          Lease,       \* lease_seconds, in clock ticks
          Scenarios    \* bounds of the behaviours to explore, see Scenario

Roles == {"primary", "standby"}

ASSUME WantedAssumption == Wanted \in [Sessions -> Roles]

\* A scenario bounds a behaviour: the attachments the peer may make, the clock,
\* failed database calls and Relay crashes, whether the operator may disable the
\* peer, and the Relays that act on outbox events (the others read the database
\* at start-up only).
Scenario == [sessions : SUBSET Sessions, time : Nat, faults : Nat, crashes : Nat,
             disable : BOOLEAN, refreshers : SUBSET Relays]

ASSUME BoundAssumption == Lease \in Nat \ {0} /\ Scenarios \subseteq Scenario

VARIABLES
  \* PostgreSQL
  counter,      \* peer_presence_generations: last generation handed out
  issued,       \* history: generation -> what it was handed out for
  rows,         \* relay_presence and relay_standby_presence_v1, by key
  enabled,      \* the peer is administratively enabled
  now,          \* wall clock
  \* each Relay
  booted,       \* the start-up snapshot is installed, listeners are open
  entries,      \* PresenceCache.entries
  generations,  \* PresenceCache.generations
  fresh,        \* keys updated since the running snapshot started
  snap,         \* progress of load_admission_snapshot
  snapRows,     \* presence rows the running snapshot read
  dirty,        \* the event cursor is behind the outbox
  fence,        \* OpaqueRouter.known_fences
  attached,     \* OpaqueRouter.attachments: generation of the local primary
  fencing,      \* handlers between presence.observe and router.observe_fence
  \* each session
  pc, role, gen, pend, deadline,
  \* backbone and environment
  msgs, faults, crashes,
  scenario      \* the bounds of this behaviour

storeVars == <<counter, issued, rows, enabled>>
cacheVars == <<entries, generations, fresh>>
snapVars == <<snap, snapRows>>
routerVars == <<fence, attached, fencing>>
sessVars == <<pc, role, gen, pend, deadline>>
envVars == <<now, faults, crashes, scenario>>
vars == <<storeVars, booted, cacheVars, snapVars, dirty, routerVars, sessVars, msgs, envVars>>

\* Progress of a session.  "acquired" and "installed" are the registration
\* under the Relay's admission lock, "promoted" and "reinstalled" the same two
\* points of a promotion; "ended" is a session that ran its clean-up to the end,
\* "lost" one whose acquire call failed, "crashed" one whose Relay died.
Phases == {"idle", "acquired", "installed", "serving", "renewed",
           "demoted", "promoting", "promoted", "reinstalled",
           "ending", "detached", "forgotten", "ended", "lost", "crashed"}

Announcement == [key : Keys, entry : Entry, released : BOOLEAN]

Issue == [key : Keys, sess : Sessions]

KeyOf(s) == PresenceKey(s, role[s])

EntryOf(s) == [gen |-> gen[s], sess |-> s, deadline |-> deadline[s]]

\* Phases in which the session runs drive_fenced_peer_records.
Serving(s) == pc[s] \in {"serving", "renewed"}

Init ==
    /\ counter = 0 /\ issued = <<>> /\ enabled = TRUE /\ now = 0
    /\ rows = [k \in Keys |-> NoEntry]
    /\ booted = [r \in Relays |-> TRUE]
    /\ entries = [r \in Relays |-> [k \in Keys |-> NoEntry]]
    /\ generations = [r \in Relays |-> [k \in Keys |-> 0]]
    /\ fresh = [r \in Relays |-> {}]
    /\ snap = [r \in Relays |-> "idle"]
    /\ snapRows = [r \in Relays |-> [k \in Keys |-> NoEntry]]
    /\ dirty = [r \in Relays |-> FALSE]
    /\ fence = [r \in Relays |-> 0]
    /\ attached = [r \in Relays |-> 0]
    /\ fencing = [r \in Relays |-> {}]
    /\ pc = [s \in Sessions |-> "idle"]
    /\ role = Wanted
    /\ gen = [s \in Sessions |-> 0]
    /\ pend = [s \in Sessions |-> 0]
    /\ deadline = [s \in Sessions |-> 0]
    /\ msgs = {} /\ faults = 0 /\ crashes = 0
    /\ scenario \in Scenarios

-----------------------------------------------------------------------------
(* Transactions of the store.                                              *)

\* Mutant: the generation is one above the rows that happen to exist, so a
\* reconnect after a release reuses it.
AcquirePresenceFromRows(s, k, until) ==
    LET g == CHOOSE n \in 1 .. counter + 1 :
                 /\ \A l \in Keys : rows[l].gen < n
                 /\ n = 1 \/ \E l \in Keys : rows[l].gen = n - 1
    IN
    /\ counter' = counter + 1
    /\ issued' = Append(issued, [key |-> k, sess |-> s])
    /\ rows' = [rows EXCEPT ![k] = [gen |-> g, sess |-> s, deadline |-> until]]
    /\ dirty' = [r \in Relays |-> r \in scenario.refreshers]
    /\ UNCHANGED enabled

\* Store::acquire_presence: the generation comes from the durable counter of
\* the peer, which all its keys share; the row of the key is overwritten and
\* an outbox event is appended in the same transaction.
AcquirePresence(s, k, until) ==
    /\ counter' = counter + 1
    /\ issued' = Append(issued, [key |-> k, sess |-> s])
    /\ rows' = [rows EXCEPT ![k] = [gen |-> counter + 1, sess |-> s, deadline |-> until]]
    /\ dirty' = [r \in Relays |-> r \in scenario.refreshers]
    /\ UNCHANGED enabled

\* Mutant: any row of the key will do.
OwnsAnyRow(s) == Present(rows[KeyOf(s)])

\* The exact (relay, attachment, role, generation) row renew and release need.
OwnsRow(s) == rows[KeyOf(s)].gen = gen[s] /\ rows[KeyOf(s)].sess = s

\* Store::renew_presence of a matching row.
RenewPresence(s, until) ==
    /\ rows' = [rows EXCEPT ![KeyOf(s)].deadline = until]
    /\ UNCHANGED <<counter, issued, enabled>>

\* Store::release_presence of a matching row; no event is appended.
ReleasePresence(s) ==
    /\ rows' = [rows EXCEPT ![KeyOf(s)] = NoEntry]
    /\ UNCHANGED <<counter, issued, enabled>>

\* A database call of the Relay fails.
DatabaseFault ==
    /\ faults < scenario.faults
    /\ faults' = faults + 1
    /\ UNCHANGED <<now, crashes, scenario>>

-----------------------------------------------------------------------------
(* The presence cache of one Relay under its mutex.                        *)

\* PresenceCache::observe at Relay r.
Observe(r, k, e, released) ==
    IF Accepts(entries[r], generations[r], k, e, released)
    THEN /\ entries' = [entries EXCEPT ![r][k] = Observed(e, released)]
         /\ generations' = [generations EXCEPT ![r][k] = e.gen]
         /\ fresh' = [fresh EXCEPT ![r] = IF snap[r] = "idle" THEN {} ELSE @ \union {k}]
    ELSE UNCHANGED cacheVars

\* broadcast_presence
Broadcast(k, e, released) ==
    msgs' = msgs \union {[key |-> k, entry |-> e, released |-> released]}

-----------------------------------------------------------------------------
(* run_peer_session: registration.                                         *)

\* The Relay holds admission_lock from the acquire call to observe_local.
Registering(r) == \E s \in Sessions : Host[s] = r /\ pc[s] \in {"acquired", "installed"}

\* acquire_presence commits under the admission lock.  The second disjunct is a
\* call whose transaction commits although the Relay sees an error: the session
\* returns without any clean-up.
Connect(s) ==
    /\ s \in scenario.sessions
    /\ pc[s] = "idle" /\ booted[Host[s]] /\ enabled /\ ~Registering(Host[s])
    /\ AcquirePresence(s, KeyOf(s), now + Lease)
    /\ deadline' = [deadline EXCEPT ![s] = now + Lease]
    /\ \/ /\ pc' = [pc EXCEPT ![s] = "acquired"]
          /\ pend' = [pend EXCEPT ![s] = counter + 1]
          /\ UNCHANGED envVars
       \/ /\ pc' = [pc EXCEPT ![s] = "lost"]
          /\ DatabaseFault
          /\ UNCHANGED pend
    /\ UNCHANGED <<role, gen, booted, cacheVars, snapVars, routerVars, msgs>>

\* OpaqueRouter::install_acquired: only a primary is installed, and only at or
\* above the known fence; the session goes on either way.
InstallAcquired(s) ==
    LET r == Host[s] IN
    /\ pc[s] \in {"acquired", "promoted"}
    /\ gen' = [gen EXCEPT ![s] = pend[s]]
    /\ pend' = [pend EXCEPT ![s] = 0]
    /\ IF role[s] = "primary" /\ pend[s] >= fence[r]
       THEN /\ fence' = [fence EXCEPT ![r] = pend[s]]
            /\ attached' = [attached EXCEPT ![r] = pend[s]]
       ELSE UNCHANGED <<fence, attached>>
    /\ pc' = [pc EXCEPT ![s] = IF pc[s] = "acquired" THEN "installed" ELSE "reinstalled"]
    /\ UNCHANGED <<storeVars, booted, cacheVars, snapVars, dirty, fencing,
                   role, deadline, msgs, envVars>>

\* presence.observe_local and the broadcast, after registration or promotion.
ObserveAcquired(s) ==
    /\ pc[s] \in {"installed", "reinstalled"}
    /\ Observe(Host[s], KeyOf(s), EntryOf(s), FALSE)
    /\ Broadcast(KeyOf(s), EntryOf(s), FALSE)
    /\ pc' = [pc EXCEPT ![s] = "serving"]
    /\ UNCHANGED <<storeVars, booted, snapVars, dirty, routerVars,
                   role, gen, pend, deadline, envVars>>

-----------------------------------------------------------------------------
(* drive_fenced_peer_records                                               *)

End(s) == pc' = [pc EXCEPT ![s] = "ending"]

\* receive_control validates the primary against the router before it pops.  The
\* revoked serials and the directory's are looked up in the same place: that a
\* session ends for them is Disconnect.
RouterAdmits(s) ==
    role[s] = "primary" => attached[Host[s]] = gen[s] /\ fence[Host[s]] = gen[s]

\* The checks at the head of the loop.
FenceHolds(s) ==
    /\ MatchesAttachment(entries[Host[s]], KeyOf(s), s, gen[s])
    /\ RouterAdmits(s)

FenceCheck(s) ==
    /\ pc[s] = "serving" /\ ~FenceHolds(s)
    /\ End(s)
    /\ UNCHANGED <<storeVars, booted, cacheVars, snapVars, dirty, routerVars,
                   role, gen, pend, deadline, msgs, envVars>>

\* The peer closes the link, the transport fails or its credential is revoked.
Disconnect(s) ==
    /\ pc[s] = "serving"
    /\ End(s)
    /\ UNCHANGED <<storeVars, booted, cacheVars, snapVars, dirty, routerVars,
                   role, gen, pend, deadline, msgs, envVars>>

\* Mutant: the row is renewed before the lease of the session moves.
RenewStaleDeadline(s) ==
    /\ pc[s] = "serving" /\ enabled /\ OwnsRow(s)
    /\ RenewPresence(s, now + Lease)
    /\ pc' = [pc EXCEPT ![s] = "renewed"]
    /\ UNCHANGED <<booted, cacheVars, snapVars, dirty, routerVars, role, gen, pend, deadline,
                   msgs, envVars>>

\* renewal.tick: a Conflict ends the session, any other error is tolerated (the
\* local deadline has moved although the row has not, or the reply was lost).
Renew(s) ==
    LET until == now + Lease IN
    /\ pc[s] = "serving"
    /\ deadline' = [deadline EXCEPT ![s] = until]
    /\ \/ /\ enabled /\ OwnsRow(s)
          /\ RenewPresence(s, until)
          /\ pc' = [pc EXCEPT ![s] = "renewed"]
          /\ UNCHANGED envVars
       \/ /\ enabled /\ ~OwnsRow(s)
          /\ End(s)
          /\ UNCHANGED <<storeVars, envVars>>
       \/ /\ ~enabled
          /\ UNCHANGED <<storeVars, pc, envVars>>
       \/ /\ DatabaseFault
          /\ \/ enabled /\ OwnsRow(s) /\ RenewPresence(s, until)
             \/ UNCHANGED storeVars
          /\ UNCHANGED pc
    /\ UNCHANGED <<booted, cacheVars, snapVars, dirty, routerVars, role, gen, pend, msgs>>

\* The persisted renewal reaches the cache and the other Relays.
ObserveRenewal(s) ==
    /\ pc[s] = "renewed"
    /\ Observe(Host[s], KeyOf(s), EntryOf(s), FALSE)
    /\ Broadcast(KeyOf(s), EntryOf(s), FALSE)
    /\ pc' = [pc EXCEPT ![s] = "serving"]
    /\ UNCHANGED <<storeVars, booted, snapVars, dirty, routerVars,
                   role, gen, pend, deadline, envVars>>

-----------------------------------------------------------------------------
(* promote_standby                                                         *)

\* The standby row goes first; a Conflict or a failed call ends the session.
PromoteRelease(s) ==
    /\ pc[s] = "serving" /\ role[s] = "standby"
    /\ \/ /\ OwnsRow(s) /\ ReleasePresence(s)
          /\ pc' = [pc EXCEPT ![s] = "demoted"]
          /\ UNCHANGED envVars
       \/ /\ ~OwnsRow(s) /\ End(s)
          /\ UNCHANGED <<storeVars, envVars>>
       \/ /\ DatabaseFault /\ End(s)
          /\ \/ OwnsRow(s) /\ ReleasePresence(s)
             \/ UNCHANGED storeVars
    /\ UNCHANGED <<booted, cacheVars, snapVars, dirty, routerVars,
                   role, gen, pend, deadline, msgs>>

\* The standby entry is released locally and on the backbone; the lease is
\* relabelled primary before the primary generation exists.
PromoteForget(s) ==
    /\ pc[s] = "demoted"
    /\ Observe(Host[s], KeyOf(s), EntryOf(s), TRUE)
    /\ Broadcast(KeyOf(s), EntryOf(s), TRUE)
    /\ role' = [role EXCEPT ![s] = "primary"]
    /\ pc' = [pc EXCEPT ![s] = "promoting"]
    /\ UNCHANGED <<storeVars, booted, snapVars, dirty, routerVars, gen, pend, deadline, envVars>>

\* Mutant: the promoted row gets a fresh deadline the session does not know.
PromoteAcquireFreshDeadline(s) ==
    /\ pc[s] = "promoting"
    /\ AcquirePresence(s, Primary, now + Lease)
    /\ pend' = [pend EXCEPT ![s] = counter + 1]
    /\ pc' = [pc EXCEPT ![s] = "promoted"]
    /\ UNCHANGED <<envVars, booted, cacheVars, snapVars, routerVars, role, gen, deadline, msgs>>

\* acquire_presence with the deadline of the last renewal; when it fails the
\* session ends with the primary role and its standby generation.
PromoteAcquire(s) ==
    /\ pc[s] = "promoting"
    /\ \/ /\ enabled /\ deadline[s] > now
          /\ AcquirePresence(s, Primary, deadline[s])
          /\ pend' = [pend EXCEPT ![s] = counter + 1]
          /\ pc' = [pc EXCEPT ![s] = "promoted"]
          /\ UNCHANGED envVars
       \/ /\ ~(enabled /\ deadline[s] > now)
          /\ End(s)
          /\ UNCHANGED <<storeVars, dirty, pend, envVars>>
       \/ /\ DatabaseFault /\ End(s)
          /\ \/ enabled /\ deadline[s] > now /\ AcquirePresence(s, Primary, deadline[s])
             \/ UNCHANGED <<storeVars, dirty>>
          /\ UNCHANGED pend
    /\ UNCHANGED <<booted, cacheVars, snapVars, routerVars, role, gen, deadline, msgs>>

-----------------------------------------------------------------------------
(* run_peer_session: clean-up.                                             *)

\* Mutant: only an attachment that is still at the known fence is removed.
DetachUnfenced(s) ==
    /\ pc[s] = "ending"
    /\ attached' = [attached EXCEPT
         ![Host[s]] = IF @ = gen[s] /\ fence[Host[s]] = gen[s] THEN 0 ELSE @]
    /\ pc' = [pc EXCEPT ![s] = "detached"]
    /\ UNCHANGED <<storeVars, booted, cacheVars, snapVars, dirty, fence, fencing,
                   role, gen, pend, deadline, msgs, envVars>>

\* OpaqueRouter::detach of the exact generation.
Detach(s) ==
    /\ pc[s] = "ending"
    /\ attached' = [attached EXCEPT ![Host[s]] = IF @ = gen[s] THEN 0 ELSE @]
    /\ pc' = [pc EXCEPT ![s] = "detached"]
    /\ UNCHANGED <<storeVars, booted, cacheVars, snapVars, dirty, fence, fencing,
                   role, gen, pend, deadline, msgs, envVars>>

\* release_local, announced only when it changed the cache.
ReleaseLocal(s) ==
    LET r == Host[s]
        k == KeyOf(s)
    IN
    /\ pc[s] = "detached"
    /\ Observe(r, k, EntryOf(s), TRUE)
    /\ IF Accepts(entries[r], generations[r], k, EntryOf(s), TRUE)
       THEN Broadcast(k, EntryOf(s), TRUE)
       ELSE UNCHANGED msgs
    /\ pc' = [pc EXCEPT ![s] = "forgotten"]
    /\ UNCHANGED <<storeVars, booted, snapVars, dirty, routerVars,
                   role, gen, pend, deadline, envVars>>

\* store.release_presence; a Conflict or an error is only logged.
ReleaseRow(s) ==
    /\ pc[s] = "forgotten"
    /\ \/ OwnsRow(s) /\ ReleasePresence(s) /\ UNCHANGED envVars
       \/ ~OwnsRow(s) /\ UNCHANGED <<storeVars, envVars>>
       \/ DatabaseFault /\ UNCHANGED storeVars
    /\ pc' = [pc EXCEPT ![s] = "ended"]
    /\ UNCHANGED <<booted, cacheVars, snapVars, dirty, routerVars,
                   role, gen, pend, deadline, msgs>>

-----------------------------------------------------------------------------
(* Backbone                                                                *)

\* Mutant: a standby announcement raises the router fence as well.
ReceiveAnyRole(r, m) ==
    /\ booted[r] /\ m.entry.sess # NoSession /\ Host[m.entry.sess] # r
    /\ Accepts(entries[r], generations[r], m.key, m.entry, m.released)
    /\ Observe(r, m.key, m.entry, m.released)
    /\ fencing' = IF ~m.released /\ m.entry.gen > generations[r][m.key]
                  THEN [fencing EXCEPT ![r] = @ \union {m.entry.gen}]
                  ELSE fencing
    /\ UNCHANGED <<storeVars, booted, snapVars, dirty, fence, attached, sessVars, msgs, envVars>>

\* handle_backbone_record, presence branch: the cache first, then (under the
\* other mutex) the router fence when a primary generation advanced.
Receive(r, m) ==
    /\ booted[r] /\ m.entry.sess # NoSession /\ Host[m.entry.sess] # r
    /\ Accepts(entries[r], generations[r], m.key, m.entry, m.released)
    /\ Observe(r, m.key, m.entry, m.released)
    /\ fencing' = IF ~m.released /\ m.key = Primary /\ m.entry.gen > generations[r][m.key]
                  THEN [fencing EXCEPT ![r] = @ \union {m.entry.gen}]
                  ELSE fencing
    /\ UNCHANGED <<storeVars, booted, snapVars, dirty, fence, attached, sessVars, msgs, envVars>>

\* OpaqueRouter::observe_fence; a lower generation is StaleFence and changes
\* nothing but the link.
ObserveFence(r) ==
    /\ \E g \in fencing[r] :
         /\ fencing' = [fencing EXCEPT ![r] = @ \ {g}]
         /\ fence' = IF g >= fence[r] THEN [fence EXCEPT ![r] = g] ELSE fence
    /\ UNCHANGED <<storeVars, booted, cacheVars, snapVars, dirty, attached, sessVars, msgs, envVars>>

\* drive_backbone opens a link with announcements_owned_by(self).
Bootstrap(r) ==
    LET owned == {[key |-> k, entry |-> entries[r][k], released |-> FALSE] :
                     k \in OwnedBy(entries[r], r)}
    IN
    /\ booted[r] /\ ~(owned \subseteq msgs)
    /\ msgs' = msgs \union owned
    /\ UNCHANGED <<storeVars, booted, cacheVars, snapVars, dirty, routerVars, sessVars, envVars>>

-----------------------------------------------------------------------------
(* load_admission_snapshot                                                 *)

\* catch_up_state finds events after its cursor, or the process is starting:
\* the cache revision is read.
SnapshotStart(r) ==
    /\ snap[r] = "idle" /\ (dirty[r] \/ ~booted[r])
    /\ snap' = [snap EXCEPT ![r] = "started"]
    /\ fresh' = [fresh EXCEPT ![r] = {}]
    /\ UNCHANGED <<storeVars, booted, entries, generations, snapRows, dirty, routerVars,
                   sessVars, msgs, envVars>>

\* relay_admission_snapshot: unexpired rows and the event high-water, in one
\* repeatable-read transaction.
SnapshotRead(r) ==
    /\ snap[r] = "started"
    /\ \/ /\ snapRows' = [snapRows EXCEPT ![r] =
                            [k \in Keys |-> IF rows[k].deadline > now THEN rows[k] ELSE NoEntry]]
          /\ snap' = [snap EXCEPT ![r] = "read"]
          /\ dirty' = [dirty EXCEPT ![r] = FALSE]
          /\ UNCHANGED envVars
       \/ /\ DatabaseFault
          /\ snap' = [snap EXCEPT ![r] = "idle"]
          /\ UNCHANGED <<snapRows, dirty>>
    /\ UNCHANGED <<storeVars, booted, cacheVars, routerVars, sessVars, msgs>>

\* install_snapshot
SnapshotInstall(r) ==
    /\ snap[r] = "read"
    /\ entries' = [entries EXCEPT ![r] =
                     InstalledEntries(@, generations[r], snapRows[r], fresh[r])]
    /\ generations' = [generations EXCEPT ![r] =
                     InstalledGenerations(entries[r], @, snapRows[r], fresh[r])]
    /\ fresh' = [fresh EXCEPT ![r] = {}]
    /\ snap' = [snap EXCEPT ![r] = "idle"]
    /\ snapRows' = [snapRows EXCEPT ![r] = [k \in Keys |-> NoEntry]]
    /\ booted' = [booted EXCEPT ![r] = TRUE]
    /\ UNCHANGED <<storeVars, dirty, routerVars, sessVars, msgs, envVars>>

-----------------------------------------------------------------------------
(* Environment                                                             *)

\* A Relay process dies: its memory and its sessions are gone, its rows stay.
Crash(r) ==
    /\ crashes < scenario.crashes
    /\ crashes' = crashes + 1
    /\ booted' = [booted EXCEPT ![r] = FALSE]
    /\ entries' = [entries EXCEPT ![r] = [k \in Keys |-> NoEntry]]
    /\ generations' = [generations EXCEPT ![r] = [k \in Keys |-> 0]]
    /\ fresh' = [fresh EXCEPT ![r] = {}]
    /\ snap' = [snap EXCEPT ![r] = "idle"]
    /\ snapRows' = [snapRows EXCEPT ![r] = [k \in Keys |-> NoEntry]]
    /\ fence' = [fence EXCEPT ![r] = 0]
    /\ attached' = [attached EXCEPT ![r] = 0]
    /\ fencing' = [fencing EXCEPT ![r] = {}]
    /\ pc' = [s \in Sessions |->
                IF Host[s] = r /\ pc[s] \notin {"idle", "ended", "lost"} THEN "crashed" ELSE pc[s]]
    /\ UNCHANGED <<storeVars, dirty, role, gen, pend, deadline, msgs, now, faults,
                   scenario>>

\* revoke_peer_access: both presence tables are emptied with the event.
DisablePeer ==
    /\ enabled /\ scenario.disable
    /\ enabled' = FALSE
    /\ rows' = [k \in Keys |-> NoEntry]
    /\ dirty' = [r \in Relays |-> r \in scenario.refreshers]
    /\ UNCHANGED <<counter, issued, booted, cacheVars, snapVars, routerVars, sessVars, msgs, envVars>>

\* The signed revocation reaches a Relay: OpaqueRouter::revoke.
RevokeCredential(r) ==
    /\ ~enabled /\ attached[r] # 0
    /\ attached' = [attached EXCEPT ![r] = 0]
    /\ UNCHANGED <<storeVars, booted, cacheVars, snapVars, dirty, fence, fencing, sessVars, msgs, envVars>>

\* maintenance.rs removes rows whose lease lapsed; the counter survives.
Prune(k) ==
    /\ Present(rows[k]) /\ rows[k].deadline < now
    /\ rows' = [rows EXCEPT ![k] = NoEntry]
    /\ UNCHANGED <<counter, issued, enabled, booted, cacheVars, snapVars, dirty, routerVars,
                   sessVars, msgs, envVars>>

Tick ==
    /\ now < scenario.time
    /\ now' = now + 1
    /\ UNCHANGED <<storeVars, booted, cacheVars, snapVars, dirty, routerVars, sessVars, msgs,
                   faults, crashes, scenario>>

-----------------------------------------------------------------------------
SessionStep(s) ==
    \/ Connect(s) \/ InstallAcquired(s) \/ ObserveAcquired(s)
    \/ FenceCheck(s) \/ Disconnect(s) \/ Renew(s) \/ ObserveRenewal(s)
    \/ PromoteRelease(s) \/ PromoteForget(s) \/ PromoteAcquire(s)
    \/ Detach(s) \/ ReleaseLocal(s) \/ ReleaseRow(s)

RelayStep(r) ==
    \/ \E m \in msgs : Receive(r, m)
    \/ ObserveFence(r) \/ Bootstrap(r)
    \/ SnapshotStart(r) \/ SnapshotRead(r) \/ SnapshotInstall(r)
    \/ Crash(r) \/ RevokeCredential(r)

Next ==
    \/ \E s \in Sessions : SessionStep(s)
    \/ \E r \in Relays : RelayStep(r)
    \/ DisablePeer \/ Tick \/ \E k \in Keys : Prune(k)

Spec == Init /\ [][Next]_vars
-----------------------------------------------------------------------------
(* Fairness.  A session task and the refresh task of a Relay never stop    *)
(* scheduling (the loop wakes every 10 ms and has a renewal timer, catch-up*)
(* runs every 5 s), so each of their pending steps is taken; nothing       *)
(* obliges a peer to connect or to ask for a promotion, nor an             *)
(* announcement to arrive.                                                 *)
FairSession(s) ==
    /\ WF_vars(InstallAcquired(s)) /\ WF_vars(ObserveAcquired(s))
    /\ WF_vars(FenceCheck(s)) /\ WF_vars(Renew(s)) /\ WF_vars(ObserveRenewal(s))
    /\ WF_vars(PromoteForget(s)) /\ WF_vars(PromoteAcquire(s))
    /\ WF_vars(Detach(s)) /\ WF_vars(ReleaseLocal(s)) /\ WF_vars(ReleaseRow(s))

FairRelay(r) ==
    /\ WF_vars(SnapshotStart(r)) /\ WF_vars(SnapshotRead(r)) /\ WF_vars(SnapshotInstall(r))
    /\ WF_vars(ObserveFence(r))

FairSpec ==
    /\ Spec
    /\ \A s \in Sessions : FairSession(s)
    /\ \A r \in Relays : FairRelay(r)

-----------------------------------------------------------------------------
(* Properties                                                              *)

\* Every variable keeps its type; generations in use are below the counter.
TypeOK ==
    /\ counter \in Nat /\ issued \in Seq(Issue) /\ Len(issued) = counter
    /\ rows \in [Keys -> Entry] /\ enabled \in BOOLEAN /\ now \in Nat
    /\ booted \in [Relays -> BOOLEAN]
    /\ entries \in [Relays -> [Keys -> Entry]]
    /\ generations \in [Relays -> [Keys -> Nat]]
    /\ fresh \in [Relays -> SUBSET Keys]
    /\ snap \in [Relays -> {"idle", "started", "read"}]
    /\ snapRows \in [Relays -> [Keys -> Entry]]
    /\ dirty \in [Relays -> BOOLEAN]
    /\ fence \in [Relays -> Nat] /\ attached \in [Relays -> Nat]
    /\ fencing \in [Relays -> SUBSET Nat]
    /\ pc \in [Sessions -> Phases] /\ role \in [Sessions -> Roles]
    /\ gen \in [Sessions -> Nat] /\ pend \in [Sessions -> Nat]
    /\ deadline \in [Sessions -> Nat]
    /\ msgs \subseteq Announcement
    /\ faults \in Nat /\ crashes \in Nat /\ scenario \in Scenarios

\* Two Relays that name an owner for the same generation name the same session
\* in the same role, whatever snapshots, announcements, crashes and failed
\* calls they have seen.  This is what makes a generation usable as a fence
\* (acquire_presence: "a reconnect never reuses a released generation").
OneOwnerPerGeneration ==
    \A r, q \in Relays : \A k, l \in Keys :
        (Present(entries[r][k]) /\ entries[r][k].gen = entries[q][l].gen)
            => k = l /\ entries[r][k].sess = entries[q][l].sess

\* The router fence is only ever raised to a generation that was handed out
\* for the primary role (runtime_backbone_link.rs: "A standby's generation must
\* never replace the primary fence").
RouterFencesArePrimary ==
    \A r \in Relays : fence[r] # 0 => fence[r] <= counter /\ issued[fence[r]].key = Primary

\* The same for the fences the presence cache keeps per key: the generation
\* that fences a key was handed out for that key (spec/PROTOCOL.md: the primary
\* fence is global, standby fences are keyed by Relay).
CacheFencesKeepTheirRole ==
    \A r \in Relays : \A k \in Keys :
        generations[r][k] # 0 => issued[generations[r][k]].key = k

\* A session whose exact, unexpired row is in the database is not thrown out
\* by its own Relay: no snapshot, announcement, release of another session or
\* fence update in flight makes the checks of its loop fail.  A failed promotion
\* or the lapse of another lease of the peer may, so both are excluded.
LiveSessionNotFenced ==
    faults = 0 /\ now = 0 =>
        \A s \in Sessions :
            Serving(s) /\ OwnsRow(s) /\ rows[KeyOf(s)].deadline > now => FenceHolds(s)

\* A session that ran its clean-up is gone from the database and from the cache
\* of its own Relay, and no snapshot read before the row was deleted brings it
\* back.  After a failed release the row stays until its lease lapses.
EndedSessionIsGone ==
    faults = 0 =>
        \A s \in Sessions : \A k \in Keys :
            pc[s] = "ended" => rows[k].sess # s /\ entries[Host[s]][k].sess # s

\* The router never keeps an attachment that no session will detach: frames
\* queued for it would never be drained.
NoOrphanAttachment ==
    \A r \in Relays : attached[r] # 0 =>
        \E s \in Sessions :
            /\ Host[s] = r /\ gen[s] = attached[r] /\ role[s] = "primary"
            /\ pc[s] \in {"installed", "reinstalled", "serving", "renewed", "ending"}

\* No copy of a lease, in the database, in a cache or in flight, outlives the
\* deadline its session last asked for: after a crash every Relay stops routing
\* to the dead session within one lease, unless it has lost the database and lets
\* expired entries pass (permit_expired in presence_cache.rs).
LeaseBoundsCopies ==
    LET Bounded(e) == Present(e) => e.deadline <= deadline[e.sess] IN
    /\ \A k \in Keys : Bounded(rows[k])
    /\ \A r \in Relays : \A k \in Keys : Bounded(entries[r][k])
    /\ \A m \in msgs : Bounded(m.entry)

\* The error returns of observe_local and release_local inside registration,
\* renewal and promotion are never taken: whatever snapshots and announcements
\* reached the Relay since the row was written, its own view of the session
\* does not contradict it (an error after registration would leave the router
\* with an attachment nobody detaches).
LocalObserveSucceeds ==
    \A s \in Sessions : LET ents == entries[Host[s]] IN
        /\ pc[s] \in {"installed", "reinstalled", "renewed"}
               => ~Conflicts(ents, KeyOf(s), EntryOf(s), FALSE)
        /\ pc[s] = "demoted" => ~Conflicts(ents, KeyOf(s), EntryOf(s), TRUE)

\* An entry enters a cache only with a generation above everything the Relay
\* has seen for the key: a released or superseded incarnation never comes back.
NoResurrection ==
    [][\A r \in Relays : \A k \in Keys :
          Present(entries[r][k]') =>
              \/ entries[r][k]'.gen > generations[r][k]
              \/ entries[r][k]'.gen = entries[r][k].gen]_vars

\* A primary session that the database has superseded ends, even when every
\* announcement is lost and the new owner has already left again: its next
\* renewal meets the fence.
SupersededSessionEnds ==
    \A s \in Sessions :
        (Serving(s) /\ role[s] = "primary" /\ rows[Primary].gen > gen[s])
            ~> pc[s] \in {"ended", "crashed"}

\* A live primary owner becomes known to every Relay that follows the outbox, on
\* whichever Relay it is, though announcements are lost and the Relay restarts.
OwnerBecomesKnown ==
    \A r \in Relays : \A s \in Sessions :
        (r \in scenario.refreshers /\ rows[Primary].sess = s)
            ~> \/ rows[Primary].sess # s \/ rows[Primary].deadline <= now
               \/ generations[r][Primary] >= rows[Primary].gen
=============================================================================
