---------------------------- MODULE ControlState ----------------------------
(***************************************************************************)
(* The rows of one Mesh in PostgreSQL, the transactions of Control and of  *)
(* the store that change them, and the publisher that turns them into      *)
(* signed state: crates/peerward-store/src/store and                       *)
(* crates/peerward-control/src/control.                                    *)
(*                                                                         *)
(* Every mutating transaction locks the Mesh row, so a transaction is one  *)
(* action.  What is not atomic is kept apart: a publisher pass is a series *)
(* of transactions of one Control instance, several instances run it at    *)
(* once, and a policy request reads the services before it takes the lock. *)
(* Signed bodies are the projections of the rows; keys, names, addresses   *)
(* and signatures are abstracted to the serials they belong to.            *)
(***************************************************************************)
EXTENDS Naturals, FiniteSets, FiniteSetsExt

CONSTANTS
    Authorities, Peers, PeerSerials, Relays, RelaySerials, Services,
    PeerOf,         \* the Peer a Peer credential is issued to
    RelayOf,        \* the Relay a Relay credential is issued to
    ProviderOf,     \* the Peer that provides a service
    FirstAuthority, FirstRelay, FirstRelaySerial,  \* the initial installation
    FirstSerial, FirstService,  \* a device that may have joined it, and its service
    Controls,       \* Control instances that run the publisher
    NoAuthority, Nobody,
    SignedStateVersions,  \* maintenance.signed_state_versions
    Scopes          \* bounds: what a behaviour explores, see Families

Subjects == PeerSerials \cup RelaySerials
Serials == Authorities \cup Subjects

\* A scope bounds a behaviour: the families of transactions that occur in it,
\* how many of them, how many lapses, and the Control instances that run.
Families == {"admission", "devices", "authorities", "relays", "services", "policy"}

ASSUME InstallationAssumption ==
    /\ IsFiniteSet(Peers)
    /\ PeerOf \in [PeerSerials -> Peers]
    /\ RelayOf \in [RelaySerials -> Relays]
    /\ ProviderOf \in [Services -> Peers]
    /\ FirstAuthority \in Authorities
    /\ FirstRelay \in Relays
    /\ FirstRelaySerial \in RelaySerials
    /\ RelayOf[FirstRelaySerial] = FirstRelay
    /\ FirstSerial \in PeerSerials
    /\ FirstService \in Services
    /\ ProviderOf[FirstService] = PeerOf[FirstSerial]
    /\ NoAuthority \notin Authorities
    /\ Nobody \notin Controls
    /\ Authorities \cap Subjects = {}
    /\ PeerSerials \cap RelaySerials = {}
    /\ SignedStateVersions \in Nat \ {0}
    /\ Scopes \subseteq [families : SUBSET Families,
                         changes : Nat, lapses : Nat, controls : SUBSET Controls]

VARIABLES
    db,       \* the rows of the Mesh that signed state is projected from
    signed,   \* signed_state_revisions: kind -> revision -> body
    config,   \* the newest row of kind 'configuration': {} or {its parts}
    clock,    \* the deadlines that have passed: not_after, overlap_deadline
              \* and admission_until
    draft,    \* the policy a put_policy request computed before it took the lock
    pub,      \* publisher pass of each Control instance
    elected,  \* holder of the advisory lock peerward.publisher.<mesh>
    scope,    \* the bounds of this behaviour, a member of Scopes
    changes,  \* transactions of administration and devices so far
    lapses    \* deadlines passed and passes aborted so far

vars == <<db, signed, config, clock, draft, pub, elected, scope, changes, lapses>>


Lifecycles == {"none", "staged", "active", "overlap", "revoked", "gone"}
Revisions == {"authority", "directory", "relay", "policy", "service",
              "revocation", "management"}
Kinds == {"authorities", "peers", "relays", "policy", "services", "revocations"}

RevisionOf(kind) ==
    CASE kind = "authorities" -> "authority"
      [] kind = "peers"       -> "directory"
      [] kind = "relays"      -> "relay"
      [] kind = "policy"      -> "policy"
      [] kind = "services"    -> "service"
      [] kind = "revocations" -> "revocation"

-----------------------------------------------------------------------------
(* The signed projections: publish_mesh_state's queries.  r is the row set  *)
(* they read, c the clock at which they run.                               *)

InValidity(c, x) == x \notin c.expired

Accepted(r, c, x) ==
    \/ r.life[x] = "active"
    \/ r.life[x] = "overlap" /\ x \notin c.overdue

ActiveSubject(r, c, x) ==
    /\ r.life[x] = "active"
    /\ InValidity(c, x)
    /\ Accepted(r, c, r.issuer[x])

AuthoritiesBody(r, c) ==
    [trusted |-> {a \in Authorities : Accepted(r, c, a) /\ InValidity(c, a)},
     revoked |-> {a \in Authorities : r.life[a] = "revoked"}]

\* accepted_bindings of a listed Peer
PeerBindings(r, c, p) ==
    {x \in PeerSerials : /\ PeerOf[x] = p
                         /\ Accepted(r, c, x) /\ InValidity(c, x)
                         /\ Accepted(r, c, r.issuer[x]) /\ InValidity(c, r.issuer[x])}

ListedPeers(r, c) ==
    {p \in Peers : /\ r.peer[p] = "enabled"
                   /\ r.addressed[p]
                   /\ \E x \in PeerSerials : PeerOf[x] = p /\ ActiveSubject(r, c, x)}

PeersBody(r, c) == [p \in ListedPeers(r, c) |-> PeerBindings(r, c, p)]

RelaysBody(r, c) ==
    {x \in RelaySerials : /\ ActiveSubject(r, c, x)
                          /\ r.relay[RelayOf[x]] = "enabled"
                          /\ RelayOf[x] \notin r.suspended}

\* service s is offered through the credential x of its provider
Reachable(r, c, s, x) ==
    /\ r.service[s] = "enabled"
    /\ s \notin r.paused
    /\ PeerOf[x] = ProviderOf[s]
    /\ r.peer[ProviderOf[s]] = "enabled"
    /\ r.addressed[ProviderOf[s]]
    /\ ActiveSubject(r, c, x)

ServicesBody(r, c) == {o \in Services \X PeerSerials : Reachable(r, c, o[1], o[2])}

RevocationsBody(r) ==
    {x \in Serials : \/ r.life[x] = "revoked"
                     \/ /\ x \in Subjects
                        /\ r.life[x] \notin {"none", "gone"}
                        /\ r.life[r.issuer[x]] = "revoked"}

Projection(kind, r, c) ==
    CASE kind = "authorities" -> AuthoritiesBody(r, c)
      [] kind = "peers"       -> PeersBody(r, c)
      [] kind = "relays"      -> RelaysBody(r, c)
      [] kind = "policy"      -> r.policy
      [] kind = "services"    -> ServicesBody(r, c)
      [] kind = "revocations" -> RevocationsBody(r)

\* The newest stored revision of a kind, if there is one.
Latest(s, kind) == {n \in DOMAIN s[kind] : \A m \in DOMAIN s[kind] : m <= n}

\* effective_console_policy: the administrator's rules and, for an enabled
\* service that is paused, a rule that denies it.
EffectivePolicy(r, rules) ==
    [rules |-> rules, denied |-> {s \in r.paused : r.service[s] = "enabled"}]

-----------------------------------------------------------------------------
(* Transactions.  Commit(r) commits the row set r as one more change.      *)

\* The revisions in columns move n times.
Raise(r, columns, n) ==
    [r EXCEPT !.rev = [k \in Revisions |-> r.rev[k] + IF k \in columns THEN n ELSE 0]]

Bump(r, columns) == Raise(r, columns, 1)

\* Rows deleted by maintenance are "gone": a serial is never used twice.
Rows(r, xs) == {x \in xs : r.life[x] \notin {"none", "gone"}}

Set(r, xs, lifecycle) ==
    [r EXCEPT !.life = [x \in Serials |-> IF x \in xs THEN lifecycle ELSE r.life[x]]]

\* A row that becomes overlap gets a new overlap_deadline, one that leaves it
\* has none.
Deadlines(r, s) ==
    [clock EXCEPT !.overdue = {x \in clock.overdue : r.life[x] = "overlap"
                                                    /\ s.life[x] = "overlap"}]

Store(r) == db' = r /\ clock' = Deadlines(db, r)

Commit(r) ==
    /\ changes < scope.changes
    /\ changes' = changes + 1
    /\ Store(r)
    /\ UNCHANGED <<signed, config, draft, pub, elected, lapses, scope>>

ActiveAuthority(a) == db.life[a] = "active" /\ InValidity(clock, a)

\* The check of claim_public_join and issue_peer_rotation: any overlap
\* Authority within its validity, whatever its overlap deadline.
AuthorityValid(a) ==
    db.life[a] \in {"active", "overlap"} /\ InValidity(clock, a)

\* lock_enabled_peer
EnabledPeer(p) == db.peer[p] = "enabled" /\ p \notin clock.admissions

CredentialsOf(p) == {x \in PeerSerials : PeerOf[x] = p}
CredentialsOfAll(ps) == {x \in PeerSerials : PeerOf[x] \in ps}

-----------------------------------------------------------------------------
(* Devices.                                                                *)

CreatePeer(p) ==
    /\ db.peer[p] = "none"
    /\ Commit(Bump([db EXCEPT !.peer[p] = "enabled"], {"directory"}))

\* claim_public_join of a new Peer: its row, its addresses and its first
\* credential, active at once, in one transaction.
Joined(r, x, a) ==
    Bump([Set(r, {x}, "active") EXCEPT !.peer[PeerOf[x]] = "enabled",
                                       !.addressed[PeerOf[x]] = TRUE,
                                       !.issuer[x] = a],
         {"directory"})

ClaimJoin(x, a) ==
    /\ db.peer[PeerOf[x]] = "none" /\ db.life[x] = "none"
    /\ AuthorityValid(a)
    /\ Commit(Joined(db, x, a))

\* revoke_peer_access of every Peer in ps, one after the other.
RevokePeerAccess(r, ps) ==
    Raise([Set(r, Rows(r, CredentialsOfAll(ps)), "revoked") EXCEPT
             !.addressed = [p \in Peers |-> p \notin ps /\ r.addressed[p]],
             !.rotation = [p \in Peers |->
                             IF p \in ps /\ r.rotation[p] \in {"pending", "issued"}
                             THEN "cancelled" ELSE r.rotation[p]],
             !.service = [s \in Services |->
                            IF ProviderOf[s] \in ps /\ r.service[s] = "enabled"
                            THEN "disabled" ELSE r.service[s]]],
          {"directory", "service", "revocation", "management"}, Cardinality(ps))

\* patch_peer with administrative_state 'enabled'
EnablePeer(p) ==
    /\ db.peer[p] \in {"enabled", "disabled"}
    /\ p \notin db.ended /\ p \notin clock.admissions
    /\ Commit(Bump([db EXCEPT !.peer[p] = "enabled"], {"directory"}))

\* patch_peer with administrative_state 'disabled'
PatchPeerDisabled(p) ==
    /\ db.peer[p] \in {"enabled", "disabled"}
    /\ Commit(Bump(RevokePeerAccess([db EXCEPT !.peer[p] = "disabled"], {p}), {"directory"}))

DisablePeer(p) ==
    /\ db.peer[p] = "enabled"
    /\ Commit(RevokePeerAccess([db EXCEPT !.peer[p] = "disabled"], {p}))

RetireConsoleDevice(p) ==
    /\ db.peer[p] = "enabled"
    /\ Commit(RevokePeerAccess([db EXCEPT !.peer[p] = "disabled"], {p}))

DeletePeer(p) ==
    /\ db.peer[p] = "disabled"
    /\ Commit(RevokePeerAccess([db EXCEPT !.peer[p] = "deleted"], {p}))

\* Mutant: the addresses stay assigned.
BulkDisablePeersAddressed(ps) ==
    /\ \A p \in ps : db.peer[p] = "enabled"
    /\ Commit(Bump([Set(db, Rows(db, CredentialsOfAll(ps)), "revoked") EXCEPT
                      !.peer = [p \in Peers |-> IF p \in ps THEN "disabled" ELSE db.peer[p]]],
                   {"directory", "service", "revocation"}))

\* bulk_disable_peers, which cancels no rotation request
BulkDisablePeers(ps) ==
    /\ \A p \in ps : db.peer[p] = "enabled"
    /\ Commit(Bump([Set(db, Rows(db, CredentialsOfAll(ps)), "revoked") EXCEPT
                      !.peer = [p \in Peers |-> IF p \in ps THEN "disabled" ELSE db.peer[p]],
                      !.addressed = [p \in Peers |-> p \notin ps /\ db.addressed[p]],
                      !.service = [s \in Services |->
                                      IF ProviderOf[s] \in ps /\ db.service[s] = "enabled"
                                      THEN "disabled" ELSE db.service[s]]],
                   {"directory", "service", "revocation"}))

RequestPeerRotation(p, x) ==
    /\ EnabledPeer(p)
    /\ PeerOf[x] = p /\ Accepted(db, clock, x) /\ InValidity(clock, x)
    /\ db.rotation[p] \in {"none", "cancelled", "activated"}
    /\ Commit([db EXCEPT !.rotation[p] = "pending"])

ActivatePeerRotation(p, x) ==
    /\ EnabledPeer(p)
    /\ db.rotation[p] = "issued"
    /\ PeerOf[x] = p /\ db.life[x] = "staged"
    /\ \E y \in CredentialsOf(p) : db.life[y] = "active"
    /\ LET overlap == {y \in CredentialsOf(p) : db.life[y] = "overlap"}
           active  == {y \in CredentialsOf(p) : db.life[y] = "active"}
       IN  Commit(Bump([Set(Set(Set(db, overlap, "revoked"), active, "overlap"),
                            {x}, "active") EXCEPT !.rotation[p] = "activated"],
                       {"directory", "service", "revocation"}))

-----------------------------------------------------------------------------
(* Credentials and Authorities.                                            *)

StageAuthority(a) ==
    /\ db.life[a] = "none"
    /\ Commit(Set(db, {a}, "staged"))

Holders(x) ==
    CASE x \in Authorities  -> Authorities
      [] x \in PeerSerials  -> CredentialsOf(PeerOf[x])
      [] x \in RelaySerials -> {y \in RelaySerials : RelayOf[y] = RelayOf[x]}

\* Mutant: a transition of a Peer credential leaves the services alone.
TransitionColumnsNoService(x) ==
    CASE x \in Authorities  -> {"authority", "directory", "relay", "service", "revocation"}
      [] x \in PeerSerials  -> {"directory", "revocation"}
      [] x \in RelaySerials -> {"relay", "revocation"}

TransitionColumns(x) ==
    CASE x \in Authorities  -> {"authority", "directory", "relay", "service", "revocation"}
      [] x \in PeerSerials  -> {"directory", "service", "revocation"}
      [] x \in RelaySerials -> {"relay", "revocation"}

\* transition_credential to active: the previous holder stays for an overlap
ActivateCredential(x) ==
    /\ db.life[x] = "staged"
    /\ x \in PeerSerials => db.peer[PeerOf[x]] # "deleted"
    /\ Commit(Bump(Set(Set(db, {y \in Holders(x) : db.life[y] = "active"}, "overlap"),
                       {x}, "active"),
                   TransitionColumns(x)))

RevokeCredential(x) ==
    /\ db.life[x] \in {"staged", "active", "overlap"}
    /\ x \in PeerSerials => db.peer[PeerOf[x]] # "deleted"
    /\ Commit(Bump(Set(db, {x}, "revoked"), TransitionColumns(x)))

\* rotate_subject: a replacement for a Relay is staged under the active Authority
RotateRelay(x) ==
    /\ db.life[x] = "none"
    /\ db.relay[RelayOf[x]] # "none"
    /\ \E a \in Authorities :
         /\ ActiveAuthority(a)
         /\ Commit([Set(db, {x}, "staged") EXCEPT !.issuer[x] = a])

\* renew_relay_credentials of a managed Relay: a new active credential, the
\* previous one overlaps
RenewRelayCredential(x) ==
    /\ db.life[x] = "none"
    /\ RelayOf[x] \notin db.suspended
    /\ \E y \in Holders(x) : db.life[y] = "active"
    /\ \E a \in Authorities :
         /\ ActiveAuthority(a)
         /\ Commit(Bump([Set(Set(db, {y \in Holders(x) : db.life[y] = "active"}, "overlap"),
                             {x}, "active") EXCEPT !.issuer[x] = a],
                        {"relay"}))

-----------------------------------------------------------------------------
(* Relays, services and policies.                                          *)

CreateRelay(q) ==
    /\ db.relay[q] = "none"
    /\ Commit(Bump([db EXCEPT !.relay[q] = "enabled"], {"relay"}))

\* relay_host_public_key: a managed host enrols its Relay
EnrolRelay(x) ==
    /\ db.life[x] = "none"
    /\ db.relay[RelayOf[x]] = "none"
    /\ \E a \in Authorities :
         /\ ActiveAuthority(a)
         /\ Commit(Bump([Set(db, {x}, "active") EXCEPT
                           !.issuer[x] = a, !.relay[RelayOf[x]] = "enabled"],
                        {"relay"}))

PatchRelay(q, state) ==
    /\ db.relay[q] \in {"enabled", "disabled"}
    /\ Commit(Bump([db EXCEPT !.relay[q] = state], {"relay"}))

RevokeRelays(r, qs) ==
    [Set(r, Rows(r, {x \in RelaySerials : RelayOf[x] \in qs}), "revoked") EXCEPT
        !.relay = [q \in Relays |-> IF q \in qs THEN "disabled" ELSE r.relay[q]]]

DeleteRelay(q) ==
    /\ db.relay[q] = "enabled"
    /\ Commit(Bump(RevokeRelays(db, {q}), {"relay", "directory", "revocation"}))

BulkDisableRelays(qs) ==
    /\ \A q \in qs : db.relay[q] = "enabled"
    /\ Commit(Bump(RevokeRelays(db, qs), {"relay", "directory", "revocation"}))

\* change_host_assignments: a host under maintenance is suspended or resumed
ChangeHostAssignment(q) ==
    /\ db.relay[q] # "none"
    /\ Commit(Bump([db EXCEPT !.suspended = SymDiff(@, {q})], {"relay"}))

Offered(r, s) == Bump([r EXCEPT !.service[s] = "enabled"], {"service", "directory"})

CreateService(s) ==
    /\ db.service[s] = "none"
    /\ db.peer[ProviderOf[s]] \in {"enabled", "disabled"}
    /\ Commit(Offered(db, s))

\* delete_service, and apply_bulk_mutation of the service family
DisableServices(ss) ==
    /\ \A s \in ss : db.service[s] = "enabled"
    /\ Commit(Bump([db EXCEPT !.service = [s \in Services |->
                        IF s \in ss THEN "disabled" ELSE db.service[s]]],
                   {"service", "directory"}))

\* ensure_authenticated_peer
AuthenticatedPeer(p) ==
    /\ db.peer[p] = "enabled"
    /\ \E x \in CredentialsOf(p) : Accepted(db, clock, x) /\ InValidity(clock, x)

PublishPeerService(s) ==
    /\ AuthenticatedPeer(ProviderOf[s])
    /\ Commit(Offered(db, s))

RemovePeerService(s) ==
    /\ AuthenticatedPeer(ProviderOf[s])
    /\ db.service[s] = "enabled"
    /\ Commit(Bump([db EXCEPT !.service[s] = "disabled"], {"service", "directory"}))

\* stage_peer_policy once the document is computed and the revision compared
StagePolicy(r, document, revision) ==
    [Bump(r, {"directory"}) EXCEPT !.policy = document, !.rev["policy"] = revision]

\* The document recompiled for the row set r, at the next revision.
Recompiled(r) ==
    StagePolicy(r, EffectivePolicy(r, r.policy.rules), r.rev["policy"] + 1)

\* edit_console_service: pause, resume or change of the endpoint
EditConsoleService(s, paused) ==
    /\ db.service[s] = "enabled"
    /\ LET r == [db EXCEPT !.paused = IF paused THEN @ \cup {s} ELSE @ \ {s}]
       IN  Commit(Bump(Recompiled(r), {"service", "directory", "management"}))

\* put_policy, first half: the client chose the rules and a revision above the
\* one it knew, and effective_console_policy reads the services of the moment,
\* before FOR UPDATE is taken on the Mesh.
ComputePolicy(rules, ahead) ==
    /\ draft = {}
    /\ changes < scope.changes
    /\ draft' = {[document |-> EffectivePolicy(db, rules),
                  revision |-> db.rev["policy"] + ahead]}
    /\ UNCHANGED <<db, signed, config, clock, pub, elected, changes, lapses, scope>>

\* put_policy, second half: the lock is taken and the computed document stored,
\* unless the revision has been overtaken.
PutPolicy ==
    \E d \in draft :
        /\ changes < scope.changes
        /\ changes' = changes + 1
        /\ db' = IF d.revision > db.rev["policy"]
                 THEN StagePolicy(db, d.document, d.revision) ELSE db
        /\ draft' = {}
        /\ UNCHANGED <<signed, config, clock, pub, elected, lapses, scope>>

\* A transaction of the network resources, bindings, collections, DNS or
\* evidence that ends in bump_management.
ChangeResources ==
    Commit(Bump([db EXCEPT !.resources = @ + 1], {"management"}))

AdmissionTransactions ==
    \/ \E p \in Peers : CreatePeer(p) \/ RetireConsoleDevice(p) \/ DeletePeer(p)
    \/ \E x \in PeerSerials, a \in Authorities : ClaimJoin(x, a)

DeviceTransactions ==
    \/ \E p \in Peers :
         \/ EnablePeer(p) \/ PatchPeerDisabled(p) \/ DisablePeer(p)
         \/ \E x \in PeerSerials : RequestPeerRotation(p, x) \/ ActivatePeerRotation(p, x)
    \/ \E ps \in SUBSET Peers \ {{}} : BulkDisablePeers(ps)
    \/ \E x \in PeerSerials : ActivateCredential(x) \/ RevokeCredential(x)

AuthorityTransactions ==
    \E a \in Authorities : StageAuthority(a) \/ ActivateCredential(a) \/ RevokeCredential(a)

RelayTransactions ==
    \/ \E x \in RelaySerials :
         \/ RotateRelay(x) \/ RenewRelayCredential(x) \/ EnrolRelay(x)
         \/ ActivateCredential(x) \/ RevokeCredential(x)
    \/ \E q \in Relays :
         \/ CreateRelay(q) \/ DeleteRelay(q) \/ ChangeHostAssignment(q)
         \/ \E state \in {"enabled", "disabled"} : PatchRelay(q, state)
    \/ \E qs \in SUBSET Relays \ {{}} : BulkDisableRelays(qs)

ServiceTransactions ==
    \/ \E s \in Services :
         \/ CreateService(s)
         \/ \E paused \in BOOLEAN : EditConsoleService(s, paused)
         \/ PublishPeerService(s) \/ RemovePeerService(s)
    \/ \E ss \in SUBSET Services \ {{}} : DisableServices(ss)

PolicyTransactions ==
    \/ \E rules \in {"open", "closed"}, ahead \in {1, 2} : ComputePolicy(rules, ahead)
    \/ PutPolicy
    \/ ChangeResources

Transactions ==
    \/ "admission" \in scope.families /\ AdmissionTransactions
    \/ "devices" \in scope.families /\ DeviceTransactions
    \/ "authorities" \in scope.families /\ AuthorityTransactions
    \/ "relays" \in scope.families /\ RelayTransactions
    \/ "services" \in scope.families /\ ServiceTransactions
    \/ "policy" \in scope.families /\ PolicyTransactions

-----------------------------------------------------------------------------
(* Time.  A deadline passes; nothing is written.                           *)

Lapse(c) ==
    /\ lapses < scope.lapses
    /\ lapses' = lapses + 1
    /\ clock' = c
    /\ UNCHANGED <<db, signed, config, draft, pub, elected, changes, scope>>

PassNotAfter(x) ==
    /\ db.life[x] \notin {"none", "gone"} /\ x \notin clock.expired
    /\ Lapse([clock EXCEPT !.expired = @ \cup {x}])

PassOverlapDeadline(x) ==
    /\ db.life[x] = "overlap" /\ x \notin clock.overdue
    /\ Lapse([clock EXCEPT !.overdue = @ \cup {x}])

PassAdmission(p) ==
    /\ db.peer[p] = "enabled" /\ p \notin clock.admissions
    /\ Lapse([clock EXCEPT !.admissions = @ \cup {p}])

\* Evidence of a device expires: read_device_admission now returns something
\* else, and no revision has moved.
EvidenceLapses ==
    /\ lapses < scope.lapses
    /\ lapses' = lapses + 1
    /\ db' = [db EXCEPT !.resources = @ + 1]
    /\ UNCHANGED <<signed, config, clock, draft, pub, elected, changes, scope>>

Time ==
    \/ \E x \in Serials : PassNotAfter(x) \/ PassOverlapDeadline(x)
    \/ \E p \in Peers : PassAdmission(p)
    \/ EvidenceLapses

-----------------------------------------------------------------------------
(* The publisher: one pass of run_publisher over the Mesh, per instance.   *)

Idle == [pc |-> "idle", issuer |-> NoAuthority, rows |-> {}, stored |-> {}]

Goto(k, pc) == pub' = [pub EXCEPT ![k].pc = pc]

\* The read-only transaction ends; publish_configuration is next.
EndTransaction(k) ==
    pub' = [pub EXCEPT ![k] = [Idle EXCEPT !.pc = "config", !.issuer = pub[k].issuer]]

\* retire_device_admission for every Peer that is due
ExpireDeviceAdmissions(k) ==
    /\ pub[k].pc = "idle"
    /\ LET due == {p \in Peers : db.peer[p] = "enabled" /\ p \in clock.admissions}
           r   == [db EXCEPT !.peer = [p \in Peers |->
                                         IF p \in due THEN "disabled" ELSE db.peer[p]],
                             !.ended = @ \cup due]
       IN  Store(RevokePeerAccess(r, due))
    /\ Goto(k, "expire")
    /\ UNCHANGED <<signed, config, draft, elected, changes, lapses, scope>>

Lapsed(x) ==
    /\ db.life[x] \in {"active", "overlap"}
    /\ x \in clock.expired \/ x \in clock.overdue

\* Mutant: expiry moves the revocations but not the Peer directory.
ExpiryColumnsNoDirectory(xs) ==
    UNION {TransitionColumns(x) : x \in xs} \ {"directory"}

ExpiryColumns(xs) ==
    UNION {TransitionColumns(x) : x \in xs}

\* expire_credentials, and active_issuer that reads what it left: without an
\* active Authority the pass fails.  A pass that is not elected for the expiry, or
\* skips a row another transaction has locked, goes on with rows that have lapsed,
\* like one whose rows lapse after this step.
ExpireCredentials(k) ==
    /\ pub[k].pc = "expire"
    /\ LET due == {x \in Serials : Lapsed(x)}
           r   == Bump(Set(db, due, "revoked"), ExpiryColumns(due))
       IN  /\ Store(r)
           /\ \/ \E a \in Authorities :
                   /\ r.life[a] = "active"
                   /\ pub' = [pub EXCEPT ![k] = [Idle EXCEPT !.pc = "issue", !.issuer = a]]
              \/ /\ \A a \in Authorities : r.life[a] # "active"
                 /\ pub' = [pub EXCEPT ![k] = Idle]
    /\ UNCHANGED <<signed, config, draft, elected, changes, lapses, scope>>

\* The requests that can be served; a serial must be left in the model.
Serviceable ==
    {p \in Peers : /\ db.rotation[p] = "pending" /\ EnabledPeer(p)
                   /\ \E x \in CredentialsOf(p) : db.life[x] = "none"}

\* The serial of the credential that answers the request of p.
FreshSerial(p) == CHOOSE x \in CredentialsOf(p) : db.life[x] = "none"

\* issue_pending_peer_rotations: a staged credential for each request, under the
\* issuer picked before; an issuer that is no longer valid fails the pass.  The code
\* turns down what ends within 60 seconds: an Authority in its last minute fails the
\* pass (AbortPass), and a request of a device in its last minute waits for the end
\* of the admission, as when it lapses a step earlier.
IssuePendingPeerRotations(k) ==
    /\ pub[k].pc = "issue"
    /\ LET a == pub[k].issuer
           fresh == {FreshSerial(p) : p \in Serviceable}
           r == [Set(db, fresh, "staged") EXCEPT
                   !.issuer = [x \in Subjects |-> IF x \in fresh THEN a ELSE db.issuer[x]],
                   !.rotation = [p \in Peers |-> IF p \in Serviceable THEN "issued"
                                                 ELSE db.rotation[p]]]
       IN  \/ /\ Serviceable = {} \/ AuthorityValid(a)
              /\ Store(Raise(r, {"directory"}, Cardinality(Serviceable)))
              /\ Goto(k, "refresh")
           \/ /\ Serviceable # {} /\ ~AuthorityValid(a)
              /\ pub' = [pub EXCEPT ![k] = Idle]
              /\ UNCHANGED <<db, clock>>
    /\ UNCHANGED <<signed, config, draft, elected, changes, lapses, scope>>

\* Mutant: a recompiled document is not stored.
RefreshNothing(k) ==
    /\ pub[k].pc = "refresh"
    /\ Goto(k, "snapshot")
    /\ UNCHANGED <<db, signed, config, clock, draft, elected, changes, lapses, scope>>

\* refresh_console_service_policy recompiles the stored document
RefreshConsoleServicePolicy(k) ==
    /\ pub[k].pc = "refresh"
    /\ db' = IF EffectivePolicy(db, db.policy.rules) = db.policy THEN db ELSE Recompiled(db)
    /\ Goto(k, "snapshot")
    /\ UNCHANGED <<signed, config, clock, draft, elected, changes, lapses, scope>>

\* The first query of the REPEATABLE READ transaction fixes what it sees: the
\* rows and the newest revision stored of each kind.
Snapshot(k) ==
    /\ pub[k].pc = "snapshot"
    /\ pub' = [pub EXCEPT ![k].pc = "elect",
                          ![k].rows = {db},
                          ![k].stored = {[kind \in Kinds |-> Latest(signed, kind)]}]
    /\ UNCHANGED <<db, signed, config, clock, draft, elected, changes, lapses, scope>>

\* the kinds whose revision in the snapshot is not the newest stored
Changed(k) ==
    {kind \in Kinds : \E r \in pub[k].rows, s \in pub[k].stored :
                          s[kind] # {r.rev[RevisionOf(kind)]}}

\* pg_try_advisory_xact_lock, the issuer's row, and the revisions
Elect(k) ==
    /\ pub[k].pc = "elect"
    /\ \/ /\ elected # Nobody
          /\ EndTransaction(k)
          /\ UNCHANGED elected
       \/ /\ elected = Nobody
          /\ LET signer(r) == /\ r.life[pub[k].issuer] = "active"
                              /\ InValidity(clock, pub[k].issuer)
             IN  \/ /\ \A r \in pub[k].rows : ~signer(r)
                    /\ pub' = [pub EXCEPT ![k] = Idle]
                    /\ UNCHANGED elected
                 \/ /\ \A r \in pub[k].rows : signer(r)
                    /\ IF Changed(k) = {}
                       THEN EndTransaction(k) /\ UNCHANGED elected
                       ELSE Goto(k, "publish") /\ elected' = k
    /\ UNCHANGED <<db, signed, config, clock, draft, changes, lapses, scope>>

\* The projections are read from the snapshot at the time of the query, signed
\* and inserted; a stored revision with other bytes is a SignedStateConflict.
PublishStates(k) ==
    /\ pub[k].pc = "publish"
    /\ \E r \in pub[k].rows :
         LET revision(kind) == r.rev[RevisionOf(kind)]
             body(kind) == Projection(kind, r, clock)
             conflict == \E kind \in Changed(k) :
                            /\ revision(kind) \in DOMAIN signed[kind]
                            /\ signed[kind][revision(kind)] # body(kind)
             unsigned == /\ "authorities" \in Changed(k)
                         /\ ~InValidity(clock, pub[k].issuer)
         IN  \/ /\ conflict \/ unsigned
                /\ pub' = [pub EXCEPT ![k] = Idle]
                /\ UNCHANGED signed
             \/ /\ ~(conflict \/ unsigned)
                /\ signed' = [kind \in Kinds |->
                                IF kind \in Changed(k)
                                THEN [n \in DOMAIN signed[kind] \cup {revision(kind)} |->
                                        IF n \in DOMAIN signed[kind] THEN signed[kind][n]
                                        ELSE body(kind)]
                                ELSE signed[kind]]
                /\ EndTransaction(k)
    /\ elected' = Nobody
    /\ UNCHANGED <<db, config, clock, draft, changes, lapses, scope>>

ConfigurationKinds == {"authorities", "peers", "policy", "revocations"}

Component(version, bytes) == [version |-> version, bytes |-> bytes]

\* The parts of a manifest: the bodies at the revisions of the Mesh row r and
\* the network resources at its management revision.
Parts(r) ==
    [part \in ConfigurationKinds \cup {"resources"} |->
        IF part = "resources" THEN Component(r.rev["management"], r.resources)
        ELSE Component(r.rev[RevisionOf(part)], signed[part][r.rev[RevisionOf(part)]])]

\* Mutant: changed resources keep their version.
ReusedVersionIgnored == FALSE

\* "Never reuse a component version for changed bytes": the resources of the
\* previous delivery differ under the same management revision.
ReusedVersion ==
    \E previous \in config :
        /\ previous["resources"].bytes # db.resources
        /\ previous["resources"].version = db.rev["management"]

PublishConfiguration(k) ==
    /\ pub[k].pc = "config"
    /\ LET fenced == IF ReusedVersion THEN Bump(db, {"management"}) ELSE db
           ready  == /\ ActiveAuthority(pub[k].issuer)
                     /\ \A kind \in ConfigurationKinds :
                           db.rev[RevisionOf(kind)] \in DOMAIN signed[kind]
       IN  IF ready
           THEN db' = fenced /\ config' = {Parts(fenced)}
           ELSE UNCHANGED <<db, config>>
    /\ pub' = [pub EXCEPT ![k] = Idle]
    /\ UNCHANGED <<signed, clock, draft, elected, changes, lapses, scope>>

\* An error of the database, an active Authority whose private key this instance
\* does not have, or a crash of the instance ends the pass: its transactions roll
\* back and the advisory lock is released.
AbortPass(k) ==
    /\ pub[k].pc # "idle"
    /\ lapses < scope.lapses
    /\ lapses' = lapses + 1
    /\ pub' = [pub EXCEPT ![k] = Idle]
    /\ elected' = IF elected = k THEN Nobody ELSE elected
    /\ UNCHANGED <<db, signed, config, clock, draft, changes, scope>>

\* observe_ephemeral_peers, which follows, retires a device that has been offline too
\* long by the same retire_device_admission: here its admission has lapsed, and
\* ExpireDeviceAdmissions retires it.
Pass(k) ==
    \/ ExpireDeviceAdmissions(k) \/ ExpireCredentials(k)
    \/ IssuePendingPeerRotations(k) \/ RefreshConsoleServicePolicy(k)
    \/ Snapshot(k) \/ Elect(k) \/ PublishStates(k) \/ PublishConfiguration(k)

\* Store maintenance: rows of credentials and Authorities whose not_after is an
\* hour or more in the past and that nothing refers to are deleted, and so are
\* all but the newest SignedStateVersions of each kind.  An hour is 720 publisher
\* intervals, so no row is deleted before expire_credentials has seen it lapse.
Unreferenced(x) ==
    CASE x \in Authorities -> \A y \in Subjects : db.issuer[y] = x => Rows(db, {y}) = {}
      [] x \in PeerSerials -> db.rotation[PeerOf[x]] \notin {"pending", "issued"}
      [] x \in RelaySerials -> TRUE

DeleteExpired ==
    /\ \E x \in clock.expired :
         /\ db.life[x] \in {"staged", "revoked"}
         /\ Unreferenced(x)
         /\ db' = Set(db, {x}, "gone")
    /\ UNCHANGED <<signed, config, clock, draft, pub, elected, changes, lapses, scope>>

PruneSignedStates ==
    LET newest(kind) ==
            {n \in DOMAIN signed[kind] :
                Cardinality({m \in DOMAIN signed[kind] : m > n}) < SignedStateVersions}
    IN  /\ \E kind \in Kinds : newest(kind) # DOMAIN signed[kind]
        /\ signed' = [kind \in Kinds |-> [n \in newest(kind) |-> signed[kind][n]]]
        /\ UNCHANGED <<db, config, clock, draft, pub, elected, changes, lapses, scope>>

-----------------------------------------------------------------------------

\* initialize_installation
Provisioned ==
    [life      |-> [x \in Serials |-> IF x \in {FirstAuthority, FirstRelaySerial}
                                     THEN "active" ELSE "none"],
     issuer    |-> [x \in Subjects |-> FirstAuthority],
     peer      |-> [p \in Peers |-> "none"],
     addressed |-> [p \in Peers |-> FALSE],
     ended     |-> {},
     rotation  |-> [p \in Peers |-> "none"],
     relay     |-> [q \in Relays |-> IF q = FirstRelay THEN "enabled" ELSE "none"],
     suspended |-> {},
     service   |-> [s \in Services |-> "none"],
     paused    |-> {},
     policy    |-> [rules |-> "open", denied |-> {}],
     resources |-> 0,
     rev       |-> [k \in Revisions |-> IF k = "directory" THEN 0 ELSE 1]]

\* The installation as provisioned, or once a device has joined and offered its
\* service; a first pass has signed every kind and no configuration yet.
Init ==
    /\ db \in {Provisioned,
              Offered(Joined(Provisioned, FirstSerial, FirstAuthority), FirstService)}
    /\ clock = [expired |-> {}, overdue |-> {}, admissions |-> {}]
    /\ signed = [kind \in Kinds |->
                    [n \in {db.rev[RevisionOf(kind)]} |-> Projection(kind, db, clock)]]
    /\ config = {}
    /\ draft = {}
    /\ pub = [k \in Controls |-> Idle]
    /\ elected = Nobody
    /\ scope \in Scopes
    /\ changes = 0 /\ lapses = 0

Next ==
    \/ Transactions \/ Time
    \/ \E k \in scope.controls : Pass(k) \/ AbortPass(k)
    \/ DeleteExpired \/ PruneSignedStates

Spec == Init /\ [][Next]_vars

\* Every instance keeps running passes: a 5 s interval and the event signal.
\* A policy request that computed its document goes on to take the lock.
FairSpec ==
    /\ Spec
    /\ \A k \in Controls : WF_vars(k \in scope.controls /\ Pass(k))
    /\ WF_vars(PutPolicy)

-----------------------------------------------------------------------------
(* Properties.                                                             *)

\* What the rows and the passes are made of.
MeshRows ==
    [life : [Serials -> Lifecycles], issuer : [Subjects -> Authorities],
     peer : [Peers -> {"none", "enabled", "disabled", "deleted"}],
     addressed : [Peers -> BOOLEAN], ended : SUBSET Peers,
     rotation : [Peers -> {"none", "pending", "issued", "activated", "cancelled"}],
     relay : [Relays -> {"none", "enabled", "disabled"}], suspended : SUBSET Relays,
     service : [Services -> {"none", "enabled", "disabled"}], paused : SUBSET Services,
     policy : [rules : {"open", "closed"}, denied : SUBSET Services],
     resources : Nat, rev : [Revisions -> Nat]]

Clocks == [expired : SUBSET Serials, overdue : SUBSET Serials, admissions : SUBSET Peers]

\* a pass that has gone beyond expire_credentials has its issuer
Passes ==
    {pass \in [pc : {"idle", "expire", "issue", "refresh", "snapshot", "elect", "publish",
                     "config"},
               issuer : Authorities \cup {NoAuthority}, rows : SUBSET MeshRows,
               stored : SUBSET [Kinds -> SUBSET Nat]] :
        pass.pc \in {"idle", "expire"} \/ pass.issuer \in Authorities}

Drafts == [document : [rules : {"open", "closed"}, denied : SUBSET Services], revision : Nat]

TypeOK ==
    /\ db \in MeshRows /\ clock \in Clocks
    /\ DOMAIN signed = Kinds /\ \A kind \in Kinds : DOMAIN signed[kind] \subseteq Nat
    /\ draft \subseteq Drafts
    /\ pub \in [Controls -> Passes] /\ elected \in Controls \cup {Nobody}
    /\ scope \in Scopes /\ changes \in Nat /\ lapses \in Nat

\* The clocks at which a projection of the present rows may have been taken.
EarlierClocks ==
    [expired : SUBSET clock.expired, overdue : SUBSET clock.overdue,
     admissions : {clock.admissions}]

\* A body and a projection that differ only in revoked serials whose rows have
\* been deleted from the rows r since the body was signed.
UpToDeleted(kind, r, body, projection) ==
    LET deleted == {x \in Serials : r.life[x] = "gone"}
    IN  CASE kind = "revocations" -> /\ projection \subseteq body
                                     /\ body \subseteq projection \cup deleted
          [] kind = "authorities" -> /\ projection.trusted = body.trusted
                                     /\ projection.revoked \subseteq body.revoked
                                     /\ body.revoked \subseteq projection.revoked \cup deleted
          [] OTHER                -> body = projection

\* What is stored at the current revision of a kind is the projection of the
\* rows as they are now, except for deadlines that passed since and that no
\* expiry pass has turned into a revocation.  Whatever transaction changes what
\* a projection shows must therefore move that kind's revision, however the
\* passes of several Control instances interleave with it.
NoStaleProjection ==
    \A kind \in Kinds :
        LET n == db.rev[RevisionOf(kind)]
        IN  n \in DOMAIN signed[kind] =>
                \E c \in EarlierClocks :
                    UpToDeleted(kind, db, signed[kind][n], Projection(kind, db, c))

\* The parts of the newest configuration fit together although they were signed
\* in different passes: no binding of its directory is in its revocation list,
\* and every binding was issued by an Authority its bundle trusts.
ConfigurationConsistent ==
    \A c \in config :
        \A p \in DOMAIN c["peers"].bytes :
            \A x \in c["peers"].bytes[p] :
                /\ x \notin c["revocations"].bytes
                /\ db.issuer[x] \in c["authorities"].bytes.trusted

\* From one configuration to the next no part goes back to an earlier version
\* and none keeps its version with other bytes: devices compare versions and
\* digests, and would refuse the delivery.
NoVersionReuse ==
    [][\A old \in config, new \in config' :
          \A part \in DOMAIN old :
              \/ new[part].version > old[part].version
              \/ new[part] = old[part]]_vars

Listed(p) ==
    LET n == db.rev["directory"]
    IN  n \in DOMAIN signed["peers"] /\ p \in DOMAIN signed["peers"][n]

\* A device whose access was stopped is never listed again, even when it is
\* enabled again, a rotation request of its survives and an administrator
\* activates the credential that request produced.
StoppedDeviceStaysOut ==
    \A p \in Peers : [](db.peer[p] \in {"disabled", "deleted"} => []~Listed(p))

Published ==
    /\ db.policy = EffectivePolicy(db, db.policy.rules)
    /\ ~\E x \in Serials : Lapsed(x)
    /\ ~\E p \in Peers : db.peer[p] = "enabled" /\ p \in clock.admissions
    /\ \A kind \in Kinds : Latest(signed, kind) = {db.rev[RevisionOf(kind)]}
    /\ config = {Parts(db)}

\* Once administration, devices and clocks leave the Mesh alone, the publisher
\* catches up with all of it: no lapse stays unprocessed, every kind is signed
\* at its current revision, the newest configuration delivers them, and the
\* policy denies exactly the paused services, unless no Authority is left to
\* sign.
EventuallyPublished ==
    <>[](Published \/ ~\E a \in Authorities : ActiveAuthority(a))

====
