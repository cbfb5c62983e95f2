--------------------------- MODULE PresenceProofs ---------------------------
(***************************************************************************)
(* Proofs about Presence for every set of Relays and sessions, every       *)
(* number of faults and crashes and every length of the run.               *)
(***************************************************************************)
EXTENDS Presence, TLAPS

USE HostAssumption, KeyAssumption, WantedAssumption, BoundAssumption

\* PresenceKey names a key of the session's own Relay or the primary key.
LEMMA PresenceKeyType ==
    ASSUME NEW s \in Sessions, NEW rl \in Roles
    PROVE  PresenceKey(s, rl) \in Keys
BY DEF PresenceKey, Keys, Roles

\* The absent entry is an entry.
LEMMA NoEntryType == NoEntry \in Entry /\ ~Present(NoEntry)
BY DEF NoEntry, Entry, Present

\* What observe writes is well typed.
LEMMA ObserveType ==
    ASSUME TypeOK, NEW r \in Relays, NEW k \in Keys, NEW e \in Entry, NEW rel \in BOOLEAN,
           Observe(r, k, e, rel)
    PROVE  /\ entries' \in [Relays -> [Keys -> Entry]]
           /\ generations' \in [Relays -> [Keys -> Nat]]
           /\ fresh' \in [Relays -> SUBSET Keys]
<1>1. CASE Accepts(entries[r], generations[r], k, e, rel)
  <2>1. Observed(e, rel) \in Entry /\ e.gen \in Nat
    BY NoEntryType DEF Observed, Entry
  <2>2. /\ entries' = [entries EXCEPT ![r] = [entries[r] EXCEPT ![k] = Observed(e, rel)]]
        /\ generations' = [generations EXCEPT ![r] = [generations[r] EXCEPT ![k] = e.gen]]
        /\ fresh' = [fresh EXCEPT ![r] = IF snap[r] = "idle" THEN {} ELSE fresh[r] \union {k}]
    BY <1>1 DEF Observe
  <2>3. entries[r] \in [Keys -> Entry] /\ generations[r] \in [Keys -> Nat] /\ fresh[r] \in SUBSET Keys
    BY DEF TypeOK
  <2>4. /\ [entries[r] EXCEPT ![k] = Observed(e, rel)] \in [Keys -> Entry]
        /\ [generations[r] EXCEPT ![k] = e.gen] \in [Keys -> Nat]
    BY <2>1, <2>3
  <2> QED BY <2>2, <2>3, <2>4 DEF TypeOK
<1>2. CASE ~Accepts(entries[r], generations[r], k, e, rel)
  BY <1>2 DEF Observe, cacheVars, TypeOK
<1> QED BY <1>1, <1>2

\* What a session announces is well typed.
LEMMA SessionEntryType ==
    ASSUME TypeOK, NEW s \in Sessions
    PROVE  EntryOf(s) \in Entry /\ KeyOf(s) \in Keys
BY PresenceKeyType DEF EntryOf, Entry, TypeOK, KeyOf

\* An announcement joins the announcements.
LEMMA BroadcastType ==
    ASSUME TypeOK, NEW k \in Keys, NEW e \in Entry, NEW rel \in BOOLEAN, Broadcast(k, e, rel)
    PROVE  msgs' \subseteq Announcement
BY DEF Broadcast, Announcement, TypeOK

\* acquire_presence leaves the store well typed.
LEMMA AcquireType ==
    ASSUME TypeOK, NEW s \in Sessions, NEW k \in Keys, NEW until \in Nat,
           AcquirePresence(s, k, until)
    PROVE  /\ counter' \in Nat /\ issued' \in Seq(Issue) /\ Len(issued') = counter'
           /\ rows' \in [Keys -> Entry] /\ enabled' \in BOOLEAN
           /\ dirty' \in [Relays -> BOOLEAN]
<1>1. [key |-> k, sess |-> s] \in Issue /\ [gen |-> counter + 1, sess |-> s, deadline |-> until] \in Entry
  BY DEF Issue, Entry, TypeOK
<1>2. dirty' = [r \in Relays |-> r \in scenario.refreshers] BY DEF AcquirePresence
<1>3. dirty' \in [Relays -> BOOLEAN]
  <2>1. \A r \in Relays : (r \in scenario.refreshers) \in BOOLEAN OBVIOUS
  <2> QED BY <1>2, <2>1, Zenon
<1>4. /\ counter' \in Nat /\ issued' \in Seq(Issue) /\ Len(issued') = counter'
      /\ rows' \in [Keys -> Entry] /\ enabled' \in BOOLEAN
  BY <1>1 DEF AcquirePresence, TypeOK
<1> QED BY <1>3, <1>4

\* A failed call, like an untouched environment, keeps clock and budgets.
LEMMA EnvType ==
    ASSUME TypeOK, DatabaseFault \/ UNCHANGED envVars
    PROVE  now' \in Nat /\ faults' \in Nat /\ crashes' \in Nat /\ scenario' \in Scenarios
BY DEF DatabaseFault, envVars, TypeOK

\* A snapshot leaves the view of a Relay well typed.
LEMMA InstallType ==
    ASSUME NEW ents \in [Keys -> Entry], NEW gens \in [Keys -> Nat],
           NEW rws \in [Keys -> Entry], NEW fr \in SUBSET Keys
    PROVE  /\ InstalledEntries(ents, gens, rws, fr) \in [Keys -> Entry]
           /\ InstalledGenerations(ents, gens, rws, fr) \in [Keys -> Nat]
<1>1. Retained(ents, rws, fr) \in [Keys -> Entry]
  BY NoEntryType DEF Retained
<1>2. \A k \in Keys : rws[k].gen \in Nat
  BY DEF Entry
<1> QED BY <1>1, <1>2 DEF InstalledEntries, InstalledGenerations

\* A session step keeps every variable in its type.
LEMMA SessionTypeOK ==
    ASSUME TypeOK, NEW s \in Sessions, SessionStep(s)
    PROVE  TypeOK'
<1> Host[s] \in Relays OBVIOUS
<1>s. EntryOf(s) \in Entry /\ KeyOf(s) \in Keys BY SessionEntryType
<1>1. CASE Connect(s)
  <2>1. now + Lease \in Nat BY DEF TypeOK
  <2>2. AcquirePresence(s, KeyOf(s), now + Lease) BY <1>1 DEF Connect
  <2>3. /\ counter' \in Nat /\ issued' \in Seq(Issue) /\ Len(issued') = counter'
        /\ rows' \in [Keys -> Entry] /\ enabled' \in BOOLEAN /\ dirty' \in [Relays -> BOOLEAN]
    BY <1>s, <2>1, <2>2, AcquireType
  <2>4. now' \in Nat /\ faults' \in Nat /\ crashes' \in Nat /\ scenario' \in Scenarios
    BY <1>1, EnvType DEF Connect
  <2>5. pc' \in [Sessions -> Phases] /\ pend' \in [Sessions -> Nat] /\ deadline' \in [Sessions -> Nat]
    <3>1. /\ pc \in [Sessions -> Phases] /\ pend \in [Sessions -> Nat]
          /\ deadline \in [Sessions -> Nat] /\ counter + 1 \in Nat
      BY DEF TypeOK
    <3>2. /\ pc' = [pc EXCEPT ![s] = "acquired"] \/ pc' = [pc EXCEPT ![s] = "lost"]
          /\ pend' = [pend EXCEPT ![s] = counter + 1] \/ pend' = pend
          /\ deadline' = [deadline EXCEPT ![s] = now + Lease]
      BY <1>1 DEF Connect
    <3> QED BY <2>1, <3>1, <3>2 DEF Phases
  <2>6. UNCHANGED <<role, gen, booted, cacheVars, snapVars, routerVars, msgs>>
    BY <1>1 DEF Connect
  <2> QED BY <2>3, <2>4, <2>5, <2>6 DEF TypeOK, cacheVars, snapVars, routerVars
<1>2. CASE InstallAcquired(s)
  <2>1. fence' \in [Relays -> Nat] /\ attached' \in [Relays -> Nat]
    <3>1. fence \in [Relays -> Nat] /\ attached \in [Relays -> Nat] /\ pend[s] \in Nat
      BY DEF TypeOK
    <3>2. /\ fence' = [fence EXCEPT ![Host[s]] = pend[s]] \/ fence' = fence
          /\ attached' = [attached EXCEPT ![Host[s]] = pend[s]] \/ attached' = attached
      BY <1>2 DEF InstallAcquired
    <3> QED BY <3>1, <3>2
  <2>2. pc' \in [Sessions -> Phases] /\ gen' \in [Sessions -> Nat] /\ pend' \in [Sessions -> Nat]
    BY <1>2 DEF InstallAcquired, TypeOK, Phases
  <2>3. UNCHANGED <<storeVars, booted, cacheVars, snapVars, dirty, fencing, role, deadline, msgs, envVars>>
    BY <1>2 DEF InstallAcquired
  <2> QED BY <2>1, <2>2, <2>3 DEF TypeOK, storeVars, cacheVars, snapVars, envVars
<1>3. CASE ObserveAcquired(s)
  <2>1. /\ entries' \in [Relays -> [Keys -> Entry]] /\ generations' \in [Relays -> [Keys -> Nat]]
        /\ fresh' \in [Relays -> SUBSET Keys] /\ msgs' \subseteq Announcement
    BY <1>3, <1>s, ObserveType, BroadcastType DEF ObserveAcquired
  <2> QED
    BY <1>3, <2>1 DEF ObserveAcquired, TypeOK, Phases, storeVars, snapVars, routerVars, envVars
<1>4. CASE FenceCheck(s)
  BY <1>4 DEF FenceCheck, End, TypeOK, Phases, storeVars, cacheVars, snapVars, routerVars, envVars
<1>5. CASE Disconnect(s)
  BY <1>5 DEF Disconnect, End, TypeOK, Phases, storeVars, cacheVars, snapVars, routerVars, envVars
<1>6. CASE Renew(s)
  <2>1. now + Lease \in Nat BY DEF TypeOK
  <2>2. /\ rows' \in [Keys -> Entry] /\ UNCHANGED <<counter, issued, enabled>>
    <3>1. CASE RenewPresence(s, now + Lease)
      <4>1. [rows[KeyOf(s)] EXCEPT !.deadline = now + Lease] \in Entry
        BY <2>1, <1>s DEF TypeOK, Entry
      <4> QED BY <3>1, <4>1 DEF RenewPresence, TypeOK
    <3>2. CASE UNCHANGED storeVars BY <3>2 DEF storeVars, TypeOK
    <3> QED BY <1>6, <3>1, <3>2 DEF Renew
  <2>3. now' \in Nat /\ faults' \in Nat /\ crashes' \in Nat /\ scenario' \in Scenarios
    BY <1>6, EnvType DEF Renew
  <2>4. pc' \in [Sessions -> Phases] /\ deadline' \in [Sessions -> Nat]
    BY <1>6, <2>1 DEF Renew, End, TypeOK, Phases
  <2>5. UNCHANGED <<booted, cacheVars, snapVars, dirty, routerVars, role, gen, pend, msgs>>
    BY <1>6 DEF Renew
  <2> QED BY <2>2, <2>3, <2>4, <2>5 DEF TypeOK, cacheVars, snapVars, routerVars
<1>7. CASE ObserveRenewal(s)
  <2>1. /\ entries' \in [Relays -> [Keys -> Entry]] /\ generations' \in [Relays -> [Keys -> Nat]]
        /\ fresh' \in [Relays -> SUBSET Keys] /\ msgs' \subseteq Announcement
    BY <1>7, <1>s, ObserveType, BroadcastType DEF ObserveRenewal
  <2> QED BY <1>7, <2>1 DEF ObserveRenewal, TypeOK, Phases, storeVars, snapVars, routerVars, envVars
<1>8. CASE PromoteRelease(s)
  <2>1. rows' \in [Keys -> Entry] /\ UNCHANGED <<counter, issued, enabled>>
    BY <1>8, <1>s, NoEntryType DEF PromoteRelease, ReleasePresence, TypeOK, storeVars
  <2>2. now' \in Nat /\ faults' \in Nat /\ crashes' \in Nat /\ scenario' \in Scenarios
    BY <1>8, EnvType DEF PromoteRelease
  <2>3. pc' \in [Sessions -> Phases]
    BY ZenonT(60), <1>8 DEF PromoteRelease, End, TypeOK, Phases
  <2>4. UNCHANGED <<booted, cacheVars, snapVars, dirty, routerVars, role, gen, pend, deadline, msgs>>
    BY <1>8 DEF PromoteRelease
  <2> QED BY <2>1, <2>2, <2>3, <2>4 DEF TypeOK, cacheVars, snapVars, routerVars
<1>9. CASE PromoteForget(s)
  <2>1. /\ entries' \in [Relays -> [Keys -> Entry]] /\ generations' \in [Relays -> [Keys -> Nat]]
        /\ fresh' \in [Relays -> SUBSET Keys] /\ msgs' \subseteq Announcement
    BY <1>9, <1>s, ObserveType, BroadcastType DEF PromoteForget
  <2> QED
    BY <1>9, <2>1 DEF PromoteForget, TypeOK, Phases, Roles, storeVars, snapVars, routerVars, envVars
<1>10. CASE PromoteAcquire(s)
  <2>1. deadline[s] \in Nat /\ Primary \in Keys BY DEF TypeOK, Keys
  <2>2. /\ counter' \in Nat /\ issued' \in Seq(Issue) /\ Len(issued') = counter'
        /\ rows' \in [Keys -> Entry] /\ enabled' \in BOOLEAN /\ dirty' \in [Relays -> BOOLEAN]
    <3>1. CASE AcquirePresence(s, Primary, deadline[s]) BY <3>1, <2>1, AcquireType
    <3>2. CASE UNCHANGED <<storeVars, dirty>> BY <3>2 DEF storeVars, TypeOK
    <3> QED BY <1>10, <3>1, <3>2 DEF PromoteAcquire
  <2>3. now' \in Nat /\ faults' \in Nat /\ crashes' \in Nat /\ scenario' \in Scenarios
    BY <1>10, EnvType DEF PromoteAcquire
  <2>4. pc' \in [Sessions -> Phases] /\ pend' \in [Sessions -> Nat]
    <3>1. pc \in [Sessions -> Phases] /\ pend \in [Sessions -> Nat] /\ counter + 1 \in Nat
      BY DEF TypeOK
    <3>2. /\ pc' = [pc EXCEPT ![s] = "promoted"] \/ pc' = [pc EXCEPT ![s] = "ending"]
          /\ pend' = [pend EXCEPT ![s] = counter + 1] \/ pend' = pend
      BY <1>10 DEF PromoteAcquire, End
    <3> QED BY <3>1, <3>2 DEF Phases
  <2>5. UNCHANGED <<booted, cacheVars, snapVars, routerVars, role, gen, deadline, msgs>>
    BY <1>10 DEF PromoteAcquire
  <2> QED BY <2>2, <2>3, <2>4, <2>5 DEF TypeOK, cacheVars, snapVars, routerVars
<1>11. CASE Detach(s)
  BY <1>11 DEF Detach, TypeOK, Phases, storeVars, cacheVars, snapVars, envVars
<1>12. CASE ReleaseLocal(s)
  <2>1. /\ entries' \in [Relays -> [Keys -> Entry]] /\ generations' \in [Relays -> [Keys -> Nat]]
        /\ fresh' \in [Relays -> SUBSET Keys]
    BY <1>12, <1>s, ObserveType DEF ReleaseLocal
  <2>2. msgs' \subseteq Announcement
    BY <1>12, <1>s, BroadcastType DEF ReleaseLocal, TypeOK
  <2> QED
    BY <1>12, <2>1, <2>2 DEF ReleaseLocal, TypeOK, Phases, storeVars, snapVars, routerVars, envVars
<1>13. CASE ReleaseRow(s)
  <2>1. rows' \in [Keys -> Entry] /\ UNCHANGED <<counter, issued, enabled>>
    BY <1>13, <1>s, NoEntryType DEF ReleaseRow, ReleasePresence, TypeOK, storeVars
  <2>2. now' \in Nat /\ faults' \in Nat /\ crashes' \in Nat /\ scenario' \in Scenarios
    BY <1>13, EnvType DEF ReleaseRow
  <2>3. pc' \in [Sessions -> Phases]
    BY <1>13 DEF ReleaseRow, TypeOK, Phases
  <2>4. UNCHANGED <<booted, cacheVars, snapVars, dirty, routerVars, role, gen, pend, deadline, msgs>>
    BY <1>13 DEF ReleaseRow
  <2> QED BY <2>1, <2>2, <2>3, <2>4 DEF TypeOK, cacheVars, snapVars, routerVars
<1> QED BY <1>1, <1>2, <1>3, <1>4, <1>5, <1>6, <1>7, <1>8, <1>9, <1>10, <1>11, <1>12, <1>13
        DEF SessionStep

\* A step of a Relay, of the operator, of maintenance or of the clock keeps
\* every variable in its type.
LEMMA EnvironmentTypeOK ==
    ASSUME TypeOK,
           \/ \E r \in Relays : RelayStep(r)
           \/ DisablePeer \/ Tick \/ \E k \in Keys : Prune(k)
    PROVE  TypeOK'
<1>1. ASSUME NEW r \in Relays, NEW m \in msgs, Receive(r, m) PROVE TypeOK'
  <2>1. m.key \in Keys /\ m.entry \in Entry /\ m.released \in BOOLEAN
    BY DEF TypeOK, Announcement
  <2>2. /\ entries' \in [Relays -> [Keys -> Entry]] /\ generations' \in [Relays -> [Keys -> Nat]]
        /\ fresh' \in [Relays -> SUBSET Keys]
    BY <1>1, <2>1, ObserveType DEF Receive
  <2>3. fencing' \in [Relays -> SUBSET Nat]
    <3>1. fencing \in [Relays -> SUBSET Nat] /\ m.entry.gen \in Nat BY <2>1 DEF TypeOK, Entry
    <3>2. \/ fencing' = fencing
          \/ fencing' = [fencing EXCEPT ![r] = fencing[r] \union {m.entry.gen}]
      BY <1>1 DEF Receive
    <3> QED BY <3>1, <3>2
  <2>4. UNCHANGED <<storeVars, booted, snapVars, dirty, fence, attached, sessVars, msgs, envVars>>
    BY <1>1 DEF Receive
  <2> QED BY <2>2, <2>3, <2>4 DEF TypeOK, storeVars, snapVars, sessVars, envVars
<1>2. ASSUME NEW r \in Relays, ObserveFence(r) PROVE TypeOK'
  <2>1. PICK g \in fencing[r] :
          /\ fencing' = [fencing EXCEPT ![r] = @ \ {g}]
          /\ fence' = IF g >= fence[r] THEN [fence EXCEPT ![r] = g] ELSE fence
    BY <1>2 DEF ObserveFence
  <2>2. g \in Nat BY DEF TypeOK
  <2>3. fencing' \in [Relays -> SUBSET Nat] /\ fence' \in [Relays -> Nat]
    BY <2>1, <2>2 DEF TypeOK
  <2> QED BY <1>2, <2>3 DEF ObserveFence, TypeOK, storeVars, cacheVars, snapVars, sessVars, envVars
<1>3. ASSUME NEW r \in Relays, Bootstrap(r) PROVE TypeOK'
  <2>1. \A k \in Keys : [key |-> k, entry |-> entries[r][k], released |-> FALSE] \in Announcement
    BY DEF TypeOK, Announcement
  <2>2. msgs' \subseteq Announcement
    BY <1>3, <2>1 DEF Bootstrap, OwnedBy, TypeOK
  <2> QED BY <1>3, <2>2 DEF Bootstrap, TypeOK, storeVars, cacheVars, snapVars, routerVars,
                sessVars, envVars
<1>4. ASSUME NEW r \in Relays, SnapshotStart(r) PROVE TypeOK'
  BY <1>4 DEF SnapshotStart, TypeOK, storeVars, routerVars, sessVars, envVars
<1>5. ASSUME NEW r \in Relays, SnapshotRead(r) PROVE TypeOK'
  <2>1. now' \in Nat /\ faults' \in Nat /\ crashes' \in Nat /\ scenario' \in Scenarios
    BY <1>5, EnvType DEF SnapshotRead
  <2>2. [k \in Keys |-> IF rows[k].deadline > now THEN rows[k] ELSE NoEntry] \in [Keys -> Entry]
    BY NoEntryType DEF TypeOK
  <2>3. /\ snapRows' \in [Relays -> [Keys -> Entry]] /\ dirty' \in [Relays -> BOOLEAN]
        /\ snap' \in [Relays -> {"idle", "started", "read"}]
    <3>1. /\ snapRows \in [Relays -> [Keys -> Entry]] /\ dirty \in [Relays -> BOOLEAN]
          /\ snap \in [Relays -> {"idle", "started", "read"}]
      BY DEF TypeOK
    <3>2. \/ /\ snapRows' = [snapRows EXCEPT ![r] =
                  [k \in Keys |-> IF rows[k].deadline > now THEN rows[k] ELSE NoEntry]]
             /\ dirty' = [dirty EXCEPT ![r] = FALSE] /\ snap' = [snap EXCEPT ![r] = "read"]
          \/ /\ UNCHANGED <<snapRows, dirty>> /\ snap' = [snap EXCEPT ![r] = "idle"]
      BY <1>5 DEF SnapshotRead
    <3>3. dirty' \in [Relays -> BOOLEAN] BY <3>1, <3>2
    <3>4. snapRows' \in [Relays -> [Keys -> Entry]] BY <2>2, <3>1, <3>2
    <3>5. snap' \in [Relays -> {"idle", "started", "read"}] BY <3>1, <3>2
    <3> QED BY <3>3, <3>4, <3>5
  <2>4. UNCHANGED <<storeVars, booted, cacheVars, routerVars, sessVars, msgs>>
    BY <1>5 DEF SnapshotRead
  <2> QED BY <2>1, <2>3, <2>4 DEF TypeOK, storeVars, cacheVars, routerVars, sessVars
<1>6. ASSUME NEW r \in Relays, SnapshotInstall(r) PROVE TypeOK'
  <2>1. /\ entries[r] \in [Keys -> Entry] /\ generations[r] \in [Keys -> Nat]
        /\ snapRows[r] \in [Keys -> Entry] /\ fresh[r] \in SUBSET Keys
        /\ [k \in Keys |-> NoEntry] \in [Keys -> Entry]
    BY NoEntryType DEF TypeOK
  <2>2. /\ InstalledEntries(entries[r], generations[r], snapRows[r], fresh[r]) \in [Keys -> Entry]
        /\ InstalledGenerations(entries[r], generations[r], snapRows[r], fresh[r]) \in [Keys -> Nat]
    BY <2>1, InstallType
  <2>3. /\ entries' \in [Relays -> [Keys -> Entry]] /\ generations' \in [Relays -> [Keys -> Nat]]
        /\ fresh' \in [Relays -> SUBSET Keys] /\ snapRows' \in [Relays -> [Keys -> Entry]]
        /\ snap' \in [Relays -> {"idle", "started", "read"}] /\ booted' \in [Relays -> BOOLEAN]
    BY <1>6, <2>1, <2>2 DEF SnapshotInstall, TypeOK
  <2> QED BY <1>6, <2>3 DEF SnapshotInstall, TypeOK, storeVars, routerVars, sessVars, envVars
<1>7. ASSUME NEW r \in Relays, Crash(r) PROVE TypeOK'
  <2>1. [k \in Keys |-> NoEntry] \in [Keys -> Entry] /\ [k \in Keys |-> 0] \in [Keys -> Nat]
    BY NoEntryType
  <2>2. /\ entries' \in [Relays -> [Keys -> Entry]] /\ generations' \in [Relays -> [Keys -> Nat]]
        /\ fresh' \in [Relays -> SUBSET Keys] /\ snapRows' \in [Relays -> [Keys -> Entry]]
        /\ snap' \in [Relays -> {"idle", "started", "read"}] /\ booted' \in [Relays -> BOOLEAN]
        /\ fence' \in [Relays -> Nat] /\ attached' \in [Relays -> Nat]
        /\ fencing' \in [Relays -> SUBSET Nat]
    BY <1>7, <2>1 DEF Crash, TypeOK
  <2>3. pc' \in [Sessions -> Phases]
    BY <1>7 DEF Crash, TypeOK, Phases
  <2> QED BY <1>7, <2>2, <2>3 DEF Crash, TypeOK, storeVars
<1>8. ASSUME NEW r \in Relays, RevokeCredential(r) PROVE TypeOK'
  BY <1>8 DEF RevokeCredential, TypeOK, storeVars, cacheVars, snapVars, sessVars, envVars
<1>9. CASE DisablePeer
  <2>1. rows' \in [Keys -> Entry]
    BY <1>9, NoEntryType DEF DisablePeer
  <2>2. dirty' \in [Relays -> BOOLEAN]
    BY <1>9 DEF DisablePeer
  <2>3. enabled' \in BOOLEAN
    BY <1>9 DEF DisablePeer
  <2> QED
    BY <1>9, <2>1, <2>2, <2>3 DEF DisablePeer, TypeOK, cacheVars, snapVars, routerVars, sessVars,
       envVars
<1>10. CASE Tick
  BY <1>10 DEF Tick, TypeOK, storeVars, cacheVars, snapVars, routerVars, sessVars
<1>11. ASSUME NEW k \in Keys, Prune(k) PROVE TypeOK'
  BY <1>11, NoEntryType DEF Prune, TypeOK, cacheVars, snapVars, routerVars, sessVars, envVars
<1> QED BY <1>1, <1>2, <1>3, <1>4, <1>5, <1>6, <1>7, <1>8, <1>9, <1>10, <1>11 DEF RelayStep

\* TypeOK is an invariant: every variable of the presence protocol keeps its
\* type and the recorded allocations are as many as the counter says.
THEOREM TypeCorrect == Spec => []TypeOK
<1>1. Init => TypeOK
  <2> SUFFICES ASSUME Init PROVE TypeOK OBVIOUS
  <2>1. issued \in Seq(Issue) /\ Len(issued) = counter BY DEF Init
  <2> QED BY <2>1, NoEntryType DEF Init, TypeOK, Phases, Roles, Announcement
<1>2. TypeOK /\ [Next]_vars => TypeOK'
  <2> SUFFICES ASSUME TypeOK, [Next]_vars PROVE TypeOK' OBVIOUS
  <2>1. CASE UNCHANGED vars
    BY <2>1 DEF vars, storeVars, cacheVars, snapVars, routerVars, sessVars, envVars, TypeOK
  <2>2. ASSUME NEW s \in Sessions, SessionStep(s) PROVE TypeOK'
    BY <2>2, SessionTypeOK
  <2>3. CASE \/ \E r \in Relays : RelayStep(r)
             \/ DisablePeer \/ Tick \/ \E k \in Keys : Prune(k)
    BY <2>3, EnvironmentTypeOK
  <2> QED BY <2>1, <2>2, <2>3 DEF Next
<1> QED BY <1>1, <1>2, PTL DEF Spec

-----------------------------------------------------------------------------
(* The history of allocations decides who a generation belongs to.         *)

\* An entry of key k carries a generation that was handed out for k to the
\* session it names.
Genuine(iss, k, e) ==
    Present(e) => e.gen \in 1 .. Len(iss) /\ iss[e.gen] = [key |-> k, sess |-> e.sess]

\* Generation g was handed out for key k to session s.
HandedTo(iss, g, k, s) == g \in 1 .. Len(iss) /\ iss[g] = [key |-> k, sess |-> s]

\* Generation g was handed out for the primary role.
IsPrimary(iss, g) == g \in 1 .. Len(iss) /\ iss[g].key = Primary

RowsGenuine == \A k \in Keys : Genuine(issued, k, rows[k])

CachesGenuine ==
    \A r \in Relays : \A k \in Keys :
        Genuine(issued, k, entries[r][k]) /\ Genuine(issued, k, snapRows[r][k])

MessagesGenuine == \A m \in msgs : ~m.released => Genuine(issued, m.key, m.entry)

\* A session in phase p holds the generation it acquired for its role rl;
\* between a failed or pending promotion and its end it does not.
SessionGenuine(iss, s, p, rl, g, pd) ==
    /\ p \in {"acquired", "promoted"} => HandedTo(iss, pd, PresenceKey(s, rl), s)
    /\ p \in {"installed", "reinstalled", "serving", "renewed", "demoted"}
           => HandedTo(iss, g, PresenceKey(s, rl), s)
    /\ p \in {"promoting", "promoted"} => rl = "primary"

SessionsGenuine ==
    \A s \in Sessions : SessionGenuine(issued, s, pc[s], role[s], gen[s], pend[s])

FencesGenuine ==
    \A r \in Relays :
        /\ fence[r] # 0 => IsPrimary(issued, fence[r])
        /\ \A g \in fencing[r] : IsPrimary(issued, g)

\* A cached entry sits exactly at the highest generation seen for its key.
EntriesAtFence ==
    \A r \in Relays : \A k \in Keys :
        Present(entries[r][k]) => entries[r][k].gen = generations[r][k]

\* The inductive invariant behind the fencing theorems.
FencingInv ==
    /\ RowsGenuine /\ CachesGenuine /\ MessagesGenuine /\ SessionsGenuine
    /\ FencesGenuine /\ EntriesAtFence

-----------------------------------------------------------------------------
(* Allocations are only ever added.                                        *)

Grows ==
    /\ Len(issued) <= Len(issued')
    /\ \A g \in 1 .. Len(issued) : issued'[g] = issued[g]

\* What a generation was handed out for is never rewritten.
LEMMA GrowsKeeps ==
    ASSUME TypeOK, TypeOK', Grows
    PROVE  /\ \A k \in Keys : \A e \in Entry : Genuine(issued, k, e) => Genuine(issued', k, e)
           /\ \A g \in Nat, k \in Keys, s \in Sessions :
                 HandedTo(issued, g, k, s) => HandedTo(issued', g, k, s)
           /\ \A g \in Nat : IsPrimary(issued, g) => IsPrimary(issued', g)
<1>1. Len(issued) \in Nat /\ Len(issued') \in Nat BY DEF TypeOK
<1>2. \A g \in 1 .. Len(issued) : g \in 1 .. Len(issued') /\ issued'[g] = issued[g]
  BY <1>1 DEF Grows
<1> QED BY <1>2 DEF Genuine, HandedTo, IsPrimary

\* acquire_presence adds one allocation: the new top generation, for the key
\* and the session of the new row.
LEMMA AcquireGrows ==
    ASSUME TypeOK, NEW s \in Sessions, NEW k \in Keys, NEW until \in Nat,
           AcquirePresence(s, k, until)
    PROVE  /\ Grows
           /\ HandedTo(issued', counter + 1, k, s)
           /\ Genuine(issued', k, rows'[k])
           /\ \A l \in Keys : l # k => rows'[l] = rows[l]
<1> DEFINE x == [key |-> k, sess |-> s]
<1>1. issued \in Seq(Issue) /\ x \in Issue /\ Len(issued) = counter /\ counter \in Nat
  BY DEF TypeOK, Issue
<1>2. issued' = Append(issued, x) BY DEF AcquirePresence
<1>3. /\ Len(issued') = counter + 1 /\ issued'[counter + 1] = x
      /\ \A g \in 1 .. Len(issued) : issued'[g] = issued[g]
  BY <1>1, <1>2
<1>4. rows' = [rows EXCEPT ![k] = [gen |-> counter + 1, sess |-> s, deadline |-> until]]
  BY DEF AcquirePresence
<1>5. rows \in [Keys -> Entry] BY DEF TypeOK
<1>6. rows'[k] = [gen |-> counter + 1, sess |-> s, deadline |-> until] BY <1>4, <1>5
<1>7. \A l \in Keys : l # k => rows'[l] = rows[l] BY <1>4, <1>5
<1>8. Grows BY <1>1, <1>3 DEF Grows
<1>9. HandedTo(issued', counter + 1, k, s) BY <1>1, <1>3 DEF HandedTo
<1>10. Genuine(issued', k, rows'[k]) BY <1>6, <1>9 DEF Genuine, HandedTo
<1> QED BY <1>7, <1>8, <1>9, <1>10

\* Steps that leave the allocations alone.
LEMMA UnchangedGrows ==
    ASSUME TypeOK, UNCHANGED issued
    PROVE  Grows
<1>1. Len(issued) \in Nat BY DEF TypeOK
<1> QED BY <1>1 DEF Grows

\* Every step keeps or extends the allocations and leaves every row genuine.
LEMMA StoreStep ==
    ASSUME TypeOK, TypeOK', RowsGenuine, [Next]_vars
    PROVE  Grows /\ RowsGenuine'
<1> DEFINE Keep == UNCHANGED <<issued, rows>>
<1>k. ASSUME Keep PROVE Grows /\ RowsGenuine'
  BY <1>k, UnchangedGrows DEF RowsGenuine
<1>a. ASSUME NEW s \in Sessions, NEW k \in Keys, NEW until \in Nat, AcquirePresence(s, k, until)
      PROVE  Grows /\ RowsGenuine'
  <2>1. Grows /\ Genuine(issued', k, rows'[k]) /\ \A l \in Keys : l # k => rows'[l] = rows[l]
    BY <1>a, AcquireGrows
  <2>2. \A l \in Keys : Genuine(issued', l, rows[l])
    <3> TAKE l \in Keys
    <3>1. Genuine(issued, l, rows[l]) /\ rows[l] \in Entry BY DEF RowsGenuine, TypeOK
    <3> QED BY <3>1, <2>1, GrowsKeeps
  <2>3. \A l \in Keys : Genuine(issued', l, rows'[l])
    BY <2>1, <2>2
  <2> QED BY <2>1, <2>3 DEF RowsGenuine
<1>d. ASSUME UNCHANGED issued, NEW k \in Keys, rows' = [rows EXCEPT ![k] = NoEntry]
      PROVE  Grows /\ RowsGenuine'
  <2>1. \A l \in Keys : rows'[l] = rows[l] \/ rows'[l] = NoEntry BY <1>d DEF TypeOK
  <2> QED BY <1>d, <2>1, UnchangedGrows, NoEntryType DEF RowsGenuine, Genuine
<1>e. ASSUME UNCHANGED issued, NEW s \in Sessions, NEW until \in Nat, RenewPresence(s, until)
      PROVE  Grows /\ RowsGenuine'
  <2>1. rows' = [rows EXCEPT ![KeyOf(s)].deadline = until] BY <1>e DEF RenewPresence
  <2>2. \A l \in Keys : rows'[l].gen = rows[l].gen /\ rows'[l].sess = rows[l].sess
    BY <2>1 DEF TypeOK, Entry
  <2> QED BY <1>e, <2>2, UnchangedGrows DEF RowsGenuine, Genuine, Present
<1>1. CASE UNCHANGED vars BY <1>1, <1>k DEF vars, storeVars
<1>2. ASSUME NEW s \in Sessions, SessionStep(s) PROVE Grows /\ RowsGenuine'
  <2>0. KeyOf(s) \in Keys /\ now + Lease \in Nat /\ deadline[s] \in Nat /\ Primary \in Keys
    <3>1. now \in Nat /\ deadline[s] \in Nat BY DEF TypeOK
    <3>2. KeyOf(s) \in Keys BY SessionEntryType
    <3> QED BY <3>1, <3>2 DEF Keys
  <2>1. CASE Connect(s) BY <2>0, <2>1, <1>a DEF Connect
  <2>2. CASE \/ InstallAcquired(s) \/ ObserveAcquired(s) \/ FenceCheck(s) \/ Disconnect(s)
             \/ ObserveRenewal(s) \/ PromoteForget(s) \/ Detach(s) \/ ReleaseLocal(s)
    BY <2>2, <1>k DEF InstallAcquired, ObserveAcquired, FenceCheck, Disconnect, ObserveRenewal,
                      PromoteForget, Detach, ReleaseLocal, storeVars
  <2>3. CASE Renew(s)
    <3>1. RenewPresence(s, now + Lease) \/ UNCHANGED storeVars BY <2>3 DEF Renew
    <3>2. RenewPresence(s, now + Lease) => UNCHANGED issued BY DEF RenewPresence
    <3> QED BY <2>0, <3>1, <3>2, <1>e, <1>k DEF storeVars
  <2>4. CASE PromoteRelease(s) \/ ReleaseRow(s)
    <3>1. ReleasePresence(s) \/ UNCHANGED storeVars BY <2>4 DEF PromoteRelease, ReleaseRow
    <3> QED BY <2>0, <3>1, <1>d, <1>k DEF storeVars, ReleasePresence
  <2>5. CASE PromoteAcquire(s)
    <3>1. AcquirePresence(s, Primary, deadline[s]) \/ UNCHANGED storeVars
      BY <2>5 DEF PromoteAcquire
    <3> QED BY <2>0, <3>1, <1>a, <1>k DEF storeVars
  <2> QED BY <1>2, <2>1, <2>2, <2>3, <2>4, <2>5 DEF SessionStep
<1>3. ASSUME NEW r \in Relays, RelayStep(r) PROVE Grows /\ RowsGenuine'
  <2>1. Keep
    BY <1>3 DEF RelayStep, Receive, ObserveFence, Bootstrap, SnapshotStart, SnapshotRead,
                SnapshotInstall, Crash, RevokeCredential, storeVars
  <2> QED BY <2>1, <1>k
<1>4. CASE DisablePeer
  <2>1. UNCHANGED issued /\ \A l \in Keys : rows'[l] = NoEntry BY <1>4 DEF DisablePeer
  <2> QED BY <2>1, UnchangedGrows, NoEntryType DEF RowsGenuine, Genuine
<1>5. CASE Tick BY <1>5, <1>k DEF Tick, storeVars
<1>6. ASSUME NEW k \in Keys, Prune(k) PROVE Grows /\ RowsGenuine'
  BY <1>6, <1>d DEF Prune
<1> QED BY <1>1, <1>2, <1>3, <1>4, <1>5, <1>6 DEF Next

-----------------------------------------------------------------------------
(* Sessions                                                                *)

\* Every step leaves each session with a generation that was handed out to it
\* for the role it holds, or on its way out.
LEMMA SessionsStep ==
    ASSUME TypeOK, TypeOK', SessionsGenuine, Grows, [Next]_vars
    PROVE  SessionsGenuine'
<1> DEFINE Cell(s) == SessionGenuine(issued', s, pc'[s], role'[s], gen'[s], pend'[s])
<1>0. \A s \in Sessions :
         /\ pc[s] \in Phases /\ role[s] \in Roles /\ gen[s] \in Nat /\ pend[s] \in Nat
         /\ PresenceKey(s, role[s]) \in Keys
  BY PresenceKeyType DEF TypeOK
<1>1. \A s \in Sessions : SessionGenuine(issued', s, pc[s], role[s], gen[s], pend[s])
  <2> TAKE s \in Sessions
  <2>1. SessionGenuine(issued, s, pc[s], role[s], gen[s], pend[s]) BY DEF SessionsGenuine
  <2> QED BY <1>0, <2>1, GrowsKeeps DEF SessionGenuine
<1>k. ASSUME NEW s \in Sessions, pc'[s] = pc[s], role'[s] = role[s], gen'[s] = gen[s],
             pend'[s] = pend[s]
      PROVE  Cell(s)
  BY <1>k, <1>1
<1>2. ASSUME UNCHANGED sessVars PROVE SessionsGenuine'
  BY <1>2, <1>1 DEF SessionsGenuine, sessVars
<1>3. ASSUME NEW s \in Sessions, SessionStep(s) PROVE SessionsGenuine'
  <2>t. /\ pc \in [Sessions -> Phases] /\ role \in [Sessions -> Roles]
        /\ gen \in [Sessions -> Nat] /\ pend \in [Sessions -> Nat]
    BY DEF TypeOK
  <2>0. SUFFICES /\ Cell(s)
                 /\ \A q \in Sessions \ {s} : /\ pc'[q] = pc[q] /\ role'[q] = role[q]
                                              /\ gen'[q] = gen[q] /\ pend'[q] = pend[q]
    BY <1>k DEF SessionsGenuine
  <2> DEFINE Others == \A q \in Sessions \ {s} : /\ pc'[q] = pc[q] /\ role'[q] = role[q]
                                                /\ gen'[q] = gen[q] /\ pend'[q] = pend[q]
             Here == SessionGenuine(issued', s, pc[s], role[s], gen[s], pend[s])
  <2>h. Here BY <1>1
  <2>1. CASE Connect(s)
    <3>1. \/ pc' = [pc EXCEPT ![s] = "acquired"] /\ pend' = [pend EXCEPT ![s] = counter + 1]
          \/ pc' = [pc EXCEPT ![s] = "lost"] /\ pend' = pend
      BY <2>1 DEF Connect
    <3>2. role' = role /\ gen' = gen /\ AcquirePresence(s, KeyOf(s), now + Lease)
      BY <2>1 DEF Connect
    <3>3. now + Lease \in Nat /\ KeyOf(s) \in Keys
      <4>1. now \in Nat BY DEF TypeOK
      <4> QED BY <4>1, SessionEntryType
    <3>4. HandedTo(issued', counter + 1, KeyOf(s), s) BY <3>2, <3>3, AcquireGrows
    <3>5. Others BY <2>t, <3>1, <3>2
    <3>6. Cell(s) BY <2>t, <3>1, <3>2, <3>4 DEF SessionGenuine, KeyOf
    <3> QED BY <3>5, <3>6
  <2>2. CASE InstallAcquired(s)
    <3>1. /\ pc[s] \in {"acquired", "promoted"} /\ role' = role
          /\ gen' = [gen EXCEPT ![s] = pend[s]] /\ pend' = [pend EXCEPT ![s] = 0]
          /\ pc' = [pc EXCEPT ![s] = IF pc[s] = "acquired" THEN "installed" ELSE "reinstalled"]
      BY <2>2 DEF InstallAcquired
    <3>2. Cell(s) BY <2>t, <2>h, <3>1 DEF SessionGenuine
    <3> QED BY <2>t, <3>1, <3>2
  <2>3. CASE ObserveAcquired(s) \/ ObserveRenewal(s)
    <3>1. /\ pc[s] \in {"installed", "reinstalled", "renewed"}
          /\ role' = role /\ gen' = gen /\ pend' = pend
          /\ pc' = [pc EXCEPT ![s] = "serving"]
      BY <2>3 DEF ObserveAcquired, ObserveRenewal
    <3>2. Cell(s) BY <2>t, <2>h, <3>1 DEF SessionGenuine
    <3> QED BY <2>t, <3>1, <3>2
  <2>4. CASE Renew(s) \/ PromoteRelease(s)
    <3>1. /\ pc[s] = "serving" /\ role' = role /\ gen' = gen /\ pend' = pend
          /\ \/ pc' = [pc EXCEPT ![s] = "renewed"]
             \/ pc' = [pc EXCEPT ![s] = "ending"]
             \/ pc' = [pc EXCEPT ![s] = "demoted"]
             \/ pc' = pc
      BY <2>4 DEF Renew, PromoteRelease, End
    <3>2. Cell(s) BY <2>t, <2>h, <3>1 DEF SessionGenuine
    <3> QED BY <2>t, <3>1, <3>2
  <2>5. CASE PromoteForget(s)
    <3>1. /\ role' = [role EXCEPT ![s] = "primary"] /\ gen' = gen /\ pend' = pend
          /\ pc' = [pc EXCEPT ![s] = "promoting"]
      BY <2>5 DEF PromoteForget
    <3>2. Cell(s) BY <2>t, <3>1 DEF SessionGenuine
    <3> QED BY <2>t, <3>1, <3>2
  <2>6. CASE PromoteAcquire(s)
    <3>1. /\ pc[s] = "promoting" /\ role' = role /\ gen' = gen
          /\ \/ /\ pc' = [pc EXCEPT ![s] = "promoted"] /\ pend' = [pend EXCEPT ![s] = counter + 1]
                /\ AcquirePresence(s, Primary, deadline[s])
             \/ pc' = [pc EXCEPT ![s] = "ending"] /\ pend' = pend
      BY <2>6 DEF PromoteAcquire, End
    <3>2. role[s] = "primary" BY <2>h, <3>1 DEF SessionGenuine
    <3>3. deadline[s] \in Nat /\ Primary \in Keys BY DEF TypeOK, Keys
    <3>4. AcquirePresence(s, Primary, deadline[s]) => HandedTo(issued', counter + 1, Primary, s)
      BY <3>3, AcquireGrows
    <3>5. Others BY <2>t, <3>1
    <3>6. Cell(s) BY <2>t, <3>1, <3>2, <3>4 DEF SessionGenuine, PresenceKey
    <3> QED BY <3>5, <3>6
  <2>7. CASE \/ FenceCheck(s) \/ Disconnect(s) \/ Detach(s) \/ ReleaseLocal(s) \/ ReleaseRow(s)
    <3>1. /\ role' = role /\ gen' = gen /\ pend' = pend
          /\ \/ pc' = [pc EXCEPT ![s] = "ending"]
             \/ pc' = [pc EXCEPT ![s] = "detached"]
             \/ pc' = [pc EXCEPT ![s] = "forgotten"]
             \/ pc' = [pc EXCEPT ![s] = "ended"]
      BY <2>7 DEF FenceCheck, Disconnect, Detach, ReleaseLocal, ReleaseRow, End
    <3>2. Cell(s) BY <2>t, <3>1 DEF SessionGenuine
    <3> QED BY <2>t, <3>1, <3>2
  <2> QED BY <1>3, <2>1, <2>2, <2>3, <2>4, <2>5, <2>6, <2>7 DEF SessionStep
<1>4. ASSUME NEW r \in Relays, Crash(r) PROVE SessionsGenuine'
  <2>1. /\ \A s \in Sessions : pc'[s] = pc[s] \/ pc'[s] = "crashed"
        /\ role' = role /\ gen' = gen /\ pend' = pend
    BY <1>4 DEF Crash
  <2> SUFFICES ASSUME NEW s \in Sessions PROVE Cell(s) BY DEF SessionsGenuine
  <2>2. CASE pc'[s] = pc[s] BY <2>1, <2>2, <1>k
  <2>3. CASE pc'[s] = "crashed" BY <2>3 DEF SessionGenuine
  <2> QED BY <2>1, <2>2, <2>3
<1>5. ASSUME NEW r \in Relays, RelayStep(r) PROVE SessionsGenuine'
  <2>1. Crash(r) \/ UNCHANGED sessVars
    BY <1>5 DEF RelayStep, Receive, ObserveFence, Bootstrap, SnapshotStart, SnapshotRead,
                SnapshotInstall, RevokeCredential
  <2> QED BY <2>1, <1>2, <1>4
<1>6. CASE UNCHANGED vars \/ DisablePeer \/ Tick \/ \E k \in Keys : Prune(k)
  BY <1>6, <1>2 DEF vars, DisablePeer, Tick, Prune
<1> QED BY <1>3, <1>5, <1>6 DEF Next

-----------------------------------------------------------------------------
(* Caches                                                                  *)

\* What one step may do to the entry of key l at Relay q: nothing, remove it,
\* or write a genuine entry at the new fence.  A new entry is above the old
\* fence or continues the current entry.
CellStep(q, l) ==
    \/ entries'[q][l] = entries[q][l] /\ generations'[q][l] = generations[q][l]
    \/ ~Present(entries'[q][l])
    \/ /\ Genuine(issued', l, entries'[q][l])
       /\ generations'[q][l] = entries'[q][l].gen
       /\ \/ entries'[q][l].gen > generations[q][l]
          \/ entries'[q][l].gen = entries[q][l].gen

CacheStep == \A q \in Relays : \A l \in Keys : CellStep(q, l)

\* PresenceCache::observe of a release, or of a genuine entry.
LEMMA ObserveCells ==
    ASSUME TypeOK, EntriesAtFence, NEW r \in Relays, NEW k \in Keys, NEW e \in Entry,
           NEW rel \in BOOLEAN, Observe(r, k, e, rel), rel \/ Genuine(issued', k, e)
    PROVE  CacheStep
<1>1. CASE Accepts(entries[r], generations[r], k, e, rel)
  <2>t. /\ entries \in [Relays -> [Keys -> Entry]] /\ generations \in [Relays -> [Keys -> Nat]]
        /\ entries[r] \in [Keys -> Entry] /\ generations[r] \in [Keys -> Nat]
    BY DEF TypeOK
  <2>1. /\ entries' = [entries EXCEPT ![r] = [entries[r] EXCEPT ![k] = Observed(e, rel)]]
        /\ generations' = [generations EXCEPT ![r] = [generations[r] EXCEPT ![k] = e.gen]]
    BY <1>1 DEF Observe
  <2>2. entries'[r][k] = Observed(e, rel) /\ generations'[r][k] = e.gen BY <2>t, <2>1
  <2>3. \A q \in Relays : \A l \in Keys : ~(q = r /\ l = k) =>
           entries'[q][l] = entries[q][l] /\ generations'[q][l] = generations[q][l]
    BY <2>t, <2>1
  <2>4. Present(entries[r][k]) => entries[r][k].gen = generations[r][k] BY DEF EntriesAtFence
  <2>5. e.gen > generations[r][k] \/ e.gen = entries[r][k].gen
    <3>1. e.gen >= generations[r][k] BY <1>1 DEF Accepts, NotRolledBack
    <3>2. e.gen = generations[r][k] => Present(entries[r][k]) BY <1>1 DEF Accepts, Tombstoned
    <3>3. e.gen \in Nat /\ generations[r][k] \in Nat BY <2>t DEF Entry
    <3> QED BY <2>4, <3>1, <3>2, <3>3
  <2>6. CellStep(r, k)
    BY <2>2, <2>5, NoEntryType DEF CellStep, Observed
  <2> QED BY <2>3, <2>6 DEF CacheStep, CellStep
<1>2. CASE ~Accepts(entries[r], generations[r], k, e, rel)
  BY <1>2 DEF Observe, cacheVars, CacheStep, CellStep
<1> QED BY <1>1, <1>2

\* PresenceCache::install_snapshot of genuine rows.
LEMMA InstallCells ==
    ASSUME TypeOK, EntriesAtFence, CachesGenuine, NEW r \in Relays, SnapshotInstall(r)
    PROVE  CacheStep
<1> DEFINE ents == entries[r]
           gens == generations[r]
           rws == snapRows[r]
           fr == fresh[r]
           kept == Retained(ents, rws, fr)
<1>t. /\ entries \in [Relays -> [Keys -> Entry]] /\ generations \in [Relays -> [Keys -> Nat]]
      /\ ents \in [Keys -> Entry] /\ gens \in [Keys -> Nat] /\ rws \in [Keys -> Entry]
  BY DEF TypeOK
<1>1. /\ entries' = [entries EXCEPT ![r] = InstalledEntries(ents, gens, rws, fr)]
      /\ generations' = [generations EXCEPT ![r] = InstalledGenerations(ents, gens, rws, fr)]
      /\ issued' = issued
  BY DEF SnapshotInstall, storeVars
<1>2. \A q \in Relays \ {r} : entries'[q] = entries[q] /\ generations'[q] = generations[q]
  BY <1>t, <1>1
<1>3. ASSUME NEW l \in Keys PROVE CellStep(r, l)
  <2>1. kept \in [Keys -> Entry] /\ (kept[l] = ents[l] \/ kept[l] = NoEntry)
    BY <1>t, NoEntryType DEF Retained
  <2>2. Present(ents[l]) => ents[l].gen = gens[l] BY DEF EntriesAtFence
  <2>3. Present(kept[l]) => kept[l] = ents[l] BY <2>1, NoEntryType
  <2>4. CASE InstallsRow(kept, gens, rws, fr, l)
    <3>1. entries'[r][l] = rws[l] /\ generations'[r][l] = rws[l].gen
      BY <1>t, <1>1, <2>4 DEF InstalledEntries, InstalledGenerations
    <3>2. /\ rws[l].gen >= gens[l] /\ Present(rws[l])
          /\ rws[l].gen = gens[l] => Present(kept[l])
      BY <2>4 DEF InstallsRow, Accepts, NotRolledBack, Tombstoned
    <3>3. Present(kept[l]) => kept[l].gen = gens[l] BY <2>2, <2>3
    <3>4. rws[l].gen > gens[l] \/ rws[l].gen = kept[l].gen
      <4>1. rws[l].gen \in Nat /\ gens[l] \in Nat BY <1>t DEF Entry
      <4> QED BY <3>2, <3>3, <4>1
    <3>5. rws[l].gen # 0 BY <3>2 DEF Present
    <3>6. rws[l].gen > gens[l] \/ rws[l].gen = ents[l].gen
      BY <2>1, <3>4, <3>5 DEF NoEntry
    <3>7. Genuine(issued', l, rws[l]) BY <1>1 DEF CachesGenuine
    <3> QED BY <3>1, <3>6, <3>7 DEF CellStep
  <2>5. CASE ~InstallsRow(kept, gens, rws, fr, l)
    <3>1. entries'[r][l] = kept[l] /\ generations'[r][l] = gens[l]
      BY <1>t, <1>1, <2>5 DEF InstalledEntries, InstalledGenerations
    <3> QED BY <2>1, <3>1, NoEntryType DEF CellStep
  <2> QED BY <2>4, <2>5
<1> QED BY <1>2, <1>3 DEF CacheStep, CellStep

\* A session in one of these phases announces a genuine entry.
LEMMA AnnouncedGenuine ==
    ASSUME TypeOK, TypeOK', Grows, SessionsGenuine, NEW s \in Sessions,
           pc[s] \in {"installed", "reinstalled", "renewed"}
    PROVE  Genuine(issued', KeyOf(s), EntryOf(s))
<1>1. HandedTo(issued, gen[s], KeyOf(s), s) BY DEF SessionsGenuine, SessionGenuine, KeyOf
<1>2. gen[s] \in Nat /\ KeyOf(s) \in Keys
  BY SessionEntryType DEF TypeOK
<1>3. HandedTo(issued', gen[s], KeyOf(s), s) BY <1>1, <1>2, GrowsKeeps
<1> QED BY <1>3 DEF Genuine, EntryOf, HandedTo

\* No step changes a cache otherwise.
LEMMA CacheSteps ==
    ASSUME TypeOK, TypeOK', Grows, FencingInv, [Next]_vars
    PROVE  CacheStep
<1> USE DEF FencingInv
<1>k. ASSUME UNCHANGED cacheVars PROVE CacheStep
  BY <1>k DEF cacheVars, CacheStep, CellStep
<1>1. ASSUME NEW s \in Sessions, SessionStep(s) PROVE CacheStep
  <2>0. EntryOf(s) \in Entry /\ KeyOf(s) \in Keys /\ Host[s] \in Relays BY SessionEntryType
  <2>1. CASE ObserveAcquired(s) \/ ObserveRenewal(s)
    <3>1. /\ pc[s] \in {"installed", "reinstalled", "renewed"}
          /\ Observe(Host[s], KeyOf(s), EntryOf(s), FALSE)
      BY <2>1 DEF ObserveAcquired, ObserveRenewal
    <3>2. Genuine(issued', KeyOf(s), EntryOf(s)) BY <3>1, AnnouncedGenuine
    <3> QED BY <2>0, <3>1, <3>2, ObserveCells
  <2>2. CASE PromoteForget(s) \/ ReleaseLocal(s)
    <3>1. Observe(Host[s], KeyOf(s), EntryOf(s), TRUE) BY <2>2 DEF PromoteForget, ReleaseLocal
    <3> QED BY <2>0, <3>1, ObserveCells
  <2>3. CASE \/ Connect(s) \/ InstallAcquired(s) \/ FenceCheck(s) \/ Disconnect(s) \/ Renew(s)
             \/ PromoteRelease(s) \/ PromoteAcquire(s) \/ Detach(s) \/ ReleaseRow(s)
    <3>1. UNCHANGED cacheVars
      BY <2>3 DEF Connect, InstallAcquired, FenceCheck, Disconnect, Renew, PromoteRelease,
                  PromoteAcquire, Detach, ReleaseRow
    <3> QED BY <3>1, <1>k
  <2> QED BY <1>1, <2>1, <2>2, <2>3 DEF SessionStep
<1>2. ASSUME NEW r \in Relays, NEW m \in msgs, Receive(r, m) PROVE CacheStep
  <2>1. m.key \in Keys /\ m.entry \in Entry /\ m.released \in BOOLEAN
    BY DEF TypeOK, Announcement
  <2>2. Observe(r, m.key, m.entry, m.released) BY <1>2 DEF Receive
  <2>3. m.released \/ Genuine(issued', m.key, m.entry)
    BY <2>1, GrowsKeeps DEF MessagesGenuine
  <2> QED BY <2>1, <2>2, <2>3, ObserveCells
<1>3. ASSUME NEW r \in Relays, Crash(r) PROVE CacheStep
  <2>1. entries \in [Relays -> [Keys -> Entry]] /\ generations \in [Relays -> [Keys -> Nat]]
    BY DEF TypeOK
  <2>2. /\ entries' = [entries EXCEPT ![r] = [k \in Keys |-> NoEntry]]
        /\ generations' = [generations EXCEPT ![r] = [k \in Keys |-> 0]]
    BY <1>3 DEF Crash
  <2>3. \A q \in Relays : \A l \in Keys :
           \/ entries'[q][l] = entries[q][l] /\ generations'[q][l] = generations[q][l]
           \/ entries'[q][l] = NoEntry
    BY <2>1, <2>2
  <2> QED BY <2>3, NoEntryType DEF CacheStep, CellStep
<1>4. ASSUME NEW r \in Relays, SnapshotStart(r) PROVE CacheStep
  BY <1>4 DEF SnapshotStart, CacheStep, CellStep
<1>5. ASSUME NEW r \in Relays, RelayStep(r) PROVE CacheStep
  <2>1. CASE ObserveFence(r) \/ Bootstrap(r) \/ SnapshotRead(r) \/ RevokeCredential(r)
    <3>1. UNCHANGED cacheVars
      BY <2>1 DEF ObserveFence, Bootstrap, SnapshotRead, RevokeCredential
    <3> QED BY <3>1, <1>k
  <2>2. CASE SnapshotInstall(r) BY <2>2, InstallCells
  <2> QED BY <1>2, <1>3, <1>4, <1>5, <2>1, <2>2 DEF RelayStep
<1>6. CASE UNCHANGED vars \/ DisablePeer \/ Tick \/ \E k \in Keys : Prune(k)
  <2>1. UNCHANGED cacheVars BY <1>6 DEF vars, DisablePeer, Tick, Prune
  <2> QED BY <2>1, <1>k
<1> QED BY <1>1, <1>5, <1>6 DEF Next

\* Every step keeps the cached entries and the snapshot in flight genuine, and
\* the entries at their fence.
LEMMA CachesStep ==
    ASSUME TypeOK, TypeOK', Grows, FencingInv, [Next]_vars
    PROVE  CachesGenuine' /\ EntriesAtFence'
<1>1. CacheStep BY CacheSteps
<1>2. ASSUME NEW q \in Relays, NEW l \in Keys
      PROVE  /\ Genuine(issued', l, entries'[q][l])
             /\ Present(entries'[q][l]) => entries'[q][l].gen = generations'[q][l]
  <2>1. CellStep(q, l) BY <1>1 DEF CacheStep
  <2>2. /\ Genuine(issued, l, entries[q][l]) /\ entries[q][l] \in Entry
        /\ Present(entries[q][l]) => entries[q][l].gen = generations[q][l]
    BY DEF FencingInv, CachesGenuine, EntriesAtFence, TypeOK
  <2>3. Genuine(issued', l, entries[q][l]) BY <2>2, GrowsKeeps
  <2>4. CASE entries'[q][l] = entries[q][l] /\ generations'[q][l] = generations[q][l]
    BY <2>2, <2>3, <2>4
  <2>5. CASE ~Present(entries'[q][l]) BY <2>5 DEF Genuine
  <2> QED BY <2>1, <2>4, <2>5 DEF CellStep
<1>3. ASSUME NEW q \in Relays, NEW l \in Keys PROVE Genuine(issued', l, snapRows'[q][l])
  <2>t. snapRows \in [Relays -> [Keys -> Entry]] /\ rows \in [Keys -> Entry] BY DEF TypeOK
  <2>1. \/ snapRows'[q][l] = snapRows[q][l]
        \/ snapRows'[q][l] = rows[l]
        \/ snapRows'[q][l] = NoEntry
    <3>1. CASE UNCHANGED snapRows BY <3>1
    <3>2. ASSUME NEW r \in Relays, Crash(r) \/ SnapshotInstall(r)
          PROVE  snapRows'[q][l] = snapRows[q][l] \/ snapRows'[q][l] = NoEntry
      BY <2>t, <3>2 DEF Crash, SnapshotInstall
    <3>3. ASSUME NEW r \in Relays, SnapshotRead(r)
          PROVE  \/ snapRows'[q][l] = snapRows[q][l]
                 \/ snapRows'[q][l] = rows[l]
                 \/ snapRows'[q][l] = NoEntry
      <4>1. \/ snapRows' = snapRows
            \/ snapRows' = [snapRows EXCEPT ![r] =
                  [k \in Keys |-> IF rows[k].deadline > now THEN rows[k] ELSE NoEntry]]
        BY <3>3 DEF SnapshotRead
      <4> QED BY <2>t, <4>1
    <3>4. ASSUME NEW r \in Relays, RelayStep(r)
          PROVE  UNCHANGED snapRows \/ Crash(r) \/ SnapshotInstall(r) \/ SnapshotRead(r)
      BY <3>4 DEF RelayStep, Receive, ObserveFence, Bootstrap, SnapshotStart, RevokeCredential,
                  snapVars
    <3>5. ASSUME NEW s \in Sessions, SessionStep(s) PROVE UNCHANGED snapRows
      BY <3>5 DEF SessionStep, Connect, InstallAcquired, ObserveAcquired, FenceCheck, Disconnect,
                  Renew, ObserveRenewal, PromoteRelease, PromoteForget, PromoteAcquire, Detach,
                  ReleaseLocal, ReleaseRow, snapVars
    <3>6. CASE UNCHANGED vars \/ DisablePeer \/ Tick \/ \E k \in Keys : Prune(k)
      <4>1. UNCHANGED snapRows BY <3>6 DEF vars, DisablePeer, Tick, Prune, snapVars
      <4> QED BY <4>1
    <3> QED BY <3>1, <3>2, <3>3, <3>4, <3>5, <3>6 DEF Next
  <2>2. /\ Genuine(issued, l, snapRows[q][l]) /\ snapRows[q][l] \in Entry
        /\ Genuine(issued, l, rows[l]) /\ rows[l] \in Entry
    BY <2>t DEF FencingInv, CachesGenuine, RowsGenuine
  <2>3. Genuine(issued', l, snapRows[q][l]) /\ Genuine(issued', l, rows[l])
    BY <2>2, GrowsKeeps
  <2>4. Genuine(issued', l, NoEntry) BY NoEntryType DEF Genuine
  <2> QED BY <2>1, <2>3, <2>4
<1> QED BY <1>2, <1>3 DEF CachesGenuine, EntriesAtFence

-----------------------------------------------------------------------------
(* Announcements and router fences                                         *)

\* Every step announces leases only as they were handed out.
LEMMA MessagesStep ==
    ASSUME TypeOK, TypeOK', Grows, FencingInv, [Next]_vars
    PROVE  MessagesGenuine'
<1>0. \A m \in msgs : ~m.released => Genuine(issued', m.key, m.entry)
  <2> SUFFICES ASSUME NEW m \in msgs, ~m.released PROVE Genuine(issued', m.key, m.entry)
    OBVIOUS
  <2>1. m.key \in Keys /\ m.entry \in Entry BY DEF TypeOK, Announcement
  <2>2. Genuine(issued, m.key, m.entry) BY DEF FencingInv, MessagesGenuine
  <2> QED BY <2>1, <2>2, GrowsKeeps
<1>k. ASSUME UNCHANGED msgs PROVE MessagesGenuine'
  BY <1>k, <1>0 DEF MessagesGenuine
<1>b. ASSUME NEW k \in Keys, NEW e \in Entry, Broadcast(k, e, TRUE) PROVE MessagesGenuine'
  <2>1. \A m \in msgs' : m \in msgs \/ m = [key |-> k, entry |-> e, released |-> TRUE]
    BY <1>b DEF Broadcast
  <2> QED BY <2>1, <1>0 DEF MessagesGenuine
<1>c. ASSUME NEW k \in Keys, NEW e \in Entry, Broadcast(k, e, FALSE), Genuine(issued', k, e)
      PROVE  MessagesGenuine'
  <2>1. \A m \in msgs' : m \in msgs \/ m = [key |-> k, entry |-> e, released |-> FALSE]
    BY <1>c DEF Broadcast
  <2> QED BY <2>1, <1>0, <1>c DEF MessagesGenuine
<1>1. ASSUME NEW s \in Sessions, SessionStep(s) PROVE MessagesGenuine'
  <2>0. EntryOf(s) \in Entry /\ KeyOf(s) \in Keys BY SessionEntryType
  <2>1. CASE ObserveAcquired(s) \/ ObserveRenewal(s)
    <3>1. /\ pc[s] \in {"installed", "reinstalled", "renewed"}
          /\ Broadcast(KeyOf(s), EntryOf(s), FALSE)
      BY <2>1 DEF ObserveAcquired, ObserveRenewal
    <3>2. SessionsGenuine BY DEF FencingInv
    <3>3. Genuine(issued', KeyOf(s), EntryOf(s)) BY <3>1, <3>2, AnnouncedGenuine
    <3> QED BY <2>0, <3>1, <3>3, <1>c
  <2>2. CASE PromoteForget(s) \/ ReleaseLocal(s)
    <3>1. Broadcast(KeyOf(s), EntryOf(s), TRUE) \/ UNCHANGED msgs
      BY <2>2 DEF PromoteForget, ReleaseLocal
    <3> QED BY <2>0, <3>1, <1>b, <1>k
  <2>3. CASE \/ Connect(s) \/ InstallAcquired(s) \/ FenceCheck(s) \/ Disconnect(s) \/ Renew(s)
             \/ PromoteRelease(s) \/ PromoteAcquire(s) \/ Detach(s) \/ ReleaseRow(s)
    <3>1. UNCHANGED msgs
      BY <2>3 DEF Connect, InstallAcquired, FenceCheck, Disconnect, Renew, PromoteRelease,
                  PromoteAcquire, Detach, ReleaseRow
    <3> QED BY <3>1, <1>k
  <2> QED BY <1>1, <2>1, <2>2, <2>3 DEF SessionStep
<1>2. ASSUME NEW r \in Relays, RelayStep(r) PROVE MessagesGenuine'
  <2>1. CASE Bootstrap(r)
    <3>1. issued' = issued BY <2>1 DEF Bootstrap, storeVars
    <3>2. \A m \in msgs' : m \in msgs \/ \E k \in Keys :
             m = [key |-> k, entry |-> entries[r][k], released |-> FALSE]
      BY <2>1 DEF Bootstrap, OwnedBy
    <3>3. \A k \in Keys : Genuine(issued', k, entries[r][k])
      BY <3>1 DEF FencingInv, CachesGenuine
    <3> QED BY <3>2, <3>3, <1>0 DEF MessagesGenuine
  <2>2. Bootstrap(r) \/ UNCHANGED msgs
    BY <1>2 DEF RelayStep, Receive, ObserveFence, SnapshotStart, SnapshotRead, SnapshotInstall,
                Crash, RevokeCredential
  <2> QED BY <2>1, <2>2, <1>k
<1>3. CASE UNCHANGED vars \/ DisablePeer \/ Tick \/ \E k \in Keys : Prune(k)
  <2>1. UNCHANGED msgs BY <1>3 DEF vars, DisablePeer, Tick, Prune
  <2> QED BY <2>1, <1>k
<1> QED BY <1>1, <1>2, <1>3 DEF Next

\* Every step keeps the router fences, set or about to be set, at generations
\* of the primary role.
LEMMA FencesStep ==
    ASSUME TypeOK, TypeOK', Grows, FencingInv, [Next]_vars
    PROVE  FencesGenuine'
<1>t. fence \in [Relays -> Nat] /\ fencing \in [Relays -> SUBSET Nat] BY DEF TypeOK
<1>0. \A r \in Relays : /\ fence[r] # 0 => IsPrimary(issued', fence[r])
                        /\ \A g \in fencing[r] : IsPrimary(issued', g)
  <2> TAKE r \in Relays
  <2>1. fence[r] # 0 => IsPrimary(issued, fence[r]) BY DEF FencingInv, FencesGenuine
  <2>2. \A g \in fencing[r] : IsPrimary(issued, g) BY DEF FencingInv, FencesGenuine
  <2> QED BY <1>t, <2>1, <2>2, GrowsKeeps
<1>k. ASSUME UNCHANGED <<fence, fencing>> PROVE FencesGenuine'
  BY <1>k, <1>0 DEF FencesGenuine
<1>1. ASSUME NEW s \in Sessions, SessionStep(s) PROVE FencesGenuine'
  <2>1. CASE InstallAcquired(s)
    <3>1. /\ pc[s] \in {"acquired", "promoted"} /\ fencing' = fencing /\ issued' = issued
          /\ \/ role[s] = "primary" /\ fence' = [fence EXCEPT ![Host[s]] = pend[s]]
             \/ fence' = fence
      BY <2>1 DEF InstallAcquired, storeVars
    <3>2. HandedTo(issued, pend[s], PresenceKey(s, role[s]), s)
      BY <3>1 DEF FencingInv, SessionsGenuine, SessionGenuine
    <3>3. role[s] = "primary" => IsPrimary(issued', pend[s])
      BY <3>1, <3>2 DEF HandedTo, IsPrimary, PresenceKey
    <3> QED BY <1>t, <1>0, <3>1, <3>3 DEF FencesGenuine
  <2>2. InstallAcquired(s) \/ UNCHANGED <<fence, fencing>>
    BY <1>1 DEF SessionStep, Connect, ObserveAcquired, FenceCheck, Disconnect, Renew,
       ObserveRenewal,
                PromoteRelease, PromoteForget, PromoteAcquire, Detach, ReleaseLocal, ReleaseRow,
                routerVars
  <2> QED BY <2>1, <2>2, <1>k
<1>2. ASSUME NEW r \in Relays, NEW m \in msgs, Receive(r, m) PROVE FencesGenuine'
  <2>1. /\ fence' = fence /\ issued' = issued
        /\ \/ fencing' = fencing
           \/ /\ ~m.released /\ m.key = Primary /\ m.entry.gen > generations[r][m.key]
              /\ fencing' = [fencing EXCEPT ![r] = fencing[r] \union {m.entry.gen}]
    BY <1>2 DEF Receive, storeVars
  <2>2. m.key \in Keys /\ m.entry \in Entry /\ m.entry.gen \in Nat
    BY DEF TypeOK, Announcement, Entry
  <2>3. generations[r][m.key] \in Nat BY <2>2 DEF TypeOK
  <2>4. ASSUME ~m.released, m.key = Primary, m.entry.gen > generations[r][m.key]
        PROVE  IsPrimary(issued', m.entry.gen)
    <3>1. Genuine(issued, Primary, m.entry) BY <2>4 DEF FencingInv, MessagesGenuine
    <3>2. Present(m.entry) BY <2>2, <2>3, <2>4 DEF Present
    <3> QED BY <2>1, <3>1, <3>2 DEF Genuine, IsPrimary
  <2> QED BY <1>t, <1>0, <2>1, <2>4 DEF FencesGenuine
<1>3. ASSUME NEW r \in Relays, ObserveFence(r) PROVE FencesGenuine'
  <2>1. PICK g \in fencing[r] :
           /\ fencing' = [fencing EXCEPT ![r] = fencing[r] \ {g}]
           /\ fence' = [fence EXCEPT ![r] = g] \/ fence' = fence
    BY <1>3 DEF ObserveFence
  <2>2. IsPrimary(issued', g) BY <1>0
  <2> QED BY <1>t, <1>0, <2>1, <2>2 DEF FencesGenuine
<1>4. ASSUME NEW r \in Relays, Crash(r) PROVE FencesGenuine'
  <2>1. fence' = [fence EXCEPT ![r] = 0] /\ fencing' = [fencing EXCEPT ![r] = {}]
    BY <1>4 DEF Crash
  <2> QED BY <1>t, <1>0, <2>1 DEF FencesGenuine
<1>5. ASSUME NEW r \in Relays, RelayStep(r) PROVE FencesGenuine'
  <2>1. CASE \/ Bootstrap(r) \/ SnapshotStart(r) \/ SnapshotRead(r) \/ SnapshotInstall(r)
             \/ RevokeCredential(r)
    <3>1. UNCHANGED <<fence, fencing>>
      BY <2>1 DEF Bootstrap, SnapshotStart, SnapshotRead, SnapshotInstall, RevokeCredential,
         routerVars
    <3> QED BY <3>1, <1>k
  <2> QED BY <1>2, <1>3, <1>4, <1>5, <2>1 DEF RelayStep
<1>6. CASE UNCHANGED vars \/ DisablePeer \/ Tick \/ \E k \in Keys : Prune(k)
  <2>1. UNCHANGED <<fence, fencing>> BY <1>6 DEF vars, DisablePeer, Tick, Prune, routerVars
  <2> QED BY <2>1, <1>k
<1> QED BY <1>1, <1>5, <1>6 DEF Next

-----------------------------------------------------------------------------
(* The fencing theorems                                                    *)

\* The inductive invariant holds initially and every step preserves it.
LEMMA FencingInductive ==
    /\ Init => FencingInv
    /\ FencingInv /\ TypeOK /\ TypeOK' /\ [Next]_vars => FencingInv'
<1>1. ASSUME Init PROVE FencingInv
  <2>1. /\ \A k \in Keys : rows[k] = NoEntry
        /\ \A r \in Relays : \A k \in Keys : entries[r][k] = NoEntry /\ snapRows[r][k] = NoEntry
        /\ \A s \in Sessions : pc[s] = "idle"
        /\ \A r \in Relays : fence[r] = 0 /\ fencing[r] = {}
        /\ msgs = {}
    BY <1>1 DEF Init
  <2>2. RowsGenuine /\ CachesGenuine /\ EntriesAtFence
    BY <2>1, NoEntryType DEF RowsGenuine, CachesGenuine, EntriesAtFence, Genuine
  <2>3. MessagesGenuine /\ SessionsGenuine /\ FencesGenuine
    BY <2>1 DEF MessagesGenuine, SessionsGenuine, SessionGenuine, FencesGenuine
  <2> QED BY <2>2, <2>3 DEF FencingInv
<1>2. ASSUME FencingInv, TypeOK, TypeOK', [Next]_vars PROVE FencingInv'
  <2>1. RowsGenuine /\ SessionsGenuine BY <1>2 DEF FencingInv
  <2>2. Grows /\ RowsGenuine' BY <1>2, <2>1, StoreStep
  <2>3. SessionsGenuine' BY <1>2, <2>1, <2>2, SessionsStep
  <2>4. CachesGenuine' /\ EntriesAtFence' BY <1>2, <2>2, CachesStep
  <2>5. MessagesGenuine' BY <1>2, <2>2, MessagesStep
  <2>6. FencesGenuine' BY <1>2, <2>2, FencesStep
  <2> QED BY <2>2, <2>3, <2>4, <2>5, <2>6 DEF FencingInv
<1> QED BY <1>1, <1>2

\* Whatever is lost, delayed, repeated or crashed, every row, cached entry,
\* snapshot, announcement and router fence carries a generation the store
\* handed out for exactly that key and session.
THEOREM FencingInvariant == Spec => []FencingInv
BY FencingInductive, TypeCorrect, PTL DEF Spec

\* Two Relays that believe in the same generation agree on its key and on its
\* session: acquire_presence never hands a generation out twice.
THEOREM GenerationsAreUnique == Spec => []OneOwnerPerGeneration
<1>1. FencingInv /\ TypeOK => OneOwnerPerGeneration
  <2> SUFFICES ASSUME FencingInv, TypeOK, NEW r \in Relays, NEW q \in Relays, NEW k \in Keys,
                      NEW l \in Keys, Present(entries[r][k]), entries[r][k].gen = entries[q][l].gen
               PROVE  k = l /\ entries[r][k].sess = entries[q][l].sess
    BY DEF OneOwnerPerGeneration
  <2>1. Present(entries[q][l]) BY DEF Present
  <2>2. /\ issued[entries[r][k].gen] = [key |-> k, sess |-> entries[r][k].sess]
        /\ issued[entries[q][l].gen] = [key |-> l, sess |-> entries[q][l].sess]
    BY <2>1 DEF FencingInv, CachesGenuine, Genuine
  <2> QED BY <2>2
<1> QED BY <1>1, FencingInvariant, TypeCorrect, PTL

\* observe_fence and install_acquired never put the router at a generation that
\* was handed out for a standby.
THEOREM FencesArePrimary == Spec => []RouterFencesArePrimary
<1>1. FencingInv /\ TypeOK => RouterFencesArePrimary
  BY DEF FencingInv, FencesGenuine, IsPrimary, RouterFencesArePrimary, TypeOK
<1> QED BY <1>1, FencingInvariant, TypeCorrect, PTL

\* observe and install_snapshot never bring a superseded or released incarnation
\* back into a cache.
THEOREM ReleasedStaysReleased == Spec => NoResurrection
<1> DEFINE NoReturn == \A r \in Relays : \A k \in Keys :
                          Present(entries[r][k]') =>
                              \/ entries[r][k]'.gen > generations[r][k]
                              \/ entries[r][k]'.gen = entries[r][k].gen
<1>1. FencingInv /\ TypeOK /\ TypeOK' /\ [Next]_vars => NoReturn
  <2> SUFFICES ASSUME FencingInv, TypeOK, TypeOK', [Next]_vars, NEW r \in Relays, NEW k \in Keys,
                      Present(entries'[r][k])
               PROVE  \/ entries'[r][k].gen > generations[r][k]
                      \/ entries'[r][k].gen = entries[r][k].gen
    OBVIOUS
  <2>1. RowsGenuine BY DEF FencingInv
  <2>2. Grows BY <2>1, StoreStep
  <2>3. CellStep(r, k) BY <2>2, CacheSteps DEF CacheStep
  <2> QED BY <2>3 DEF CellStep
<1>2. [][NoReturn]_vars => NoResurrection BY PTL DEF NoResurrection
<1> QED BY <1>1, <1>2, FencingInvariant, TypeCorrect, PTL DEF Spec
=============================================================================
