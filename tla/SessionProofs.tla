---------------------------- MODULE SessionProofs ----------------------------
(***************************************************************************)
(* Leases and attachments of Presence, for every set of Relays and         *)
(* sessions, every number of faults and crashes and every length of the    *)
(* run: no copy of a lease outlives what its session asked for, a Relay    *)
(* never refuses the view of its own session, and the router keeps no      *)
(* attachment that nobody will detach.                                     *)
(***************************************************************************)
EXTENDS PresenceProofs

USE HostAssumption, KeyAssumption, WantedAssumption, BoundAssumption

-----------------------------------------------------------------------------
(* Leases.  The rows a snapshot has read belong to the copies, and a       *)
(* deadline never moves back because it is never beyond one lease from now.*)

\* A lease names a session and ends by the deadline of that session.
Within(until, e) == Present(e) => e.sess \in Sessions /\ e.deadline <= until[e.sess]

\* A stored copy is absent or such a lease.
Copy(until, e) == e = NoEntry \/ (Present(e) /\ Within(until, e))

DeadlinesOpen == \A s \in Sessions : deadline[s] <= now + Lease
RowsWithin == \A k \in Keys : Copy(deadline, rows[k])
EntriesWithin == \A r \in Relays : \A k \in Keys : Copy(deadline, entries[r][k])
ReadWithin == \A r \in Relays : \A k \in Keys : Copy(deadline, snapRows[r][k])
MessagesWithin == \A m \in msgs : Within(deadline, m.entry)

LeaseInv == DeadlinesOpen /\ RowsWithin /\ EntriesWithin /\ ReadWithin /\ MessagesWithin

\* Only a connection and a renewal move a deadline, to one lease from now.
LEMMA DeadlineSteps ==
    ASSUME TypeOK, TypeOK', DeadlinesOpen, [Next]_vars
    PROVE  /\ \A s \in Sessions : deadline[s] <= deadline'[s]
           /\ DeadlinesOpen'
<1>t. /\ deadline \in [Sessions -> Nat] /\ now \in Nat /\ now' \in Nat /\ Lease \in Nat
  BY DEF TypeOK
<1>1. deadline' = deadline \/ \E s \in Sessions : deadline' = [deadline EXCEPT ![s] = now + Lease]
  BY ZenonT(60) DEF Next, SessionStep, Connect, InstallAcquired, ObserveAcquired, FenceCheck,
     Disconnect,
         Renew, ObserveRenewal, PromoteRelease, PromoteForget, PromoteAcquire, Detach,
         ReleaseLocal, ReleaseRow, RelayStep, Receive, ObserveFence, Bootstrap, SnapshotStart,
         SnapshotRead, SnapshotInstall, Crash, RevokeCredential, DisablePeer, Tick, Prune,
         sessVars, vars
<1>2. now' = now \/ now' = now + 1
  BY ZenonT(60) DEF Next, SessionStep, Connect, InstallAcquired, ObserveAcquired, FenceCheck,
     Disconnect,
         Renew, ObserveRenewal, PromoteRelease, PromoteForget, PromoteAcquire, Detach,
         ReleaseLocal, ReleaseRow, RelayStep, Receive, ObserveFence, Bootstrap, SnapshotStart,
         SnapshotRead, SnapshotInstall, Crash, RevokeCredential, DisablePeer, Tick, Prune,
         DatabaseFault, envVars, vars
<1>3. \A s \in Sessions : deadline'[s] = deadline[s] \/ deadline'[s] = now + Lease
  BY <1>t, <1>1
<1>4. \A s \in Sessions : deadline[s] \in Nat /\ deadline[s] <= now + Lease
  BY <1>t DEF DeadlinesOpen
<1>5. now <= now' BY <1>t, <1>2
<1>6. \A s \in Sessions : deadline[s] <= deadline'[s] /\ deadline'[s] <= now' + Lease
  BY <1>t, <1>3, <1>4, <1>5
<1> QED BY <1>6 DEF DeadlinesOpen

\* The absent entry is a copy, whatever the deadlines.
LEMMA AbsentIsCopy == \A until : Copy(until, NoEntry)
BY DEF Copy

\* So a copy that was in time stays in time.
LEMMA WithinGrows ==
    ASSUME TypeOK, TypeOK', \A s \in Sessions : deadline[s] <= deadline'[s]
    PROVE  \A e \in Entry : /\ Within(deadline, e) => Within(deadline', e)
                            /\ Copy(deadline, e) => Copy(deadline', e)
<1>1. \A s \in Sessions : deadline[s] \in Nat /\ deadline'[s] \in Nat BY DEF TypeOK
<1>2. \A e \in Entry : e.deadline \in Nat BY DEF Entry
<1>3. \A e \in Entry : Within(deadline, e) => Within(deadline', e) BY <1>1, <1>2 DEF Within
<1> QED BY <1>3 DEF Copy

\* The absent entry and what a session announces are in time.
LEMMA OwnWithin ==
    ASSUME TypeOK
    PROVE  /\ Within(deadline, NoEntry)
           /\ \A s \in Sessions : Within(deadline, EntryOf(s))
<1>1. Within(deadline, NoEntry) BY NoEntryType DEF Within
<1>2. \A s \in Sessions : deadline[s] \in Nat BY DEF TypeOK
<1> QED BY <1>1, <1>2 DEF Within, EntryOf

-----------------------------------------------------------------------------
(* The copies                                                              *)

\* acquire_presence and renew_presence write the deadline the session remembers.
LEMMA RowsWithinStep ==
    ASSUME TypeOK, TypeOK', RowsWithin, DeadlinesOpen, [Next]_vars
    PROVE  RowsWithin'
<1>g. \A e \in Entry : Copy(deadline, e) => Copy(deadline', e)
  BY DeadlineSteps, WithinGrows
<1>t. /\ rows \in [Keys -> Entry] /\ rows' \in [Keys -> Entry]
      /\ deadline \in [Sessions -> Nat] /\ deadline' \in [Sessions -> Nat]
      /\ now + Lease \in Nat
  BY DEF TypeOK
<1>k. ASSUME rows' = rows PROVE RowsWithin' BY <1>g, <1>k, <1>t DEF RowsWithin
<1>n. ASSUME \A k \in Keys : rows'[k] = rows[k] \/ rows'[k] = NoEntry PROVE RowsWithin'
  <2>1. Copy(deadline', NoEntry) BY AbsentIsCopy
  <2> QED BY <1>g, <1>n, <1>t, <2>1 DEF RowsWithin
<1>a. ASSUME NEW s \in Sessions, NEW k \in Keys, NEW until \in Nat,
             AcquirePresence(s, k, until), until <= deadline'[s]
      PROVE  RowsWithin'
  <2>1. \A l \in Keys : \/ rows'[l] = rows[l]
                        \/ rows'[l] = [gen |-> counter + 1, sess |-> s, deadline |-> until]
    BY <1>a, <1>t DEF AcquirePresence
  <2>2. Copy(deadline', [gen |-> counter + 1, sess |-> s, deadline |-> until])
    <3>1. counter + 1 # 0 BY DEF TypeOK
    <3> QED BY <1>a, <3>1 DEF Copy, Within, Present
  <2> QED BY <1>g, <1>t, <2>1, <2>2 DEF RowsWithin
<1>r. ASSUME NEW s \in Sessions, OwnsRow(s), RenewPresence(s, now + Lease),
             deadline' = [deadline EXCEPT ![s] = now + Lease]
      PROVE  RowsWithin'
  <2>1. KeyOf(s) \in Keys BY SessionEntryType
  <2>2. rows' = [rows EXCEPT ![KeyOf(s)] = [rows[KeyOf(s)] EXCEPT !.deadline = now + Lease]]
    BY <1>r DEF RenewPresence
  <2>3. /\ rows'[KeyOf(s)].deadline = now + Lease /\ rows'[KeyOf(s)].sess = s
        /\ \A l \in Keys \ {KeyOf(s)} : rows'[l] = rows[l]
    BY <1>r, <1>t, <2>1, <2>2 DEF Entry, OwnsRow
  <2>4. deadline'[s] = now + Lease BY <1>r, <1>t
  <2>5. rows'[KeyOf(s)].gen = rows[KeyOf(s)].gen /\ Present(rows[KeyOf(s)])
    <3>1. rows'[KeyOf(s)].gen = rows[KeyOf(s)].gen BY <1>t, <2>1, <2>2 DEF Entry
    <3>2. rows[KeyOf(s)] # NoEntry BY <1>r DEF OwnsRow, NoEntry
    <3> QED BY <2>1, <3>1, <3>2 DEF RowsWithin, Copy
  <2>6. Copy(deadline', rows'[KeyOf(s)]) BY <1>t, <2>3, <2>4, <2>5 DEF Copy, Within, Present
  <2> QED BY <1>g, <1>t, <2>3, <2>6 DEF RowsWithin
<1>f. ASSUME NEW s \in Sessions, ReleasePresence(s) PROVE RowsWithin'
  <2>1. \A k \in Keys : rows'[k] = rows[k] \/ rows'[k] = NoEntry BY <1>f, <1>t DEF ReleasePresence
  <2> QED BY <2>1, <1>n
<1>1. ASSUME NEW s \in Sessions, SessionStep(s) PROVE RowsWithin'
  <2>1. CASE Connect(s)
    <3>1. AcquirePresence(s, KeyOf(s), now + Lease) /\ deadline' = [deadline EXCEPT ![s] = now + Lease]
      BY <2>1 DEF Connect
    <3>2. KeyOf(s) \in Keys /\ now + Lease <= deadline'[s] BY <1>t, <3>1, SessionEntryType
    <3> QED BY <1>a, <1>t, <3>1, <3>2
  <2>2. CASE Renew(s)
    <3>1. deadline' = [deadline EXCEPT ![s] = now + Lease] BY <2>2 DEF Renew
    <3>2. CASE OwnsRow(s) /\ RenewPresence(s, now + Lease) BY <1>r, <3>1, <3>2
    <3>3. CASE UNCHANGED storeVars BY <1>k, <3>3 DEF storeVars
    <3> QED BY <2>2, <3>2, <3>3 DEF Renew
  <2>3. CASE PromoteRelease(s)
    <3>1. rows' = rows \/ ReleasePresence(s) BY <2>3 DEF PromoteRelease, storeVars
    <3> QED BY <1>k, <1>f, <3>1
  <2>4. CASE PromoteAcquire(s)
    <3>1. deadline' = deadline /\ (rows' = rows \/ AcquirePresence(s, Primary, deadline[s]))
      BY <2>4 DEF PromoteAcquire, storeVars
    <3>2. Primary \in Keys /\ deadline[s] \in Nat /\ deadline[s] <= deadline[s] BY <1>t DEF Keys
    <3> QED BY <1>k, <1>a, <3>1, <3>2
  <2>5. CASE ReleaseRow(s)
    <3>1. rows' = rows \/ ReleasePresence(s) BY <2>5 DEF ReleaseRow, storeVars
    <3> QED BY <1>k, <1>f, <3>1
  <2>6. CASE UNCHANGED storeVars BY <1>k, <2>6 DEF storeVars
  <2> QED BY <1>1, <2>1, <2>2, <2>3, <2>4, <2>5, <2>6
    DEF SessionStep, InstallAcquired, ObserveAcquired, FenceCheck, Disconnect, ObserveRenewal,
        PromoteForget, Detach, ReleaseLocal
<1>2. ASSUME NEW r \in Relays, RelayStep(r) PROVE RowsWithin'
  <2>1. rows' = rows
    BY <1>2 DEF RelayStep, Receive, ObserveFence, Bootstrap, SnapshotStart, SnapshotRead,
                SnapshotInstall, Crash, RevokeCredential, storeVars
  <2> QED BY <1>k, <2>1
<1>3. CASE DisablePeer \/ \E k \in Keys : Prune(k)
  <2>1. \A k \in Keys : rows'[k] = rows[k] \/ rows'[k] = NoEntry
    BY <1>3, <1>t DEF DisablePeer, Prune
  <2> QED BY <1>n, <2>1
<1>4. CASE Tick \/ UNCHANGED vars BY <1>k, <1>4 DEF Tick, storeVars, vars
<1> QED BY <1>1, <1>2, <1>3, <1>4 DEF Next

\* observe of a copy that is in time.
LEMMA ObserveWithin ==
    ASSUME TypeOK, EntriesWithin, NEW r \in Relays, NEW k \in Keys, NEW e \in Entry,
           NEW rel \in BOOLEAN, Observe(r, k, e, rel), Within(deadline, e)
    PROVE  \A q \in Relays : \A l \in Keys : Copy(deadline, entries'[q][l])
<1>t. entries \in [Relays -> [Keys -> Entry]] /\ entries[r] \in [Keys -> Entry] BY DEF TypeOK
<1>1. CASE Accepts(entries[r], generations[r], k, e, rel)
  <2>1. entries' = [entries EXCEPT ![r] = [entries[r] EXCEPT ![k] = Observed(e, rel)]]
    BY <1>1 DEF Observe
  <2>2. \A q \in Relays : \A l \in Keys :
          entries'[q][l] = entries[q][l] \/ entries'[q][l] = Observed(e, rel)
    BY <1>t, <2>1
  <2>3. Present(e) BY <1>1 DEF Accepts, NotRolledBack, Present, Entry
  <2>4. Copy(deadline, e) BY <2>3 DEF Copy
  <2>5. Observed(e, rel) = e \/ Observed(e, rel) = NoEntry BY DEF Observed
  <2>6. Copy(deadline, Observed(e, rel)) BY <2>4, <2>5, AbsentIsCopy
  <2> QED BY <2>2, <2>6 DEF EntriesWithin
<1>2. CASE ~Accepts(entries[r], generations[r], k, e, rel)
  BY <1>2 DEF Observe, cacheVars, EntriesWithin
<1> QED BY <1>1, <1>2

\* A cache takes what a session announces, what arrives and what was read.
LEMMA EntriesWithinStep ==
    ASSUME TypeOK, TypeOK', LeaseInv, [Next]_vars
    PROVE  EntriesWithin'
<1>g. \A e \in Entry : Copy(deadline, e) => Copy(deadline', e)
  BY DeadlineSteps, WithinGrows DEF LeaseInv
<1>t. /\ entries \in [Relays -> [Keys -> Entry]] /\ entries' \in [Relays -> [Keys -> Entry]]
      /\ snapRows \in [Relays -> [Keys -> Entry]] /\ msgs \subseteq Announcement
  BY DEF TypeOK
<1>e. ASSUME \A q \in Relays : \A l \in Keys : Copy(deadline, entries'[q][l]) PROVE EntriesWithin'
  BY <1>e, <1>g, <1>t DEF EntriesWithin
<1>k. ASSUME UNCHANGED entries PROVE EntriesWithin' BY <1>e, <1>k DEF LeaseInv, EntriesWithin
<1>o. ASSUME NEW r \in Relays, NEW k \in Keys, NEW e \in Entry, NEW rel \in BOOLEAN,
             Observe(r, k, e, rel), Within(deadline, e)
      PROVE  EntriesWithin'
  BY <1>e, <1>o, ObserveWithin DEF LeaseInv
<1>1. ASSUME NEW s \in Sessions, SessionStep(s) PROVE EntriesWithin'
  <2>1. /\ Host[s] \in Relays /\ KeyOf(s) \in Keys /\ EntryOf(s) \in Entry
        /\ Within(deadline, EntryOf(s)) /\ TRUE \in BOOLEAN /\ FALSE \in BOOLEAN
    BY SessionEntryType, OwnWithin
  <2>2. \/ UNCHANGED entries
        \/ Observe(Host[s], KeyOf(s), EntryOf(s), TRUE)
        \/ Observe(Host[s], KeyOf(s), EntryOf(s), FALSE)
    BY <1>1 DEF SessionStep, Connect, InstallAcquired, ObserveAcquired, FenceCheck, Disconnect,
                Renew, ObserveRenewal, PromoteRelease, PromoteForget, PromoteAcquire, Detach,
                ReleaseLocal, ReleaseRow, cacheVars
  <2> QED BY <1>k, <1>o, <2>1, <2>2
<1>2. ASSUME NEW r \in Relays, NEW m \in msgs, Receive(r, m) PROVE EntriesWithin'
  <2>1. /\ m.key \in Keys /\ m.entry \in Entry /\ m.released \in BOOLEAN
        /\ Within(deadline, m.entry)
    BY <1>t DEF Announcement, LeaseInv, MessagesWithin
  <2> QED BY <1>2, <1>o, <2>1 DEF Receive
<1>3. ASSUME NEW r \in Relays, SnapshotInstall(r) PROVE EntriesWithin'
  <2> DEFINE kept == Retained(entries[r], snapRows[r], fresh[r])
  <2>1. entries' = [entries EXCEPT ![r] =
                      InstalledEntries(entries[r], generations[r], snapRows[r], fresh[r])]
    BY <1>3 DEF SnapshotInstall
  <2>2. \A l \in Keys : kept[l] = entries[r][l] \/ kept[l] = NoEntry BY DEF Retained
  <2>3. \A l \in Keys : \/ entries'[r][l] = snapRows[r][l] \/ entries'[r][l] = kept[l]
    BY <1>t, <2>1 DEF InstalledEntries
  <2>4. \A l \in Keys : Copy(deadline, entries'[r][l])
    <3> HIDE DEF kept
    <3> QED BY <2>2, <2>3, AbsentIsCopy DEF LeaseInv, EntriesWithin, ReadWithin
  <2>5. \A q \in Relays \ {r} : entries'[q] = entries[q] BY <1>t, <2>1
  <2>6. \A q \in Relays : \A l \in Keys : Copy(deadline, entries'[q][l])
    BY <2>4, <2>5 DEF LeaseInv, EntriesWithin
  <2> QED BY <1>e, <2>6
<1>4. ASSUME NEW r \in Relays, Crash(r) PROVE EntriesWithin'
  <2>1. \A q \in Relays : \A l \in Keys : entries'[q][l] = entries[q][l] \/ entries'[q][l] = NoEntry
    BY <1>4, <1>t DEF Crash
  <2>2. \A q \in Relays : \A l \in Keys : Copy(deadline, entries'[q][l])
    BY <2>1, AbsentIsCopy DEF LeaseInv, EntriesWithin
  <2> QED BY <1>e, <2>2
<1>5. ASSUME NEW r \in Relays, RelayStep(r) PROVE EntriesWithin'
  <2>1. (\E m \in msgs : Receive(r, m)) \/ SnapshotInstall(r) \/ Crash(r) \/ UNCHANGED entries
    BY <1>5 DEF RelayStep, ObserveFence, Bootstrap, SnapshotStart, SnapshotRead,
                RevokeCredential, cacheVars
  <2> QED BY <1>2, <1>3, <1>4, <1>k, <2>1
<1>6. CASE DisablePeer \/ Tick \/ (\E k \in Keys : Prune(k)) \/ UNCHANGED vars
  BY <1>6, <1>k DEF DisablePeer, Tick, Prune, cacheVars, vars
<1> QED BY <1>1, <1>5, <1>6 DEF Next

\* A snapshot reads rows.
LEMMA ReadWithinStep ==
    ASSUME TypeOK, TypeOK', LeaseInv, [Next]_vars
    PROVE  ReadWithin'
<1>g. \A e \in Entry : Copy(deadline, e) => Copy(deadline', e)
  BY DeadlineSteps, WithinGrows DEF LeaseInv
<1>t. /\ snapRows \in [Relays -> [Keys -> Entry]] /\ snapRows' \in [Relays -> [Keys -> Entry]]
      /\ rows \in [Keys -> Entry]
  BY DEF TypeOK
<1>e. ASSUME \A q \in Relays : \A l \in Keys : \/ snapRows'[q][l] = snapRows[q][l]
                                               \/ snapRows'[q][l] = rows[l]
                                               \/ snapRows'[q][l] = NoEntry
      PROVE  ReadWithin'
  <2>1. \A q \in Relays : \A l \in Keys : Copy(deadline, snapRows'[q][l])
    BY <1>e, AbsentIsCopy DEF LeaseInv, ReadWithin, RowsWithin
  <2> QED BY <1>g, <1>t, <2>1 DEF ReadWithin
<1>k. ASSUME UNCHANGED snapRows PROVE ReadWithin' BY <1>e, <1>k
<1>1. ASSUME NEW r \in Relays, SnapshotRead(r) PROVE ReadWithin'
  <2>1. CASE UNCHANGED snapRows BY <1>k, <2>1
  <2>2. CASE snapRows' = [snapRows EXCEPT ![r] =
               [k \in Keys |-> IF rows[k].deadline > now THEN rows[k] ELSE NoEntry]]
    <3>1. \A l \in Keys : snapRows'[r][l] = rows[l] \/ snapRows'[r][l] = NoEntry BY <1>t, <2>2
    <3>2. \A q \in Relays \ {r} : snapRows'[q] = snapRows[q] BY <1>t, <2>2
    <3> QED BY <1>e, <3>1, <3>2
  <2> QED BY <1>1, <2>1, <2>2 DEF SnapshotRead
<1>2. ASSUME NEW r \in Relays, SnapshotInstall(r) \/ Crash(r) PROVE ReadWithin'
  <2>1. snapRows' = [snapRows EXCEPT ![r] = [k \in Keys |-> NoEntry]]
    BY <1>2 DEF SnapshotInstall, Crash
  <2>2. \A l \in Keys : snapRows'[r][l] = NoEntry BY <1>t, <2>1
  <2>3. \A q \in Relays \ {r} : snapRows'[q] = snapRows[q] BY <1>t, <2>1
  <2> QED BY <1>e, <2>2, <2>3
<1>3. ASSUME NEW s \in Sessions, SessionStep(s) PROVE ReadWithin'
  <2>1. UNCHANGED snapRows
    BY <1>3 DEF SessionStep, Connect, InstallAcquired, ObserveAcquired, FenceCheck, Disconnect,
                Renew, ObserveRenewal, PromoteRelease, PromoteForget, PromoteAcquire, Detach,
                ReleaseLocal, ReleaseRow, snapVars
  <2> QED BY <1>k, <2>1
<1>4. ASSUME NEW r \in Relays, RelayStep(r) PROVE ReadWithin'
  <2>1. SnapshotRead(r) \/ SnapshotInstall(r) \/ Crash(r) \/ UNCHANGED snapRows
    BY <1>4 DEF RelayStep, Receive, ObserveFence, Bootstrap, SnapshotStart, RevokeCredential,
                snapVars
  <2> QED BY <1>1, <1>2, <1>k, <2>1
<1>5. CASE DisablePeer \/ Tick \/ (\E k \in Keys : Prune(k)) \/ UNCHANGED vars
  BY <1>5, <1>k DEF DisablePeer, Tick, Prune, snapVars, vars
<1> QED BY <1>3, <1>4, <1>5 DEF Next

\* A session announces its lease, a new link what the cache holds.
LEMMA MessagesWithinStep ==
    ASSUME TypeOK, TypeOK', LeaseInv, [Next]_vars
    PROVE  MessagesWithin'
<1>g. \A e \in Entry : Within(deadline, e) => Within(deadline', e)
  BY DeadlineSteps, WithinGrows DEF LeaseInv
<1>e. ASSUME \A m \in msgs' : m \in msgs \/ Within(deadline, m.entry) PROVE MessagesWithin'
  <2>1. \A m \in msgs' : m.entry \in Entry BY DEF TypeOK, Announcement
  <2>2. \A m \in msgs' : Within(deadline, m.entry) BY <1>e DEF LeaseInv, MessagesWithin
  <2> QED BY <1>g, <2>1, <2>2 DEF MessagesWithin
<1>1. ASSUME NEW s \in Sessions, SessionStep(s) PROVE MessagesWithin'
  <2>1. Within(deadline, EntryOf(s)) BY OwnWithin
  <2>2. \/ UNCHANGED msgs
        \/ Broadcast(KeyOf(s), EntryOf(s), TRUE)
        \/ Broadcast(KeyOf(s), EntryOf(s), FALSE)
    BY <1>1 DEF SessionStep, Connect, InstallAcquired, ObserveAcquired, FenceCheck, Disconnect,
                Renew, ObserveRenewal, PromoteRelease, PromoteForget, PromoteAcquire, Detach,
                ReleaseLocal, ReleaseRow
  <2>3. \A m \in msgs' : m \in msgs \/ m.entry = EntryOf(s) BY <2>2 DEF Broadcast
  <2> QED BY <1>e, <2>1, <2>3
<1>2. ASSUME NEW r \in Relays, Bootstrap(r) PROVE MessagesWithin'
  <2>1. \A m \in msgs' : m \in msgs \/ \E k \in Keys : m.entry = entries[r][k]
    BY <1>2 DEF Bootstrap, OwnedBy
  <2>2. \A k \in Keys : Within(deadline, entries[r][k])
    BY OwnWithin DEF LeaseInv, EntriesWithin, Copy
  <2> QED BY <1>e, <2>1, <2>2
<1>3. ASSUME NEW r \in Relays, RelayStep(r) PROVE MessagesWithin'
  <2>1. Bootstrap(r) \/ UNCHANGED msgs
    BY <1>3 DEF RelayStep, Receive, ObserveFence, SnapshotStart, SnapshotRead, SnapshotInstall,
                Crash, RevokeCredential
  <2> QED BY <1>2, <1>e, <2>1
<1>4. CASE DisablePeer \/ Tick \/ (\E k \in Keys : Prune(k)) \/ UNCHANGED vars
  BY <1>4, <1>e DEF DisablePeer, Tick, Prune, vars
<1> QED BY <1>1, <1>3, <1>4 DEF Next

-----------------------------------------------------------------------------
(* The lease theorems                                                      *)

\* Every copy of a lease stays within what its session asked for.
LEMMA LeaseInductive ==
    /\ Init => LeaseInv
    /\ LeaseInv /\ TypeOK /\ TypeOK' /\ [Next]_vars => LeaseInv'
<1>1. ASSUME Init PROVE LeaseInv
  <2>1. /\ \A k \in Keys : rows[k] = NoEntry
        /\ \A r \in Relays : \A k \in Keys : entries[r][k] = NoEntry /\ snapRows[r][k] = NoEntry
        /\ \A s \in Sessions : deadline[s] = 0
        /\ msgs = {} /\ now = 0
    BY <1>1 DEF Init
  <2>2. Copy(deadline, NoEntry) BY AbsentIsCopy
  <2>3. DeadlinesOpen BY <2>1 DEF DeadlinesOpen
  <2> QED BY <2>1, <2>2, <2>3 DEF LeaseInv, RowsWithin, EntriesWithin, ReadWithin, MessagesWithin
<1>2. ASSUME LeaseInv, TypeOK, TypeOK', [Next]_vars PROVE LeaseInv'
  <2>1. DeadlinesOpen /\ RowsWithin BY <1>2 DEF LeaseInv
  <2> QED BY <1>2, <2>1, DeadlineSteps, RowsWithinStep, EntriesWithinStep, ReadWithinStep,
             MessagesWithinStep DEF LeaseInv
<1> QED BY <1>1, <1>2

\* Every copy of a lease, in the database, in a cache, read by a snapshot or in
\* flight, ends by the deadline its session last asked for.
THEOREM LeaseInvariant == Spec => []LeaseInv
BY LeaseInductive, TypeCorrect, PTL DEF Spec

\* After a crash every Relay stops routing to the dead session within one lease:
\* what renew_presence, observe and install_snapshot keep never outlives it.
THEOREM LeasesBoundCopies == Spec => []LeaseBoundsCopies
<1>1. LeaseInv => LeaseBoundsCopies
  BY NoEntryType DEF LeaseInv, RowsWithin, EntriesWithin, MessagesWithin, Copy, Within,
                     LeaseBoundsCopies
<1> QED BY <1>1, LeaseInvariant, PTL

\* observe_local and release_local never fail for the session of their own Relay:
\* its generation names no other session, and no copy has a later deadline.
THEOREM OwnViewAgrees == Spec => []LocalObserveSucceeds
<1>1. LeaseInv /\ FencingInv /\ TypeOK => LocalObserveSucceeds
  <2> SUFFICES ASSUME LeaseInv, FencingInv, TypeOK, NEW s \in Sessions, NEW rel \in BOOLEAN,
                      pc[s] \in {"installed", "reinstalled", "renewed", "demoted"}
               PROVE  ~Conflicts(entries[Host[s]], KeyOf(s), EntryOf(s), rel)
    BY DEF LocalObserveSucceeds
  <2>1. HandedTo(issued, gen[s], KeyOf(s), s)
    BY DEF FencingInv, SessionsGenuine, SessionGenuine, KeyOf
  <2> DEFINE e == entries[Host[s]][KeyOf(s)]
  <2>2. KeyOf(s) \in Keys /\ Host[s] \in Relays /\ e \in Entry
    BY SessionEntryType DEF TypeOK
  <2>3. Genuine(issued, KeyOf(s), e) /\ Within(deadline, e)
    BY <2>2, OwnWithin DEF FencingInv, CachesGenuine, LeaseInv, EntriesWithin, Copy
  <2>4. Present(e) /\ e.gen = gen[s] => e.sess = s /\ e.deadline <= deadline[s]
    BY <2>1, <2>3 DEF Genuine, HandedTo, Within
  <2>5. e.deadline \in Nat /\ deadline[s] \in Nat BY <2>2 DEF Entry, TypeOK
  <2> QED BY <2>4, <2>5 DEF Conflicts, EntryOf
<1> QED BY <1>1, LeaseInvariant, FencingInvariant, TypeCorrect, PTL

-----------------------------------------------------------------------------
(* Attachments                                                             *)

\* The router's attachment belongs to a session that will still detach it.
Held(r, s, p, rl, g, a) ==
    /\ Host[s] = r /\ g[s] = a[r] /\ rl[s] = "primary"
    /\ p[s] \in {"installed", "reinstalled", "serving", "renewed", "ending"}

\* No step of a session, a Relay or the operator orphans an attachment.
LEMMA AttachmentStep ==
    ASSUME TypeOK, TypeOK', NoOrphanAttachment, [Next]_vars
    PROVE  NoOrphanAttachment'
<1> DEFINE Now(r, s) == Held(r, s, pc, role, gen, attached)
           Then(r, s) == Held(r, s, pc', role', gen', attached')
<1>t. /\ attached \in [Relays -> Nat] /\ pc \in [Sessions -> Phases]
      /\ role \in [Sessions -> Roles] /\ gen \in [Sessions -> Nat]
  BY DEF TypeOK
<1>i. \A r \in Relays : attached[r] # 0 => \E s \in Sessions : Now(r, s)
  BY DEF NoOrphanAttachment, Held
<1>o. ASSUME \A r \in Relays : attached'[r] # 0 => \E s \in Sessions : Then(r, s)
      PROVE  NoOrphanAttachment'
  BY <1>o DEF NoOrphanAttachment, Held
<1>k. ASSUME \A r \in Relays : attached'[r] = attached[r] \/ attached'[r] = 0,
             \A r \in Relays : \A s \in Sessions :
               attached'[r] # 0 /\ Now(r, s) => Then(r, s)
      PROVE  NoOrphanAttachment'
  BY <1>i, <1>k, <1>o
<1> HIDE DEF Now, Then
<1>1. ASSUME NEW s \in Sessions, SessionStep(s) PROVE NoOrphanAttachment'
  <2>1. CASE InstallAcquired(s)
    <3>1. /\ pc[s] \in {"acquired", "promoted"} /\ role' = role
          /\ gen' = [gen EXCEPT ![s] = pend[s]]
          /\ pc' = [pc EXCEPT ![s] = IF pc[s] = "acquired" THEN "installed" ELSE "reinstalled"]
      BY <2>1 DEF InstallAcquired
    <3>2. \/ attached' = attached
          \/ attached' = [attached EXCEPT ![Host[s]] = pend[s]] /\ role[s] = "primary"
      BY <2>1 DEF InstallAcquired
    <3>3. \A q \in Sessions \ {s} : pc'[q] = pc[q] /\ gen'[q] = gen[q] BY <1>t, <3>1
    <3>4. \A r \in Relays : ~Now(r, s) BY <3>1 DEF Now, Held
    <3>5. ASSUME NEW r \in Relays, attached'[r] = attached[r], NEW q \in Sessions, Now(r, q)
          PROVE  Then(r, q)
      BY <3>1, <3>3, <3>4, <3>5 DEF Now, Then, Held
    <3>6. CASE attached' = attached BY <1>k, <3>5, <3>6
    <3>7. CASE attached' = [attached EXCEPT ![Host[s]] = pend[s]] /\ role[s] = "primary"
      <4>1. attached'[Host[s]] = pend[s] /\ \A r \in Relays \ {Host[s]} : attached'[r] = attached[r]
        BY <1>t, <3>7
      <4>2. Then(Host[s], s) BY <1>t, <3>1, <3>7, <4>1 DEF Then, Held
      <4>3. \A r \in Relays \ {Host[s]} : attached'[r] # 0 => \E q \in Sessions : Then(r, q)
        BY <1>i, <3>5, <4>1
      <4> QED BY <1>o, <4>2, <4>3
    <3> QED BY <3>2, <3>6, <3>7
  <2>2. CASE Detach(s)
    <3>1. /\ attached' = [attached EXCEPT ![Host[s]] =
                            IF attached[Host[s]] = gen[s] THEN 0 ELSE attached[Host[s]]]
          /\ pc' = [pc EXCEPT ![s] = "detached"] /\ role' = role /\ gen' = gen
      BY <2>2 DEF Detach
    <3>2. /\ \A r \in Relays : attached'[r] = attached[r] \/ attached'[r] = 0
          /\ attached[Host[s]] = gen[s] => attached'[Host[s]] = 0
      BY <1>t, <3>1
    <3>3. \A q \in Sessions \ {s} : pc'[q] = pc[q] BY <1>t, <3>1
    <3>4. ASSUME NEW r \in Relays, NEW q \in Sessions, attached'[r] # 0, Now(r, q) PROVE Then(r, q)
      <4>1. attached'[r] = attached[r] BY <3>2, <3>4
      <4>2. q # s BY <3>2, <3>4 DEF Now, Held
      <4> QED BY <3>1, <3>3, <3>4, <4>1, <4>2 DEF Now, Then, Held
    <3> QED BY <1>k, <3>2, <3>4
  <2>3. CASE /\ UNCHANGED <<attached, gen>>
             /\ \A q \in Sessions \ {s} : pc'[q] = pc[q] /\ role'[q] = role[q]
             /\ \/ pc[s] \notin {"installed", "reinstalled", "serving", "renewed", "ending"}
                \/ role[s] # "primary"
                \/ /\ role'[s] = role[s]
                   /\ pc'[s] \in {"installed", "reinstalled", "serving", "renewed", "ending"}
    <3>1. ASSUME NEW r \in Relays, NEW q \in Sessions, Now(r, q) PROVE Then(r, q)
      BY <2>3, <3>1 DEF Now, Then, Held
    <3> QED BY <1>k, <2>3, <3>1
  <2>4. CASE Connect(s)
    <3>1. /\ pc[s] = "idle" /\ UNCHANGED <<attached, gen, role>>
          /\ pc' = [pc EXCEPT ![s] = "acquired"] \/ pc' = [pc EXCEPT ![s] = "lost"]
      BY <2>4 DEF Connect, routerVars
    <3>2. \A q \in Sessions \ {s} : pc'[q] = pc[q] BY <1>t, <3>1
    <3> QED BY <2>3, <3>1, <3>2
  <2>5. CASE \/ ObserveAcquired(s) \/ FenceCheck(s) \/ Disconnect(s) \/ Renew(s)
             \/ ObserveRenewal(s)
    <3>1. /\ UNCHANGED <<attached, gen, role>>
          /\ \/ pc' = [pc EXCEPT ![s] = "serving"] \/ pc' = [pc EXCEPT ![s] = "ending"]
             \/ pc' = [pc EXCEPT ![s] = "renewed"] \/ (pc' = pc /\ pc[s] = "serving")
      BY <2>5 DEF ObserveAcquired, FenceCheck, Disconnect, Renew, ObserveRenewal, End, routerVars
    <3>2. /\ \A q \in Sessions \ {s} : pc'[q] = pc[q]
          /\ pc'[s] \in {"serving", "renewed", "ending"}
      BY <1>t, <3>1
    <3> QED BY <2>3, <3>1, <3>2
  <2>6. CASE PromoteRelease(s) \/ PromoteForget(s) \/ PromoteAcquire(s)
    <3>1. /\ UNCHANGED <<attached, gen>>
          /\ \E p \in {"demoted", "ending", "promoting", "promoted"} : pc' = [pc EXCEPT ![s] = p]
          /\ role' = role \/ role' = [role EXCEPT ![s] = "primary"]
          /\ pc[s] \in {"demoted", "promoting"} \/ role[s] = "standby"
      BY <2>6 DEF PromoteRelease, PromoteForget, PromoteAcquire, End, routerVars
    <3>2. \A q \in Sessions \ {s} : pc'[q] = pc[q] /\ role'[q] = role[q] BY <1>t, <3>1
    <3> QED BY <2>3, <3>1, <3>2
  <2>7. CASE ReleaseLocal(s) \/ ReleaseRow(s)
    <3>1. /\ UNCHANGED <<attached, gen, role>> /\ pc[s] \in {"detached", "forgotten"}
          /\ pc' = [pc EXCEPT ![s] = "forgotten"] \/ pc' = [pc EXCEPT ![s] = "ended"]
      BY <2>7 DEF ReleaseLocal, ReleaseRow, routerVars
    <3>2. \A q \in Sessions \ {s} : pc'[q] = pc[q] BY <1>t, <3>1
    <3> QED BY <2>3, <3>1, <3>2
  <2> QED BY <1>1, <2>1, <2>2, <2>4, <2>5, <2>6, <2>7 DEF SessionStep
<1>2. ASSUME NEW r \in Relays, Crash(r) PROVE NoOrphanAttachment'
  <2>1. /\ attached' = [attached EXCEPT ![r] = 0] /\ role' = role /\ gen' = gen
        /\ \A s \in Sessions : Host[s] # r => pc'[s] = pc[s]
    BY <1>2 DEF Crash
  <2>2. attached'[r] = 0 /\ \A q \in Relays \ {r} : attached'[q] = attached[q] BY <1>t, <2>1
  <2>3. ASSUME NEW q \in Relays, NEW s \in Sessions, attached'[q] # 0, Now(q, s) PROVE Then(q, s)
    BY <2>1, <2>2, <2>3 DEF Now, Then, Held
  <2> QED BY <1>k, <2>2, <2>3
<1>3. ASSUME NEW r \in Relays, RevokeCredential(r) PROVE NoOrphanAttachment'
  <2>1. attached' = [attached EXCEPT ![r] = 0] /\ UNCHANGED sessVars
    BY <1>3 DEF RevokeCredential
  <2>2. attached'[r] = 0 /\ \A q \in Relays \ {r} : attached'[q] = attached[q] BY <1>t, <2>1
  <2>3. ASSUME NEW q \in Relays, NEW s \in Sessions, attached'[q] # 0, Now(q, s) PROVE Then(q, s)
    BY <2>1, <2>2, <2>3 DEF Now, Then, Held, sessVars
  <2> QED BY <1>k, <2>2, <2>3
<1>4. CASE UNCHANGED <<attached, sessVars>>
  <2>1. ASSUME NEW q \in Relays, NEW s \in Sessions, Now(q, s) PROVE Then(q, s)
    BY <1>4, <2>1 DEF Now, Then, Held, sessVars
  <2> QED BY <1>k, <1>4, <2>1
<1>5. ASSUME NEW r \in Relays, RelayStep(r) PROVE NoOrphanAttachment'
  <2>1. Crash(r) \/ RevokeCredential(r) \/ UNCHANGED <<attached, sessVars>>
    BY <1>5 DEF RelayStep, Receive, ObserveFence, Bootstrap, SnapshotStart, SnapshotRead,
                SnapshotInstall, routerVars
  <2> QED BY <1>2, <1>3, <1>4, <2>1
<1>6. CASE DisablePeer \/ Tick \/ (\E k \in Keys : Prune(k)) \/ UNCHANGED vars
  BY <1>6, <1>4 DEF DisablePeer, Tick, Prune, routerVars, vars
<1> QED BY <1>1, <1>5, <1>6 DEF Next

\* install_acquired, detach and revoke never leave the router with an attachment
\* that no session will detach.
THEOREM AttachmentsAreDetached == Spec => []NoOrphanAttachment
<1>1. Init => NoOrphanAttachment BY DEF Init, NoOrphanAttachment
<1> QED BY <1>1, AttachmentStep, TypeCorrect, PTL DEF Spec

-----------------------------------------------------------------------------
(* Clean-up.  A row read before it was deleted may be installed after the  *)
(* session has gone; the generation the cache has seen by then stops it.   *)

\* Relay r has seen generation g of key k, or a later one, and does not hold g.
Over(r, k, g) == generations[r][k] >= g /\ entries[r][k].gen # g

\* The generation of the row a session holds or is about to hold.
Own(s) == IF pc[s] \in {"acquired", "promoted"} THEN pend[s] ELSE gen[s]

\* Phases in which a session may have a row, and may be in the cache.
Registered == {"acquired", "installed", "serving", "renewed", "promoted", "reinstalled",
               "ending", "detached"}
Cached == Registered \union {"demoted"}

Mine(s, k, e) == k = KeyOf(s) /\ e.gen = Own(s)

RowClean(s, k) ==
    rows[k].sess = s =>
        /\ Mine(s, k, rows[k])
        /\ pc[s] \in Registered \/ (pc[s] = "forgotten" /\ Over(Host[s], k, gen[s]))

EntryClean(s, k) ==
    entries[Host[s]][k].sess = s => Mine(s, k, entries[Host[s]][k]) /\ pc[s] \in Cached

ReadClean(s, k) ==
    snapRows[Host[s]][k].sess = s =>
        \/ Mine(s, k, snapRows[Host[s]][k]) /\ pc[s] \in Cached
        \/ Over(Host[s], k, snapRows[Host[s]][k].gen)

Clean(s, k) == RowClean(s, k) /\ EntryClean(s, k) /\ ReadClean(s, k)

CleanInv == faults = 0 => \A s \in Sessions : pc[s] # "crashed" => \A k \in Keys : Clean(s, k)

\* What names a session is present.
LEMMA NamedIsPresent ==
    ASSUME LeaseInv, NEW s \in Sessions, NEW r \in Relays, NEW k \in Keys
    PROVE  /\ rows[k].sess = s => Present(rows[k])
           /\ entries[r][k].sess = s => Present(entries[r][k])
           /\ snapRows[r][k].sess = s => Present(snapRows[r][k])
<1>1. NoEntry.sess # s BY DEF NoEntry
<1> QED BY <1>1 DEF LeaseInv, RowsWithin, EntriesWithin, ReadWithin, Copy

\* The fence of a key rises as long as the Relay runs.
LEMMA FencesRise ==
    ASSUME TypeOK, TypeOK', [Next]_vars, NEW r \in Relays, ~Crash(r), NEW k \in Keys
    PROVE  generations'[r][k] >= generations[r][k]
<1>t. generations \in [Relays -> [Keys -> Nat]] /\ generations' \in [Relays -> [Keys -> Nat]]
  BY DEF TypeOK
<1>k. ASSUME generations'[r] = generations[r] PROVE generations'[r][k] >= generations[r][k]
  BY <1>k, <1>t
<1>o. ASSUME NEW q \in Relays, NEW l \in Keys, NEW e \in Entry, NEW rel \in BOOLEAN,
             Observe(q, l, e, rel)
      PROVE  generations'[r][k] >= generations[r][k]
  <2>1. CASE ~Accepts(entries[q], generations[q], l, e, rel)
    BY <1>k, <1>o, <2>1 DEF Observe, cacheVars
  <2>2. CASE Accepts(entries[q], generations[q], l, e, rel)
    <3>1. generations' = [generations EXCEPT ![q] = [generations[q] EXCEPT ![l] = e.gen]]
      BY <1>o, <2>2 DEF Observe
    <3>2. e.gen >= generations[q][l] /\ e.gen \in Nat
      BY <2>2 DEF Accepts, NotRolledBack, Entry
    <3>3. \/ generations'[r][k] = generations[r][k]
          \/ r = q /\ k = l /\ generations'[r][k] = e.gen
      BY <1>t, <3>1
    <3> QED BY <1>t, <3>2, <3>3
  <2> QED BY <2>1, <2>2
<1>1. ASSUME NEW s \in Sessions, SessionStep(s) PROVE generations'[r][k] >= generations[r][k]
  <2>1. \/ UNCHANGED generations
        \/ Observe(Host[s], KeyOf(s), EntryOf(s), TRUE)
        \/ Observe(Host[s], KeyOf(s), EntryOf(s), FALSE)
    BY <1>1 DEF SessionStep, Connect, InstallAcquired, ObserveAcquired, FenceCheck, Disconnect,
                Renew, ObserveRenewal, PromoteRelease, PromoteForget, PromoteAcquire, Detach,
                ReleaseLocal, ReleaseRow, cacheVars
  <2>2. Host[s] \in Relays /\ KeyOf(s) \in Keys /\ EntryOf(s) \in Entry BY SessionEntryType
  <2> QED BY <1>k, <1>o, <2>1, <2>2
<1>2. ASSUME NEW q \in Relays, NEW m \in msgs, Receive(q, m)
      PROVE  generations'[r][k] >= generations[r][k]
  <2>1. m.key \in Keys /\ m.entry \in Entry /\ m.released \in BOOLEAN
    BY DEF TypeOK, Announcement
  <2> QED BY <1>2, <1>o, <2>1 DEF Receive
<1>3. ASSUME NEW q \in Relays, SnapshotInstall(q) PROVE generations'[r][k] >= generations[r][k]
  <2> DEFINE kept == Retained(entries[q], snapRows[q], fresh[q])
             In == InstallsRow(kept, generations[q], snapRows[q], fresh[q], k)
  <2>1. generations' = [generations EXCEPT ![q] =
                          InstalledGenerations(entries[q], generations[q], snapRows[q], fresh[q])]
    BY <1>3 DEF SnapshotInstall
  <2>2. CASE q # r BY <1>k, <1>t, <2>1, <2>2
  <2>3. CASE q = r
    <3>1. generations'[q][k] = IF In THEN snapRows[q][k].gen ELSE generations[q][k]
      BY <1>t, <2>1 DEF InstalledGenerations
    <3>2. In => snapRows[q][k].gen >= generations[q][k]
      BY DEF InstallsRow, Accepts, NotRolledBack
    <3> QED BY <1>t, <2>3, <3>1, <3>2
  <2> QED BY <2>2, <2>3
<1>4. ASSUME NEW q \in Relays, RelayStep(q) PROVE generations'[r][k] >= generations[r][k]
  <2>1. CASE Crash(q)
    <3>1. q # r /\ generations' = [generations EXCEPT ![q] = [l \in Keys |-> 0]]
      BY <2>1 DEF Crash
    <3> QED BY <1>k, <1>t, <3>1
  <2>2. (\E m \in msgs : Receive(q, m)) \/ SnapshotInstall(q) \/ Crash(q) \/ UNCHANGED generations
    BY <1>4 DEF RelayStep, ObserveFence, Bootstrap, SnapshotStart, SnapshotRead,
                RevokeCredential, cacheVars
  <2> QED BY <1>2, <1>3, <1>k, <2>1, <2>2
<1>5. CASE DisablePeer \/ Tick \/ (\E l \in Keys : Prune(l)) \/ UNCHANGED vars
  BY <1>5, <1>k DEF DisablePeer, Tick, Prune, cacheVars, vars
<1> QED BY <1>1, <1>4, <1>5 DEF Next

\* So a generation that is over at a running Relay stays over.
LEMMA OverStays ==
    ASSUME TypeOK, TypeOK', FencingInv, [Next]_vars, NEW r \in Relays, ~Crash(r),
           NEW k \in Keys, NEW g \in Nat \ {0}, Over(r, k, g)
    PROVE  generations'[r][k] >= g /\ entries'[r][k].gen # g
<1>1. generations'[r][k] >= generations[r][k] BY FencesRise
<1>2. CellStep(r, k)
  <2>1. Grows BY StoreStep DEF FencingInv
  <2> QED BY <2>1, CacheSteps DEF CacheStep
<1>3. generations[r][k] \in Nat /\ generations'[r][k] \in Nat BY DEF TypeOK
<1>4. entries[r][k] \in Entry /\ entries'[r][k] \in Entry BY DEF TypeOK
<1>5. entries'[r][k].gen \in Nat /\ entries[r][k].gen \in Nat BY <1>4 DEF Entry
<1> QED BY <1>1, <1>2, <1>3, <1>5 DEF Over, CellStep, Present

\* After a release a generation of the session is over at its Relay.
LEMMA ReleasedIsOver ==
    ASSUME TypeOK, FencingInv, NEW s \in Sessions, gen[s] # 0,
           HandedTo(issued, gen[s], KeyOf(s), s),
           Observe(Host[s], KeyOf(s), EntryOf(s), TRUE)
    PROVE  /\ generations'[Host[s]][KeyOf(s)] >= gen[s]
           /\ entries'[Host[s]][KeyOf(s)].gen # gen[s]
<1> DEFINE r == Host[s]
           k == KeyOf(s)
           e == EntryOf(s)
<1>t. /\ r \in Relays /\ k \in Keys /\ gen[s] \in Nat
      /\ entries \in [Relays -> [Keys -> Entry]] /\ generations \in [Relays -> [Keys -> Nat]]
      /\ entries[r] \in [Keys -> Entry] /\ generations[r] \in [Keys -> Nat]
  BY SessionEntryType DEF TypeOK
<1>e. e.gen = gen[s] /\ e.sess = s BY DEF EntryOf
<1> HIDE DEF r, k, e
<1>1. CASE Accepts(entries[r], generations[r], k, e, TRUE)
  <2>1. /\ entries' = [entries EXCEPT ![r] = [entries[r] EXCEPT ![k] = Observed(e, TRUE)]]
        /\ generations' = [generations EXCEPT ![r] = [generations[r] EXCEPT ![k] = e.gen]]
    BY <1>1 DEF Observe, r, k, e
  <2>2. entries'[r][k] = NoEntry /\ generations'[r][k] = e.gen BY <1>t, <2>1 DEF Observed
  <2> QED BY <1>t, <1>e, <2>2 DEF NoEntry, r, k
<1>2. CASE ~Accepts(entries[r], generations[r], k, e, TRUE)
  <2>1. entries' = entries /\ generations' = generations
    BY <1>2 DEF Observe, cacheVars, r, k, e
  <2>2. /\ Present(entries[r][k]) => entries[r][k].gen = generations[r][k]
        /\ Genuine(issued, k, entries[r][k])
    BY <1>t DEF FencingInv, EntriesAtFence, CachesGenuine
  <2>3. Present(entries[r][k]) /\ entries[r][k].gen = gen[s] => entries[r][k].sess = s
    BY <2>2 DEF Genuine, HandedTo, k
  <2>4. ~Conflicts(entries[r], k, e, TRUE) BY <1>e, <2>3 DEF Conflicts
  <2>5. e.gen < generations[r][k] \/ (~Present(entries[r][k]) /\ e.gen = generations[r][k])
    <3>1. generations[r][k] \in Nat /\ e.gen \in Nat /\ e.gen > 0 BY <1>e, <1>t
    <3>2. ~NotRolledBack(generations[r], k, e) \/ Tombstoned(entries[r], generations[r], k, e)
      BY <1>2, <2>4 DEF Accepts
    <3> QED BY <3>1, <3>2 DEF NotRolledBack, Tombstoned
  <2>6. entries[r][k].gen \in Nat BY <1>t DEF Entry
  <2>7. generations[r][k] >= gen[s] /\ entries[r][k].gen # gen[s]
    BY <1>e, <1>t, <2>2, <2>5, <2>6 DEF Present
  <2> QED BY <2>1, <2>7 DEF r, k
<1> QED BY <1>1, <1>2

\* Only an acquisition gives a session a row.
LEMMA RowsOf ==
    ASSUME TypeOK, [Next]_vars, NEW s \in Sessions, NEW k \in Keys, rows'[k].sess = s
    PROVE  \/ rows[k].sess = s /\ rows'[k].gen = rows[k].gen
           \/ Connect(s) /\ k = KeyOf(s) /\ rows'[k].gen = counter + 1
           \/ PromoteAcquire(s) /\ k = Primary /\ rows'[k].gen = counter + 1
<1> DEFINE Old == rows[k].sess = s /\ rows'[k].gen = rows[k].gen
<1>t. rows \in [Keys -> Entry] /\ rows[k] \in Entry BY DEF TypeOK
<1>k. ASSUME rows' = rows PROVE Old BY <1>k
<1>n. ASSUME rows'[k] = rows[k] \/ rows'[k] = NoEntry PROVE Old
  <2>1. rows'[k] # NoEntry BY DEF NoEntry
  <2> QED BY <1>n, <2>1
<1>a. ASSUME NEW q \in Sessions, NEW l \in Keys, NEW until \in Nat, AcquirePresence(q, l, until)
      PROVE  Old \/ (q = s /\ k = l /\ rows'[k].gen = counter + 1)
  <2>1. rows' = [rows EXCEPT ![l] = [gen |-> counter + 1, sess |-> q, deadline |-> until]]
    BY <1>a DEF AcquirePresence
  <2>2. CASE k = l BY <1>t, <2>1, <2>2
  <2>3. CASE k # l BY <1>t, <2>1, <2>3
  <2> QED BY <2>2, <2>3
<1>1. ASSUME NEW q \in Sessions, SessionStep(q)
      PROVE  \/ Old
             \/ Connect(s) /\ k = KeyOf(s) /\ rows'[k].gen = counter + 1
             \/ PromoteAcquire(s) /\ k = Primary /\ rows'[k].gen = counter + 1
  <2>0. KeyOf(q) \in Keys /\ now + Lease \in Nat /\ deadline[q] \in Nat /\ Primary \in Keys
    <3>1. now \in Nat /\ deadline[q] \in Nat BY DEF TypeOK
    <3> QED BY <3>1, SessionEntryType DEF Keys
  <2>1. CASE Connect(q)
    <3>1. AcquirePresence(q, KeyOf(q), now + Lease) BY <2>1 DEF Connect
    <3> QED BY <1>a, <2>0, <2>1, <3>1
  <2>2. CASE Renew(q)
    <3>1. rows' = rows \/ rows' = [rows EXCEPT ![KeyOf(q)] =
                                     [rows[KeyOf(q)] EXCEPT !.deadline = now + Lease]]
      BY <2>2 DEF Renew, RenewPresence, storeVars
    <3>2. CASE rows' = rows BY <1>k, <3>2
    <3>3. CASE rows' = [rows EXCEPT ![KeyOf(q)] =
                          [rows[KeyOf(q)] EXCEPT !.deadline = now + Lease]]
      <4>1. CASE k = KeyOf(q) BY <1>t, <3>3, <4>1 DEF Entry
      <4>2. CASE k # KeyOf(q) BY <1>t, <3>3, <4>2
      <4> QED BY <4>1, <4>2
    <3> QED BY <3>1, <3>2, <3>3
  <2>3. CASE PromoteRelease(q) \/ ReleaseRow(q)
    <3>1. rows' = rows \/ rows' = [rows EXCEPT ![KeyOf(q)] = NoEntry]
      BY <2>3 DEF PromoteRelease, ReleaseRow, ReleasePresence, storeVars
    <3>2. rows'[k] = rows[k] \/ rows'[k] = NoEntry BY <1>t, <3>1
    <3> QED BY <1>n, <3>2
  <2>4. CASE PromoteAcquire(q)
    <3>1. rows' = rows \/ AcquirePresence(q, Primary, deadline[q])
      BY <2>4 DEF PromoteAcquire, storeVars
    <3> QED BY <1>a, <1>k, <2>0, <2>4, <3>1
  <2>5. CASE UNCHANGED storeVars BY <1>k, <2>5 DEF storeVars
  <2> QED BY <1>1, <2>1, <2>2, <2>3, <2>4, <2>5
    DEF SessionStep, InstallAcquired, ObserveAcquired, FenceCheck, Disconnect, ObserveRenewal,
        PromoteForget, Detach, ReleaseLocal
<1>2. ASSUME NEW r \in Relays, RelayStep(r) PROVE Old
  <2>1. rows' = rows
    BY <1>2 DEF RelayStep, Receive, ObserveFence, Bootstrap, SnapshotStart, SnapshotRead,
                SnapshotInstall, Crash, RevokeCredential, storeVars
  <2> QED BY <1>k, <2>1
<1>3. CASE DisablePeer \/ \E l \in Keys : Prune(l)
  <2>1. rows'[k] = rows[k] \/ rows'[k] = NoEntry BY <1>3, <1>t DEF DisablePeer, Prune
  <2> QED BY <1>n, <2>1
<1>4. CASE Tick \/ UNCHANGED vars BY <1>k, <1>4 DEF Tick, storeVars, vars
<1> QED BY <1>1, <1>2, <1>3, <1>4 DEF Next

\* A cache learns of a session of its own Relay from that session or from a
\* snapshot, and the snapshot does not bring back what is over.
LEMMA EntriesOf ==
    ASSUME TypeOK, FencingInv, [Next]_vars, NEW s \in Sessions, NEW k \in Keys,
           entries'[Host[s]][k].sess = s
    PROVE  \/ entries[Host[s]][k].sess = s /\ entries'[Host[s]][k].gen = entries[Host[s]][k].gen
           \/ /\ pc[s] \in {"installed", "reinstalled", "renewed"}
              /\ k = KeyOf(s) /\ entries'[Host[s]][k].gen = gen[s]
           \/ /\ SnapshotInstall(Host[s]) /\ entries'[Host[s]][k] = snapRows[Host[s]][k]
              /\ ~Over(Host[s], k, snapRows[Host[s]][k].gen)
<1> DEFINE r == Host[s]
           Old == entries[r][k].sess = s /\ entries'[r][k].gen = entries[r][k].gen
<1>t. /\ r \in Relays /\ entries \in [Relays -> [Keys -> Entry]] /\ entries[r] \in [Keys -> Entry]
  BY DEF TypeOK
<1>z. entries'[r][k] # NoEntry BY DEF NoEntry
<1> HIDE DEF r
<1>k. ASSUME entries'[r][k] = entries[r][k] \/ entries'[r][k] = NoEntry PROVE Old
  BY <1>k, <1>z DEF r
<1>o. ASSUME NEW q \in Relays, NEW l \in Keys, NEW e \in Entry, NEW rel \in BOOLEAN,
             Observe(q, l, e, rel)
      PROVE  Old \/ (q = r /\ k = l /\ ~rel /\ entries'[r][k] = e)
  <2>1. CASE ~Accepts(entries[q], generations[q], l, e, rel)
    BY <1>k, <1>o, <2>1 DEF Observe, cacheVars
  <2>2. CASE Accepts(entries[q], generations[q], l, e, rel)
    <3>1. entries' = [entries EXCEPT ![q] = [entries[q] EXCEPT ![l] = Observed(e, rel)]]
      BY <1>o, <2>2 DEF Observe
    <3>2. entries'[r][k] = entries[r][k] \/ (q = r /\ k = l /\ entries'[r][k] = Observed(e, rel))
      BY <1>t, <3>1
    <3> QED BY <1>k, <1>z, <3>2 DEF Observed
  <2> QED BY <2>1, <2>2
<1>1. ASSUME NEW q \in Sessions, SessionStep(q)
      PROVE  \/ Old
             \/ /\ pc[s] \in {"installed", "reinstalled", "renewed"}
                /\ k = KeyOf(s) /\ entries'[r][k].gen = gen[s]
  <2>1. \/ UNCHANGED entries
        \/ Observe(Host[q], KeyOf(q), EntryOf(q), TRUE)
        \/ /\ Observe(Host[q], KeyOf(q), EntryOf(q), FALSE)
           /\ pc[q] \in {"installed", "reinstalled", "renewed"}
    BY <1>1 DEF SessionStep, Connect, InstallAcquired, ObserveAcquired, FenceCheck, Disconnect,
                Renew, ObserveRenewal, PromoteRelease, PromoteForget, PromoteAcquire, Detach,
                ReleaseLocal, ReleaseRow, cacheVars
  <2>2. Host[q] \in Relays /\ KeyOf(q) \in Keys /\ EntryOf(q) \in Entry BY SessionEntryType
  <2>3. CASE UNCHANGED entries BY <1>k, <2>3
  <2>4. CASE Observe(Host[q], KeyOf(q), EntryOf(q), TRUE) BY <1>o, <2>2, <2>4
  <2>5. CASE /\ Observe(Host[q], KeyOf(q), EntryOf(q), FALSE)
             /\ pc[q] \in {"installed", "reinstalled", "renewed"}
    <3>1. Old \/ (k = KeyOf(q) /\ entries'[r][k] = EntryOf(q)) BY <1>o, <2>2, <2>5
    <3>2. EntryOf(q).sess = q /\ EntryOf(q).gen = gen[q] BY DEF EntryOf
    <3> QED BY <2>5, <3>1, <3>2 DEF r
  <2> QED BY <2>1, <2>3, <2>4, <2>5
<1>2. ASSUME NEW q \in Relays, NEW m \in msgs, Receive(q, m) PROVE Old
  <2>1. m.key \in Keys /\ m.entry \in Entry /\ m.released \in BOOLEAN
    BY DEF TypeOK, Announcement
  <2>2. Observe(q, m.key, m.entry, m.released) /\ Host[m.entry.sess] # q BY <1>2 DEF Receive
  <2>3. Old \/ (q = r /\ entries'[r][k] = m.entry) BY <1>o, <2>1, <2>2
  <2> QED BY <2>2, <2>3 DEF r
<1>3. ASSUME NEW q \in Relays, SnapshotInstall(q)
      PROVE  \/ Old
             \/ /\ SnapshotInstall(r) /\ entries'[r][k] = snapRows[r][k]
                /\ ~Over(r, k, snapRows[r][k].gen)
  <2> DEFINE kept == Retained(entries[q], snapRows[q], fresh[q])
             In == InstallsRow(kept, generations[q], snapRows[q], fresh[q], k)
  <2>1. entries' = [entries EXCEPT ![q] =
                      InstalledEntries(entries[q], generations[q], snapRows[q], fresh[q])]
    BY <1>3 DEF SnapshotInstall
  <2>2. CASE q # r BY <1>k, <1>t, <2>1, <2>2
  <2>3. CASE q = r
    <3>1. entries'[q][k] = IF In THEN snapRows[q][k] ELSE kept[k]
      BY <1>t, <2>1, <2>3 DEF InstalledEntries
    <3>2. kept[k] = entries[q][k] \/ kept[k] = NoEntry BY DEF Retained
    <3>3. In => /\ snapRows[q][k].gen >= generations[q][k]
                /\ snapRows[q][k].gen = generations[q][k] => Present(kept[k])
      BY DEF InstallsRow, Accepts, NotRolledBack, Tombstoned
    <3>4. Present(kept[k]) => entries[q][k].gen = generations[q][k]
      BY <3>2, NoEntryType DEF FencingInv, EntriesAtFence
    <3>5. generations[q][k] \in Nat /\ snapRows[q][k] \in Entry BY DEF TypeOK
    <3>6. snapRows[q][k].gen \in Nat BY <3>5 DEF Entry
    <3>7. In => ~Over(q, k, snapRows[q][k].gen) BY <3>3, <3>4, <3>5, <3>6 DEF Over
    <3> HIDE DEF In, kept
    <3> QED BY <1>3, <1>k, <2>3, <3>1, <3>2, <3>7
  <2> QED BY <2>2, <2>3
<1>4. ASSUME NEW q \in Relays, Crash(q) PROVE Old
  <2>1. entries'[r][k] = entries[r][k] \/ entries'[r][k] = NoEntry BY <1>4, <1>t DEF Crash
  <2> QED BY <1>k, <2>1
<1>5. ASSUME NEW q \in Relays, RelayStep(q)
      PROVE  \/ Old
             \/ /\ SnapshotInstall(r) /\ entries'[r][k] = snapRows[r][k]
                /\ ~Over(r, k, snapRows[r][k].gen)
  <2>1. (\E m \in msgs : Receive(q, m)) \/ SnapshotInstall(q) \/ Crash(q) \/ UNCHANGED entries
    BY <1>5 DEF RelayStep, ObserveFence, Bootstrap, SnapshotStart, SnapshotRead,
                RevokeCredential, cacheVars
  <2>2. CASE UNCHANGED entries BY <1>k, <2>2
  <2> QED BY <1>2, <1>3, <1>4, <2>1, <2>2
<1>6. CASE DisablePeer \/ Tick \/ (\E l \in Keys : Prune(l)) \/ UNCHANGED vars
  <2>1. UNCHANGED entries BY <1>6 DEF DisablePeer, Tick, Prune, cacheVars, vars
  <2> QED BY <1>k, <2>1
<1> QED BY <1>1, <1>5, <1>6 DEF Next, r

\* A snapshot in progress holds what it held, or a row.
LEMMA ReadsOf ==
    ASSUME TypeOK, [Next]_vars, NEW s \in Sessions, NEW r \in Relays, NEW k \in Keys,
           snapRows'[r][k].sess = s
    PROVE  \/ snapRows'[r][k] = snapRows[r][k]
           \/ snapRows'[r][k] = rows[k] /\ UNCHANGED <<storeVars, cacheVars, sessVars>>
<1>t. snapRows \in [Relays -> [Keys -> Entry]] BY DEF TypeOK
<1>z. snapRows'[r][k] # NoEntry BY DEF NoEntry
<1>1. ASSUME NEW q \in Relays, SnapshotRead(q)
      PROVE  \/ snapRows'[r][k] = snapRows[r][k]
             \/ snapRows'[r][k] = rows[k] /\ UNCHANGED <<storeVars, cacheVars, sessVars>>
  <2>1. \/ snapRows' = snapRows
        \/ snapRows' = [snapRows EXCEPT ![q] =
              [l \in Keys |-> IF rows[l].deadline > now THEN rows[l] ELSE NoEntry]]
    BY <1>1 DEF SnapshotRead
  <2>2. UNCHANGED <<storeVars, cacheVars, sessVars>> BY <1>1 DEF SnapshotRead
  <2> QED BY <1>t, <1>z, <2>1, <2>2
<1>2. ASSUME NEW q \in Relays, Crash(q) \/ SnapshotInstall(q)
      PROVE  snapRows'[r][k] = snapRows[r][k]
  <2>1. snapRows' = [snapRows EXCEPT ![q] = [l \in Keys |-> NoEntry]]
    BY <1>2 DEF Crash, SnapshotInstall
  <2> QED BY <1>t, <1>z, <2>1
<1>3. ASSUME NEW q \in Relays, RelayStep(q)
      PROVE  UNCHANGED snapRows \/ Crash(q) \/ SnapshotInstall(q) \/ SnapshotRead(q)
  BY <1>3 DEF RelayStep, Receive, ObserveFence, Bootstrap, SnapshotStart, RevokeCredential,
              snapVars
<1>4. ASSUME NEW q \in Sessions, SessionStep(q) PROVE UNCHANGED snapRows
  BY <1>4 DEF SessionStep, Connect, InstallAcquired, ObserveAcquired, FenceCheck, Disconnect,
              Renew, ObserveRenewal, PromoteRelease, PromoteForget, PromoteAcquire, Detach,
              ReleaseLocal, ReleaseRow, snapVars
<1>5. CASE UNCHANGED vars \/ DisablePeer \/ Tick \/ \E l \in Keys : Prune(l)
  BY <1>5 DEF vars, DisablePeer, Tick, Prune, snapVars
<1> QED BY <1>1, <1>2, <1>3, <1>4, <1>5 DEF Next

\* A step that leaves the phase of a session alone, or keeps it registered, with
\* the same key and generation keeps it clean.
LEMMA StaysClean ==
    ASSUME TypeOK, TypeOK', FencingInv, LeaseInv, [Next]_vars, NEW s \in Sessions,
           ~Crash(Host[s]), \A k \in Keys : Clean(s, k),
           KeyOf(s)' = KeyOf(s), Own(s)' = Own(s),
           \/ pc'[s] = pc[s] /\ gen'[s] = gen[s]
           \/ pc[s] \in Registered /\ pc'[s] \in Registered
    PROVE  \A k \in Keys : Clean(s, k)'
<1> SUFFICES ASSUME NEW k \in Keys PROVE Clean(s, k)' OBVIOUS
<1> DEFINE r == Host[s]
<1>r. r \in Relays OBVIOUS
<1>c. RowClean(s, k) /\ EntryClean(s, k) /\ ReadClean(s, k) BY DEF Clean
<1>p. /\ pc[s] \in Registered => pc'[s] \in Registered
      /\ pc[s] \in Cached => pc'[s] \in Cached
      /\ pc[s] = "forgotten" => pc'[s] = "forgotten" /\ gen'[s] = gen[s]
  BY DEF Registered, Cached
<1>m. \A e : Mine(s, k, e) => k = KeyOf(s)' /\ e.gen = Own(s)' BY DEF Mine
<1>v. ASSUME NEW g \in Nat \ {0}, Over(r, k, g)
      PROVE  generations'[r][k] >= g /\ entries'[r][k].gen # g
  BY <1>r, <1>v, OverStays DEF r
<1>n. /\ rows[k] \in Entry /\ snapRows[r][k] \in Entry /\ gen[s] \in Nat
      /\ rows[k].gen \in Nat /\ snapRows[r][k].gen \in Nat
  <2>1. rows[k] \in Entry /\ snapRows[r][k] \in Entry /\ gen[s] \in Nat BY <1>r DEF TypeOK
  <2> QED BY <2>1 DEF Entry
<1>h. /\ rows[k].sess = s => rows[k].gen # 0
      /\ snapRows[r][k].sess = s => snapRows[r][k].gen # 0
  BY <1>r, NamedIsPresent DEF Present
<1>1. RowClean(s, k)'
  <2> SUFFICES ASSUME rows'[k].sess = s
               PROVE  /\ k = KeyOf(s)' /\ rows'[k].gen = Own(s)'
                      /\ \/ pc'[s] \in Registered
                         \/ /\ pc'[s] = "forgotten"
                            /\ generations'[r][k] >= gen'[s] /\ entries'[r][k].gen # gen'[s]
    BY DEF RowClean, Mine, Over
  <2>1. rows[k].sess = s /\ rows'[k].gen = rows[k].gen
    <3>1. ~Connect(s) /\ ~PromoteAcquire(s)
      <4>1. Connect(s) => pc[s] = "idle" /\ pc'[s] # "idle" BY DEF Connect, TypeOK
      <4>2. PromoteAcquire(s) => pc[s] = "promoting" /\ pc'[s] # "promoting"
        BY DEF PromoteAcquire, End, TypeOK
      <4> QED BY <4>1, <4>2 DEF Registered
    <3> QED BY <3>1, RowsOf
  <2>2. k = KeyOf(s)' /\ rows'[k].gen = Own(s)' BY <1>c, <1>m, <2>1 DEF RowClean, Mine
  <2>3. CASE pc[s] \in Registered BY <1>p, <2>2, <2>3
  <2>4. CASE pc[s] = "forgotten" /\ Over(r, k, gen[s])
    <3>1. gen[s] # 0 BY <1>c, <1>h, <2>1, <2>4 DEF RowClean, Mine, Own
    <3> QED BY <1>n, <1>p, <1>v, <2>2, <2>4, <3>1
  <2> QED BY <1>c, <2>1, <2>3, <2>4 DEF RowClean
<1>2. EntryClean(s, k)'
  <2> SUFFICES ASSUME entries'[r][k].sess = s
               PROVE  k = KeyOf(s)' /\ entries'[r][k].gen = Own(s)' /\ pc'[s] \in Cached
    BY DEF EntryClean, Mine
  <2>1. CASE entries[r][k].sess = s /\ entries'[r][k].gen = entries[r][k].gen
    BY <1>c, <1>m, <1>p, <2>1 DEF EntryClean, Mine
  <2>2. CASE /\ pc[s] \in {"installed", "reinstalled", "renewed"}
             /\ k = KeyOf(s) /\ entries'[r][k].gen = gen[s]
    <3>1. pc[s] \in Cached /\ Own(s) = gen[s] BY <2>2 DEF Cached, Registered, Own
    <3> QED BY <1>p, <2>2, <3>1
  <2>3. CASE entries'[r][k] = snapRows[r][k] /\ ~Over(r, k, snapRows[r][k].gen)
    BY <1>c, <1>m, <1>p, <2>3 DEF ReadClean, Mine
  <2> QED BY <2>1, <2>2, <2>3, EntriesOf
<1>3. ReadClean(s, k)'
  <2> SUFFICES ASSUME snapRows'[r][k].sess = s
               PROVE  \/ k = KeyOf(s)' /\ snapRows'[r][k].gen = Own(s)' /\ pc'[s] \in Cached
                      \/ /\ generations'[r][k] >= snapRows'[r][k].gen
                         /\ entries'[r][k].gen # snapRows'[r][k].gen
    BY DEF ReadClean, Mine, Over
  <2>1. CASE snapRows'[r][k] = snapRows[r][k]
    <3>1. CASE Mine(s, k, snapRows[r][k]) /\ pc[s] \in Cached BY <1>m, <1>p, <2>1, <3>1
    <3>2. CASE Over(r, k, snapRows[r][k].gen) BY <1>h, <1>n, <1>v, <2>1, <3>2
    <3> QED BY <1>c, <2>1, <3>1, <3>2 DEF ReadClean
  <2>2. CASE snapRows'[r][k] = rows[k] /\ UNCHANGED <<storeVars, cacheVars, sessVars>>
    <3>1. Mine(s, k, rows[k]) BY <1>c, <2>2 DEF RowClean
    <3>2. CASE pc[s] \in Registered BY <1>m, <1>p, <2>2, <3>1, <3>2 DEF Cached
    <3>3. CASE pc[s] = "forgotten" /\ Over(r, k, gen[s])
      <4>1. rows[k].gen = gen[s] BY <3>1, <3>3 DEF Mine, Own
      <4>2. UNCHANGED <<entries, generations>> BY <2>2 DEF cacheVars
      <4> QED BY <2>2, <3>3, <4>1, <4>2 DEF Over
    <3> QED BY <1>c, <2>2, <3>2, <3>3 DEF RowClean
  <2> QED BY <1>r, <2>1, <2>2, ReadsOf
<1> QED BY <1>1, <1>2, <1>3 DEF Clean

\* A step of the session itself from which it has no row, no entry and only old
\* reads left: the reads it had are over, its new row is the one it acquired.
LEMMA ChangesClean ==
    ASSUME TypeOK, TypeOK', FencingInv, LeaseInv, [Next]_vars, NEW s \in Sessions,
           ~Crash(Host[s]), UNCHANGED snapRows,
           \A k \in Keys : rows'[k].sess = s =>
               Mine(s, k, rows[k])' /\ pc'[s] \in Registered,
           \A k \in Keys : entries'[Host[s]][k].sess # s,
           \A k \in Keys : snapRows[Host[s]][k].sess = s =>
               \/ Over(Host[s], k, snapRows[Host[s]][k].gen)
               \/ Over(Host[s], k, snapRows[Host[s]][k].gen)'
    PROVE  \A k \in Keys : Clean(s, k)'
<1> SUFFICES ASSUME NEW k \in Keys PROVE Clean(s, k)' OBVIOUS
<1>1. RowClean(s, k)' BY DEF RowClean
<1>2. EntryClean(s, k)' BY DEF EntryClean
<1>3. ReadClean(s, k)'
  <2> DEFINE r == Host[s]
             g == snapRows[r][k].gen
  <2> SUFFICES ASSUME snapRows[r][k].sess = s
               PROVE  generations'[r][k] >= g /\ entries'[r][k].gen # g
    BY DEF ReadClean, Over
  <2>1. r \in Relays /\ snapRows[r][k] \in Entry BY DEF TypeOK
  <2>2. g \in Nat \ {0} BY <2>1, NamedIsPresent DEF Present, Entry
  <2>3. Over(r, k, g) => generations'[r][k] >= g /\ entries'[r][k].gen # g
    BY <2>1, <2>2, OverStays
  <2>4. Over(r, k, g)' => generations'[r][k] >= g /\ entries'[r][k].gen # g BY DEF Over
  <2> QED BY <2>3, <2>4
<1> QED BY <1>1, <1>2, <1>3 DEF Clean

\* Only the session itself and a crash of its Relay move a session.
LEMMA MovedBy ==
    ASSUME TypeOK, [Next]_vars, NEW s \in Sessions
    PROVE  \/ SessionStep(s)
           \/ Crash(Host[s])
           \/ /\ pc'[s] = pc[s] /\ role'[s] = role[s] /\ gen'[s] = gen[s] /\ pend'[s] = pend[s]
<1> DEFINE Same == pc'[s] = pc[s] /\ role'[s] = role[s] /\ gen'[s] = gen[s] /\ pend'[s] = pend[s]
<1>t. /\ pc \in [Sessions -> Phases] /\ role \in [Sessions -> Roles]
      /\ gen \in [Sessions -> Nat] /\ pend \in [Sessions -> Nat]
  BY DEF TypeOK
<1>1. ASSUME NEW q \in Sessions \ {s}, SessionStep(q) PROVE Same
  <2>1. /\ pc' = pc \/ \E p \in Phases : pc' = [pc EXCEPT ![q] = p]
        /\ role' = role \/ role' = [role EXCEPT ![q] = "primary"]
        /\ gen' = gen \/ gen' = [gen EXCEPT ![q] = pend[q]]
        /\ pend' = pend \/ \E n : pend' = [pend EXCEPT ![q] = n]
    BY <1>1 DEF SessionStep, Connect, InstallAcquired, ObserveAcquired, FenceCheck, Disconnect,
                Renew, ObserveRenewal, PromoteRelease, PromoteForget, PromoteAcquire, Detach,
                ReleaseLocal, ReleaseRow, End, Phases
  <2> QED BY <1>1, <1>t, <2>1
<1>2. ASSUME NEW r \in Relays, RelayStep(r) PROVE Crash(Host[s]) \/ Same
  <2>1. CASE Crash(r) BY <2>1 DEF Crash
  <2>2. Crash(r) \/ UNCHANGED sessVars
    BY <1>2 DEF RelayStep, Receive, ObserveFence, Bootstrap, SnapshotStart, SnapshotRead,
                SnapshotInstall, RevokeCredential
  <2> QED BY <2>1, <2>2 DEF sessVars
<1>3. CASE DisablePeer \/ Tick \/ (\E k \in Keys : Prune(k)) \/ UNCHANGED vars
  BY <1>3 DEF DisablePeer, Tick, Prune, sessVars, vars
<1> QED BY <1>1, <1>2, <1>3 DEF Next

\* No step of a session leaves it unclean when no database call has failed.
LEMMA OwnStepClean ==
    ASSUME TypeOK, TypeOK', FencingInv, LeaseInv, NEW s \in Sessions, SessionStep(s),
           faults' = 0, \A k \in Keys : Clean(s, k)
    PROVE  \A k \in Keys : Clean(s, k)'
<1> DEFINE r == Host[s]
<1>n. [Next]_vars BY DEF Next
<1>r. r \in Relays OBVIOUS
<1>t. /\ pc \in [Sessions -> Phases] /\ role \in [Sessions -> Roles]
      /\ gen \in [Sessions -> Nat] /\ pend \in [Sessions -> Nat]
      /\ rows \in [Keys -> Entry] /\ counter \in Nat /\ KeyOf(s) \in Keys
  BY SessionEntryType DEF TypeOK
<1>f. ~DatabaseFault
  <2>1. DatabaseFault => faults' = faults + 1 BY DEF DatabaseFault
  <2>2. faults \in Nat BY DEF TypeOK
  <2> QED BY <2>1, <2>2
<1>x. ~Crash(r)
  <2>1. Crash(r) => crashes' = crashes + 1 BY DEF Crash
  <2>2. crashes' = crashes
    BY <1>f DEF SessionStep, Connect, InstallAcquired, ObserveAcquired, FenceCheck, Disconnect,
                Renew, ObserveRenewal, PromoteRelease, PromoteForget, PromoteAcquire, Detach,
                ReleaseLocal, ReleaseRow, envVars
  <2>3. crashes \in Nat BY DEF TypeOK
  <2> QED BY <2>1, <2>2, <2>3
<1>c. \A k \in Keys : RowClean(s, k) /\ EntryClean(s, k) /\ ReadClean(s, k) BY DEF Clean
<1>s. UNCHANGED snapRows
  BY DEF SessionStep, Connect, InstallAcquired, ObserveAcquired, FenceCheck, Disconnect,
         Renew, ObserveRenewal, PromoteRelease, PromoteForget, PromoteAcquire, Detach,
         ReleaseLocal, ReleaseRow, snapVars
<1>k. ASSUME pc[s] \in Registered, pc'[s] \in Registered, role'[s] = role[s], Own(s)' = Own(s)
      PROVE  \A k \in Keys : Clean(s, k)'
  <2>1. KeyOf(s)' = KeyOf(s) BY <1>k DEF KeyOf
  <2> QED BY <1>k, <1>n, <1>x, <2>1, StaysClean
<1>1. CASE Connect(s)
  <2>1. /\ pc[s] = "idle" /\ UNCHANGED <<role, entries>>
        /\ pc' = [pc EXCEPT ![s] = "acquired"] /\ pend' = [pend EXCEPT ![s] = counter + 1]
    BY <1>1, <1>f DEF Connect, cacheVars
  <2>2. pc'[s] = "acquired" /\ pend'[s] = counter + 1 /\ KeyOf(s)' = KeyOf(s)
    BY <1>t, <2>1 DEF KeyOf
  <2>3. pc[s] \notin Registered /\ pc[s] \notin Cached /\ pc'[s] \in Registered
    BY <2>1, <2>2 DEF Registered, Cached
  <2>4. \A k \in Keys : rows'[k].sess = s => Mine(s, k, rows[k])' /\ pc'[s] \in Registered
    <3> TAKE k \in Keys
    <3> HAVE rows'[k].sess = s
    <3>1. rows[k].sess # s BY <1>c, <2>1, <2>3 DEF RowClean
    <3>2. ~PromoteAcquire(s) BY <2>1 DEF PromoteAcquire
    <3>3. k = KeyOf(s) /\ rows'[k].gen = counter + 1 BY <1>n, <3>1, <3>2, RowsOf
    <3>4. Own(s)' = counter + 1 BY <2>2 DEF Own
    <3> QED BY <2>2, <2>3, <3>3, <3>4 DEF Mine
  <2>5. \A k \in Keys : entries'[r][k].sess # s BY <1>c, <2>1, <2>3 DEF EntryClean
  <2>6. \A k \in Keys : snapRows[r][k].sess = s => Over(r, k, snapRows[r][k].gen)
    BY <1>c, <2>3 DEF ReadClean
  <2> QED BY <1>n, <1>s, <1>x, <2>4, <2>5, <2>6, ChangesClean
<1>2. CASE InstallAcquired(s)
  <2>1. /\ pc[s] \in {"acquired", "promoted"} /\ role' = role
        /\ gen' = [gen EXCEPT ![s] = pend[s]]
        /\ pc' = [pc EXCEPT ![s] = IF pc[s] = "acquired" THEN "installed" ELSE "reinstalled"]
    BY <1>2 DEF InstallAcquired
  <2>2. pc'[s] \in {"installed", "reinstalled"} /\ gen'[s] = pend[s] BY <1>t, <2>1
  <2>3. Own(s) = pend[s] /\ Own(s)' = pend[s] BY <2>1, <2>2 DEF Own
  <2> QED BY <1>k, <2>1, <2>2, <2>3 DEF Registered
<1>3. CASE \/ ObserveAcquired(s) \/ FenceCheck(s) \/ Disconnect(s) \/ Renew(s)
           \/ ObserveRenewal(s) \/ Detach(s)
  <2>1. /\ pc[s] \in {"installed", "reinstalled", "serving", "renewed", "ending"}
        /\ UNCHANGED <<role, gen, pend>>
        /\ \/ pc' = pc
           \/ \E p \in {"serving", "renewed", "ending", "detached"} : pc' = [pc EXCEPT ![s] = p]
    BY <1>3 DEF ObserveAcquired, FenceCheck, Disconnect, Renew, ObserveRenewal, Detach, End
  <2>2. pc'[s] \in {"installed", "reinstalled", "serving", "renewed", "ending", "detached"}
    BY <1>t, <2>1
  <2>3. Own(s) = gen[s] /\ Own(s)' = gen[s] BY <2>1, <2>2 DEF Own
  <2> QED BY <1>k, <2>1, <2>2, <2>3 DEF Registered
<1>4. CASE PromoteRelease(s)
  <2>1. pc[s] = "serving" /\ UNCHANGED <<role, gen, pend, entries, generations>>
    BY <1>4 DEF PromoteRelease, cacheVars
  <2>2. CASE End(s)
    <3>1. pc'[s] = "ending" BY <1>t, <2>2 DEF End
    <3>2. Own(s) = gen[s] /\ Own(s)' = gen[s] BY <2>1, <3>1 DEF Own
    <3> QED BY <1>k, <2>1, <3>1, <3>2 DEF Registered
  <2>3. CASE ReleasePresence(s) /\ pc' = [pc EXCEPT ![s] = "demoted"]
    <3> SUFFICES ASSUME NEW k \in Keys PROVE Clean(s, k)' OBVIOUS
    <3>1. pc'[s] = "demoted" /\ pc'[s] \in Cached BY <1>t, <2>3 DEF Cached
    <3>2. KeyOf(s)' = KeyOf(s) /\ Own(s)' = Own(s) BY <2>1, <3>1 DEF KeyOf, Own
    <3>3. rows'[KeyOf(s)] = NoEntry BY <1>t, <2>3 DEF ReleasePresence
    <3>4. RowClean(s, k)'
      <4>1. rows'[k].sess = s => rows[k].sess = s
        <5>1. ~Connect(s) /\ ~PromoteAcquire(s) BY <2>1 DEF Connect, PromoteAcquire
        <5> QED BY <1>n, <5>1, RowsOf
      <4>2. rows[k].sess = s => k = KeyOf(s) BY <1>c DEF RowClean, Mine
      <4> QED BY <3>3, <4>1, <4>2 DEF RowClean, NoEntry
    <3>5. EntryClean(s, k)' BY <1>c, <2>1, <3>1, <3>2 DEF EntryClean, Mine
    <3>6. ReadClean(s, k)' BY <1>c, <1>s, <2>1, <3>1, <3>2 DEF ReadClean, Mine, Over
    <3> QED BY <3>4, <3>5, <3>6 DEF Clean
  <2> QED BY <1>4, <1>f, <2>2, <2>3 DEF PromoteRelease
<1>5. CASE PromoteForget(s) \/ ReleaseLocal(s)
  <2>1. /\ pc[s] \in {"demoted", "detached"} /\ UNCHANGED <<rows, gen, pend>>
        /\ Observe(r, KeyOf(s), EntryOf(s), TRUE)
        /\ pc[s] = "demoted" => pc' = [pc EXCEPT ![s] = "promoting"]
        /\ pc[s] = "detached" => pc' = [pc EXCEPT ![s] = "forgotten"] /\ role' = role
    BY <1>5 DEF PromoteForget, ReleaseLocal, storeVars
  <2>2. /\ Own(s) = gen[s]
        /\ pc[s] = "demoted" => pc[s] \notin Registered
    BY <2>1 DEF Own, Registered
  <2>o. ASSUME NEW k \in Keys, NEW e \in Entry, Present(e), e.sess = s, Genuine(issued, k, e),
               Mine(s, k, e)
        PROVE  generations'[r][k] >= gen[s] /\ entries'[r][k].gen # gen[s]
    <3>1. k = KeyOf(s) /\ e.gen = gen[s] BY <2>2, <2>o DEF Mine
    <3>2. gen[s] # 0 /\ HandedTo(issued, gen[s], KeyOf(s), s)
      BY <2>o, <3>1 DEF Present, Genuine, HandedTo
    <3> QED BY <2>1, <3>1, <3>2, ReleasedIsOver
  <2>3. \A k \in Keys : entries'[r][k].sess # s
    <3> SUFFICES ASSUME NEW k \in Keys, entries'[r][k].sess = s PROVE FALSE OBVIOUS
    <3>1. ~SnapshotInstall(r)
      <4>1. snap' = snap BY <1>5 DEF PromoteForget, ReleaseLocal, snapVars
      <4>2. SnapshotInstall(r) => snap[r] = "read" /\ snap' = [snap EXCEPT ![r] = "idle"]
        BY DEF SnapshotInstall
      <4>3. snap \in [Relays -> {"idle", "started", "read"}] BY DEF TypeOK
      <4> QED BY <1>r, <4>1, <4>2, <4>3
    <3>2. entries[r][k].sess = s /\ entries'[r][k].gen = entries[r][k].gen
      BY <1>n, <2>1, <3>1, EntriesOf
    <3>3. Mine(s, k, entries[r][k]) BY <1>c, <3>2 DEF EntryClean
    <3>4. /\ Present(entries[r][k]) /\ entries[r][k] \in Entry
          /\ Genuine(issued, k, entries[r][k])
      BY <1>r, <3>2, NamedIsPresent DEF TypeOK, FencingInv, CachesGenuine
    <3>5. entries'[r][k].gen # gen[s] BY <2>o, <3>2, <3>3, <3>4
    <3> QED BY <2>2, <3>2, <3>3, <3>5 DEF Mine
  <2>4. ASSUME NEW k \in Keys, snapRows[r][k].sess = s, Mine(s, k, snapRows[r][k])
        PROVE  Over(r, k, snapRows[r][k].gen)'
    <3>1. /\ Present(snapRows[r][k]) /\ snapRows[r][k] \in Entry
          /\ Genuine(issued, k, snapRows[r][k])
      BY <1>r, <2>4, NamedIsPresent DEF TypeOK, FencingInv, CachesGenuine
    <3>2. generations'[r][k] >= gen[s] /\ entries'[r][k].gen # gen[s] BY <2>o, <2>4, <3>1
    <3>3. snapRows'[r][k].gen = gen[s] BY <1>s, <2>2, <2>4 DEF Mine
    <3> QED BY <3>2, <3>3 DEF Over
  <2>5. \A k \in Keys : snapRows[r][k].sess = s =>
          Over(r, k, snapRows[r][k].gen) \/ Over(r, k, snapRows[r][k].gen)'
    BY <1>c, <2>4 DEF ReadClean
  <2>6. CASE \A k \in Keys : rows[k].sess # s
    BY <1>n, <1>s, <1>x, <2>1, <2>3, <2>5, <2>6, ChangesClean
  <2>7. CASE pc[s] = "detached"
    <3> SUFFICES ASSUME NEW k \in Keys PROVE Clean(s, k)' OBVIOUS
    <3>1. pc'[s] = "forgotten" /\ KeyOf(s)' = KeyOf(s) /\ gen'[s] = gen[s]
      BY <1>t, <2>1, <2>7 DEF KeyOf
    <3>2. RowClean(s, k)'
      <4> SUFFICES ASSUME rows[k].sess = s PROVE RowClean(s, k)' BY <2>1 DEF RowClean
      <4>1. Mine(s, k, rows[k]) BY <1>c DEF RowClean
      <4>2. Present(rows[k]) /\ rows[k] \in Entry /\ Genuine(issued, k, rows[k])
        BY <1>r, <1>t, NamedIsPresent DEF FencingInv, RowsGenuine
      <4>3. generations'[r][k] >= gen'[s] /\ entries'[r][k].gen # gen'[s]
        BY <2>o, <3>1, <4>1, <4>2
      <4>4. Own(s)' = gen[s] BY <3>1 DEF Own
      <4> QED BY <2>1, <2>2, <3>1, <4>1, <4>3, <4>4 DEF RowClean, Mine, Over
    <3>3. EntryClean(s, k)' BY <2>3 DEF EntryClean
    <3>4. ReadClean(s, k)'
      <4> SUFFICES ASSUME snapRows[r][k].sess = s PROVE ReadClean(s, k)' BY <1>s DEF ReadClean
      <4> DEFINE g == snapRows[r][k].gen
      <4>1. snapRows[r][k] \in Entry BY <1>r DEF TypeOK
      <4>2. g \in Nat \ {0} BY <1>r, <4>1, NamedIsPresent DEF Present, Entry
      <4>3. Over(r, k, g) => generations'[r][k] >= g /\ entries'[r][k].gen # g
        BY <1>n, <1>r, <1>x, <4>2, OverStays
      <4>4. generations'[r][k] >= g /\ entries'[r][k].gen # g
        BY <1>s, <2>5, <4>3 DEF Over
      <4> QED BY <1>s, <4>4 DEF ReadClean, Over
    <3> QED BY <3>2, <3>3, <3>4 DEF Clean
  <2>8. pc[s] = "demoted" => \A k \in Keys : rows[k].sess # s
    BY <1>c, <2>2 DEF RowClean
  <2> QED BY <2>1, <2>6, <2>7, <2>8
<1>6. CASE PromoteAcquire(s)
  <2>1. pc[s] = "promoting" /\ UNCHANGED <<role, entries, generations>>
    BY <1>6 DEF PromoteAcquire, cacheVars
  <2>2. pc[s] \notin Registered /\ pc[s] \notin Cached BY <2>1 DEF Registered, Cached
  <2>3. \A k \in Keys : rows[k].sess # s BY <1>c, <2>1, <2>2 DEF RowClean
  <2>4. \A k \in Keys : rows'[k].sess = s => Mine(s, k, rows[k])' /\ pc'[s] \in Registered
    <3> TAKE k \in Keys
    <3> HAVE rows'[k].sess = s
    <3>1. rows' # rows BY <2>3
    <3>2. pend' = [pend EXCEPT ![s] = counter + 1] /\ pc' = [pc EXCEPT ![s] = "promoted"]
      BY <1>6, <1>f, <3>1 DEF PromoteAcquire, storeVars
    <3>3. pend'[s] = counter + 1 /\ pc'[s] = "promoted" BY <1>t, <3>2
    <3>4. ~Connect(s) BY <2>1 DEF Connect
    <3>5. k = Primary /\ rows'[k].gen = counter + 1 BY <1>n, <2>3, <3>4, RowsOf
    <3>6. role'[s] = "primary" BY <2>1 DEF FencingInv, SessionsGenuine, SessionGenuine
    <3>7. KeyOf(s)' = Primary BY <3>6 DEF KeyOf, PresenceKey
    <3> QED BY <3>3, <3>5, <3>7 DEF Mine, Own, Registered
  <2>5. \A k \in Keys : entries'[r][k].sess # s BY <1>c, <2>1, <2>2 DEF EntryClean
  <2>6. \A k \in Keys : snapRows[r][k].sess = s => Over(r, k, snapRows[r][k].gen)
    BY <1>c, <2>2 DEF ReadClean
  <2> QED BY <1>n, <1>s, <1>x, <2>4, <2>5, <2>6, ChangesClean
<1>7. CASE ReleaseRow(s)
  <2>1. pc[s] = "forgotten" /\ UNCHANGED <<entries, generations>>
    BY <1>7 DEF ReleaseRow, cacheVars
  <2>2. pc[s] \notin Registered /\ pc[s] \notin Cached /\ Own(s) = gen[s]
    BY <2>1 DEF Registered, Cached, Own
  <2>3. \A k \in Keys : rows[k].sess = s => k = KeyOf(s) /\ OwnsRow(s)
    BY <1>c, <2>2 DEF RowClean, Mine, OwnsRow
  <2>4. \A k \in Keys : rows'[k].sess # s
    <3> SUFFICES ASSUME NEW k \in Keys, rows'[k].sess = s PROVE FALSE OBVIOUS
    <3>1. ~Connect(s) /\ ~PromoteAcquire(s) BY <2>1 DEF Connect, PromoteAcquire
    <3>2. rows[k].sess = s BY <1>n, <3>1, RowsOf
    <3>3. k = KeyOf(s) /\ ReleasePresence(s) BY <1>7, <1>f, <2>3, <3>2 DEF ReleaseRow
    <3>4. rows'[k] = NoEntry BY <1>t, <3>3 DEF ReleasePresence
    <3> QED BY <3>4 DEF NoEntry
  <2>5. \A k \in Keys : entries'[r][k].sess # s BY <1>c, <2>1, <2>2 DEF EntryClean
  <2>6. \A k \in Keys : snapRows[r][k].sess = s => Over(r, k, snapRows[r][k].gen)
    BY <1>c, <2>2 DEF ReadClean
  <2> QED BY <1>n, <1>s, <1>x, <2>4, <2>5, <2>6, ChangesClean
<1> QED BY <1>1, <1>2, <1>3, <1>4, <1>5, <1>6, <1>7 DEF SessionStep

\* The inductive invariant of the clean-up holds initially and every step preserves it.
LEMMA CleanInductive ==
    /\ Init => CleanInv
    /\ CleanInv /\ FencingInv /\ LeaseInv /\ TypeOK /\ TypeOK' /\ [Next]_vars => CleanInv'
<1>1. ASSUME Init PROVE CleanInv
  <2>1. /\ \A k \in Keys : rows[k] = NoEntry
        /\ \A r \in Relays : \A k \in Keys : entries[r][k] = NoEntry /\ snapRows[r][k] = NoEntry
    BY <1>1 DEF Init
  <2>2. \A s \in Sessions : NoEntry.sess # s BY DEF NoEntry
  <2> QED BY <2>1, <2>2 DEF CleanInv, Clean, RowClean, EntryClean, ReadClean
<1>2. ASSUME CleanInv, FencingInv, LeaseInv, TypeOK, TypeOK', [Next]_vars PROVE CleanInv'
  <2> SUFFICES ASSUME faults' = 0, NEW s \in Sessions, pc'[s] # "crashed"
               PROVE  \A k \in Keys : Clean(s, k)'
    BY DEF CleanInv
  <2>1. faults = 0
    <3>1. faults' = faults \/ faults' = faults + 1
      BY ZenonT(60), <1>2 DEF Next, SessionStep, Connect, InstallAcquired, ObserveAcquired,
         FenceCheck,
                  Disconnect, Renew, ObserveRenewal, PromoteRelease, PromoteForget,
                  PromoteAcquire, Detach, ReleaseLocal, ReleaseRow, RelayStep, Receive,
                  ObserveFence, Bootstrap, SnapshotStart, SnapshotRead, SnapshotInstall, Crash,
                  RevokeCredential, DisablePeer, Tick, Prune, DatabaseFault, envVars, vars
    <3>2. faults \in Nat BY <1>2 DEF TypeOK
    <3> QED BY <3>1, <3>2
  <2>2. CASE Crash(Host[s])
    <3> SUFFICES ASSUME NEW k \in Keys PROVE Clean(s, k)' OBVIOUS
    <3>1. /\ UNCHANGED rows /\ pc'[s] = pc[s] /\ pc[s] \in {"idle", "ended", "lost"}
          /\ entries' = [entries EXCEPT ![Host[s]] = [l \in Keys |-> NoEntry]]
          /\ snapRows' = [snapRows EXCEPT ![Host[s]] = [l \in Keys |-> NoEntry]]
      BY <2>2 DEF Crash, storeVars
    <3>2. entries'[Host[s]][k] = NoEntry /\ snapRows'[Host[s]][k] = NoEntry
      BY <1>2, <3>1 DEF TypeOK
    <3>3. NoEntry.sess # s BY DEF NoEntry
    <3>4. RowClean(s, k) BY <1>2, <2>1, <3>1 DEF CleanInv, Clean
    <3>5. rows'[k].sess # s BY <3>1, <3>4 DEF RowClean, Registered
    <3> QED BY <3>2, <3>3, <3>5 DEF Clean, RowClean, EntryClean, ReadClean
  <2>3. CASE ~Crash(Host[s]) /\ SessionStep(s)
    <3>1. pc[s] # "crashed"
      BY <2>3 DEF SessionStep, Connect, InstallAcquired, ObserveAcquired, FenceCheck, Disconnect,
                  Renew, ObserveRenewal, PromoteRelease, PromoteForget, PromoteAcquire, Detach,
                  ReleaseLocal, ReleaseRow
    <3>2. \A k \in Keys : Clean(s, k) BY <1>2, <2>1, <3>1 DEF CleanInv
    <3> QED BY <1>2, <2>3, <3>2, OwnStepClean
  <2>4. CASE /\ ~Crash(Host[s])
             /\ pc'[s] = pc[s] /\ role'[s] = role[s] /\ gen'[s] = gen[s] /\ pend'[s] = pend[s]
    <3>1. \A k \in Keys : Clean(s, k) BY <1>2, <2>1, <2>4 DEF CleanInv
    <3>2. KeyOf(s)' = KeyOf(s) /\ Own(s)' = Own(s) BY <2>4 DEF KeyOf, Own
    <3> QED BY <1>2, <2>4, <3>1, <3>2, StaysClean
  <2> QED BY <1>2, <2>2, <2>3, <2>4, MovedBy
<1> QED BY <1>1, <1>2

\* While no database call fails, what names a session in the database, in the
\* cache of its Relay or in a snapshot that Relay is reading is its own row, or a
\* generation the cache will not take back.
THEOREM CleanInvariant == Spec => []CleanInv
BY CleanInductive, FencingInvariant, LeaseInvariant, TypeCorrect, PTL DEF Spec

\* A session that ran its clean-up is gone, and no snapshot read before its row
\* was deleted brings it back (release_local, release_presence, install_snapshot).
THEOREM EndedSessionsAreGone == Spec => []EndedSessionIsGone
<1>1. CleanInv => EndedSessionIsGone
  BY DEF CleanInv, Clean, RowClean, EntryClean, Registered, Cached, EndedSessionIsGone
<1> QED BY <1>1, CleanInvariant, PTL

-----------------------------------------------------------------------------
(* Live sessions.  The row of a key is the last allocation for it, and     *)
(* while no call fails, the clock stands still and the peer is enabled,    *)
(* every fence of a key was handed out for that key: no fence passes the   *)
(* row, and nothing but its own session can release it.                    *)

\* A present row is the last allocation for its key.
RowsAreLatest ==
    \A k \in Keys : Present(rows[k]) =>
        \A g \in 1 .. Len(issued) : issued[g].key = k => g <= rows[k].gen

\* A disabled peer has no row.
DisabledHasNoRow == ~enabled => \A k \in Keys : rows[k] = NoEntry

\* At the start of time no lease has lapsed.
LeasesRun ==
    now = 0 => /\ \A s \in Sessions : pc[s] # "idle" => deadline[s] > 0
               /\ \A k \in Keys : Present(rows[k]) => rows[k].deadline > 0

StoreInv == RowsAreLatest /\ DisabledHasNoRow /\ LeasesRun

\* The clock never moves back, the peer is never enabled again and failed calls
\* are counted.
LEMMA QuietBackwards ==
    ASSUME TypeOK, [Next]_vars
    PROVE  /\ now' = 0 => now = 0
           /\ faults' = 0 => faults = 0
           /\ enabled' => enabled
<1>1. now' = now \/ now' = now + 1
  BY ZenonT(60) DEF Next, SessionStep, Connect, InstallAcquired, ObserveAcquired, FenceCheck,
     Disconnect,
         Renew, ObserveRenewal, PromoteRelease, PromoteForget, PromoteAcquire, Detach,
         ReleaseLocal, ReleaseRow, RelayStep, Receive, ObserveFence, Bootstrap, SnapshotStart,
         SnapshotRead, SnapshotInstall, Crash, RevokeCredential, DisablePeer, Tick, Prune,
         DatabaseFault, envVars, vars
<1>2. faults' = faults \/ faults' = faults + 1
  BY ZenonT(60) DEF Next, SessionStep, Connect, InstallAcquired, ObserveAcquired, FenceCheck,
     Disconnect,
         Renew, ObserveRenewal, PromoteRelease, PromoteForget, PromoteAcquire, Detach,
         ReleaseLocal, ReleaseRow, RelayStep, Receive, ObserveFence, Bootstrap, SnapshotStart,
         SnapshotRead, SnapshotInstall, Crash, RevokeCredential, DisablePeer, Tick, Prune,
         DatabaseFault, envVars, vars
<1>3. enabled' = enabled \/ enabled' = FALSE
  BY ZenonT(60) DEF Next, SessionStep, Connect, InstallAcquired, ObserveAcquired, FenceCheck,
     Disconnect,
         Renew, ObserveRenewal, PromoteRelease, PromoteForget, PromoteAcquire, Detach,
         ReleaseLocal, ReleaseRow, RelayStep, Receive, ObserveFence, Bootstrap, SnapshotStart,
         SnapshotRead, SnapshotInstall, Crash, RevokeCredential, DisablePeer, Tick, Prune,
         AcquirePresence, RenewPresence, ReleasePresence, storeVars, vars
<1>4. now \in Nat /\ faults \in Nat BY DEF TypeOK
<1>5. enabled' => enabled BY <1>3
<1>6. (now' = 0 => now = 0) /\ (faults' = 0 => faults = 0) BY <1>1, <1>2, <1>4
<1> QED BY <1>5, <1>6

\* What a step does to the rows: it keeps, removes or renews them, or acquires one.
LEMMA StoreSteps ==
    ASSUME TypeOK, [Next]_vars
    PROVE  \/ /\ issued' = issued
              /\ \A k \in Keys :
                   \/ rows'[k] = rows[k]
                   \/ rows'[k] = NoEntry
                   \/ enabled /\ rows'[k].gen = rows[k].gen /\ rows'[k].deadline = now + Lease
           \/ \E s \in Sessions, k \in Keys, until \in Nat :
                /\ AcquirePresence(s, k, until) /\ enabled
                /\ until = now + Lease \/ until > now
<1> DEFINE Kept == /\ issued' = issued
                   /\ \A k \in Keys :
                        \/ rows'[k] = rows[k]
                        \/ rows'[k] = NoEntry
                        \/ /\ enabled /\ rows'[k].gen = rows[k].gen
                           /\ rows'[k].deadline = now + Lease
           Gets == \E s \in Sessions, k \in Keys, until \in Nat :
                     /\ AcquirePresence(s, k, until) /\ enabled
                     /\ until = now + Lease \/ until > now
<1>t. rows \in [Keys -> Entry] /\ now \in Nat /\ now + Lease \in Nat /\ deadline \in [Sessions -> Nat]
  BY DEF TypeOK
<1>k. ASSUME UNCHANGED storeVars PROVE Kept BY <1>k DEF storeVars
<1>1. ASSUME NEW s \in Sessions, SessionStep(s) PROVE Kept \/ Gets
  <2>0. KeyOf(s) \in Keys /\ deadline[s] \in Nat /\ Primary \in Keys
    BY <1>t, SessionEntryType DEF Keys
  <2>1. CASE Connect(s)
    <3>1. AcquirePresence(s, KeyOf(s), now + Lease) /\ enabled BY <2>1 DEF Connect
    <3>2. Gets BY <1>t, <2>0, <3>1
    <3> QED BY <3>2
  <2>2. CASE Renew(s)
    <3>1. UNCHANGED storeVars \/ (enabled /\ RenewPresence(s, now + Lease)) BY <2>2 DEF Renew
    <3>2. CASE enabled /\ RenewPresence(s, now + Lease)
      <4>1. /\ issued' = issued
            /\ rows' = [rows EXCEPT ![KeyOf(s)] = [rows[KeyOf(s)] EXCEPT !.deadline = now + Lease]]
        BY <3>2 DEF RenewPresence
      <4>2. /\ rows'[KeyOf(s)].gen = rows[KeyOf(s)].gen /\ rows'[KeyOf(s)].deadline = now + Lease
            /\ \A k \in Keys \ {KeyOf(s)} : rows'[k] = rows[k]
        BY <1>t, <2>0, <4>1 DEF Entry
      <4>3. Kept BY <3>2, <4>1, <4>2
      <4> QED BY <4>3
    <3> QED BY <1>k, <3>1, <3>2
  <2>3. CASE PromoteRelease(s) \/ ReleaseRow(s)
    <3>1. UNCHANGED storeVars \/ ReleasePresence(s) BY <2>3 DEF PromoteRelease, ReleaseRow
    <3>2. ReleasePresence(s) => Kept BY <1>t DEF ReleasePresence
    <3> QED BY <1>k, <3>1, <3>2
  <2>4. CASE PromoteAcquire(s)
    <3>1. \/ UNCHANGED storeVars
          \/ AcquirePresence(s, Primary, deadline[s]) /\ enabled /\ deadline[s] > now
      BY <2>4 DEF PromoteAcquire
    <3>2. AcquirePresence(s, Primary, deadline[s]) /\ enabled /\ deadline[s] > now => Gets BY <2>0
    <3> QED BY <1>k, <3>1, <3>2
  <2>5. CASE UNCHANGED storeVars BY <1>k, <2>5
  <2> QED BY <1>1, <2>1, <2>2, <2>3, <2>4, <2>5
    DEF SessionStep, InstallAcquired, ObserveAcquired, FenceCheck, Disconnect, ObserveRenewal,
        PromoteForget, Detach, ReleaseLocal
<1>2. ASSUME NEW r \in Relays, RelayStep(r) PROVE Kept
  <2>1. UNCHANGED storeVars
    BY <1>2 DEF RelayStep, Receive, ObserveFence, Bootstrap, SnapshotStart, SnapshotRead,
                SnapshotInstall, Crash, RevokeCredential
  <2> QED BY <1>k, <2>1
<1>3. CASE DisablePeer \/ \E k \in Keys : Prune(k) BY <1>3, <1>t DEF DisablePeer, Prune
<1>4. CASE Tick \/ UNCHANGED vars
  <2>1. UNCHANGED storeVars BY <1>4 DEF Tick, vars
  <2> QED BY <1>k, <2>1
<1> QED BY <1>1, <1>2, <1>3, <1>4 DEF Next

\* Only its own connection makes a session leave "idle".
LEMMA LeavesIdle ==
    ASSUME TypeOK, [Next]_vars, NEW s \in Sessions, pc[s] = "idle", pc'[s] # "idle"
    PROVE  Connect(s)
<1>1. ~Crash(Host[s]) BY DEF Crash
<1>2. SessionStep(s) BY <1>1, MovedBy
<1> QED BY <1>2 DEF SessionStep, InstallAcquired, ObserveAcquired, FenceCheck, Disconnect, Renew,
          ObserveRenewal, PromoteRelease, PromoteForget, PromoteAcquire, Detach, ReleaseLocal,
          ReleaseRow

\* The rows stay the last allocations, a disabled peer gets none, leases run.
LEMMA StoreInductive ==
    /\ Init => StoreInv
    /\ StoreInv /\ LeaseInv /\ TypeOK /\ TypeOK' /\ [Next]_vars => StoreInv'
<1>1. ASSUME Init PROVE StoreInv
  <2>1. /\ \A k \in Keys : rows[k] = NoEntry
        /\ \A s \in Sessions : pc[s] = "idle"
        /\ enabled = TRUE
    BY <1>1 DEF Init
  <2> QED BY <2>1, NoEntryType DEF StoreInv, RowsAreLatest, DisabledHasNoRow, LeasesRun
<1>2. ASSUME StoreInv, LeaseInv, TypeOK, TypeOK', [Next]_vars PROVE StoreInv'
  <2>t. /\ rows \in [Keys -> Entry] /\ rows' \in [Keys -> Entry] /\ issued \in Seq(Issue)
        /\ Len(issued) = counter /\ counter \in Nat /\ now \in Nat /\ now + Lease \in Nat /\ Lease > 0
        /\ deadline \in [Sessions -> Nat] /\ deadline' \in [Sessions -> Nat]
    BY <1>2 DEF TypeOK
  <2>b. (now' = 0 => now = 0) /\ (enabled' => enabled) BY <1>2, QuietBackwards
  <2>d. now' = 0 => \A s \in Sessions : pc'[s] # "idle" => deadline'[s] > 0
    <3> SUFFICES ASSUME now' = 0, NEW s \in Sessions, pc'[s] # "idle" PROVE deadline'[s] > 0
      OBVIOUS
    <3>1. CASE pc[s] = "idle"
      <4>1. Connect(s) BY <1>2, <3>1, LeavesIdle
      <4>2. deadline' = [deadline EXCEPT ![s] = now + Lease] BY <4>1 DEF Connect
      <4> QED BY <2>t, <4>2
    <3>2. CASE pc[s] # "idle"
      <4>1. deadline[s] > 0 BY <1>2, <2>b, <3>2 DEF StoreInv, LeasesRun
      <4>2. deadline[s] <= deadline'[s] BY <1>2, DeadlineSteps DEF LeaseInv
      <4> QED BY <2>t, <4>1, <4>2
    <3> QED BY <3>1, <3>2
  <2>1. CASE /\ issued' = issued
             /\ \A k \in Keys :
                  \/ rows'[k] = rows[k]
                  \/ rows'[k] = NoEntry
                  \/ enabled /\ rows'[k].gen = rows[k].gen /\ rows'[k].deadline = now + Lease
    <3>1. RowsAreLatest'
      <4>1. \A k \in Keys : rows'[k].gen = rows[k].gen \/ rows'[k] = NoEntry BY <2>1
      <4> QED BY <1>2, <2>1, <4>1, NoEntryType DEF StoreInv, RowsAreLatest, Present
    <3>2. DisabledHasNoRow'
      <4> SUFFICES ASSUME ~enabled' PROVE \A k \in Keys : rows'[k] = NoEntry
        BY DEF DisabledHasNoRow
      <4>1. CASE ~enabled BY <1>2, <2>1, <4>1 DEF StoreInv, DisabledHasNoRow
      <4>2. CASE enabled
        <5>1. DisablePeer
          <6>1. enabled' # enabled BY <4>2
          <6> QED
            BY ZenonT(60), <1>2, <6>1 DEF Next, SessionStep, Connect, InstallAcquired,
               ObserveAcquired,
                FenceCheck, Disconnect, Renew, ObserveRenewal, PromoteRelease, PromoteForget,
                PromoteAcquire, Detach, ReleaseLocal, ReleaseRow, RelayStep, Receive,
                ObserveFence, Bootstrap, SnapshotStart, SnapshotRead, SnapshotInstall, Crash,
                RevokeCredential, Tick, Prune, AcquirePresence, RenewPresence, ReleasePresence,
                storeVars, vars
        <5> QED BY SMTT(60), <5>1 DEF DisablePeer
      <4> QED BY <4>1, <4>2
    <3>3. now' = 0 => \A k \in Keys : Present(rows'[k]) => rows'[k].deadline > 0
      <4>1. now' = 0 => \A k \in Keys : Present(rows[k]) => rows[k].deadline > 0
        BY <1>2, <2>b DEF StoreInv, LeasesRun
      <4>2. now + Lease > 0 BY <2>t
      <4> QED BY <2>1, <4>1, <4>2, NoEntryType
    <3> QED BY <2>d, <3>1, <3>2, <3>3 DEF StoreInv, LeasesRun
  <2>2. ASSUME NEW s \in Sessions, NEW k \in Keys, NEW until \in Nat,
               AcquirePresence(s, k, until), enabled, until = now + Lease \/ until > now
        PROVE  StoreInv'
    <3>1. /\ issued' = Append(issued, [key |-> k, sess |-> s]) /\ enabled' = enabled
          /\ rows' = [rows EXCEPT ![k] = [gen |-> counter + 1, sess |-> s, deadline |-> until]]
      BY <2>2 DEF AcquirePresence
    <3>2. [key |-> k, sess |-> s] \in Issue BY DEF Issue
    <3>3. /\ Len(issued') = counter + 1 /\ issued'[counter + 1].key = k
          /\ \A g \in 1 .. counter : issued'[g] = issued[g]
      BY <2>t, <3>1, <3>2
    <3>4. /\ rows'[k].gen = counter + 1 /\ rows'[k].deadline = until
          /\ \A l \in Keys \ {k} : rows'[l] = rows[l]
      BY <2>t, <3>1
    <3>5. RowsAreLatest'
      <4> SUFFICES ASSUME NEW l \in Keys, Present(rows'[l]), NEW g \in 1 .. Len(issued'),
                          issued'[g].key = l
                   PROVE  g <= rows'[l].gen
        BY DEF RowsAreLatest
      <4>1. CASE l = k BY <2>t, <3>3, <3>4, <4>1
      <4>2. CASE l # k
        <5>1. g \in 1 .. counter /\ issued[g].key = l BY <2>t, <3>3, <4>2
        <5> QED BY <1>2, <2>t, <3>4, <4>2, <5>1 DEF StoreInv, RowsAreLatest
      <4> QED BY <4>1, <4>2
    <3>6. DisabledHasNoRow' BY <2>2, <3>1 DEF DisabledHasNoRow
    <3>7. now' = 0 => \A l \in Keys : Present(rows'[l]) => rows'[l].deadline > 0
      <4>1. until > 0 BY <2>2, <2>t
      <4> QED BY <1>2, <2>b, <3>4, <4>1 DEF StoreInv, LeasesRun
    <3> QED BY <2>d, <3>5, <3>6, <3>7 DEF StoreInv, LeasesRun
  <2> QED BY <1>2, <2>1, <2>2, StoreSteps
<1> QED BY <1>1, <1>2

\* No database call has failed, no lease can have lapsed, the peer is enabled.
Quiet == faults = 0 /\ now = 0 /\ enabled

\* The fence of a key was handed out for that key.
FencesOfKeys ==
    \A r \in Relays : \A k \in Keys : generations[r][k] # 0 =>
        generations[r][k] \in 1 .. Len(issued) /\ issued[generations[r][k]].key = k

\* A message names the session its generation was handed out to, a release too.
MessagesOfOwners == \A m \in msgs : HandedTo(issued, m.entry.gen, m.key, m.entry.sess)

\* A session on its way out still has the generation of its role.
LeavingGenuine ==
    \A s \in Sessions : pc[s] \in {"ending", "detached"} => HandedTo(issued, gen[s], KeyOf(s), s)

\* A snapshot about to be installed does not drop an entry of the current row.
ReadsCover ==
    \A r \in Relays : \A k \in Keys :
        snap[r] = "read" /\ Present(rows[k]) /\ entries[r][k].gen = rows[k].gen =>
            Present(snapRows[r][k]) \/ k \in fresh[r]

\* A session that holds its row and is not on its way out.
Live == {"acquired", "installed", "serving", "renewed", "promoted", "reinstalled"}
LiveRow(s) == pc[s] \in Live /\ rows[KeyOf(s)].sess = s /\ rows[KeyOf(s)].gen = Own(s)

\* Its Relay shows it: the generation is never a tombstone, it is in the cache
\* once the session serves and in the router once a primary is installed.
Shown(s) ==
    /\ generations[Host[s]][KeyOf(s)] = Own(s) => entries[Host[s]][KeyOf(s)].gen = Own(s)
    /\ Serving(s) => generations[Host[s]][KeyOf(s)] = gen[s]
    /\ role[s] = "primary" /\ pc[s] \in Live \ {"acquired", "promoted"} =>
           fence[Host[s]] = gen[s] /\ attached[Host[s]] = gen[s]

LivesShown == \A s \in Sessions : LiveRow(s) => Shown(s)

QuietInv ==
    Quiet => FencesOfKeys /\ MessagesOfOwners /\ LeavingGenuine /\ ReadsCover /\ LivesShown

\* What a session announces or releases was handed out to it for that key.
LEMMA AnnouncedOwn ==
    ASSUME FencingInv, LeavingGenuine, NEW s \in Sessions,
           pc[s] \in {"installed", "reinstalled", "renewed", "demoted", "detached"}
    PROVE  HandedTo(issued, EntryOf(s).gen, KeyOf(s), EntryOf(s).sess)
<1>1. EntryOf(s).gen = gen[s] /\ EntryOf(s).sess = s BY DEF EntryOf
<1>2. HandedTo(issued, gen[s], KeyOf(s), s)
  BY DEF FencingInv, SessionsGenuine, SessionGenuine, LeavingGenuine, KeyOf
<1> QED BY <1>1, <1>2

\* While the peer is quiet a cache changes by observing what was handed out for the
\* key, at a Relay other than that of a message's session, or by a snapshot.
Observes(r, k) ==
    \E e \in Entry, rel \in BOOLEAN :
        /\ HandedTo(issued, e.gen, k, e.sess)
        /\ Accepts(entries[r], generations[r], k, e, rel)
        /\ entries'[r][k] = Observed(e, rel) /\ generations'[r][k] = e.gen
        /\ snap[r] # "idle" => k \in fresh'[r]
        /\ rel /\ Host[e.sess] = r => e.sess \in Sessions /\ pc[e.sess] \in {"demoted", "detached"}

Installs(r, k) ==
    LET kept == Retained(entries[r], snapRows[r], fresh[r])
        in == InstallsRow(kept, generations[r], snapRows[r], fresh[r], k)
    IN  /\ snap[r] = "read"
        /\ entries'[r][k] = IF in THEN snapRows[r][k] ELSE kept[k]
        /\ generations'[r][k] = IF in THEN snapRows[r][k].gen ELSE generations[r][k]

\* No cell of a running Relay changes otherwise.
LEMMA QuietCells ==
    ASSUME TypeOK, FencingInv, MessagesOfOwners, LeavingGenuine, [Next]_vars,
           NEW r \in Relays, ~Crash(r), NEW k \in Keys
    PROVE  \/ entries'[r][k] = entries[r][k] /\ generations'[r][k] = generations[r][k]
           \/ Observes(r, k)
           \/ SnapshotInstall(r) /\ Installs(r, k)
<1> DEFINE Same == entries'[r][k] = entries[r][k] /\ generations'[r][k] = generations[r][k]
<1>t. /\ entries \in [Relays -> [Keys -> Entry]] /\ entries[r] \in [Keys -> Entry]
      /\ generations \in [Relays -> [Keys -> Nat]] /\ generations[r] \in [Keys -> Nat]
      /\ fresh \in [Relays -> SUBSET Keys]
  BY DEF TypeOK
<1>k. ASSUME UNCHANGED <<entries, generations>> PROVE Same BY <1>k
<1>o. ASSUME NEW q \in Relays, NEW l \in Keys, NEW e \in Entry, NEW rel \in BOOLEAN,
             Observe(q, l, e, rel), HandedTo(issued, e.gen, l, e.sess),
             rel /\ Host[e.sess] = q => e.sess \in Sessions /\ pc[e.sess] \in {"demoted", "detached"}
      PROVE  Same \/ Observes(r, k)
  <2>1. CASE ~Accepts(entries[q], generations[q], l, e, rel)
    BY <1>k, <1>o, <2>1 DEF Observe, cacheVars
  <2>2. CASE Accepts(entries[q], generations[q], l, e, rel)
    <3>1. /\ entries' = [entries EXCEPT ![q] = [entries[q] EXCEPT ![l] = Observed(e, rel)]]
          /\ generations' = [generations EXCEPT ![q] = [generations[q] EXCEPT ![l] = e.gen]]
          /\ fresh' = [fresh EXCEPT ![q] = IF snap[q] = "idle" THEN {} ELSE fresh[q] \union {l}]
      BY <1>o, <2>2 DEF Observe
    <3>2. CASE ~(q = r /\ l = k) BY <1>t, <3>1, <3>2
    <3>3. CASE q = r /\ l = k
      <4>1. entries'[r][k] = Observed(e, rel) /\ generations'[r][k] = e.gen BY <1>t, <3>1, <3>3
      <4>2. snap[r] # "idle" => k \in fresh'[r] BY <1>t, <3>1, <3>3
      <4> QED BY <1>o, <2>2, <3>3, <4>1, <4>2 DEF Observes
    <3> QED BY <3>2, <3>3
  <2> QED BY <2>1, <2>2
<1>1. ASSUME NEW s \in Sessions, SessionStep(s) PROVE Same \/ Observes(r, k)
  <2>1. \/ UNCHANGED <<entries, generations>>
        \/ /\ Observe(Host[s], KeyOf(s), EntryOf(s), TRUE)
           /\ pc[s] \in {"demoted", "detached"}
        \/ /\ Observe(Host[s], KeyOf(s), EntryOf(s), FALSE)
           /\ pc[s] \in {"installed", "reinstalled", "renewed"}
    BY <1>1 DEF SessionStep, Connect, InstallAcquired, ObserveAcquired, FenceCheck, Disconnect,
                Renew, ObserveRenewal, PromoteRelease, PromoteForget, PromoteAcquire, Detach,
                ReleaseLocal, ReleaseRow, cacheVars
  <2>2. Host[s] \in Relays /\ KeyOf(s) \in Keys /\ EntryOf(s) \in Entry /\ EntryOf(s).sess = s
    BY SessionEntryType DEF EntryOf
  <2>3. CASE UNCHANGED <<entries, generations>> BY <1>k, <2>3
  <2>4. CASE /\ Observe(Host[s], KeyOf(s), EntryOf(s), TRUE)
             /\ pc[s] \in {"demoted", "detached"}
    <3>1. HandedTo(issued, EntryOf(s).gen, KeyOf(s), EntryOf(s).sess) BY <2>4, AnnouncedOwn
    <3> QED BY <1>o, <2>2, <2>4, <3>1
  <2>5. CASE /\ Observe(Host[s], KeyOf(s), EntryOf(s), FALSE)
             /\ pc[s] \in {"installed", "reinstalled", "renewed"}
    <3>1. HandedTo(issued, EntryOf(s).gen, KeyOf(s), EntryOf(s).sess) BY <2>5, AnnouncedOwn
    <3> QED BY <1>o, <2>2, <2>5, <3>1
  <2> QED BY <2>1, <2>3, <2>4, <2>5
<1>2. ASSUME NEW q \in Relays, NEW m \in msgs, Receive(q, m) PROVE Same \/ Observes(r, k)
  <2>1. m.key \in Keys /\ m.entry \in Entry /\ m.released \in BOOLEAN
    BY DEF TypeOK, Announcement
  <2>2. Observe(q, m.key, m.entry, m.released) /\ Host[m.entry.sess] # q BY <1>2 DEF Receive
  <2>3. HandedTo(issued, m.entry.gen, m.key, m.entry.sess) BY DEF MessagesOfOwners
  <2> QED BY <1>o, <2>1, <2>2, <2>3
<1>3. ASSUME NEW q \in Relays, SnapshotInstall(q)
      PROVE  Same \/ (SnapshotInstall(r) /\ Installs(r, k))
  <2>1. /\ entries' = [entries EXCEPT ![q] =
                         InstalledEntries(entries[q], generations[q], snapRows[q], fresh[q])]
        /\ generations' = [generations EXCEPT ![q] =
                         InstalledGenerations(entries[q], generations[q], snapRows[q], fresh[q])]
        /\ snap[q] = "read"
    BY <1>3 DEF SnapshotInstall
  <2>2. CASE q # r BY <1>t, <2>1, <2>2
  <2>3. CASE q = r
    <3>1. Installs(r, k)
      BY <1>t, <2>1, <2>3 DEF Installs, InstalledEntries, InstalledGenerations
    <3> QED BY <1>3, <2>3, <3>1
  <2> QED BY <2>2, <2>3
<1>4. ASSUME NEW q \in Relays, RelayStep(q)
      PROVE  Same \/ Observes(r, k) \/ (SnapshotInstall(r) /\ Installs(r, k))
  <2>1. CASE Crash(q)
    <3>1. /\ q # r /\ entries' = [entries EXCEPT ![q] = [l \in Keys |-> NoEntry]]
          /\ generations' = [generations EXCEPT ![q] = [l \in Keys |-> 0]]
      BY <2>1 DEF Crash
    <3> QED BY <1>t, <3>1
  <2>2. \/ (\E m \in msgs : Receive(q, m)) \/ SnapshotInstall(q) \/ Crash(q)
        \/ UNCHANGED <<entries, generations>>
    BY <1>4 DEF RelayStep, ObserveFence, Bootstrap, SnapshotStart, SnapshotRead,
                RevokeCredential, cacheVars
  <2> QED BY <1>2, <1>3, <1>k, <2>1, <2>2
<1>5. CASE DisablePeer \/ Tick \/ (\E l \in Keys : Prune(l)) \/ UNCHANGED vars
  <2>1. UNCHANGED <<entries, generations>> BY <1>5 DEF DisablePeer, Tick, Prune, cacheVars, vars
  <2> QED BY <1>k, <2>1
<1> QED BY <1>1, <1>4, <1>5 DEF Next

\* No fence of a key passes the row of the key.
LEMMA RowsAreTop ==
    ASSUME TypeOK, RowsAreLatest, FencesOfKeys, NEW k \in Keys, Present(rows[k]),
           NEW r \in Relays
    PROVE  generations[r][k] <= rows[k].gen
<1>1. generations[r][k] \in Nat /\ rows[k] \in Entry BY DEF TypeOK
<1>2. rows[k].gen \in Nat BY <1>1 DEF Entry
<1> QED BY <1>1, <1>2 DEF RowsAreLatest, FencesOfKeys

-----------------------------------------------------------------------------
(* Steps while the peer is quiet                                           *)

\* Announcements, releases and snapshots keep every fence at a generation of its key.
LEMMA FencesOfKeysStep ==
    ASSUME TypeOK, TypeOK', FencingInv, Grows, FencesOfKeys, MessagesOfOwners, LeavingGenuine,
           [Next]_vars
    PROVE  FencesOfKeys'
<1> SUFFICES ASSUME NEW r \in Relays, NEW k \in Keys, generations'[r][k] # 0
             PROVE  /\ generations'[r][k] \in 1 .. Len(issued')
                    /\ issued'[generations'[r][k]].key = k
  BY DEF FencesOfKeys
<1>l. Len(issued) \in Nat /\ Len(issued') \in Nat BY DEF TypeOK
<1>g. \A g \in 1 .. Len(issued) : g \in 1 .. Len(issued') /\ issued'[g] = issued[g]
  BY <1>l DEF Grows
<1>1. ~Crash(r) BY DEF Crash, TypeOK
<1>2. CASE generations'[r][k] = generations[r][k] BY <1>2, <1>g DEF FencesOfKeys
<1>3. CASE Observes(r, k)
  <2>1. PICK e \in Entry : HandedTo(issued, e.gen, k, e.sess) /\ generations'[r][k] = e.gen
    BY <1>3 DEF Observes
  <2> QED BY <1>g, <2>1 DEF HandedTo
<1>4. CASE Installs(r, k)
  <2>1. \/ generations'[r][k] = generations[r][k]
        \/ Present(snapRows[r][k]) /\ generations'[r][k] = snapRows[r][k].gen
    BY <1>4 DEF Installs, InstallsRow
  <2>2. Genuine(issued, k, snapRows[r][k]) BY DEF FencingInv, CachesGenuine
  <2> QED BY <1>2, <1>g, <2>1, <2>2 DEF Genuine
<1> QED BY <1>1, <1>2, <1>3, <1>4, QuietCells

\* Sessions and new links announce, and release, under the name of the owner.
LEMMA MessagesOfOwnersStep ==
    ASSUME TypeOK, TypeOK', FencingInv, Grows, MessagesOfOwners, LeavingGenuine, [Next]_vars
    PROVE  MessagesOfOwners'
<1>m. \A m \in msgs' : m.entry \in Entry /\ m.key \in Keys BY DEF TypeOK, Announcement
<1>l. Len(issued) \in Nat /\ Len(issued') \in Nat BY DEF TypeOK
<1>g. \A g, k, s : HandedTo(issued, g, k, s) => HandedTo(issued', g, k, s)
  <2>1. \A g \in 1 .. Len(issued) : g \in 1 .. Len(issued') /\ issued'[g] = issued[g]
    BY <1>l DEF Grows
  <2> QED BY <2>1 DEF HandedTo
<1>e. ASSUME \A m \in msgs' : m \in msgs \/ HandedTo(issued, m.entry.gen, m.key, m.entry.sess)
      PROVE  MessagesOfOwners'
  BY <1>e, <1>g DEF MessagesOfOwners
<1>1. ASSUME NEW s \in Sessions, SessionStep(s) PROVE MessagesOfOwners'
  <2>1. \/ UNCHANGED msgs
        \/ /\ \E rel \in BOOLEAN : Broadcast(KeyOf(s), EntryOf(s), rel)
           /\ pc[s] \in {"installed", "reinstalled", "renewed", "demoted", "detached"}
    BY <1>1 DEF SessionStep, Connect, InstallAcquired, ObserveAcquired, FenceCheck, Disconnect,
                Renew, ObserveRenewal, PromoteRelease, PromoteForget, PromoteAcquire, Detach,
                ReleaseLocal, ReleaseRow
  <2>2. CASE UNCHANGED msgs BY <1>e, <2>2
  <2>3. CASE /\ \E rel \in BOOLEAN : Broadcast(KeyOf(s), EntryOf(s), rel)
             /\ pc[s] \in {"installed", "reinstalled", "renewed", "demoted", "detached"}
    <3>1. \A m \in msgs' : m \in msgs \/ (m.key = KeyOf(s) /\ m.entry = EntryOf(s))
      BY <2>3 DEF Broadcast
    <3>2. HandedTo(issued, EntryOf(s).gen, KeyOf(s), EntryOf(s).sess) BY <2>3, AnnouncedOwn
    <3> QED BY <1>e, <3>1, <3>2
  <2> QED BY <2>1, <2>2, <2>3
<1>2. ASSUME NEW r \in Relays, Bootstrap(r) PROVE MessagesOfOwners'
  <2>1. \A m \in msgs' : m \in msgs \/
           \E k \in Keys : m.key = k /\ m.entry = entries[r][k] /\ Present(entries[r][k])
    BY <1>2 DEF Bootstrap, OwnedBy
  <2>2. \A k \in Keys : Present(entries[r][k]) =>
           HandedTo(issued, entries[r][k].gen, k, entries[r][k].sess)
    BY DEF FencingInv, CachesGenuine, Genuine, HandedTo
  <2> QED BY <1>e, <2>1, <2>2
<1>3. ASSUME NEW r \in Relays, RelayStep(r) PROVE MessagesOfOwners'
  <2>1. Bootstrap(r) \/ UNCHANGED msgs
    BY <1>3 DEF RelayStep, Receive, ObserveFence, SnapshotStart, SnapshotRead, SnapshotInstall,
                Crash, RevokeCredential
  <2> QED BY <1>2, <1>e, <2>1
<1>4. CASE DisablePeer \/ Tick \/ (\E k \in Keys : Prune(k)) \/ UNCHANGED vars
  BY <1>4, <1>e DEF DisablePeer, Tick, Prune, vars
<1> QED BY <1>1, <1>3, <1>4 DEF Next

\* While the peer is quiet a promotion acquires its primary row, so a session
\* leaves with the generation of its role.
LEMMA LeavingStep ==
    ASSUME TypeOK, TypeOK', FencingInv, FencingInv', Grows, LeasesRun, Quiet, Quiet',
           LeavingGenuine, [Next]_vars
    PROVE  LeavingGenuine'
<1> SUFFICES ASSUME NEW s \in Sessions, pc'[s] \in {"ending", "detached"}
             PROVE  HandedTo(issued', gen'[s], KeyOf(s)', s)
  BY DEF LeavingGenuine
<1>t. /\ pc \in [Sessions -> Phases] /\ gen[s] \in Nat /\ KeyOf(s) \in Keys /\ faults \in Nat
  BY SessionEntryType DEF TypeOK
<1>e. ASSUME HandedTo(issued, gen[s], KeyOf(s), s), gen'[s] = gen[s], role'[s] = role[s]
      PROVE  HandedTo(issued', gen'[s], KeyOf(s)', s)
  <2>1. KeyOf(s)' = KeyOf(s) BY <1>e DEF KeyOf
  <2> QED BY <1>e, <1>t, <2>1, GrowsKeeps
<1>g. pc[s] \in {"serving", "ending", "detached"} => HandedTo(issued, gen[s], KeyOf(s), s)
  BY DEF FencingInv, SessionsGenuine, SessionGenuine, LeavingGenuine, KeyOf
<1>1. CASE SessionStep(s)
  <2>1. ~PromoteAcquire(s)
    <3> SUFFICES ASSUME PromoteAcquire(s) PROVE FALSE OBVIOUS
    <3>1. pc[s] = "promoting" /\ deadline[s] > now BY DEF PromoteAcquire, LeasesRun, Quiet
    <3>2. ~DatabaseFault BY <1>t DEF DatabaseFault, Quiet
    <3>3. pc' = [pc EXCEPT ![s] = "promoted"] BY <3>1, <3>2 DEF PromoteAcquire, Quiet
    <3> QED BY <1>t, <3>3
  <2>2. /\ pc[s] \in {"serving", "ending"} /\ gen' = gen /\ role' = role
    BY <1>1, <1>t, <2>1 DEF SessionStep, Connect, InstallAcquired, ObserveAcquired, FenceCheck,
       Disconnect, Renew, ObserveRenewal, PromoteRelease, PromoteForget, Detach, ReleaseLocal,
       ReleaseRow, End
  <2> QED BY <1>e, <1>g, <2>2
<1>2. CASE pc'[s] = pc[s] /\ role'[s] = role[s] /\ gen'[s] = gen[s]
  BY <1>2, <1>e, <1>g
<1>3. ~Crash(Host[s]) BY DEF Crash
<1> QED BY <1>1, <1>2, <1>3, MovedBy

\* What reaches a cache after the rows were read is fresh.
LEMMA ReadsCoverStep ==
    ASSUME TypeOK, TypeOK', FencingInv, LeasesRun, Quiet, MessagesOfOwners, LeavingGenuine,
           ReadsCover, [Next]_vars
    PROVE  ReadsCover'
<1> SUFFICES ASSUME NEW r \in Relays, NEW k \in Keys, snap'[r] = "read", Present(rows'[k]),
                    entries'[r][k].gen = rows'[k].gen
             PROVE  Present(snapRows'[r][k]) \/ k \in fresh'[r]
  BY DEF ReadsCover
<1>t. /\ snap \in [Relays -> {"idle", "started", "read"}] /\ fresh \in [Relays -> SUBSET Keys]
      /\ snapRows \in [Relays -> [Keys -> Entry]] /\ rows \in [Keys -> Entry]
      /\ entries[r][k] \in Entry /\ counter \in Nat /\ Len(issued) = counter
  BY DEF TypeOK
<1>1. ~Crash(r) /\ ~SnapshotInstall(r) BY <1>t DEF Crash, SnapshotInstall
<1>2. CASE SnapshotRead(r)
  <2>1. /\ snapRows' = [snapRows EXCEPT ![r] =
             [l \in Keys |-> IF rows[l].deadline > now THEN rows[l] ELSE NoEntry]]
        /\ rows' = rows
    BY <1>2, <1>t DEF SnapshotRead, storeVars
  <2>2. rows[k].deadline > now BY <2>1 DEF LeasesRun, Quiet
  <2> QED BY <1>t, <2>1, <2>2
<1>3. CASE ~SnapshotRead(r)
  <2>1. snap[r] = "read" /\ snapRows'[r] = snapRows[r] /\ fresh[r] \subseteq fresh'[r]
    <3>o. ASSUME NEW q \in Relays, NEW l \in Keys, NEW e \in Entry, NEW rel \in BOOLEAN,
                 Observe(q, l, e, rel), UNCHANGED snapVars
          PROVE  snap[r] = "read" /\ snapRows'[r] = snapRows[r] /\ fresh[r] \subseteq fresh'[r]
      <4>1. \/ fresh' = fresh
            \/ fresh' = [fresh EXCEPT ![q] = IF snap[q] = "idle" THEN {} ELSE fresh[q] \union {l}]
        BY <3>o DEF Observe, cacheVars
      <4> QED BY <1>t, <3>o, <4>1 DEF snapVars
    <3>1. ASSUME NEW s \in Sessions, SessionStep(s)
          PROVE  snap[r] = "read" /\ snapRows'[r] = snapRows[r] /\ fresh[r] \subseteq fresh'[r]
      <4>1. /\ UNCHANGED snapVars
            /\ \/ UNCHANGED fresh
               \/ Observe(Host[s], KeyOf(s), EntryOf(s), TRUE)
               \/ Observe(Host[s], KeyOf(s), EntryOf(s), FALSE)
        BY <3>1 DEF SessionStep, Connect, InstallAcquired, ObserveAcquired, FenceCheck,
                    Disconnect, Renew, ObserveRenewal, PromoteRelease, PromoteForget,
                    PromoteAcquire, Detach, ReleaseLocal, ReleaseRow, cacheVars
      <4>2. Host[s] \in Relays /\ KeyOf(s) \in Keys /\ EntryOf(s) \in Entry BY SessionEntryType
      <4> QED BY <3>o, <4>1, <4>2 DEF snapVars
    <3>2. ASSUME NEW q \in Relays, NEW m \in msgs, Receive(q, m)
          PROVE  snap[r] = "read" /\ snapRows'[r] = snapRows[r] /\ fresh[r] \subseteq fresh'[r]
      <4>1. m.key \in Keys /\ m.entry \in Entry /\ m.released \in BOOLEAN
        BY DEF TypeOK, Announcement
      <4> QED BY <3>2, <3>o, <4>1 DEF Receive
    <3>3. ASSUME NEW q \in Relays, RelayStep(q)
          PROVE  snap[r] = "read" /\ snapRows'[r] = snapRows[r] /\ fresh[r] \subseteq fresh'[r]
      <4>1. CASE q # r /\ (SnapshotStart(q) \/ SnapshotRead(q) \/ SnapshotInstall(q) \/ Crash(q))
        BY <1>t, <4>1 DEF SnapshotStart, SnapshotRead, SnapshotInstall, Crash, cacheVars
      <4>2. ~SnapshotStart(r) BY <1>t DEF SnapshotStart
      <4>3. CASE ObserveFence(q) \/ Bootstrap(q) \/ RevokeCredential(q)
        BY <4>3 DEF ObserveFence, Bootstrap, RevokeCredential, cacheVars, snapVars
      <4> QED BY <1>1, <1>3, <3>2, <3>3, <4>1, <4>2, <4>3 DEF RelayStep
    <3>4. CASE DisablePeer \/ Tick \/ (\E l \in Keys : Prune(l)) \/ UNCHANGED vars
      BY <3>4 DEF DisablePeer, Tick, Prune, cacheVars, snapVars, vars
    <3> QED BY <3>1, <3>3, <3>4 DEF Next
  <2>2. entries'[r][k] = entries[r][k] \/ k \in fresh'[r]
    BY <1>1, <2>1, QuietCells DEF Observes
  <2>3. CASE rows'[k].gen = rows[k].gen
    BY <2>1, <2>2, <2>3 DEF ReadsCover, Present
  <2>4. CASE rows'[k].gen # rows[k].gen
    <3>1. rows'[k].gen = counter + 1
      <4>1. rows'[k] # NoEntry BY NoEntryType
      <4>2. PICK s \in Sessions, l \in Keys, until \in Nat : AcquirePresence(s, l, until)
        BY <2>4, <4>1, StoreSteps
      <4> QED BY <1>t, <2>4, <4>2 DEF AcquirePresence
    <3>2. Present(entries[r][k]) => entries[r][k].gen \in 1 .. counter
      BY <1>t DEF FencingInv, CachesGenuine, Genuine
    <3>3. entries[r][k].gen # counter + 1 BY <1>t, <3>2 DEF Present
    <3> QED BY <2>2, <3>1, <3>3
  <2> QED BY <2>3, <2>4
<1> QED BY <1>2, <1>3

\* The generation of a live session was handed out to it for its key.
LEMMA LiveOwn ==
    ASSUME TypeOK, FencingInv, NEW s \in Sessions, pc[s] \in Live
    PROVE  HandedTo(issued, Own(s), KeyOf(s), s) /\ Own(s) \in Nat /\ Own(s) > 0
<1>1. HandedTo(issued, Own(s), KeyOf(s), s)
  BY DEF FencingInv, SessionsGenuine, SessionGenuine, KeyOf, Own, Live
<1>2. Len(issued) \in Nat BY DEF TypeOK
<1> QED BY <1>1, <1>2 DEF HandedTo

\* A session with a row of its own has just acquired it, or it kept it.
LEMMA LiveSteps ==
    ASSUME TypeOK, TypeOK', [Next]_vars, NEW s \in Sessions,
           pc'[s] \in Live, rows'[KeyOf(s)'].sess = s, rows'[KeyOf(s)'].gen = Own(s)'
    PROVE  /\ ~Crash(Host[s])
           /\ \/ /\ UNCHANGED <<entries, generations>>
                 /\ pc'[s] \in {"acquired", "promoted"} /\ Own(s)' = counter + 1
              \/ /\ LiveRow(s) /\ KeyOf(s)' = KeyOf(s) /\ Own(s)' = Own(s)
                 /\ role'[s] = role[s] /\ rows'[KeyOf(s)].gen = rows[KeyOf(s)].gen
                 /\ pc[s] \in {"acquired", "promoted"} =>
                      pc'[s] \in {"acquired", "promoted"} \/ InstallAcquired(s)
                 /\ Serving(s)' => Serving(s) \/ ObserveAcquired(s)
<1>t. /\ pc \in [Sessions -> Phases] /\ role \in [Sessions -> Roles] /\ counter \in Nat
      /\ gen \in [Sessions -> Nat] /\ pend \in [Sessions -> Nat]
      /\ KeyOf(s) \in Keys /\ KeyOf(s)' \in Keys
  <2>1. KeyOf(s) \in Keys BY SessionEntryType
  <2>2. role'[s] \in Roles BY DEF TypeOK
  <2>3. KeyOf(s)' \in Keys BY <2>2, PresenceKeyType DEF KeyOf
  <2> QED BY <2>1, <2>3 DEF TypeOK
<1>1. ~Crash(Host[s]) BY DEF Crash, Live
<1>k. ASSUME KeyOf(s)' = KeyOf(s), Own(s)' = Own(s), pc[s] \in Live
      PROVE  LiveRow(s) /\ rows'[KeyOf(s)].gen = rows[KeyOf(s)].gen
  <2>1. ~Connect(s) /\ ~PromoteAcquire(s) BY <1>k DEF Connect, PromoteAcquire, Live
  <2>2. rows[KeyOf(s)].sess = s /\ rows'[KeyOf(s)].gen = rows[KeyOf(s)].gen
    BY <1>k, <1>t, <2>1, RowsOf
  <2> QED BY <1>k, <2>2 DEF LiveRow
<1>2. CASE Connect(s) \/ PromoteAcquire(s)
  <2>1. /\ UNCHANGED <<entries, generations>>
        /\ \/ /\ pc' = [pc EXCEPT ![s] = "acquired"] \/ pc' = [pc EXCEPT ![s] = "promoted"]
              /\ pend' = [pend EXCEPT ![s] = counter + 1]
           \/ pc' = [pc EXCEPT ![s] = "lost"] \/ pc' = [pc EXCEPT ![s] = "ending"]
    BY <1>2 DEF Connect, PromoteAcquire, End, cacheVars
  <2>2. pc'[s] \in {"acquired", "promoted"} /\ pend'[s] = counter + 1 BY <1>t, <2>1 DEF Live
  <2> QED BY <1>1, <2>1, <2>2 DEF Own
<1>3. CASE InstallAcquired(s)
  <2>1. /\ pc[s] \in {"acquired", "promoted"} /\ role' = role
        /\ gen' = [gen EXCEPT ![s] = pend[s]]
        /\ pc' = [pc EXCEPT ![s] = IF pc[s] = "acquired" THEN "installed" ELSE "reinstalled"]
    BY <1>3 DEF InstallAcquired
  <2>2. KeyOf(s)' = KeyOf(s) /\ Own(s)' = Own(s) /\ ~Serving(s)' /\ pc[s] \in Live
    BY <1>t, <2>1 DEF KeyOf, Own, Serving, Live
  <2> QED BY <1>1, <1>3, <1>k, <2>1, <2>2
<1>4. CASE ObserveAcquired(s) \/ Renew(s) \/ ObserveRenewal(s)
  <2>1. /\ pc[s] \in {"installed", "reinstalled", "serving", "renewed"}
        /\ role' = role /\ gen' = gen
        /\ pc'[s] \in {"serving", "renewed"}
        /\ ObserveAcquired(s) \/ Serving(s)
    BY <1>4, <1>t DEF ObserveAcquired, Renew, ObserveRenewal, End, Live, Serving
  <2>2. KeyOf(s)' = KeyOf(s) /\ Own(s)' = Own(s) /\ pc[s] \in Live
    BY <2>1 DEF KeyOf, Own, Live
  <2> QED BY <1>1, <1>k, <2>1, <2>2
<1>5. CASE pc'[s] = pc[s] /\ role'[s] = role[s] /\ gen'[s] = gen[s] /\ pend'[s] = pend[s]
  <2>1. KeyOf(s)' = KeyOf(s) /\ Own(s)' = Own(s) /\ pc[s] \in Live /\ Serving(s)' = Serving(s)
    BY <1>5 DEF KeyOf, Own, Serving
  <2> QED BY <1>1, <1>5, <1>k, <2>1
<1>6. ASSUME SessionStep(s)
      PROVE  \/ Connect(s) \/ PromoteAcquire(s) \/ InstallAcquired(s)
             \/ ObserveAcquired(s) \/ Renew(s) \/ ObserveRenewal(s)
  BY <1>6, <1>t DEF SessionStep, FenceCheck, Disconnect, PromoteRelease, PromoteForget, Detach,
     ReleaseLocal, ReleaseRow, End, Live
<1> QED BY <1>1, <1>2, <1>3, <1>4, <1>5, <1>6, MovedBy

\* The generation of a live row is never released at its Relay.
LEMMA NoLiveTombstone ==
    ASSUME TypeOK, FencingInv, MessagesOfOwners, LeavingGenuine, ReadsCover, [Next]_vars,
           NEW s \in Sessions, LiveRow(s), Shown(s), ~Crash(Host[s]),
           generations'[Host[s]][KeyOf(s)] = Own(s)
    PROVE  entries'[Host[s]][KeyOf(s)].gen = Own(s)
<1> DEFINE r == Host[s]
           k == KeyOf(s)
           g == Own(s)
<1>t. r \in Relays /\ k \in Keys BY SessionEntryType
<1>g. HandedTo(issued, g, k, s) /\ g > 0 /\ pc[s] \in Live BY LiveOwn DEF LiveRow
<1>w. generations[r][k] = g => entries[r][k].gen = g BY DEF Shown
<1>c. rows[k].gen = g BY DEF LiveRow
<1>a. generations'[r][k] = g OBVIOUS
<1>d. ~Crash(r) OBVIOUS
<1> HIDE DEF r, k, g
<1> SUFFICES entries'[r][k].gen = g BY DEF r, k, g
<1>1. CASE entries'[r][k] = entries[r][k] /\ generations'[r][k] = generations[r][k]
  BY <1>1, <1>a, <1>w
<1>2. CASE Observes(r, k)
  <2>1. PICK e \in Entry, rel \in BOOLEAN :
          /\ HandedTo(issued, e.gen, k, e.sess)
          /\ entries'[r][k] = Observed(e, rel) /\ generations'[r][k] = e.gen
          /\ rel /\ Host[e.sess] = r => pc[e.sess] \in {"demoted", "detached"}
    BY <1>2 DEF Observes
  <2>2. e.gen = g BY <1>a, <2>1
  <2>3. e.sess = s BY <1>g, <2>1, <2>2 DEF HandedTo
  <2>4. ~rel BY <1>g, <2>1, <2>3 DEF Live, r
  <2> QED BY <2>1, <2>2, <2>4 DEF Observed
<1>3. CASE Installs(r, k)
  <2> DEFINE kept == Retained(entries[r], snapRows[r], fresh[r])
             in == InstallsRow(kept, generations[r], snapRows[r], fresh[r], k)
  <2>1. /\ snap[r] = "read"
        /\ entries'[r][k] = IF in THEN snapRows[r][k] ELSE kept[k]
        /\ generations'[r][k] = IF in THEN snapRows[r][k].gen ELSE generations[r][k]
    BY <1>3 DEF Installs
  <2>2. kept[k] = IF Present(snapRows[r][k]) \/ k \in fresh[r] THEN entries[r][k] ELSE NoEntry
    BY <1>t DEF Retained
  <2> HIDE DEF kept, in
  <2>3. CASE in BY <1>a, <2>1, <2>3
  <2>4. CASE ~in
    <3>1. entries[r][k].gen = g BY <1>a, <1>w, <2>1, <2>4
    <3>2. Present(snapRows[r][k]) \/ k \in fresh[r]
      BY <1>c, <1>g, <1>t, <2>1, <3>1 DEF ReadsCover, Present
    <3> QED BY <2>1, <2>2, <2>4, <3>1, <3>2
  <2> QED BY <2>3, <2>4
<1> QED BY <1>1, <1>2, <1>3, <1>d, <1>t, QuietCells

\* A live session that has announced itself is what its Relay's cache fences on.
LEMMA ServingIsCached ==
    ASSUME TypeOK, TypeOK', FencingInv, LeaseInv, RowsAreLatest, RowsAreLatest', FencesOfKeys,
           FencesOfKeys', [Next]_vars, NEW s \in Sessions, LiveRow(s), Shown(s), ~Crash(Host[s]),
           rows'[KeyOf(s)].gen = rows[KeyOf(s)].gen, Serving(s) \/ ObserveAcquired(s)
    PROVE  generations'[Host[s]][KeyOf(s)] = Own(s)
<1> DEFINE r == Host[s]
           k == KeyOf(s)
           g == Own(s)
<1>k. r \in Relays /\ k \in Keys BY SessionEntryType
<1>u. generations[r][k] \in Nat /\ generations'[r][k] \in Nat BY <1>k DEF TypeOK
<1>t. /\ entries[r][k] \in Entry /\ deadline[s] \in Nat
      /\ generations \in [Relays -> [Keys -> Nat]] /\ generations[r] \in [Keys -> Nat]
  BY SMTT(60), <1>k DEF TypeOK
<1>g. HandedTo(issued, g, k, s) /\ g \in Nat /\ g > 0 /\ rows[k].gen = g
  BY LiveOwn DEF LiveRow
<1>o. pc[s] \notin {"acquired", "promoted"} /\ g = gen[s] BY DEF Serving, ObserveAcquired, Own
<1>w. /\ generations[r][k] = g => entries[r][k].gen = g
      /\ Serving(s) => generations[r][k] = g
  BY <1>o DEF Shown
<1>1. CASE Serving(s)
  <2>1. generations'[r][k] >= g BY <1>1, <1>k, <1>w, FencesRise
  <2>2. generations'[r][k] <= g
    <3>1. Present(rows'[k]) /\ rows'[k].gen = g BY <1>g DEF Present
    <3> QED BY <1>g, <1>k, <1>u, <3>1 DEF RowsAreLatest, FencesOfKeys
  <2> HIDE DEF r, k, g
  <2>3. generations'[r][k] = g BY <1>g, <1>u, <2>1, <2>2
  <2> QED BY <2>3 DEF r, k, g
<1>2. CASE ObserveAcquired(s)
  <2> DEFINE e == EntryOf(s)
  <2>1. e.gen = g /\ e.sess = s /\ e.deadline = deadline[s] BY <1>o DEF EntryOf
  <2>2. generations[r][k] <= g
    <3>1. Present(rows[k]) BY <1>g DEF Present
    <3> QED BY <1>g, <1>k, <3>1, RowsAreTop
  <2>3. ~Conflicts(entries[r], k, e, FALSE)
    <3>1. Genuine(issued, k, entries[r][k]) /\ Within(deadline, entries[r][k])
      BY <1>k, OwnWithin DEF FencingInv, CachesGenuine, LeaseInv, EntriesWithin, Copy
    <3>2. Present(entries[r][k]) /\ entries[r][k].gen = g =>
            entries[r][k].sess = s /\ entries[r][k].deadline <= deadline[s]
      BY <1>g, <3>1 DEF Genuine, HandedTo, Within
    <3>3. entries[r][k].deadline \in Nat BY <1>t DEF Entry
    <3> QED BY <1>t, <2>1, <3>2, <3>3 DEF Conflicts
  <2>4. ~Tombstoned(entries[r], generations[r], k, e)
    BY <1>g, <1>w, <2>1 DEF Tombstoned, Present
  <2>5. NotRolledBack(generations[r], k, e) BY <1>g, <2>1, <2>2 DEF NotRolledBack
  <2>6. Observe(r, k, e, FALSE) BY <1>2 DEF ObserveAcquired
  <2> HIDE DEF e
  <2>7. generations' = [generations EXCEPT ![r] = [generations[r] EXCEPT ![k] = e.gen]]
    BY <2>3, <2>4, <2>5, <2>6 DEF Observe, Accepts
  <2> QED BY <1>k, <1>t, <2>1, <2>7
<1> QED BY <1>1, <1>2

\* No announcement, detach or installation of another session moves the router away
\* from a live primary: a generation above its own was never handed out.
LEMMA PrimaryStaysInstalled ==
    ASSUME TypeOK, FencingInv, RowsAreLatest, Quiet, LeavingGenuine, [Next]_vars,
           NEW s \in Sessions, LiveRow(s), Shown(s), role[s] = "primary", ~Crash(Host[s]),
           pc[s] \in {"acquired", "promoted"} => InstallAcquired(s)
    PROVE  fence'[Host[s]] = Own(s) /\ attached'[Host[s]] = Own(s)
<1> DEFINE r == Host[s]
           g == Own(s)
<1>k. r \in Relays /\ KeyOf(s) = Primary /\ Primary \in Keys BY DEF KeyOf, PresenceKey, Keys
<1>g. /\ HandedTo(issued, g, Primary, s) /\ g \in Nat /\ g > 0 /\ rows[Primary].gen = g
      /\ pc[s] \in Live
  BY <1>k, LiveOwn DEF LiveRow
<1>t. /\ fence \in [Relays -> Nat] /\ attached \in [Relays -> Nat] /\ pend \in [Sessions -> Nat]
      /\ gen \in [Sessions -> Nat] /\ Len(issued) \in Nat /\ fencing \in [Relays -> SUBSET Nat]
  BY DEF TypeOK
<1>p. \A n \in Nat : IsPrimary(issued, n) => n <= g
  <2> HIDE DEF g
  <2>1. Present(rows[Primary]) BY <1>g DEF Present
  <2>2. \A n \in 1 .. Len(issued) : issued[n].key = Primary => n <= rows[Primary].gen
    BY <1>k, <2>1 DEF RowsAreLatest
  <2> QED BY <1>g, <2>2 DEF IsPrimary
<1>s. \A q, l : HandedTo(issued, g, l, q) => q = s BY <1>g DEF HandedTo
<1>w. pc[s] \notin {"acquired", "promoted"} => fence[r] = g /\ attached[r] = g
  BY <1>g DEF Shown, Own
<1>x. pc[s] \in {"acquired", "promoted"} => g = pend[s] /\ InstallAcquired(s) BY DEF Own
<1> HIDE DEF r, g
<1> SUFFICES fence'[r] = g /\ attached'[r] = g BY DEF r, g
<1>1. CASE pc[s] \in {"acquired", "promoted"}
  <2>1. pend[s] >= fence[r]
    <3>1. fence[r] # 0 => IsPrimary(issued, fence[r]) BY <1>k DEF FencingInv, FencesGenuine
    <3>2. fence[r] \in Nat BY <1>k, <1>t
    <3>3. fence[r] <= g BY <1>g, <1>p, <3>1, <3>2
    <3> QED BY <1>1, <1>x, <3>3
  <2>2. /\ fence' = [fence EXCEPT ![r] = pend[s]]
        /\ attached' = [attached EXCEPT ![r] = pend[s]]
    BY <1>1, <1>x, <2>1 DEF InstallAcquired, r
  <2> QED BY <1>1, <1>k, <1>t, <1>x, <2>2
<1>2. CASE pc[s] \notin {"acquired", "promoted"}
  <2>k. fence[r] = g /\ attached[r] = g BY <1>2, <1>w
  <2>u. ASSUME UNCHANGED <<fence, attached>> PROVE fence'[r] = g /\ attached'[r] = g
    BY <2>k, <2>u
  <2>1. ASSUME NEW q \in Sessions, InstallAcquired(q) PROVE fence'[r] = g /\ attached'[r] = g
    <3>1. \/ UNCHANGED <<fence, attached>>
          \/ /\ role[q] = "primary" /\ pend[q] >= fence[Host[q]]
             /\ fence' = [fence EXCEPT ![Host[q]] = pend[q]]
             /\ attached' = [attached EXCEPT ![Host[q]] = pend[q]]
      BY <2>1 DEF InstallAcquired
    <3>2. pc[q] \in {"acquired", "promoted"} /\ q # s BY <1>2, <2>1 DEF InstallAcquired
    <3>3. HandedTo(issued, pend[q], PresenceKey(q, role[q]), q)
      BY <3>2 DEF FencingInv, SessionsGenuine, SessionGenuine
    <3>4. CASE /\ role[q] = "primary" /\ pend[q] >= fence[Host[q]]
               /\ fence' = [fence EXCEPT ![Host[q]] = pend[q]]
               /\ attached' = [attached EXCEPT ![Host[q]] = pend[q]]
      <4>1. CASE Host[q] = r
        <5>1. IsPrimary(issued, pend[q]) BY <3>3, <3>4 DEF HandedTo, IsPrimary, PresenceKey
        <5>2. pend[q] \in Nat BY <1>t
        <5>3. pend[q] = g BY <1>g, <1>p, <2>k, <3>4, <4>1, <5>1, <5>2
        <5> QED BY <1>s, <3>2, <3>3, <5>3
      <4>2. CASE Host[q] # r BY <1>k, <1>t, <2>k, <3>4, <4>2
      <4> QED BY <4>1, <4>2
    <3> QED BY <2>u, <3>1, <3>4
  <2>2. ASSUME NEW q \in Sessions, Detach(q) PROVE fence'[r] = g /\ attached'[r] = g
    <3>1. /\ pc[q] = "ending" /\ fence' = fence
          /\ attached' = [attached EXCEPT ![Host[q]] =
                            IF attached[Host[q]] = gen[q] THEN 0 ELSE attached[Host[q]]]
      BY <2>2 DEF Detach
    <3>2. q # s BY <1>g, <3>1 DEF Live
    <3>3. HandedTo(issued, gen[q], KeyOf(q), q) BY <3>1 DEF LeavingGenuine
    <3>4. gen[q] # g BY <1>s, <3>2, <3>3
    <3> QED BY <1>k, <1>t, <2>k, <3>1, <3>4
  <2>3. ASSUME NEW q \in Sessions, SessionStep(q) PROVE fence'[r] = g /\ attached'[r] = g
    <3>1. InstallAcquired(q) \/ Detach(q) \/ UNCHANGED <<fence, attached>>
      BY <2>3 DEF SessionStep, Connect, ObserveAcquired, FenceCheck, Disconnect, Renew,
                  ObserveRenewal, PromoteRelease, PromoteForget, PromoteAcquire, ReleaseLocal,
                  ReleaseRow, routerVars
    <3> QED BY <2>1, <2>2, <2>u, <3>1
  <2>4. ASSUME NEW q \in Relays, ObserveFence(q) PROVE fence'[r] = g /\ attached'[r] = g
    <3>1. PICK n \in fencing[q] :
            /\ fence' = IF n >= fence[q] THEN [fence EXCEPT ![q] = n] ELSE fence
            /\ attached' = attached
      BY <2>4 DEF ObserveFence
    <3>2. IsPrimary(issued, n) /\ n \in Nat BY <1>t DEF FencingInv, FencesGenuine
    <3>3. n <= g BY <1>p, <3>2
    <3>4. CASE q = r BY <1>g, <1>k, <1>t, <2>k, <3>1, <3>2, <3>3, <3>4
    <3>5. CASE q # r BY <1>k, <1>t, <2>k, <3>1, <3>5
    <3> QED BY <3>4, <3>5
  <2>5. ASSUME NEW q \in Relays, RelayStep(q) PROVE fence'[r] = g /\ attached'[r] = g
    <3>1. ~RevokeCredential(q) BY DEF RevokeCredential, Quiet
    <3>2. CASE Crash(q)
      <4>1. /\ fence' = [fence EXCEPT ![q] = 0] /\ attached' = [attached EXCEPT ![q] = 0]
            /\ q # r
        BY <3>2 DEF Crash, r
      <4> QED BY <1>k, <1>t, <2>k, <4>1
    <3>3. ObserveFence(q) \/ Crash(q) \/ UNCHANGED <<fence, attached>>
      BY <2>5, <3>1 DEF RelayStep, Receive, Bootstrap, SnapshotStart, SnapshotRead,
                        SnapshotInstall, routerVars
    <3> QED BY <2>4, <2>u, <3>2, <3>3
  <2>6. CASE DisablePeer \/ Tick \/ (\E l \in Keys : Prune(l)) \/ UNCHANGED vars
    BY <2>6, <2>u DEF DisablePeer, Tick, Prune, routerVars, vars
  <2> QED BY <2>3, <2>5, <2>6 DEF Next
<1> QED BY <1>1, <1>2

\* While the peer is quiet its live sessions stay shown.
LEMMA LivesShownStep ==
    ASSUME TypeOK, TypeOK', FencingInv, LeaseInv, RowsAreLatest, RowsAreLatest', Quiet,
           FencesOfKeys, FencesOfKeys', MessagesOfOwners, LeavingGenuine, ReadsCover, LivesShown,
           [Next]_vars
    PROVE  LivesShown'
<1> SUFFICES ASSUME NEW s \in Sessions, pc'[s] \in Live, rows'[KeyOf(s)'].sess = s,
                    rows'[KeyOf(s)'].gen = Own(s)'
             PROVE  Shown(s)'
  BY DEF LivesShown, LiveRow
<1>d. ~Crash(Host[s]) BY LiveSteps
<1>1. CASE /\ UNCHANGED <<entries, generations>>
           /\ pc'[s] \in {"acquired", "promoted"} /\ Own(s)' = counter + 1
  <2>1. KeyOf(s)' \in Keys
    <3>1. role'[s] \in Roles BY DEF TypeOK
    <3> QED BY <3>1, PresenceKeyType DEF KeyOf
  <2>2. \A k \in Keys : generations[Host[s]][k] # counter + 1
    <3>1. \A k \in Keys : generations[Host[s]][k] = 0 \/ generations[Host[s]][k] \in 1 .. counter
      BY DEF FencesOfKeys, TypeOK
    <3>2. counter \in Nat BY DEF TypeOK
    <3> QED BY <3>1, <3>2
  <2>3. generations'[Host[s]][KeyOf(s)'] # Own(s)' BY <1>1, <2>1, <2>2
  <2>4. pc'[s] \notin {"serving", "renewed"} BY <1>1
  <2> QED BY <1>1, <2>3, <2>4 DEF Shown, Serving
<1>2. CASE /\ LiveRow(s) /\ KeyOf(s)' = KeyOf(s) /\ Own(s)' = Own(s)
           /\ role'[s] = role[s] /\ rows'[KeyOf(s)].gen = rows[KeyOf(s)].gen
           /\ pc[s] \in {"acquired", "promoted"} =>
                pc'[s] \in {"acquired", "promoted"} \/ InstallAcquired(s)
           /\ Serving(s)' => Serving(s) \/ ObserveAcquired(s)
  <2>0. Shown(s) BY <1>2 DEF LivesShown
  <2>1. generations'[Host[s]][KeyOf(s)] = Own(s) => entries'[Host[s]][KeyOf(s)].gen = Own(s)
    BY <1>2, <1>d, <2>0, NoLiveTombstone
  <2>2. Serving(s)' => generations'[Host[s]][KeyOf(s)] = Own(s)
    BY <1>2, <1>d, <2>0, ServingIsCached
  <2>3. role[s] = "primary" /\ pc'[s] \notin {"acquired", "promoted"} =>
          fence'[Host[s]] = Own(s) /\ attached'[Host[s]] = Own(s)
    BY <1>2, <1>d, <2>0, PrimaryStaysInstalled
  <2>4. /\ Serving(s)' => Own(s)' = gen'[s]
        /\ pc'[s] \notin {"acquired", "promoted"} => Own(s)' = gen'[s]
    BY DEF Serving, Own
  <2> QED BY <1>2, <2>1, <2>2, <2>3, <2>4 DEF Shown
<1> QED BY <1>1, <1>2, LiveSteps

\* A quiet peer's sessions, messages, fences and snapshots stay those of its owners.
LEMMA QuietInductive ==
    /\ Init => QuietInv
    /\ QuietInv /\ StoreInv /\ StoreInv' /\ LeaseInv /\ FencingInv /\ FencingInv'
         /\ TypeOK /\ TypeOK' /\ [Next]_vars => QuietInv'
<1>1. ASSUME Init PROVE QuietInv
  <2>1. /\ \A r \in Relays : \A k \in Keys : generations[r][k] = 0
        /\ \A s \in Sessions : pc[s] = "idle"
        /\ \A r \in Relays : snap[r] = "idle"
        /\ msgs = {}
    BY <1>1 DEF Init
  <2> QED BY <2>1 DEF QuietInv, FencesOfKeys, MessagesOfOwners, LeavingGenuine, ReadsCover,
                      LivesShown, LiveRow, Live
<1>2. ASSUME QuietInv, StoreInv, StoreInv', LeaseInv, FencingInv, FencingInv', TypeOK, TypeOK',
             [Next]_vars, Quiet'
      PROVE  (FencesOfKeys /\ MessagesOfOwners /\ LeavingGenuine /\ ReadsCover /\ LivesShown)'
  <2>1. Quiet BY <1>2, QuietBackwards DEF Quiet
  <2>2. Grows BY <1>2, StoreStep DEF FencingInv
  <2>3. FencesOfKeys /\ MessagesOfOwners /\ LeavingGenuine /\ ReadsCover /\ LivesShown
    BY <1>2, <2>1 DEF QuietInv
  <2>4. RowsAreLatest /\ RowsAreLatest' /\ LeasesRun BY <1>2 DEF StoreInv
  <2>5. FencesOfKeys' BY <1>2, <2>2, <2>3, FencesOfKeysStep
  <2>6. MessagesOfOwners' BY <1>2, <2>2, <2>3, MessagesOfOwnersStep
  <2>7. LeavingGenuine' BY <1>2, <2>1, <2>2, <2>3, <2>4, LeavingStep
  <2>8. ReadsCover' BY <1>2, <2>1, <2>3, <2>4, ReadsCoverStep
  <2>9. LivesShown' BY <1>2, <2>1, <2>3, <2>4, <2>5, LivesShownStep
  <2> QED BY <2>5, <2>6, <2>7, <2>8, <2>9
<1> QED BY <1>1, <1>2 DEF QuietInv

\* The row of a key is always its last allocation, a disabled peer has none
\* (acquire_presence, revoke_peer_access).
THEOREM StoreInvariant == Spec => []StoreInv
BY StoreInductive, LeaseInvariant, TypeCorrect, PTL DEF Spec

\* While nothing fails or lapses, every fence, message and snapshot agrees with the
\* allocations, and a live session is shown by its Relay.
THEOREM QuietInvariant == Spec => []QuietInv
BY QuietInductive, StoreInvariant, LeaseInvariant, FencingInvariant, TypeCorrect, PTL DEF Spec

\* A session whose row is in the database passes the fence checks of its loop
\* (matches_attachment, receive_control): no snapshot, announcement, release or
\* fence in flight throws it out.
THEOREM LiveSessionsAreNotFenced == Spec => []LiveSessionNotFenced
<1>1. QuietInv /\ StoreInv /\ FencingInv /\ TypeOK => LiveSessionNotFenced
  <2> SUFFICES ASSUME QuietInv, StoreInv, FencingInv, TypeOK, faults = 0, now = 0,
                      NEW s \in Sessions, Serving(s), OwnsRow(s)
               PROVE  FenceHolds(s)
    BY DEF LiveSessionNotFenced
  <2>1. KeyOf(s) \in Keys /\ Host[s] \in Relays BY SessionEntryType
  <2>2. Quiet
    <3>1. rows[KeyOf(s)] # NoEntry BY DEF OwnsRow, NoEntry
    <3> QED BY <2>1, <3>1 DEF StoreInv, DisabledHasNoRow, Quiet
  <2>3. pc[s] \in Live /\ Own(s) = gen[s] BY DEF Serving, Live, Own
  <2>4. Shown(s) BY <2>2, <2>3 DEF QuietInv, LivesShown, LiveRow, OwnsRow
  <2>5. HandedTo(issued, gen[s], KeyOf(s), s) /\ gen[s] > 0 BY <2>3, LiveOwn
  <2>6. entries[Host[s]][KeyOf(s)].gen = gen[s] BY <2>3, <2>4 DEF Shown
  <2>7. entries[Host[s]][KeyOf(s)].sess = s
    <3>1. gen[s] # 0 BY <2>5 DEF TypeOK
    <3>2. Genuine(issued, KeyOf(s), entries[Host[s]][KeyOf(s)])
      BY <2>1 DEF FencingInv, CachesGenuine
    <3> QED BY <2>5, <2>6, <3>1, <3>2 DEF Genuine, HandedTo, Present
  <2>8. RouterAdmits(s) BY <2>4 DEF Shown, Serving, Live, RouterAdmits
  <2> QED BY <2>6, <2>7, <2>8 DEF FenceHolds, MatchesAttachment
<1> QED BY <1>1, QuietInvariant, StoreInvariant, FencingInvariant, TypeCorrect, PTL
=============================================================================
