---------------------------- MODULE PresenceCache ----------------------------
(***************************************************************************)
(* The in-memory presence view of a Relay (presence_cache.rs) as pure      *)
(* operators on the view of ONE peer: `entries` maps a presence key to the *)
(* incarnation the Relay believes in, `generations` keeps the highest      *)
(* fencing generation seen for the key, also after the entry is gone (the  *)
(* tombstone).                                                             *)
(*                                                                         *)
(* A peer has one primary key and one standby key per Relay.  A session is *)
(* one authenticated attachment; its Relay is Host[s], so an entry names   *)
(* the session only.  Generation 0 stands for "absent".                    *)
(*                                                                         *)
(* The `updates`/`revision` counters of the source only answer the question*)
(* "was this key updated after the snapshot query started"; the set of     *)
(* keys for which the answer is yes is the parameter `fresh`.              *)
(***************************************************************************)
EXTENDS Naturals

CONSTANTS Relays,     \* Relay processes of the mesh
          Sessions,   \* attachments of the peer, each used for one connection
          Host,       \* the Relay each attachment connects to
          Primary,    \* the key of the primary role
          NoSession   \* the session of an absent entry

ASSUME HostAssumption == Host \in [Sessions -> Relays]
ASSUME KeyAssumption == Primary \notin Relays /\ NoSession \notin Sessions

Keys == {Primary} \union Relays

Entry == [gen : Nat, sess : Sessions \union {NoSession}, deadline : Nat]

NoEntry == [gen |-> 0, sess |-> NoSession, deadline |-> 0]

Present(e) == e.gen # 0

\* presence_key: the primary role is global, a standby belongs to its Relay.
PresenceKey(s, role) == IF role = "primary" THEN Primary ELSE Host[s]

-----------------------------------------------------------------------------
(* PresenceCache::observe                                                  *)

\* Mutant: a lower generation is not rejected.
NotRolledBackUnchecked(gens, k, e) == e.gen > 0

\* The announced generation is not below the highest one seen.
NotRolledBack(gens, k, e) == e.gen > 0 /\ e.gen >= gens[k]

\* Same generation as the current entry but other fields, or a lease that
\* would be shortened: observe fails with StaleFence.
Conflicts(ents, k, e, released) ==
    /\ Present(ents[k])
    /\ e.gen = ents[k].gen
    /\ \/ e.sess # ents[k].sess
       \/ ~released /\ e.deadline < ents[k].deadline

\* Mutant: observe forgets that a generation was released.
TombstonedNever(ents, gens, k, e) == FALSE

\* The generation was already released: nothing may bring it back.
Tombstoned(ents, gens, k, e) == ~Present(ents[k]) /\ e.gen = gens[k]

\* observe changes the view exactly when none of its early returns applies.
Accepts(ents, gens, k, e, released) ==
    /\ NotRolledBack(gens, k, e)
    /\ ~Conflicts(ents, k, e, released)
    /\ ~Tombstoned(ents, gens, k, e)

Observed(e, released) == IF released THEN NoEntry ELSE e

-----------------------------------------------------------------------------
(* PresenceCache::install_snapshot, key by key.  `rows` maps a key to its  *)
(* row of the database snapshot.                                           *)

\* Mutant: arrivals during the query are dropped with the missing keys.
RetainedIgnoringFresh(ents, rows, fresh) ==
    [k \in Keys |-> IF Present(rows[k]) THEN ents[k] ELSE NoEntry]

\* entries.retain: a key missing from the snapshot survives only when it was
\* updated after the query started.
Retained(ents, rows, fresh) ==
    [k \in Keys |-> IF Present(rows[k]) \/ k \in fresh THEN ents[k] ELSE NoEntry]

\* Mutant: every row of a key that moved during the query is skipped, the
\* newer ones included.
SkipRowWhenFresh(ents, gens, rows, fresh, k) == k \in fresh

\* The row is older than what this Relay learned meanwhile.
SkipRow(ents, gens, rows, fresh, k) ==
    \/ k \in fresh /\ gens[k] # 0 /\ rows[k].gen <= gens[k]
    \/ /\ Present(ents[k])
       /\ ents[k].gen = rows[k].gen
       /\ ents[k].deadline > rows[k].deadline

\* The rows that install_snapshot passes on to observe_local and it accepts.
InstallsRow(ents, gens, rows, fresh, k) ==
    /\ Present(rows[k])
    /\ ~SkipRow(ents, gens, rows, fresh, k)
    /\ Accepts(ents, gens, k, rows[k], FALSE)

InstalledEntries(ents, gens, rows, fresh) ==
    LET kept == Retained(ents, rows, fresh)
    IN  [k \in Keys |-> IF InstallsRow(kept, gens, rows, fresh, k) THEN rows[k] ELSE kept[k]]

InstalledGenerations(ents, gens, rows, fresh) ==
    LET kept == Retained(ents, rows, fresh)
    IN  [k \in Keys |-> IF InstallsRow(kept, gens, rows, fresh, k) THEN rows[k].gen ELSE gens[k]]

-----------------------------------------------------------------------------
(* Readers of the view.                                                    *)

\* matches_attachment: the session's loop runs only while this holds.
MatchesAttachment(ents, k, s, g) == ents[k].gen = g /\ ents[k].sess = s

\* announcements_owned_by: what a Relay re-announces on a new backbone link.
OwnedBy(ents, r) == {k \in Keys : Present(ents[k]) /\ Host[ents[k].sess] = r}
=============================================================================
