----------------------------- MODULE MCPresence -----------------------------
(***************************************************************************)
(* Instances of Presence for TLC: two Relays and attachments of one peer.  *)
(***************************************************************************)
EXTENDS Presence, TLC

CONSTANTS r1, r2,   \* Relays
          a, b, c   \* attachments

\* One attachment on each Relay; the peer may reconnect to the first one.
HostPair == a :> r1 @@ b :> r2
HostAll == a :> r1 @@ b :> r2 @@ c :> r1

\* A primary on one Relay and a standby on the other, which may be promoted.
WantedPair == a :> "primary" @@ b :> "standby"
WantedAll == a :> "primary" @@ b :> "standby" @@ c :> "primary"

\* Both attachments ask for the primary role.
WantedRivals == a :> "primary" @@ b :> "primary"

\* Nothing fails, the clock stands still, one Relay follows the outbox.
Still == [sessions |-> {a, b}, time |-> 0, faults |-> 0, crashes |-> 0,
          disable |-> FALSE, refreshers |-> {r1}]

SafetyScenarios ==
    { \* snapshots race acquisition, promotion and release; one database call fails
      [Still EXCEPT !.faults = 1],
      \* the peer reconnects to the same Relay, which may crash; an operator may disable it
      [Still EXCEPT !.sessions = {a, c}, !.crashes = 1, !.disable = TRUE],
      \* the lease of the first attachment expires and the peer comes back
      [Still EXCEPT !.sessions = {a, c}, !.time = 2, !.refreshers = {}],
      \* a standby is promoted around the expiry of its leases and crashes
      [Still EXCEPT !.sessions = {b}, !.time = 2, !.crashes = 1, !.refreshers = {r2}],
      \* renewals move the deadlines of a primary and of a standby under promotion
      [Still EXCEPT !.time = 1, !.refreshers = {}] }

\* Two rivals, one failed call and one crash.
LivenessScenarios == {[Still EXCEPT !.faults = 1, !.crashes = 1]}

\* The database call of a promotion fails.
PromotionScenarios == {[Still EXCEPT !.faults = 1, !.refreshers = {}]}
=============================================================================
