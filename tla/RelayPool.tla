------------------------------ MODULE RelayPool ------------------------------
(***************************************************************************)
(* RelayPoolOrchestrator (peerward-peer-core/src/relay_pool.rs): which     *)
(* Relay slots have a live connection, which are being (re)connected and   *)
(* which wait for a retry.  Every call runs under the lock of the pool, so *)
(* it is one step; the module that EXTENDS this one says who calls it.     *)
(*                                                                         *)
(* Abstractions.  Request and candidate generation are counted in lockstep *)
(* and are one number; 0 is None, as in the JNI records.  The clock is a   *)
(* slot's `due`: none, later (backoff running) or now; the length of the   *)
(* backoff, and with it `attempt`, is left out.                            *)
(***************************************************************************)
EXTENDS Integers, FiniteSets

CONSTANTS Slots,        \* slot numbers; the lowest active one is primary
          Endpoints     \* number of endpoints of each slot

ASSUME SlotsAssumption == Slots \subseteq Nat /\ IsFiniteSet(Slots)
ASSUME EndpointsAssumption == Endpoints \in [Slots -> Nat \ {0}]

VARIABLES slots,    \* state of each slot
          next,     \* next request and generation
          closed    \* close was called

poolVars == <<slots, next, closed>>

NoRequest == [id |-> 0, endpoint |-> 0, replacing |-> 0]

Request == [id : Nat, endpoint : Nat, replacing : Nat]

Slot == [next : Nat, endpoint : Nat, generation : Nat, pending : Request,
         due : {"none", "later", "now"}]

PoolInit ==
    /\ slots = [s \in Slots |-> [next |-> 0, endpoint |-> 0, generation |-> 0,
                                 pending |-> NoRequest, due |-> "now"]]
    /\ next = 1
    /\ closed = FALSE

\* schedule_retry: the next carrier, after a backoff.
Retry(slot, s, endpoint) ==
    [slot EXCEPT !.next = (endpoint + 1) % Endpoints[s], !.due = "later"]

Due == {s \in Slots : slots[s].pending = NoRequest /\ slots[s].due = "now"}

\* poll numbers the requests in slot order.
RequestOf(s) ==
    [id |-> next + Cardinality({t \in Due : t < s}),
     endpoint |-> slots[s].next, replacing |-> slots[s].generation]

PollPool ==
    /\ ~closed /\ Due # {}
    /\ slots' = [s \in Slots |->
                   IF s \in Due
                   THEN [slots[s] EXCEPT !.pending = RequestOf(s), !.due = "none"]
                   ELSE slots[s]]
    /\ next' = next + Cardinality(Due)
    /\ UNCHANGED closed

\* The slot still waits for this request.
Waiting(s, id) == slots[s].pending.id = id

\* complete(request, true) commits unless the connection it would replace is no
\* longer the one it was asked to replace.
Commits(s, id) ==
    /\ Waiting(s, id)
    /\ ~closed /\ slots[s].generation = slots[s].pending.replacing

CompletedSlot(s, id) ==
    IF Commits(s, id)
    THEN [slots[s] EXCEPT !.pending = NoRequest, !.generation = id,
                          !.endpoint = slots[s].pending.endpoint, !.due = "none"]
    ELSE [slots[s] EXCEPT !.pending = NoRequest]

CompleteUp(s, id) ==
    /\ slots' = IF Waiting(s, id) THEN [slots EXCEPT ![s] = CompletedSlot(s, id)] ELSE slots
    /\ UNCHANGED <<next, closed>>

\* Mutant: a failed attempt is not scheduled again.
CompleteDownOnce(s, id) ==
    /\ slots' = IF Waiting(s, id) THEN [slots EXCEPT ![s].pending = NoRequest] ELSE slots
    /\ UNCHANGED <<next, closed>>

\* complete(request, false)
CompleteDown(s, id) ==
    /\ slots' = IF Waiting(s, id)
                THEN [slots EXCEPT ![s] = Retry([@ EXCEPT !.pending = NoRequest], s,
                                                @.pending.endpoint)]
                ELSE slots
    /\ UNCHANGED <<next, closed>>

\* failed: ignored unless the route is the active one; forgets a request in
\* flight, whose answer will be stale.
Failed(s, g) ==
    /\ slots' = IF slots[s].generation = g
                THEN [slots EXCEPT ![s] =
                        Retry([@ EXCEPT !.generation = 0, !.endpoint = 0,
                                        !.pending = NoRequest], s, @.endpoint)]
                ELSE slots
    /\ UNCHANGED <<next, closed>>

\* refresh: connect a replacement next to the active connection.
Refresh(s, g) ==
    /\ slots' = IF slots[s].generation = g /\ slots[s].pending = NoRequest
                THEN [slots EXCEPT ![s].due = "now", ![s].next = 0]
                ELSE slots
    /\ UNCHANGED <<next, closed>>

\* A backoff runs out.
BackoffEnds(s) ==
    /\ slots[s].due = "later"
    /\ slots' = [slots EXCEPT ![s].due = "now"]
    /\ UNCHANGED <<next, closed>>

ClosePool ==
    /\ closed' = TRUE
    /\ slots' = [s \in Slots |-> [slots[s] EXCEPT !.pending = NoRequest, !.endpoint = 0,
                                                  !.due = "none", !.generation = 0]]
    /\ UNCHANGED next
=============================================================================
