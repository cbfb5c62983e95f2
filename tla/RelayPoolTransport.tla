-------------------------- MODULE RelayPoolTransport --------------------------
(***************************************************************************)
(* The Android adapter of the Relay pool (RelayPoolTransport.kt) over the  *)
(* Rust state machine it drives through JNI.  Two locks guard two pieces   *)
(* of state: the pool's own, and the coroutine Mutex of `transports`; no   *)
(* call holds both, so between a call to the pool and the matching change  *)
(* of `transports` every other coroutine may run.                          *)
(*                                                                         *)
(* A coroutine that executes a request is a task; the transport it opens   *)
(* is named after its request, which is also its generation.               *)
(***************************************************************************)
EXTENDS RelayPool

CONSTANT MaxFaults    \* bound on failed attempts, broken transports, refreshes

ASSUME MaxFaultsAssumption == MaxFaults \in Nat

VARIABLES tasks,        \* coroutines in execute
          transports,   \* installed routes
          failing,      \* routes removed by fail, not yet reported to the pool
          open,         \* transports connected and not closed
          cancelled,    \* close has cancelled the scope
          disposed,     \* close has emptied `transports`
          faults

adapterVars == <<tasks, transports, failing, open, cancelled, disposed>>
vars == <<poolVars, adapterVars, faults>>

Route == [slot : Slots, generation : Nat]

Task == [slot : Slots, id : Nat, old : Nat,
         phase : {"connect", "up", "down", "publish", "install"}]

Init ==
    /\ PoolInit
    /\ tasks = {} /\ transports = {} /\ failing = {} /\ open = {}
    /\ cancelled = FALSE /\ disposed = FALSE
    /\ faults = 0

Fault == faults < MaxFaults /\ faults' = faults + 1

Move(t, phase) == tasks' = (tasks \ {t}) \union {[t EXCEPT !.phase = phase]}

-----------------------------------------------------------------------------
(* startWorker and execute                                                 *)

\* The worker polls and launches one coroutine per request.
Poll ==
    /\ ~cancelled
    /\ PollPool
    /\ tasks' = tasks \union {[slot |-> s, id |-> RequestOf(s).id, old |-> 0,
                               phase |-> "connect"] : s \in Due}
    /\ UNCHANGED <<transports, failing, open, cancelled, disposed, faults>>

\* connectAny
Connected(t) ==
    /\ t.phase = "connect" /\ ~cancelled
    /\ open' = open \union {t.id}
    /\ Move(t, "up")
    /\ UNCHANGED <<poolVars, transports, failing, cancelled, disposed, faults>>

ConnectFailed(t) ==
    /\ t.phase = "connect" /\ ~cancelled
    /\ Fault
    /\ Move(t, "down")
    /\ UNCHANGED <<poolVars, transports, failing, open, cancelled, disposed>>

\* The scope is cancelled while connectAny waits.
ConnectCancelled(t) ==
    /\ t.phase = "connect" /\ cancelled
    /\ tasks' = tasks \ {t}
    /\ UNCHANGED <<poolVars, transports, failing, open, cancelled, disposed, faults>>

\* Mutant: a connection the pool refuses is dropped without being closed.
ReportUpLeaks(t) ==
    /\ t.phase = "up"
    /\ CompleteUp(t.slot, t.id)
    /\ tasks' = (tasks \ {t}) \union
         IF Commits(t.slot, t.id)
         THEN {[t EXCEPT !.phase = "publish", !.old = slots[t.slot].generation]} ELSE {}
    /\ UNCHANGED <<transports, failing, open, cancelled, disposed, faults>>

\* native.complete of a connection: committed, or refused as stale and closed.
ReportUp(t) ==
    /\ t.phase = "up"
    /\ CompleteUp(t.slot, t.id)
    /\ IF Commits(t.slot, t.id)
       THEN /\ tasks' = (tasks \ {t}) \union
                 {[t EXCEPT !.phase = "publish", !.old = slots[t.slot].generation]}
            /\ UNCHANGED open
       ELSE tasks' = tasks \ {t} /\ open' = open \ {t.id}
    /\ UNCHANGED <<transports, failing, cancelled, disposed, faults>>

ReportDown(t) ==
    /\ t.phase = "down"
    /\ CompleteDown(t.slot, t.id)
    /\ tasks' = tasks \ {t}
    /\ UNCHANGED <<transports, failing, open, cancelled, disposed, faults>>

\* The lock for `failures`, which a cancelled coroutine may not get.
Publish(t) ==
    /\ t.phase = "publish"
    /\ \/ Move(t, "install")
       \/ cancelled /\ tasks' = tasks \ {t}
    /\ UNCHANGED <<poolVars, transports, failing, open, cancelled, disposed, faults>>

\* The NonCancellable lock: the replaced transport leaves and is closed.
Install(t) ==
    /\ t.phase = "install"
    /\ tasks' = tasks \ {t}
    /\ IF disposed
       THEN open' = open \ {t.id} /\ UNCHANGED transports
       ELSE LET old == [slot |-> t.slot, generation |-> t.old] IN
            /\ transports' = (transports \ {old}) \union {[slot |-> t.slot, generation |-> t.id]}
            /\ open' = IF old \in transports THEN open \ {t.old} ELSE open
    /\ UNCHANGED <<poolVars, failing, cancelled, disposed, faults>>

-----------------------------------------------------------------------------
(* Failure, replacement and shutdown                                       *)

\* A reader, a send or a keepalive fails: the first of them removes and closes
\* the transport...
Fail(r) ==
    /\ r \in transports /\ Fault
    /\ transports' = transports \ {r}
    /\ open' = open \ {r.generation}
    /\ failing' = failing \union {r}
    /\ UNCHANGED <<poolVars, tasks, cancelled, disposed>>

\* Mutant: the pool is not told.
ReportFailedNever(r) ==
    /\ r \in failing
    /\ failing' = failing \ {r}
    /\ UNCHANGED <<poolVars, tasks, transports, open, cancelled, disposed, faults>>

\* ...and then tells the pool, which may have moved on.
ReportFailed(r) ==
    /\ r \in failing
    /\ Failed(r.slot, r.generation)
    /\ failing' = failing \ {r}
    /\ UNCHANGED <<tasks, transports, open, cancelled, disposed, faults>>

\* maybeRefresh: the transport asks to be replaced.
MaybeRefresh(r) ==
    /\ r \in transports /\ Fault
    /\ Refresh(r.slot, r.generation)
    /\ UNCHANGED adapterVars

\* close, in its three parts.
Cancel ==
    /\ ~cancelled /\ cancelled' = TRUE
    /\ UNCHANGED <<poolVars, tasks, transports, failing, open, disposed, faults>>

Dispose ==
    /\ cancelled /\ ~disposed /\ disposed' = TRUE
    /\ open' = open \ {r.generation : r \in transports}
    /\ transports' = {}
    /\ UNCHANGED <<poolVars, tasks, failing, cancelled, faults>>

CloseNative ==
    /\ disposed /\ ~closed
    /\ ClosePool
    /\ UNCHANGED <<adapterVars, faults>>

-----------------------------------------------------------------------------

Worker == Poll \/ \E s \in Slots : BackoffEnds(s) /\ UNCHANGED <<adapterVars, faults>>

Execute(t) ==
    \/ Connected(t) \/ ConnectCancelled(t) \/ ReportUp(t) \/ ReportDown(t)
    \/ Publish(t) \/ Install(t)

Next ==
    \/ Worker
    \/ \E t \in tasks : Execute(t) \/ ConnectFailed(t)
    \/ \E r \in transports : Fail(r) \/ MaybeRefresh(r)
    \/ \E r \in failing : ReportFailed(r)
    \/ Cancel \/ Dispose \/ CloseNative

Spec == Init /\ [][Next]_vars

\* The worker wakes at the latest when poll told it to, a connection attempt
\* times out, and a coroutine that can run does.
FairSpec ==
    /\ Spec
    /\ WF_vars(Worker)
    /\ WF_vars(\E t \in tasks : Execute(t))
    /\ WF_vars(\E r \in failing : ReportFailed(r))

-----------------------------------------------------------------------------
(* Properties                                                              *)

\* Every variable has its shape, and a slot only names endpoints it has.
TypeOK ==
    /\ slots \in [Slots -> Slot] /\ next \in Nat \ {0} /\ closed \in BOOLEAN
    /\ \A s \in Slots : slots[s].next < Endpoints[s]
    /\ tasks \subseteq Task /\ transports \subseteq Route /\ failing \subseteq Route
    /\ open \subseteq Nat
    /\ cancelled \in BOOLEAN /\ disposed \in BOOLEAN /\ faults \in Nat

RouteOf(s) == [slot |-> s, generation |-> slots[s].generation]

Installing == {[slot |-> t.slot, generation |-> t.id] :
                 t \in {t \in tasks : t.phase \in {"publish", "install"}}}

\* No route is lost between the two locks: a generation the pool holds active has
\* a transport, or a coroutine about to install or to report it.  Nobody would
\* ever call `failed` for another one and the slot would stay dead.
NoGhostRoute ==
    ~cancelled => \A s \in Slots : slots[s].generation # 0 =>
                     RouteOf(s) \in transports \union Installing \union failing

\* A slot without a connection is being connected by a live coroutine or waits
\* for a retry ("carrier rotation must continue indefinitely", relay_pool.rs:271).
NoDeadSlot ==
    ~cancelled => \A s \in Slots :
        LET slot == slots[s] IN
        /\ slot.pending # NoRequest =>
             \E t \in tasks : t.id = slot.pending.id /\ t.phase \in {"connect", "up", "down"}
        /\ slot.generation = 0 /\ slot.pending = NoRequest => slot.due # "none"

\* Every connected transport is installed or in the hands of the coroutine that
\* connected it, and every installed one is connected: until the scope is
\* cancelled no interleaving of replacement and failure leaks or reuses one.
NoLeak ==
    ~cancelled =>
        open = {r.generation : r \in transports}
               \union {t.id : t \in {t \in tasks : t.phase \in {"up", "publish", "install"}}}

\* Once failures stop, every slot ends up with an installed connection.
PoolRecovers ==
    <>[](cancelled \/ \A s \in Slots : RouteOf(s) \in transports)
=============================================================================
