--------------------------- MODULE NetworkJournal ---------------------------
(***************************************************************************)
(* StateCoordinator (peerward-platform/src/lib.rs): changes of the host's  *)
(* network are applied one command at a time, their rollback commands are  *)
(* kept in memory and in a journal file, and a process that finds a        *)
(* journal at its start rolls back before it changes anything.  The        *)
(* callers are the peer's start-up (runtime.rs of the CLI) for the base    *)
(* network and the resource worker (resource_platform.rs) for routes,      *)
(* forwarding and firewall of shared resources.                            *)
(*                                                                         *)
(* An operation is its position in the plan: `applied` and the journal     *)
(* list operations in plan order, so a set of positions says the same.  A  *)
(* command and a durable write are steps; the process may die before any   *)
(* of them.                                                                *)
(*                                                                         *)
(* Abstractions.  Link operations (addresses, routes, link state) live on  *)
(* the TUN: they vanish with it, and the kernel refuses to delete one that *)
(* is not there (bringing a link down twice would be no error, but it is   *)
(* always recorded after it is up).  Owned operations (resolv.conf,        *)
(* forwarding, accept_ra) are compare-and-swap: somebody else may change   *)
(* the value.  The others replace and destroy one nftables table.          *)
(* TransactionPhase only guards against calls in an order no caller makes, *)
(* and recover ignores it.                                                 *)
(***************************************************************************)
EXTENDS Naturals, FiniteSetsExt

CONSTANTS Operations,   \* positions of the plan
          Link,         \* operations on the TUN
          Owned,        \* compare-and-swap operations
          Resolver,     \* operations every caller journals before they run
          Plans,        \* sets of operations a caller asks for
          MaxFaults,    \* bound on failed commands and writes
          MaxCrashes,   \* bound on deaths of the process
          MaxForeign    \* bound on changes made by others

ASSUME OperationsAssumption ==
    /\ Operations \subseteq Nat /\ IsFiniteSet(Operations)
    /\ Link \subseteq Operations /\ Owned \subseteq Operations /\ Link \intersect Owned = {}
    /\ Resolver \subseteq Operations /\ Plans \subseteq SUBSET Operations
ASSUME LimitAssumption == MaxFaults \in Nat /\ MaxCrashes \in Nat /\ MaxForeign \in Nat

VARIABLES
  host,      \* what the host has in place of each operation
  tun,       \* the TUN interface exists
  journal,   \* rollback list on disk; {} is no file
  applied,   \* StateCoordinator.applied
  pc,        \* progress of the process
  goal,      \* the call that runs rollback_all
  todo,      \* operations of the plan not yet applied
  left,      \* operations rollback_all has not visited
  failed,    \* rollback_all met an error
  worker,    \* the caller is the resource worker, not start-up
  faults, crashes, foreign

disk == <<host, tun, journal>>
memory == <<applied, pc, goal, todo, left, failed>>
env == <<worker, faults, crashes, foreign>>
vars == <<disk, memory, env>>

Phases == {"down", "idle", "journal", "run", "record", "commit", "undo", "persist", "settle"}
Goals == {"recover", "begin", "fail", "exit"}

Init ==
    /\ host = [o \in Operations |-> "absent"]
    /\ tun = FALSE /\ journal = {}
    /\ applied = {} /\ pc = "down" /\ goal = "recover"
    /\ todo = {} /\ left = {} /\ failed = FALSE
    /\ worker \in BOOLEAN /\ faults = 0 /\ crashes = 0 /\ foreign = 0

\* A command or a write fails.
Fault == faults < MaxFaults /\ faults' = faults + 1 /\ UNCHANGED <<worker, crashes, foreign>>

\* persist_journal: an empty list is not written; a failed write may already have
\* replaced the file.
Saved(ops) == IF ops = {} THEN journal ELSE ops
SaveFails(ops) == ops # {} /\ Fault /\ journal' \in {journal, ops}

\* The non-persistent TUN is closed and takes its operations with it.
CloseTun ==
    /\ tun' = FALSE
    /\ host' = [o \in Operations |-> IF o \in Link THEN "absent" ELSE host[o]]

Stop == pc' = "down" /\ applied' = {} /\ todo' = {} /\ left' = {} /\ failed' = FALSE /\ goal' = "recover"

Rollback(g, ops) == pc' = "undo" /\ goal' = g /\ left' = ops /\ failed' = FALSE

-----------------------------------------------------------------------------
(* Calls                                                                   *)

\* recover, before the TUN is created (the resource worker recovers once more,
\* when there is no journal any longer).
Start ==
    /\ pc = "down"
    /\ applied' = journal /\ todo' = {}
    /\ Rollback("recover", journal)
    /\ UNCHANGED <<disk, env>>

\* prepare or apply_resource_network: what an earlier call left is shut down first.
Begin(plan) ==
    /\ pc = "idle"
    /\ todo' = plan
    /\ Rollback("begin", applied)
    /\ UNCHANGED <<disk, applied, env>>

\* shutdown at the end of the process; the packet streams, and with them the TUN,
\* may be gone by then.
Shutdown ==
    /\ pc = "idle"
    /\ Rollback("exit", applied)
    /\ \/ CloseTun
       \/ UNCHANGED <<host, tun>>
    /\ UNCHANGED <<journal, applied, todo, env>>

\* The call returns an error.  The resource worker tries again with its next tick;
\* start-up leaves, after a shutdown unless it was still preparing.
ReturnError ==
    \/ /\ worker
       /\ pc' = "idle" /\ todo' = {} /\ left' = {} /\ failed' = FALSE
       /\ UNCHANGED <<applied, goal, host, tun>>
    \/ /\ ~worker
       /\ Rollback("exit", applied) /\ todo' = {}
       /\ UNCHANGED <<applied, host, tun>>
    \/ ~worker /\ Stop /\ CloseTun

-----------------------------------------------------------------------------
(* apply_operations_journaled                                              *)

\* Operations journaled before they run; the worker asks for it (before_mutation).
Pre == IF worker THEN Operations ELSE Resolver

Current == Min(todo)

\* The next operation, or commit.
Continue(rest) ==
    /\ todo' = rest
    /\ pc' = IF rest = {} THEN "commit" ELSE IF Min(rest) \in Pre THEN "journal" ELSE "run"

\* Mutant: the intent is not written before the command.
JournalFirstLate ==
    /\ pc = "journal"
    /\ applied' = applied \union {Current}
    /\ pc' = "run"
    /\ UNCHANGED <<disk, goal, todo, left, failed, env>>

\* A failed write is returned at once, without rolling anything back.
JournalFirst ==
    /\ pc = "journal"
    /\ \/ /\ journal' = applied \union {Current} /\ applied' = applied \union {Current}
          /\ pc' = "run"
          /\ UNCHANGED <<goal, todo, left, failed, host, tun, env>>
       \/ SaveFails(applied \union {Current}) /\ ReturnError

\* The command of an operation; somebody else's value is a conflict.
Run ==
    /\ pc = "run"
    /\ \/ /\ host[Current] # "foreign"
          /\ host' = [host EXCEPT ![Current] = "ours"]
          /\ IF Current \in Pre THEN Continue(todo \ {Current})
                                ELSE pc' = "record" /\ UNCHANGED todo
          /\ UNCHANGED <<goal, left, failed, env>>
       \/ /\ \/ host[Current] = "foreign" /\ UNCHANGED env
             \/ Fault
          /\ Rollback("fail", applied)
          /\ UNCHANGED <<host, todo>>
    /\ UNCHANGED <<tun, journal, applied>>

\* The rollback of an operation that was not journaled in advance.
Record ==
    /\ pc = "record"
    /\ applied' = applied \union {Current}
    /\ \/ /\ journal' = applied'
          /\ Continue(todo \ {Current})
          /\ UNCHANGED <<goal, left, failed, env>>
       \/ /\ SaveFails(applied')
          /\ Rollback("fail", applied') /\ UNCHANGED todo
    /\ UNCHANGED <<host, tun>>

Commit ==
    /\ pc = "commit"
    /\ \/ /\ journal' = Saved(applied)
          /\ pc' = "idle"
          /\ UNCHANGED <<applied, goal, todo, left, failed, host, tun, env>>
       \/ SaveFails(applied) /\ ReturnError

-----------------------------------------------------------------------------
(* rollback_all                                                            *)

\* Mutant: a missing interface is an error like any other.
UndoesStrict(o) ==
    /\ host[o] # "foreign"
    /\ o \in Link => host[o] = "ours"

\* A rollback command that returns Ok, or InterfaceMissing, which counts as Ok.
\* Deleting a link operation that is not there is an error.  A value that cannot be
\* read any more (accept_ra of an interface that has gone) is a Fault of Undo.
Undoes(o) ==
    /\ host[o] # "foreign"
    /\ o \in Link /\ tun => host[o] = "ours"

NextUndo == Max(left)

\* Mutant: a failed rollback command ends the loop.
UndoStops ==
    /\ pc = "undo" /\ left # {}
    /\ \/ /\ Undoes(NextUndo)
          /\ left' = left \ {NextUndo}
          /\ host' = [host EXCEPT ![NextUndo] = "absent"]
          /\ applied' = applied \ {NextUndo}
          /\ pc' = "persist"
          /\ UNCHANGED <<failed, env>>
       \/ /\ \/ ~Undoes(NextUndo) /\ UNCHANGED env
             \/ Fault
          /\ failed' = TRUE /\ left' = {}
          /\ UNCHANGED <<host, applied, pc>>
    /\ UNCHANGED <<tun, journal, goal, todo>>

\* One rollback command; a failed one stays in the list and the loop goes on.
Undo ==
    /\ pc = "undo" /\ left # {}
    /\ left' = left \ {NextUndo}
    /\ \/ /\ Undoes(NextUndo)
          /\ host' = [host EXCEPT ![NextUndo] = "absent"]
          /\ applied' = applied \ {NextUndo}
          /\ pc' = "persist"
          /\ UNCHANGED <<failed, env>>
       \/ /\ \/ ~Undoes(NextUndo) /\ UNCHANGED env
             \/ Fault
          /\ failed' = TRUE
          /\ UNCHANGED <<host, applied, pc>>
    /\ UNCHANGED <<tun, journal, goal, todo>>

\* The progress of the rollback is saved after each success.
Persist ==
    /\ pc = "persist"
    /\ pc' = "undo"
    /\ \/ journal' = Saved(applied) /\ UNCHANGED <<failed, env>>
       \/ SaveFails(applied) /\ failed' = TRUE
    /\ UNCHANGED <<host, tun, applied, goal, todo, left>>

\* Mutant: the journal is removed although rollbacks remain.
SettleDrops ==
    /\ pc = "undo" /\ left = {}
    /\ pc' = "settle"
    /\ journal' = {} /\ UNCHANGED <<failed, env>>
    /\ UNCHANGED <<host, tun, applied, goal, todo, left>>

\* The journal is removed when nothing is left, and saved otherwise.
Settle ==
    /\ pc = "undo" /\ left = {}
    /\ pc' = "settle"
    /\ \/ journal' = applied /\ UNCHANGED <<failed, env>>
       \/ /\ journal \union applied # {} /\ Fault
          /\ journal' \in {journal, applied} /\ failed' = TRUE
    /\ UNCHANGED <<host, tun, applied, goal, todo, left>>

\* Building the plan reads the current values: those it knows become the originals.
Snapshot == [o \in Operations |-> IF o \in todo /\ host[o] = "foreign" THEN "absent" ELSE host[o]]

\* The caller of rollback_all goes on.
Resume ==
    /\ pc = "settle"
    /\ \/ /\ goal = "recover" /\ ~failed
          /\ tun' = TRUE /\ pc' = "idle"
          /\ UNCHANGED <<host, applied, goal, todo, left, failed>>
       \/ /\ goal = "recover" /\ failed
          /\ Stop /\ UNCHANGED <<host, tun>>
       \/ /\ goal = "begin" /\ ~failed
          /\ host' = Snapshot
          /\ Continue(todo)
          /\ UNCHANGED <<tun, applied, goal, left, failed>>
       \/ (goal = "fail" \/ (goal = "begin" /\ failed)) /\ ReturnError
       \/ /\ goal = "exit"
          /\ Stop /\ CloseTun
    /\ UNCHANGED <<journal, env>>

\* A value cannot be read while the plan is built, or is one nobody should have set.
PlanFails ==
    /\ pc = "settle" /\ goal = "begin" /\ ~failed
    /\ \/ (\E o \in todo : host[o] = "foreign") /\ UNCHANGED env
       \/ Fault
    /\ ReturnError
    /\ UNCHANGED journal

-----------------------------------------------------------------------------
(* Environment                                                             *)

Crash ==
    /\ pc # "down" /\ crashes < MaxCrashes
    /\ crashes' = crashes + 1
    /\ Stop /\ CloseTun
    /\ UNCHANGED <<journal, worker, faults, foreign>>

\* An administrator or another service changes an owned value, or puts it back.
ForeignChange(o) ==
    /\ o \in Owned /\ foreign < MaxForeign
    /\ foreign' = foreign + 1
    /\ \E value \in {"foreign", "absent"} \ {host[o]} : host' = [host EXCEPT ![o] = value]
    /\ UNCHANGED <<tun, journal, memory, worker, faults, crashes>>

Process ==
    \/ Start \/ JournalFirst \/ Run \/ Record \/ Commit
    \/ Undo \/ Persist \/ Settle \/ Resume \/ PlanFails

Next ==
    \/ Process
    \/ \E plan \in Plans : Begin(plan)
    \/ Shutdown \/ Crash \/ \E o \in Owned : ForeignChange(o)

Spec == Init /\ [][Next]_vars

\* A running call goes on and systemd starts the process again.
FairSpec == Spec /\ WF_vars(Process)

-----------------------------------------------------------------------------
(* Properties                                                              *)

\* Every variable has its type, and the lists only name operations.
TypeOK ==
    /\ host \in [Operations -> {"absent", "ours", "foreign"}] /\ tun \in BOOLEAN
    /\ journal \subseteq Operations /\ applied \subseteq Operations
    /\ pc \in Phases /\ goal \in Goals /\ failed \in BOOLEAN /\ worker \in BOOLEAN
    /\ todo \subseteq Operations /\ left \subseteq applied
    /\ faults \in Nat /\ crashes \in Nat /\ foreign \in Nat

\* Whatever dies or fails, a change announced in the journal is still in the
\* journal while it is in effect, and a live process knows it: some rollback
\* will find it ("Persist intent before a host mutation so a kill between
\* syscall and journal write is recoverable", resource_network.rs:211).
NothingForgotten ==
    \A o \in Pre : host[o] = "ours" =>
        o \in journal /\ (pc # "down" => o \in applied)

\* A start that gets past recovery begins with nothing of the last process that
\* was journaled in advance.
RecoveredIsClean ==
    [][pc' = "idle" /\ goal = "recover" /\ pc = "settle" =>
          journal' = {} /\ \A o \in Pre : host'[o] # "ours"]_vars

\* Each listed change that is still in effect when a rollback ends has cost a
\* failure of its own: a command that fails, a value of somebody else or a failed
\* write stops none of the other rollbacks ("Reverses every successful change",
\* lib.rs:437).
OthersAreUndone ==
    pc = "settle" => Cardinality({o \in applied : host[o] = "ours"}) <= faults

\* "Every rollback is idempotent" (resource_network.rs:211): what a finished
\* rollback keeps for a later attempt is still on the host.
UndoneIsForgotten ==
    pc = "idle" => \A o \in applied : host[o] # "absent"

\* The process gets past recovery unless somebody else holds a value it set: no
\* crash, failed command or half-written journal keeps the peer from starting.
StartsAgain == (pc = "down") ~> (pc = "idle" \/ \E o \in journal : host[o] = "foreign")
=============================================================================
