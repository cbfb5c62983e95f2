--------------------------- MODULE RelayPoolProofs ---------------------------
(***************************************************************************)
(* For every set of slots, every number of endpoints and any number of     *)
(* failures: until the scope is cancelled no interleaving of the pool's    *)
(* lock with the lock of `transports` loses a route, leaves a slot dead or *)
(* leaks a transport.                                                      *)
(***************************************************************************)
EXTENDS RelayPoolTransport, FiniteSetTheorems, TLAPS

USE SlotsAssumption, EndpointsAssumption, MaxFaultsAssumption

-----------------------------------------------------------------------------
(* The inductive invariant, in parts.                                      *)

\* Before and after the pool has answered the coroutine.
Connecting(t) == t.phase \in {"connect", "up", "down"}
Connects(t) == t.phase \in {"publish", "install"}

\* A request number names one coroutine, and never one transport and another.
RequestsAreUnique ==
    /\ \A t \in tasks : t.id \in 1..(next - 1)
    /\ \A t, u \in tasks : t.id = u.id => t = u
    /\ \A r \in transports : r.generation \in 1..(next - 1)
    /\ \A r, q \in transports : r.generation = q.generation => r = q
    /\ \A r \in transports, t \in tasks : r.generation # t.id
    /\ \A r \in failing : r.generation # 0

\* A slot that waits is waited for: its coroutine has not reported yet, and the
\* connection to be replaced is still the slot's.
SlotWaits(s) ==
    /\ slots[s].generation < next
    /\ slots[s].pending # NoRequest =>
         /\ slots[s].pending.id # 0
         /\ slots[s].pending.replacing = slots[s].generation
         /\ \E t \in tasks : t.slot = s /\ t.id = slots[s].pending.id /\ Connecting(t)
    /\ slots[s].generation = 0 /\ slots[s].pending = NoRequest => slots[s].due # "none"

SlotsWait == \A s \in Slots : SlotWaits(s)

\* What a coroutine is about to replace is no longer the slot's connection, and
\* what is still connecting was never a connection of a slot.
OldRoutesAreOld ==
    /\ \A t \in tasks : Connects(t) /\ t.old # 0 =>
         /\ slots[t.slot].generation # t.old /\ t.old < next
         /\ \A u \in tasks : Connecting(u) => u.id # t.old
    /\ \A u \in tasks : Connecting(u) => \A s \in Slots : slots[s].generation # u.id

\* The route of a slot is installed, reported or on its way to `transports`.
RoutesAreHeld ==
    \A s \in Slots : slots[s].generation # 0 =>
        \/ \E r \in transports \union failing :
             r.slot = s /\ r.generation = slots[s].generation
        \/ \E t \in tasks : Connects(t) /\ t.slot = s /\ t.id = slots[s].generation

\* Every open transport has one holder, and what is held is open.
TransportsAreHeld ==
    /\ \A r \in transports : r.generation \in open
    /\ \A t \in tasks : t.phase \in {"up", "publish", "install"} => t.id \in open
    /\ \A n \in open : \/ \E r \in transports : r.generation = n
                       \/ \E t \in tasks : t.phase \in {"up", "publish", "install"} /\ t.id = n

\* close goes through its parts in order.
CloseOrder == (closed => disposed) /\ (disposed => cancelled)

PoolInv ==
    /\ TypeOK /\ CloseOrder
    /\ ~cancelled =>
         /\ RequestsAreUnique /\ SlotsWait /\ OldRoutesAreOld
         /\ RoutesAreHeld /\ TransportsAreHeld

-----------------------------------------------------------------------------
(* Facts about the operators of the pool.                                  *)

\* The endpoint after one is an endpoint of the slot.
LEMMA NextEndpoint ==
    ASSUME NEW s \in Slots, NEW e \in Nat
    PROVE  (e + 1) % Endpoints[s] \in Nat /\ (e + 1) % Endpoints[s] < Endpoints[s]
<1>1. Endpoints[s] \in Nat \ {0} OBVIOUS
<1>2. \A a \in Nat, b \in Nat \ {0} : a % b \in Nat /\ a % b < b OBVIOUS
<1> QED OBVIOUS

\* poll gives every due slot a number of its own, from `next' on.
LEMMA PollNumbers ==
    ASSUME TypeOK
    PROVE  /\ Cardinality(Due) \in Nat
           /\ \A s \in Due : RequestOf(s).id \in next..(next + Cardinality(Due) - 1)
           /\ \A s, t \in Due : RequestOf(s).id = RequestOf(t).id => s = t
<1> DEFINE Below(s) == {t \in Due : t < s}
<1>1. IsFiniteSet(Due) /\ Due \subseteq Nat
  BY FS_Subset DEF Due
<1>2. \A s \in Due : IsFiniteSet(Below(s)) /\ Cardinality(Below(s)) < Cardinality(Due)
  <2> TAKE s \in Due
  <2>1. Below(s) \subseteq Due /\ Below(s) # Due BY <1>1
  <2> QED BY <1>1, <2>1, FS_Subset, FS_CardinalityType
<1>3. \A s, t \in Due : s < t => Cardinality(Below(s)) < Cardinality(Below(t))
  <2> SUFFICES ASSUME NEW s \in Due, NEW t \in Due, s < t
               PROVE  Cardinality(Below(s)) < Cardinality(Below(t))
    OBVIOUS
  <2>1. ASSUME NEW u \in Below(s) PROVE u \in Below(t)
    <3>1. u \in Nat /\ s \in Nat /\ t \in Nat /\ u < s BY <1>1
    <3> QED BY <3>1
  <2>2. s \in Below(t) /\ s \notin Below(s)
    <3>1. s \in Nat /\ t \in Nat BY <1>1
    <3> QED BY <3>1
  <2>3. Below(s) \subseteq Below(t) /\ Below(s) # Below(t) BY <2>1, <2>2
  <2> HIDE DEF Below
  <2> QED BY <1>2, <2>3, FS_Subset, FS_CardinalityType
<1>4. Cardinality(Due) \in Nat /\ \A s \in Due : Cardinality(Below(s)) \in Nat
  BY <1>1, <1>2, FS_CardinalityType
<1>5. \A s \in Due : RequestOf(s).id = next + Cardinality(Below(s))
  BY DEF RequestOf
<1>6. next \in Nat BY DEF TypeOK
<1>7. ASSUME NEW s \in Due, NEW t \in Due, RequestOf(s).id = RequestOf(t).id PROVE s = t
  <2>1. Cardinality(Below(s)) = Cardinality(Below(t)) BY <1>4, <1>5, <1>6, <1>7
  <2>2. ~(s < t) /\ ~(t < s) BY <1>3, <1>4, <2>1
  <2> QED BY <1>1, <2>2
<1>8. \A s \in Due : RequestOf(s).id \in next..(next + Cardinality(Due) - 1)
  <2> TAKE s \in Due
  <2> DEFINE below == Cardinality(Below(s))
  <2>1. below \in Nat /\ below < Cardinality(Due) /\ RequestOf(s).id = next + below
    BY <1>2, <1>4, <1>5
  <2> HIDE DEF below
  <2> QED BY <2>1, <1>4, <1>6
<1> QED BY <1>4, <1>7, <1>8

\* What poll does: a due slot gets a request with a fresh number, and a coroutine.
PollChanges ==
    /\ next' \in Nat /\ next < next'
    /\ slots' \in [Slots -> Slot]
    /\ \A s \in Slots : s \notin Due => slots'[s] = slots[s]
    /\ \A s \in Due :
         /\ slots'[s].generation = slots[s].generation /\ slots'[s].next = slots[s].next
         /\ slots'[s].pending = RequestOf(s)
         /\ RequestOf(s).replacing = slots[s].generation
         /\ RequestOf(s).id \in Nat /\ next <= RequestOf(s).id /\ RequestOf(s).id < next'
         /\ \E t \in tasks' : t.slot = s /\ t.id = RequestOf(s).id /\ t.phase = "connect"
    /\ tasks \subseteq tasks'
    /\ \A t \in tasks' : t \in tasks \/
         /\ t \in Task /\ t.slot \in Due /\ t.id = RequestOf(t.slot).id
         /\ t.old = 0 /\ t.phase = "connect"
    /\ UNCHANGED <<closed, transports, failing, open, cancelled, disposed, faults>>

\* That is all a poll changes.
LEMMA PollEffect ==
    ASSUME TypeOK, Poll
    PROVE  PollChanges
<1> USE DEF PollChanges
<1> DEFINE New(s) == [slot |-> s, id |-> RequestOf(s).id, old |-> 0, phase |-> "connect"]
<1>1. next \in Nat /\ Due \subseteq Slots /\ \A s \in Slots : slots[s] \in Slot
  BY DEF TypeOK, Due
<1>2. next' = next + Cardinality(Due) /\ Due # {}
  BY DEF Poll, PollPool
<1>3. \A s \in Due : RequestOf(s).id \in next..(next + Cardinality(Due) - 1)
  BY PollNumbers
<1>4. \A s \in Due : RequestOf(s).id \in Nat /\ next <= RequestOf(s).id /\ RequestOf(s).id < next'
  BY <1>1, <1>2, PollNumbers
<1>5. \A s \in Due : RequestOf(s) \in Request /\ RequestOf(s).replacing = slots[s].generation
  BY <1>1, <1>4 DEF RequestOf, Request, Slot
<1>6. slots' = [s \in Slots |-> IF s \in Due
                                THEN [slots[s] EXCEPT !.pending = RequestOf(s), !.due = "none"]
                                ELSE slots[s]]
  BY DEF Poll, PollPool
<1>7. \A s \in Due : /\ slots'[s] = [slots[s] EXCEPT !.pending = RequestOf(s), !.due = "none"]
                     /\ slots'[s] \in Slot
  BY ZenonT(60), <1>1, <1>5, <1>6 DEF Slot
<1>8. tasks' = tasks \union {New(s) : s \in Due}
  BY DEF Poll
<1>9. \A s \in Due : New(s) \in Task
  BY <1>1, <1>4 DEF Task
<1>10. next' \in Nat /\ next < next'
  <2>1. next' \in Nat BY <1>1, <1>2, PollNumbers
  <2>2. PICK s : s \in Due BY <1>2
  <2> QED BY <1>1, <1>4, <2>1, <2>2
<1>11. slots' \in [Slots -> Slot] BY <1>1, <1>6, <1>7
<1>12. \A s \in Slots : s \notin Due => slots'[s] = slots[s] BY <1>6
<1>13. ASSUME NEW s \in Due
       PROVE  /\ slots'[s].generation = slots[s].generation /\ slots'[s].next = slots[s].next
              /\ slots'[s].pending = RequestOf(s)
  <2>1. slots[s] \in Slot BY <1>1
  <2> QED BY ZenonT(60), <1>7, <2>1 DEF Slot
<1>14. ASSUME NEW s \in Due
       PROVE  \E t \in tasks' : t.slot = s /\ t.id = RequestOf(s).id /\ t.phase = "connect"
  <2>1. New(s) \in tasks' BY <1>8
  <2> WITNESS New(s) \in tasks'
  <2> QED OBVIOUS
<1>15. ASSUME NEW t \in tasks', t \notin tasks
       PROVE  /\ t \in Task /\ t.slot \in Due /\ t.id = RequestOf(t.slot).id
              /\ t.old = 0 /\ t.phase = "connect"
  <2>1. PICK s \in Due : t = New(s) BY <1>8, <1>15
  <2> QED BY <1>9, <2>1
<1>16. UNCHANGED <<closed, transports, failing, open, cancelled, disposed, faults>>
  BY DEF Poll, PollPool
<1> HIDE DEF New
<1> QED BY <1>16, <1>4, <1>5, <1>8, <1>10, <1>11, <1>12, <1>13, <1>14, <1>15

\* A coroutine that moves to another phase stays the coroutine it was.
LEMMA MoveEffect ==
    ASSUME TypeOK, NEW t \in tasks,
           NEW phase \in {"connect", "up", "down", "publish", "install"}, Move(t, phase)
    PROVE  \E u \in Task : /\ u.slot = t.slot /\ u.id = t.id /\ u.old = t.old
                           /\ u.phase = phase
                           /\ tasks' = (tasks \ {t}) \union {u}
BY DEF TypeOK, Move, Task

\* complete(request, true): only the slot of the request can change.
UpChanges(t) ==
    /\ slots' \in [Slots -> Slot]
    /\ \A s \in Slots : s # t.slot => slots'[s] = slots[s]
    /\ slots'[t.slot].next = slots[t.slot].next
    /\ Commits(t.slot, t.id) =>
         /\ slots'[t.slot].generation = t.id /\ slots'[t.slot].pending = NoRequest
         /\ \E u \in Task : /\ u.slot = t.slot /\ u.id = t.id /\ u.phase = "publish"
                            /\ u.old = slots[t.slot].generation
                            /\ tasks' = (tasks \ {t}) \union {u}
         /\ open' = open
    /\ ~Commits(t.slot, t.id) =>
         /\ slots'[t.slot].generation = slots[t.slot].generation
         /\ ~Waiting(t.slot, t.id) => slots'[t.slot] = slots[t.slot]
         /\ tasks' = tasks \ {t} /\ open' = open \ {t.id}
    /\ UNCHANGED <<next, closed, transports, failing, cancelled, disposed, faults>>

\* That is all the report of a connected task changes.
LEMMA UpEffect ==
    ASSUME TypeOK, NEW t \in tasks, ReportUp(t)
    PROVE  UpChanges(t)
<1> USE DEF UpChanges
<1>1. t \in Task /\ t.slot \in Slots /\ t.id \in Nat BY DEF TypeOK, Task
<1>2. slots \in [Slots -> Slot] /\ slots[t.slot] \in Slot /\ slots[t.slot].generation \in Nat
  BY <1>1 DEF TypeOK, Slot
<1>3. CompletedSlot(t.slot, t.id) \in Slot /\ NoRequest \in Request
  BY <1>1, <1>2 DEF CompletedSlot, Slot, Request, NoRequest
<1>4. slots' = IF Waiting(t.slot, t.id)
               THEN [slots EXCEPT ![t.slot] = CompletedSlot(t.slot, t.id)] ELSE slots
  BY DEF ReportUp, CompleteUp
<1>5. /\ slots' \in [Slots -> Slot]
      /\ \A s \in Slots : s # t.slot => slots'[s] = slots[s]
      /\ Waiting(t.slot, t.id) => slots'[t.slot] = CompletedSlot(t.slot, t.id)
      /\ ~Waiting(t.slot, t.id) => slots'[t.slot] = slots[t.slot]
  BY <1>1, <1>2, <1>3, <1>4
<1>6. /\ CompletedSlot(t.slot, t.id).next = slots[t.slot].next
      /\ CompletedSlot(t.slot, t.id).pending = NoRequest
      /\ Commits(t.slot, t.id) => CompletedSlot(t.slot, t.id).generation = t.id
      /\ ~Commits(t.slot, t.id) =>
           CompletedSlot(t.slot, t.id).generation = slots[t.slot].generation
  BY DEF CompletedSlot
<1>7. Commits(t.slot, t.id) => Waiting(t.slot, t.id) BY DEF Commits
<1>8. ASSUME Commits(t.slot, t.id)
      PROVE  /\ open' = open
             /\ \E u \in Task : /\ u.slot = t.slot /\ u.id = t.id /\ u.phase = "publish"
                                /\ u.old = slots[t.slot].generation
                                /\ tasks' = (tasks \ {t}) \union {u}
  BY <1>1, <1>2, <1>8 DEF ReportUp, Task
<1>9. ~Commits(t.slot, t.id) => tasks' = tasks \ {t} /\ open' = open \ {t.id}
  BY DEF ReportUp
<1>10. UNCHANGED <<next, closed, transports, failing, cancelled, disposed, faults>>
  BY DEF ReportUp, CompleteUp
<1> QED BY <1>5, <1>6, <1>7, <1>8, <1>9, <1>10

\* schedule_retry keeps the slot a slot and moves to an endpoint it has.
LEMMA RetryEffect ==
    ASSUME NEW s \in Slots, NEW slot \in Slot, NEW e \in Nat
    PROVE  /\ Retry(slot, s, e) \in Slot /\ Retry(slot, s, e).next < Endpoints[s]
           /\ Retry(slot, s, e).due = "later"
           /\ Retry(slot, s, e).generation = slot.generation
           /\ Retry(slot, s, e).pending = slot.pending
<1>1. (e + 1) % Endpoints[s] \in Nat /\ (e + 1) % Endpoints[s] < Endpoints[s]
  OBVIOUS
<1> QED BY <1>1 DEF Retry, Slot

\* complete(request, false): the slot of the request is scheduled again.
DownChanges(t) ==
    /\ slots' \in [Slots -> Slot]
    /\ \A s \in Slots : s # t.slot => slots'[s] = slots[s]
    /\ slots'[t.slot].next < Endpoints[t.slot]
    /\ slots'[t.slot].generation = slots[t.slot].generation
    /\ ~Waiting(t.slot, t.id) => slots'[t.slot] = slots[t.slot]
    /\ Waiting(t.slot, t.id) =>
         slots'[t.slot].pending = NoRequest /\ slots'[t.slot].due = "later"
    /\ tasks' = tasks \ {t}
    /\ UNCHANGED <<next, closed, transports, failing, open, cancelled, disposed, faults>>

\* That is all the report of a finished task changes.
LEMMA DownEffect ==
    ASSUME TypeOK, NEW t \in tasks, ReportDown(t)
    PROVE  DownChanges(t)
<1> USE DEF DownChanges
<1> DEFINE idle == [slots[t.slot] EXCEPT !.pending = NoRequest]
           retried == Retry(idle, t.slot, slots[t.slot].pending.endpoint)
<1>1. t.slot \in Slots BY DEF TypeOK, Task
<1>2. slots \in [Slots -> Slot] /\ slots[t.slot] \in Slot BY <1>1 DEF TypeOK
<1>3. slots[t.slot].pending.endpoint \in Nat BY <1>2 DEF Slot, Request
<1>4. /\ idle \in Slot /\ idle.generation = slots[t.slot].generation
      /\ idle.pending = NoRequest
  BY <1>2 DEF Slot, Request, NoRequest
<1>5. slots' = IF Waiting(t.slot, t.id) THEN [slots EXCEPT ![t.slot] = retried] ELSE slots
  BY DEF ReportDown, CompleteDown
<1>6. slots[t.slot].next < Endpoints[t.slot] BY <1>1 DEF TypeOK
<1> HIDE DEF idle
<1>7. /\ retried \in Slot /\ retried.next < Endpoints[t.slot] /\ retried.due = "later"
      /\ retried.generation = slots[t.slot].generation /\ retried.pending = NoRequest
  BY <1>1, <1>3, <1>4, RetryEffect
<1> HIDE DEF retried
<1>8. /\ tasks' = tasks \ {t}
      /\ UNCHANGED <<next, closed, transports, failing, open, cancelled, disposed, faults>>
  BY DEF ReportDown, CompleteDown
<1> QED BY <1>1, <1>2, <1>5, <1>6, <1>7, <1>8

\* failed: the slot whose active route it is loses route and request.
FailedChanges(r) ==
    /\ slots' \in [Slots -> Slot]
    /\ \A s \in Slots : s # r.slot => slots'[s] = slots[s]
    /\ slots'[r.slot].next < Endpoints[r.slot]
    /\ slots[r.slot].generation # r.generation => slots'[r.slot] = slots[r.slot]
    /\ slots[r.slot].generation = r.generation =>
         /\ slots'[r.slot].generation = 0
         /\ slots'[r.slot].pending = NoRequest /\ slots'[r.slot].due = "later"
    /\ failing' = failing \ {r}
    /\ UNCHANGED <<next, closed, tasks, transports, open, cancelled, disposed, faults>>

\* That is all the report of a failed transport changes.
LEMMA FailedEffect ==
    ASSUME TypeOK, NEW r \in failing, ReportFailed(r)
    PROVE  FailedChanges(r)
<1> USE DEF FailedChanges
<1> DEFINE idle == [slots[r.slot] EXCEPT !.generation = 0, !.endpoint = 0, !.pending = NoRequest]
           retried == Retry(idle, r.slot, slots[r.slot].endpoint)
<1>1. r.slot \in Slots BY DEF TypeOK, Route
<1>2. slots \in [Slots -> Slot] /\ slots[r.slot] \in Slot BY <1>1 DEF TypeOK
<1>3. slots[r.slot].endpoint \in Nat BY <1>2 DEF Slot
<1>4. idle \in Slot /\ idle.generation = 0 /\ idle.pending = NoRequest
  BY <1>2 DEF Slot, Request, NoRequest
<1>5. slots' = IF slots[r.slot].generation = r.generation
               THEN [slots EXCEPT ![r.slot] = retried] ELSE slots
  BY DEF ReportFailed, Failed
<1>6. slots[r.slot].next < Endpoints[r.slot] BY <1>1 DEF TypeOK
<1> HIDE DEF idle
<1>7. /\ retried \in Slot /\ retried.next < Endpoints[r.slot] /\ retried.due = "later"
      /\ retried.generation = 0 /\ retried.pending = NoRequest
  BY <1>1, <1>3, <1>4, RetryEffect
<1> HIDE DEF retried
<1>8. /\ failing' = failing \ {r}
      /\ UNCHANGED <<next, closed, tasks, transports, open, cancelled, disposed, faults>>
  BY DEF ReportFailed, Failed
<1> QED BY <1>1, <1>2, <1>5, <1>6, <1>7, <1>8

-----------------------------------------------------------------------------
(* Every step keeps every part.                                            *)

\* Every step keeps every variable in its shape.
LEMMA TypeStep ==
    ASSUME PoolInv, [Next]_vars
    PROVE  TypeOK'
<1>1. CASE Poll
  <2>1. PollChanges BY <1>1, PollEffect DEF PoolInv
  <2> QED BY <1>1, <2>1 DEF PollChanges, Due, TypeOK, Slot, PoolInv
<1>2. ASSUME NEW s \in Slots, BackoffEnds(s) /\ UNCHANGED <<adapterVars, faults>> PROVE TypeOK'
  BY <1>2 DEF BackoffEnds, adapterVars, TypeOK, Slot, Task, PoolInv, NoRequest
<1>3. ASSUME NEW t \in tasks, Connected(t) PROVE TypeOK'
  BY <1>3 DEF Connected, Move, poolVars, TypeOK, Slot, Task, PoolInv, NoRequest
<1>4. ASSUME NEW t \in tasks, ConnectFailed(t) PROVE TypeOK'
  BY <1>4 DEF ConnectFailed, Fault, Move, poolVars, TypeOK, Slot, Task, PoolInv, NoRequest
<1>5. ASSUME NEW t \in tasks, ConnectCancelled(t) PROVE TypeOK'
  BY <1>5 DEF ConnectCancelled, poolVars, TypeOK, Slot, Task, PoolInv, NoRequest
<1>6. ASSUME NEW t \in tasks, ReportUp(t) PROVE TypeOK'
  <2>1. UpChanges(t) BY <1>6, UpEffect DEF PoolInv
  <2> QED BY <1>6, <2>1 DEF UpChanges, Commits, Waiting, TypeOK, Slot, Task, Route, Request,
     PoolInv
<1>7. ASSUME NEW t \in tasks, ReportDown(t) PROVE TypeOK'
  <2>1. DownChanges(t) BY <1>7, DownEffect DEF PoolInv
  <2> QED BY <1>7, <2>1 DEF DownChanges, Waiting, TypeOK, Slot, PoolInv
<1>8. ASSUME NEW t \in tasks, Publish(t) PROVE TypeOK'
  BY <1>8 DEF Publish, Move, poolVars, TypeOK, Slot, Task, PoolInv, NoRequest
<1>9. ASSUME NEW t \in tasks, Install(t) PROVE TypeOK'
  <2>1. [slot |-> t.slot, generation |-> t.id] \in Route BY DEF PoolInv, TypeOK, Task, Route
  <2> QED BY <1>9, <2>1 DEF Install, poolVars, PoolInv, TypeOK
<1>10. ASSUME NEW r \in transports, Fail(r) PROVE TypeOK'
  <2>1. r \in Route /\ faults' \in Nat BY <1>10 DEF PoolInv, TypeOK, Fail, Fault
  <2> QED BY <1>10, <2>1 DEF Fail, poolVars, PoolInv, TypeOK
<1>11. ASSUME NEW r \in transports, MaybeRefresh(r) PROVE TypeOK'
  BY <1>11 DEF MaybeRefresh, Fault, Refresh, adapterVars, NoRequest, TypeOK, Slot, Route,
     PoolInv
<1>12. ASSUME NEW r \in failing, ReportFailed(r) PROVE TypeOK'
  <2>1. FailedChanges(r) BY <1>12, FailedEffect DEF PoolInv
  <2> QED BY <1>12, <2>1 DEF FailedChanges, TypeOK, Slot, PoolInv
<1>13. CASE Cancel
  BY <1>13 DEF Cancel, poolVars, TypeOK, Slot, Task, PoolInv, NoRequest
<1>14. CASE Dispose
  BY <1>14 DEF Dispose, poolVars, TypeOK, Slot, Task, Route, Request, PoolInv, CloseOrder,
     NoRequest
<1>15. CASE CloseNative
  BY ZenonT(60), <1>15 DEF CloseNative, ClosePool, adapterVars, NoRequest, TypeOK, Slot, Task,
     Route,
     Request, PoolInv, CloseOrder
<1>16. CASE UNCHANGED vars
  BY <1>16 DEF vars, poolVars, adapterVars, PoolInv, TypeOK, CloseOrder, RequestsAreUnique,
     SlotsWait, OldRoutesAreOld, RoutesAreHeld, TransportsAreHeld, Slot, Task, Route, NoRequest
<1> QED BY <1>1, <1>2, <1>3, <1>4, <1>5, <1>6, <1>7, <1>8, <1>9, <1>10, <1>11, <1>12, <1>13,
   <1>14, <1>15, <1>16 DEF Next, Worker, Execute

\* Only close closes, and in order.
LEMMA CloseStep ==
    ASSUME PoolInv, [Next]_vars
    PROVE  CloseOrder'
<1>1. CASE Poll
  <2>1. PollChanges BY <1>1, PollEffect DEF PoolInv
  <2> QED BY <1>1, <2>1 DEF PollChanges, Due, CloseOrder, PoolInv, Route
<1>2. ASSUME NEW s \in Slots, BackoffEnds(s) /\ UNCHANGED <<adapterVars, faults>> PROVE CloseOrder'
  BY <1>2 DEF BackoffEnds, adapterVars, CloseOrder, PoolInv
<1>3. ASSUME NEW t \in tasks, Connected(t) PROVE CloseOrder'
  BY <1>3 DEF Connected, poolVars, CloseOrder, PoolInv
<1>4. ASSUME NEW t \in tasks, ConnectFailed(t) PROVE CloseOrder'
  BY <1>4 DEF ConnectFailed, Fault, poolVars, CloseOrder, PoolInv
<1>5. ASSUME NEW t \in tasks, ConnectCancelled(t) PROVE CloseOrder'
  BY <1>5 DEF ConnectCancelled, poolVars, CloseOrder, PoolInv
<1>6. ASSUME NEW t \in tasks, ReportUp(t) PROVE CloseOrder'
  <2>1. UpChanges(t) BY <1>6, UpEffect DEF PoolInv
  <2> QED BY <1>6, <2>1 DEF UpChanges, Commits, Waiting, CloseOrder, PoolInv
<1>7. ASSUME NEW t \in tasks, ReportDown(t) PROVE CloseOrder'
  <2>1. DownChanges(t) BY <1>7, DownEffect DEF PoolInv
  <2> QED BY <1>7, <2>1 DEF DownChanges, Waiting, CloseOrder, PoolInv
<1>8. ASSUME NEW t \in tasks, Publish(t) PROVE CloseOrder'
  BY <1>8 DEF Publish, poolVars, CloseOrder, PoolInv
<1>9. ASSUME NEW t \in tasks, Install(t) PROVE CloseOrder'
  BY <1>9 DEF Install, poolVars, CloseOrder, PoolInv
<1>10. ASSUME NEW r \in transports, Fail(r) PROVE CloseOrder'
  BY <1>10 DEF Fail, poolVars, CloseOrder, PoolInv
<1>11. ASSUME NEW r \in transports, MaybeRefresh(r) PROVE CloseOrder'
  BY <1>11 DEF MaybeRefresh, Fault, Refresh, adapterVars, CloseOrder, PoolInv
<1>12. ASSUME NEW r \in failing, ReportFailed(r) PROVE CloseOrder'
  <2>1. FailedChanges(r) BY <1>12, FailedEffect DEF PoolInv
  <2> QED BY <1>12, <2>1 DEF FailedChanges, CloseOrder, PoolInv, Task, Route
<1>13. CASE Cancel
  BY <1>13 DEF Cancel, poolVars, CloseOrder, PoolInv
<1>14. CASE Dispose
  BY <1>14 DEF Dispose, CloseOrder
<1>15. CASE CloseNative
  BY <1>15 DEF CloseNative, ClosePool, adapterVars, NoRequest, CloseOrder, PoolInv
<1>16. CASE UNCHANGED vars
  BY <1>16 DEF vars, poolVars, adapterVars, PoolInv, TypeOK, CloseOrder, RequestsAreUnique,
     SlotsWait, OldRoutesAreOld, RoutesAreHeld, TransportsAreHeld, Connecting, Connects,
     Request, NoRequest
<1> QED BY <1>1, <1>2, <1>3, <1>4, <1>5, <1>6, <1>7, <1>8, <1>9, <1>10, <1>11, <1>12, <1>13,
   <1>14, <1>15, <1>16 DEF Next, Worker, Execute

\* A number is given out once, and moves from the coroutine to its transport.
LEMMA RequestStep ==
    ASSUME PoolInv, [Next]_vars, ~cancelled'
    PROVE  RequestsAreUnique'
<1>1. CASE Poll
  <2>1. PollChanges BY <1>1, PollEffect DEF PoolInv
  <2>2. RequestsAreUnique /\ next \in Nat /\ tasks \subseteq Task /\ transports \subseteq Route
    BY <1>1 DEF PoolInv, Poll, TypeOK
  <2>3. ASSUME NEW t \in tasks'
        PROVE  /\ t \in Task /\ t.id \in 1..(next' - 1)
               /\ t \in tasks => t.id < next
               /\ t \notin tasks => next <= t.id
    BY <2>1, <2>2 DEF PollChanges, RequestsAreUnique, TypeOK, PoolInv
  <2>4. ASSUME NEW t \in tasks', NEW u \in tasks', t.id = u.id PROVE t = u
    <3>1. CASE t \in tasks /\ u \in tasks BY <2>2, <2>4, <3>1 DEF RequestsAreUnique
    <3>2. CASE t \notin tasks /\ u \notin tasks
      <4>1. t.slot = u.slot BY <2>1, <2>4, <3>2, PollNumbers DEF PollChanges, PoolInv
      <4> QED BY <2>1, <2>3, <2>4, <3>2, <4>1 DEF PollChanges, Task
    <3> QED BY <2>2, <2>3, <2>4, <3>1, <3>2
  <2>5. ASSUME NEW r \in transports, NEW t \in tasks' PROVE r.generation # t.id
    BY <2>2, <2>3 DEF RequestsAreUnique
  <2>6. \A r \in transports : r.generation \in 1..(next' - 1)
    BY <2>1, <2>2 DEF RequestsAreUnique, PollChanges
  <2> QED BY <2>1, <2>2, <2>3, <2>4 DEF RequestsAreUnique, PollChanges
<1>2. ASSUME NEW s \in Slots, BackoffEnds(s) /\ UNCHANGED <<adapterVars, faults>>
      PROVE  RequestsAreUnique'
  BY <1>2 DEF BackoffEnds, adapterVars, RequestsAreUnique, PoolInv, TypeOK, Request, NoRequest
<1>3. ASSUME NEW t \in tasks, Connected(t) PROVE RequestsAreUnique'
  <2>1. TypeOK /\ Move(t, "up")
    BY <1>3 DEF PoolInv, Connected
  <2>2. PICK u \in Task : /\ u.slot = t.slot /\ u.id = t.id /\ u.old = t.old /\ u.phase = "up"
                         /\ tasks' = (tasks \ {t}) \union {u}
    BY <2>1, MoveEffect
  <2> QED BY <1>3, <2>2 DEF Connected, poolVars, RequestsAreUnique, PoolInv, NoRequest
<1>4. ASSUME NEW t \in tasks, ConnectFailed(t) PROVE RequestsAreUnique'
  <2>1. TypeOK /\ Move(t, "down")
    BY <1>4 DEF PoolInv, ConnectFailed
  <2>2. PICK u \in Task : /\ u.slot = t.slot /\ u.id = t.id /\ u.old = t.old /\ u.phase = "down"
                         /\ tasks' = (tasks \ {t}) \union {u}
    BY <2>1, MoveEffect
  <2> QED BY <1>4, <2>2 DEF ConnectFailed, Fault, poolVars, RequestsAreUnique, PoolInv,
     NoRequest
<1>5. ASSUME NEW t \in tasks, ConnectCancelled(t) PROVE RequestsAreUnique'
  BY <1>5 DEF ConnectCancelled, poolVars, RequestsAreUnique, PoolInv, TypeOK, Request, NoRequest
<1>6. ASSUME NEW t \in tasks, ReportUp(t) PROVE RequestsAreUnique'
  <2>1. UpChanges(t) BY <1>6, UpEffect DEF PoolInv
  <2> QED BY <1>6, <2>1 DEF UpChanges, Commits, Waiting, RequestsAreUnique, PoolInv
<1>7. ASSUME NEW t \in tasks, ReportDown(t) PROVE RequestsAreUnique'
  <2>1. DownChanges(t) BY <1>7, DownEffect DEF PoolInv
  <2> QED BY <1>7, <2>1 DEF DownChanges, Waiting, RequestsAreUnique, PoolInv
<1>8. ASSUME NEW t \in tasks, Publish(t) PROVE RequestsAreUnique'
  <2>1. TypeOK /\ Move(t, "install")
    BY <1>8 DEF PoolInv, Publish
  <2>2. PICK u \in Task : /\ u.slot = t.slot /\ u.id = t.id /\ u.old = t.old /\ u.phase = "install"
                         /\ tasks' = (tasks \ {t}) \union {u}
    BY <2>1, MoveEffect
  <2> QED BY <1>8, <2>2 DEF Publish, poolVars, RequestsAreUnique, PoolInv, NoRequest
<1>9. ASSUME NEW t \in tasks, Install(t) PROVE RequestsAreUnique'
  BY <1>9 DEF Install, poolVars, RequestsAreUnique, PoolInv, TypeOK, Request, NoRequest
<1>10. ASSUME NEW r \in transports, Fail(r) PROVE RequestsAreUnique'
  BY <1>10 DEF Fail, Fault, poolVars, RequestsAreUnique, PoolInv, TypeOK, Request, NoRequest
<1>11. ASSUME NEW r \in transports, MaybeRefresh(r) PROVE RequestsAreUnique'
  BY <1>11 DEF MaybeRefresh, Fault, Refresh, adapterVars, NoRequest, RequestsAreUnique,
     PoolInv, TypeOK
<1>12. ASSUME NEW r \in failing, ReportFailed(r) PROVE RequestsAreUnique'
  <2>1. FailedChanges(r) BY <1>12, FailedEffect DEF PoolInv
  <2> QED BY <1>12, <2>1 DEF FailedChanges, RequestsAreUnique, PoolInv
<1>13. CASE Cancel
  BY <1>13 DEF Cancel, poolVars, RequestsAreUnique, PoolInv, TypeOK, Request, NoRequest
<1>14. CASE Dispose
  BY <1>14 DEF Dispose, poolVars, RequestsAreUnique, PoolInv, TypeOK, CloseOrder, Request,
     NoRequest
<1>15. CASE CloseNative
  BY <1>15 DEF CloseNative, ClosePool, adapterVars, NoRequest, RequestsAreUnique, PoolInv,
     TypeOK, CloseOrder, Request, Slot, Route, Task
<1>16. CASE UNCHANGED vars
  BY <1>16 DEF vars, poolVars, adapterVars, PoolInv, TypeOK, CloseOrder, RequestsAreUnique,
     SlotsWait, OldRoutesAreOld, RoutesAreHeld, TransportsAreHeld, Connecting, Connects,
     Request, NoRequest
<1> QED BY <1>1, <1>2, <1>3, <1>4, <1>5, <1>6, <1>7, <1>8, <1>9, <1>10, <1>11, <1>12, <1>13,
   <1>14, <1>15, <1>16 DEF Next, Worker, Execute

\* A slot stops waiting only when its coroutine reports or its route fails.
LEMMA SlotStep ==
    ASSUME PoolInv, [Next]_vars, ~cancelled'
    PROVE  SlotsWait'
<1>1. CASE Poll
  <2>1. PollChanges BY <1>1, PollEffect DEF PoolInv
  <2>2. SlotsWait /\ next \in Nat \ {0} /\ slots \in [Slots -> Slot]
    BY <1>1 DEF PoolInv, Poll, TypeOK
  <2> SUFFICES ASSUME NEW s \in Slots PROVE SlotWaits(s)'
    BY DEF SlotsWait
  <2>3. slots[s].generation \in Nat /\ slots[s].generation < next'
    BY <2>1, <2>2 DEF PollChanges, SlotsWait, SlotWaits, Slot
  <2>4. CASE s \in Due
    <3>1. /\ slots'[s].generation = slots[s].generation /\ slots'[s].pending = RequestOf(s)
          /\ RequestOf(s).replacing = slots[s].generation
          /\ RequestOf(s).id \in Nat /\ next <= RequestOf(s).id
      BY <2>1, <2>4 DEF PollChanges
    <3>2. \E t \in tasks' : t.slot = s /\ t.id = RequestOf(s).id /\ t.phase = "connect"
      BY <2>1, <2>4 DEF PollChanges
    <3>3. RequestOf(s).id # 0 /\ RequestOf(s) # NoRequest BY <2>2, <3>1 DEF NoRequest
    <3> HIDE DEF RequestOf
    <3> QED BY <2>3, <3>1, <3>2, <3>3 DEF SlotWaits, Connecting
  <2>5. CASE s \notin Due
    <3>1. slots'[s] = slots[s] /\ tasks \subseteq tasks' BY <2>1, <2>5 DEF PollChanges
    <3>2. SlotWaits(s) BY <2>2 DEF SlotsWait
    <3> QED BY <2>3, <3>1, <3>2 DEF SlotWaits
  <2> QED BY <2>4, <2>5
<1>2. ASSUME NEW s \in Slots, BackoffEnds(s) /\ UNCHANGED <<adapterVars, faults>> PROVE SlotsWait'
  BY <1>2 DEF BackoffEnds, adapterVars, SlotsWait, SlotWaits, NoRequest, Connecting, PoolInv,
     TypeOK, RequestsAreUnique
<1>3. ASSUME NEW t \in tasks, Connected(t) PROVE SlotsWait'
  <2>1. TypeOK /\ Move(t, "up") /\ Connecting(t)
    BY <1>3 DEF PoolInv, Connected, Connecting
  <2>2. PICK u \in Task : /\ u.slot = t.slot /\ u.id = t.id /\ u.old = t.old /\ u.phase = "up"
                         /\ tasks' = (tasks \ {t}) \union {u}
    BY <2>1, MoveEffect
  <2>3. Connecting(u) /\ SlotsWait /\ slots' = slots /\ next' = next
    BY <1>3, <2>2 DEF Connected, poolVars, PoolInv, Connecting
  <2>4. ASSUME NEW w \in tasks, Connecting(w)
        PROVE  \E v \in tasks' : v.slot = w.slot /\ v.id = w.id /\ Connecting(v)
    BY <2>2, <2>3, <2>4
  <2> SUFFICES ASSUME NEW s \in Slots PROVE SlotWaits(s)'
    BY DEF SlotsWait
  <2>5. SlotWaits(s) BY <2>3 DEF SlotsWait
  <2> QED BY <2>3, <2>4, <2>5 DEF SlotWaits
<1>4. ASSUME NEW t \in tasks, ConnectFailed(t) PROVE SlotsWait'
  <2>1. TypeOK /\ Move(t, "down") /\ Connecting(t)
    BY <1>4 DEF PoolInv, ConnectFailed, Connecting
  <2>2. PICK u \in Task : /\ u.slot = t.slot /\ u.id = t.id /\ u.old = t.old /\ u.phase = "down"
                         /\ tasks' = (tasks \ {t}) \union {u}
    BY <2>1, MoveEffect
  <2>3. Connecting(u) /\ SlotsWait /\ slots' = slots /\ next' = next
    BY <1>4, <2>2 DEF ConnectFailed, poolVars, PoolInv, Connecting
  <2>4. ASSUME NEW w \in tasks, Connecting(w)
        PROVE  \E v \in tasks' : v.slot = w.slot /\ v.id = w.id /\ Connecting(v)
    BY <2>2, <2>3, <2>4
  <2> SUFFICES ASSUME NEW s \in Slots PROVE SlotWaits(s)'
    BY DEF SlotsWait
  <2>5. SlotWaits(s) BY <2>3 DEF SlotsWait
  <2> QED BY <2>3, <2>4, <2>5 DEF SlotWaits
<1>5. ASSUME NEW t \in tasks, ConnectCancelled(t) PROVE SlotsWait'
  BY <1>5 DEF ConnectCancelled, poolVars, SlotsWait, SlotWaits, NoRequest, Connecting, PoolInv,
     TypeOK, RequestsAreUnique
<1>6. ASSUME NEW t \in tasks, ReportUp(t) PROVE SlotsWait'
  <2>1. UpChanges(t) BY <1>6, UpEffect DEF PoolInv
  <2>2. /\ SlotsWait /\ RequestsAreUnique /\ ~closed /\ t.slot \in Slots /\ t.id # 0 /\ t.id < next
        /\ next \in Nat
    BY <1>6, <2>1 DEF PoolInv, TypeOK, Task, CloseOrder, UpChanges, RequestsAreUnique
  <2> SUFFICES ASSUME NEW s \in Slots PROVE SlotWaits(s)'
    BY DEF SlotsWait
  <2>3. SlotWaits(s) BY <2>2 DEF SlotsWait
  <2>4. CASE s # t.slot
    BY <2>1, <2>3, <2>4 DEF UpChanges, SlotWaits
  <2>5. CASE s = t.slot /\ Commits(t.slot, t.id)
    BY <2>1, <2>2, <2>5 DEF UpChanges, SlotWaits
  <2>6. ASSUME s = t.slot, ~Commits(t.slot, t.id) PROVE ~Waiting(t.slot, t.id)
    BY <2>2, <2>3, <2>6 DEF Commits, Waiting, SlotWaits, NoRequest
  <2>7. CASE s = t.slot /\ ~Commits(t.slot, t.id)
    BY <2>1, <2>3, <2>6, <2>7 DEF UpChanges, Waiting, SlotWaits
  <2> QED BY <2>4, <2>5, <2>7
<1>7. ASSUME NEW t \in tasks, ReportDown(t) PROVE SlotsWait'
  <2>1. DownChanges(t) BY <1>7, DownEffect DEF PoolInv
  <2>2. SlotsWait BY <2>1 DEF PoolInv, DownChanges
  <2> SUFFICES ASSUME NEW s \in Slots PROVE SlotWaits(s)'
    BY DEF SlotsWait
  <2>3. SlotWaits(s) BY <2>2 DEF SlotsWait
  <2>4. CASE s # t.slot
    BY <2>1, <2>3, <2>4 DEF DownChanges, SlotWaits
  <2>5. CASE s = t.slot /\ Waiting(t.slot, t.id)
    BY <2>1, <2>3, <2>5 DEF DownChanges, SlotWaits
  <2>6. CASE s = t.slot /\ ~Waiting(t.slot, t.id)
    BY <2>1, <2>3 DEF DownChanges, Waiting, SlotWaits
  <2> QED BY <2>4, <2>5, <2>6
<1>8. ASSUME NEW t \in tasks, Publish(t) PROVE SlotsWait'
  <2>1. TypeOK /\ Move(t, "install")
    BY <1>8 DEF PoolInv, Publish
  <2>2. PICK u \in Task : /\ u.slot = t.slot /\ u.id = t.id /\ u.old = t.old /\ u.phase = "install"
                         /\ tasks' = (tasks \ {t}) \union {u}
    BY <2>1, MoveEffect
  <2> QED BY <1>8, <2>2 DEF Publish, poolVars, SlotsWait, SlotWaits, NoRequest, Connecting,
     PoolInv
<1>9. ASSUME NEW t \in tasks, Install(t) PROVE SlotsWait'
  BY <1>9 DEF Install, poolVars, SlotsWait, SlotWaits, NoRequest, Connecting, PoolInv, TypeOK,
     RequestsAreUnique
<1>10. ASSUME NEW r \in transports, Fail(r) PROVE SlotsWait'
  BY <1>10 DEF Fail, Fault, poolVars, SlotsWait, SlotWaits, NoRequest, Connecting, PoolInv,
     TypeOK, RequestsAreUnique, Slot
<1>11. ASSUME NEW r \in transports, MaybeRefresh(r) PROVE SlotsWait'
  BY <1>11 DEF MaybeRefresh, Fault, Refresh, adapterVars, NoRequest, SlotsWait, SlotWaits,
     Connecting, PoolInv, TypeOK, RequestsAreUnique
<1>12. ASSUME NEW r \in failing, ReportFailed(r) PROVE SlotsWait'
  <2>1. FailedChanges(r) BY <1>12, FailedEffect DEF PoolInv
  <2> QED BY <1>12, <2>1 DEF FailedChanges, SlotsWait, SlotWaits, NoRequest, Connecting,
     PoolInv, TypeOK, Task, Route
<1>13. CASE Cancel
  BY <1>13 DEF Cancel, poolVars, SlotsWait, SlotWaits, NoRequest, Connecting, PoolInv, TypeOK,
     RequestsAreUnique
<1>14. CASE Dispose
  BY <1>14 DEF Dispose, poolVars, SlotsWait, SlotWaits, NoRequest, Connecting, PoolInv, TypeOK,
     RequestsAreUnique, CloseOrder
<1>15. CASE CloseNative
  BY <1>15 DEF CloseNative, ClosePool, adapterVars, NoRequest, SlotsWait, SlotWaits,
     Connecting, PoolInv, TypeOK, RequestsAreUnique, CloseOrder, Request, Slot, Route, Task
<1>16. CASE UNCHANGED vars
  BY <1>16 DEF vars, poolVars, adapterVars, PoolInv, TypeOK, CloseOrder, RequestsAreUnique,
     SlotsWait, OldRoutesAreOld, RoutesAreHeld, TransportsAreHeld, SlotWaits, NoRequest,
     Connecting, Connects
<1> QED BY <1>1, <1>2, <1>3, <1>4, <1>5, <1>6, <1>7, <1>8, <1>9, <1>10, <1>11, <1>12, <1>13,
   <1>14, <1>15, <1>16 DEF Next, Worker, Execute

\* The pool forgets a route before a coroutine removes it.
LEMMA OldStep ==
    ASSUME PoolInv, [Next]_vars, ~cancelled'
    PROVE  OldRoutesAreOld'
<1>1. CASE Poll
  <2>1. PollChanges BY <1>1, PollEffect DEF PoolInv
  <2>2. /\ OldRoutesAreOld /\ SlotsWait /\ next \in Nat \ {0}
        /\ slots \in [Slots -> Slot] /\ tasks \subseteq Task
    BY <1>1 DEF PoolInv, Poll, TypeOK
  <2>3. \A s \in Slots : /\ slots'[s].generation = slots[s].generation
                         /\ slots[s].generation < next /\ slots[s].generation \in Nat
    BY <2>1, <2>2 DEF PollChanges, SlotsWait, SlotWaits, Slot
  <2>4. \A t \in tasks' : t \notin tasks => Connecting(t) /\ ~Connects(t) /\ next <= t.id /\ t.id \in Nat
    BY <2>1 DEF PollChanges, Connecting, Connects
  <2>5. ASSUME NEW t \in tasks', Connects(t), t.old # 0
        PROVE  /\ slots'[t.slot].generation # t.old /\ t.old < next'
               /\ \A u \in tasks' : Connecting(u) => u.id # t.old
    <3>1. t \in tasks /\ t.slot \in Slots /\ t.old \in Nat BY <2>2, <2>4, <2>5 DEF Task
    <3>2. slots[t.slot].generation # t.old /\ t.old < next BY <2>2, <2>5,
       <3>1 DEF OldRoutesAreOld
    <3>3. \A u \in tasks : Connecting(u) => u.id # t.old BY <2>2, <2>5, <3>1 DEF OldRoutesAreOld
    <3>4. next < next' /\ next' \in Nat BY <2>1 DEF PollChanges
    <3>5. t.old < next' BY <2>2, <3>1, <3>2, <3>4
    <3>6. ASSUME NEW u \in tasks', u \notin tasks PROVE u.id # t.old
      <4>1. next <= u.id /\ u.id \in Nat BY <2>4, <3>6
      <4> QED BY <2>2, <3>2, <4>1
    <3>7. slots'[t.slot].generation = slots[t.slot].generation BY <2>3, <3>1
    <3> QED BY <3>2, <3>3, <3>5, <3>6, <3>7
  <2>6. ASSUME NEW u \in tasks', Connecting(u), NEW s \in Slots PROVE slots'[s].generation # u.id
    BY <2>2, <2>3, <2>4, <2>6 DEF OldRoutesAreOld
  <2> QED BY <2>5, <2>6 DEF OldRoutesAreOld, Connecting
<1>2. ASSUME NEW s \in Slots, BackoffEnds(s) /\ UNCHANGED <<adapterVars, faults>>
      PROVE  OldRoutesAreOld'
  BY <1>2 DEF BackoffEnds, adapterVars, OldRoutesAreOld, Connects, Connecting, PoolInv, TypeOK,
     RequestsAreUnique, SlotsWait, SlotWaits, Request
<1>3. ASSUME NEW t \in tasks, Connected(t) PROVE OldRoutesAreOld'
  <2>1. TypeOK /\ Move(t, "up")
    BY <1>3 DEF PoolInv, Connected
  <2>2. PICK u \in Task : /\ u.slot = t.slot /\ u.id = t.id /\ u.old = t.old /\ u.phase = "up"
                         /\ tasks' = (tasks \ {t}) \union {u}
    BY <2>1, MoveEffect
  <2> QED BY <1>3, <2>2 DEF Connected, poolVars, OldRoutesAreOld, Connects, Connecting,
     PoolInv, TypeOK, RequestsAreUnique, SlotsWait, NoRequest
<1>4. ASSUME NEW t \in tasks, ConnectFailed(t) PROVE OldRoutesAreOld'
  <2>1. TypeOK /\ Move(t, "down")
    BY <1>4 DEF PoolInv, ConnectFailed
  <2>2. PICK u \in Task : /\ u.slot = t.slot /\ u.id = t.id /\ u.old = t.old /\ u.phase = "down"
                         /\ tasks' = (tasks \ {t}) \union {u}
    BY <2>1, MoveEffect
  <2> QED BY <1>4, <2>2 DEF ConnectFailed, Fault, poolVars, OldRoutesAreOld, Connects,
     Connecting, PoolInv, TypeOK, RequestsAreUnique, SlotsWait
<1>5. ASSUME NEW t \in tasks, ConnectCancelled(t) PROVE OldRoutesAreOld'
  BY <1>5 DEF ConnectCancelled, poolVars, OldRoutesAreOld, Connects, Connecting, PoolInv,
     TypeOK, RequestsAreUnique, SlotsWait, SlotWaits, Request
<1>6. ASSUME NEW t \in tasks, ReportUp(t) PROVE OldRoutesAreOld'
  <2>1. UpChanges(t) BY <1>6, UpEffect DEF PoolInv
  <2> QED BY <1>6, <2>1 DEF UpChanges, Commits, Waiting, OldRoutesAreOld, Connects, Connecting,
     PoolInv, TypeOK, RequestsAreUnique, SlotsWait, SlotWaits, Task, ReportUp
<1>7. ASSUME NEW t \in tasks, ReportDown(t) PROVE OldRoutesAreOld'
  <2>1. DownChanges(t) BY <1>7, DownEffect DEF PoolInv
  <2>2. OldRoutesAreOld /\ tasks' \subseteq tasks /\ tasks \subseteq Task
    BY <1>7, <2>1 DEF PoolInv, DownChanges, TypeOK
  <2>3. \A s \in Slots : slots'[s].generation = slots[s].generation
    BY <2>1 DEF DownChanges
  <2>4. \A u \in tasks' : u \in tasks /\ u.slot \in Slots BY <2>2 DEF Task
  <2>5. next' = next BY <2>1 DEF DownChanges
  <2> QED BY <2>2, <2>3, <2>4, <2>5 DEF OldRoutesAreOld, Connecting, Connects
<1>8. ASSUME NEW t \in tasks, Publish(t) PROVE OldRoutesAreOld'
  <2>1. TypeOK /\ Move(t, "install")
    BY <1>8 DEF PoolInv, Publish
  <2>2. PICK u \in Task : /\ u.slot = t.slot /\ u.id = t.id /\ u.old = t.old /\ u.phase = "install"
                         /\ tasks' = (tasks \ {t}) \union {u}
    BY <2>1, MoveEffect
  <2> QED BY <1>8, <2>2 DEF Publish, poolVars, OldRoutesAreOld, Connects, Connecting, PoolInv,
     TypeOK, RequestsAreUnique, SlotsWait
<1>9. ASSUME NEW t \in tasks, Install(t) PROVE OldRoutesAreOld'
  BY <1>9 DEF Install, poolVars, OldRoutesAreOld, Connects, Connecting, PoolInv, TypeOK,
     RequestsAreUnique, SlotsWait, SlotWaits, Request, Route
<1>10. ASSUME NEW r \in transports, Fail(r) PROVE OldRoutesAreOld'
  BY <1>10 DEF Fail, Fault, poolVars, OldRoutesAreOld, Connects, Connecting, PoolInv, TypeOK,
     RequestsAreUnique, SlotsWait, SlotWaits, Request
<1>11. ASSUME NEW r \in transports, MaybeRefresh(r) PROVE OldRoutesAreOld'
  BY <1>11 DEF MaybeRefresh, Fault, Refresh, adapterVars, NoRequest, OldRoutesAreOld, Connects,
     Connecting, PoolInv, TypeOK, RequestsAreUnique, SlotsWait, SlotWaits, Task
<1>12. ASSUME NEW r \in failing, ReportFailed(r) PROVE OldRoutesAreOld'
  <2>1. FailedChanges(r) BY <1>12, FailedEffect DEF PoolInv
  <2>2. OldRoutesAreOld /\ RequestsAreUnique /\ tasks \subseteq Task
    BY <1>12, <2>1 DEF PoolInv, FailedChanges, TypeOK
  <2>3. \A s \in Slots : slots'[s].generation = slots[s].generation \/ slots'[s].generation = 0
    BY <2>1 DEF FailedChanges
  <2>4. \A u \in tasks : u.id # 0 /\ u.slot \in Slots BY <2>2 DEF RequestsAreUnique, Task
  <2> QED
    BY ZenonT(60), <2>1, <2>2, <2>3, <2>4 DEF FailedChanges, OldRoutesAreOld, Connecting, Connects
<1>13. CASE Cancel
  BY <1>13 DEF Cancel, poolVars, OldRoutesAreOld, Connects, Connecting, PoolInv, TypeOK,
     RequestsAreUnique, SlotsWait, SlotWaits, Request
<1>14. CASE Dispose
  BY <1>14 DEF Dispose, poolVars, OldRoutesAreOld, Connects, Connecting, PoolInv, TypeOK,
     RequestsAreUnique, SlotsWait, SlotWaits, CloseOrder, Request
<1>15. CASE CloseNative
  BY <1>15 DEF CloseNative, ClosePool, adapterVars, NoRequest, OldRoutesAreOld, Connects,
     Connecting, PoolInv, TypeOK, RequestsAreUnique, SlotsWait, SlotWaits, CloseOrder, Request,
     Slot, Route, Task
<1>16. CASE UNCHANGED vars
  BY <1>16 DEF vars, poolVars, adapterVars, PoolInv, TypeOK, CloseOrder, RequestsAreUnique,
     SlotsWait, OldRoutesAreOld, RoutesAreHeld, TransportsAreHeld, Connects, Connecting,
     Request, NoRequest
<1> QED BY <1>1, <1>2, <1>3, <1>4, <1>5, <1>6, <1>7, <1>8, <1>9, <1>10, <1>11, <1>12, <1>13,
   <1>14, <1>15, <1>16 DEF Next, Worker, Execute

\* A route changes hands without a gap.
LEMMA GhostStep ==
    ASSUME PoolInv, [Next]_vars, ~cancelled'
    PROVE  RoutesAreHeld'
<1>1. CASE Poll
  <2>1. PollChanges BY <1>1, PollEffect DEF PoolInv
  <2> QED BY <1>1, <2>1 DEF PollChanges, Due, RoutesAreHeld, Connects, PoolInv, CloseOrder,
     TypeOK, OldRoutesAreOld, RequestsAreUnique
<1>2. ASSUME NEW s \in Slots, BackoffEnds(s) /\ UNCHANGED <<adapterVars, faults>>
      PROVE  RoutesAreHeld'
  BY <1>2 DEF BackoffEnds, adapterVars, RoutesAreHeld, Connects, PoolInv, CloseOrder, TypeOK,
     OldRoutesAreOld, RequestsAreUnique, SlotsWait, SlotWaits, Request
<1>3. ASSUME NEW t \in tasks, Connected(t) PROVE RoutesAreHeld'
  <2>1. TypeOK /\ Move(t, "up")
    BY <1>3 DEF PoolInv, Connected
  <2>2. PICK u \in Task : /\ u.slot = t.slot /\ u.id = t.id /\ u.old = t.old /\ u.phase = "up"
                         /\ tasks' = (tasks \ {t}) \union {u}
    BY <2>1, MoveEffect
  <2> QED BY <1>3, <2>2 DEF Connected, poolVars, RoutesAreHeld, Connects, PoolInv, CloseOrder,
     TypeOK, OldRoutesAreOld, RequestsAreUnique, SlotsWait
<1>4. ASSUME NEW t \in tasks, ConnectFailed(t) PROVE RoutesAreHeld'
  <2>1. TypeOK /\ Move(t, "down")
    BY <1>4 DEF PoolInv, ConnectFailed
  <2>2. PICK u \in Task : /\ u.slot = t.slot /\ u.id = t.id /\ u.old = t.old /\ u.phase = "down"
                         /\ tasks' = (tasks \ {t}) \union {u}
    BY <2>1, MoveEffect
  <2> QED BY <1>4, <2>2 DEF ConnectFailed, Fault, poolVars, RoutesAreHeld, Connects, PoolInv,
     CloseOrder, TypeOK, OldRoutesAreOld, RequestsAreUnique, SlotsWait
<1>5. ASSUME NEW t \in tasks, ConnectCancelled(t) PROVE RoutesAreHeld'
  BY <1>5 DEF ConnectCancelled, poolVars, RoutesAreHeld, Connects, PoolInv, CloseOrder, TypeOK,
     OldRoutesAreOld, RequestsAreUnique, SlotsWait, SlotWaits, Request
<1>6. ASSUME NEW t \in tasks, ReportUp(t) PROVE RoutesAreHeld'
  <2>1. UpChanges(t) BY <1>6, UpEffect DEF PoolInv
  <2> QED BY <1>6, <2>1 DEF UpChanges, Commits, Waiting, RoutesAreHeld, Connects, PoolInv,
     CloseOrder, TypeOK, OldRoutesAreOld, RequestsAreUnique, SlotsWait, ReportUp
<1>7. ASSUME NEW t \in tasks, ReportDown(t) PROVE RoutesAreHeld'
  <2>1. DownChanges(t) BY <1>7, DownEffect DEF PoolInv
  <2> QED BY <1>7, <2>1 DEF DownChanges, Waiting, RoutesAreHeld, Connects, PoolInv, CloseOrder,
     TypeOK, OldRoutesAreOld, RequestsAreUnique, SlotsWait, ReportDown
<1>8. ASSUME NEW t \in tasks, Publish(t) PROVE RoutesAreHeld'
  <2>1. TypeOK /\ Move(t, "install")
    BY <1>8 DEF PoolInv, Publish
  <2>2. PICK u \in Task : /\ u.slot = t.slot /\ u.id = t.id /\ u.old = t.old /\ u.phase = "install"
                         /\ tasks' = (tasks \ {t}) \union {u}
    BY <2>1, MoveEffect
  <2> QED BY <1>8, <2>2 DEF Publish, poolVars, RoutesAreHeld, Connects, PoolInv, CloseOrder,
     TypeOK, OldRoutesAreOld, RequestsAreUnique, SlotsWait
<1>9. ASSUME NEW t \in tasks, Install(t) PROVE RoutesAreHeld'
  <2> DEFINE old == [slot |-> t.slot, generation |-> t.old]
             new == [slot |-> t.slot, generation |-> t.id]
  <2>1. ~cancelled /\ ~disposed BY <1>9 DEF Install, PoolInv, CloseOrder
  <2>2. /\ tasks' = tasks \ {t} /\ transports' = (transports \ {old}) \union {new}
        /\ slots' = slots /\ failing' = failing /\ Connects(t)
    BY <1>9, <2>1 DEF Install, poolVars, Connects
  <2>3. RoutesAreHeld /\ OldRoutesAreOld BY <2>1 DEF PoolInv
  <2>4. t.old # 0 => slots[t.slot].generation # t.old BY <2>2, <2>3 DEF OldRoutesAreOld
  <2> SUFFICES ASSUME NEW s \in Slots, slots[s].generation # 0
               PROVE  \/ \E r \in transports' \union failing :
                           r.slot = s /\ r.generation = slots[s].generation
                      \/ \E u \in tasks' : Connects(u) /\ u.slot = s /\ u.id = slots[s].generation
    BY <2>2 DEF RoutesAreHeld
  <2>5. ASSUME NEW r \in transports, r.slot = s, r.generation = slots[s].generation
        PROVE  r \in transports'
    BY <2>2, <2>4, <2>5
  <2>6. new \in transports' /\ new.slot = t.slot /\ new.generation = t.id BY <2>2
  <2> HIDE DEF new
  <2> QED BY <2>2, <2>3, <2>5, <2>6 DEF RoutesAreHeld
<1>10. ASSUME NEW r \in transports, Fail(r) PROVE RoutesAreHeld'
  BY <1>10 DEF Fail, Fault, poolVars, RoutesAreHeld, Connects, PoolInv, CloseOrder, TypeOK,
     OldRoutesAreOld, RequestsAreUnique, SlotsWait, SlotWaits, Request, Slot
<1>11. ASSUME NEW r \in transports, MaybeRefresh(r) PROVE RoutesAreHeld'
  BY <1>11 DEF MaybeRefresh, Fault, Refresh, adapterVars, NoRequest, RoutesAreHeld, Connects,
     PoolInv, CloseOrder, TypeOK, OldRoutesAreOld, RequestsAreUnique, SlotsWait, SlotWaits
<1>12. ASSUME NEW r \in failing, ReportFailed(r) PROVE RoutesAreHeld'
  <2>1. FailedChanges(r) BY <1>12, FailedEffect DEF PoolInv
  <2> QED BY <1>12, <2>1 DEF FailedChanges, RoutesAreHeld, Connects, PoolInv, CloseOrder,
     TypeOK, OldRoutesAreOld, RequestsAreUnique
<1>13. CASE Cancel
  BY <1>13 DEF Cancel, poolVars, RoutesAreHeld, Connects, PoolInv, CloseOrder, TypeOK,
     OldRoutesAreOld, RequestsAreUnique, SlotsWait, SlotWaits, Request
<1>14. CASE Dispose
  BY <1>14 DEF Dispose, poolVars, RoutesAreHeld, Connects, PoolInv, CloseOrder, TypeOK,
     OldRoutesAreOld, RequestsAreUnique, SlotsWait, SlotWaits, Request
<1>15. CASE CloseNative
  BY <1>15 DEF CloseNative, ClosePool, adapterVars, NoRequest, RoutesAreHeld, Connects,
     PoolInv, CloseOrder, TypeOK, OldRoutesAreOld, RequestsAreUnique, SlotsWait, SlotWaits,
     Request, Slot, Route, Task
<1>16. CASE UNCHANGED vars
  BY <1>16 DEF vars, poolVars, adapterVars, PoolInv, TypeOK, CloseOrder, RequestsAreUnique,
     SlotsWait, OldRoutesAreOld, RoutesAreHeld, TransportsAreHeld, Connects, Connecting,
     Request, NoRequest
<1> QED BY <1>1, <1>2, <1>3, <1>4, <1>5, <1>6, <1>7, <1>8, <1>9, <1>10, <1>11, <1>12, <1>13,
   <1>14, <1>15, <1>16 DEF Next, Worker, Execute

\* A transport is closed in the step that drops it.
LEMMA LeakStep ==
    ASSUME PoolInv, [Next]_vars, ~cancelled'
    PROVE  TransportsAreHeld'
<1>1. CASE Poll
  <2>1. PollChanges BY <1>1, PollEffect DEF PoolInv
  <2> QED BY <1>1, <2>1 DEF PollChanges, Due, TransportsAreHeld, PoolInv, CloseOrder, TypeOK,
     RequestsAreUnique, OldRoutesAreOld, Task
<1>2. ASSUME NEW s \in Slots, BackoffEnds(s) /\ UNCHANGED <<adapterVars, faults>>
      PROVE  TransportsAreHeld'
  BY <1>2 DEF BackoffEnds, adapterVars, TransportsAreHeld, PoolInv, CloseOrder, TypeOK,
     RequestsAreUnique, OldRoutesAreOld, Connecting, Connects, Request, NoRequest
<1>3. ASSUME NEW t \in tasks, Connected(t) PROVE TransportsAreHeld'
  <2>1. TypeOK /\ Move(t, "up")
    BY <1>3 DEF PoolInv, Connected
  <2>2. PICK u \in Task : /\ u.slot = t.slot /\ u.id = t.id /\ u.old = t.old /\ u.phase = "up"
                         /\ tasks' = (tasks \ {t}) \union {u}
    BY <2>1, MoveEffect
  <2> QED BY <1>3, <2>2 DEF Connected, poolVars, TransportsAreHeld, PoolInv, CloseOrder,
     TypeOK, RequestsAreUnique, OldRoutesAreOld, Connecting, NoRequest
<1>4. ASSUME NEW t \in tasks, ConnectFailed(t) PROVE TransportsAreHeld'
  <2>1. TypeOK /\ Move(t, "down")
    BY <1>4 DEF PoolInv, ConnectFailed
  <2>2. PICK u \in Task : /\ u.slot = t.slot /\ u.id = t.id /\ u.old = t.old /\ u.phase = "down"
                         /\ tasks' = (tasks \ {t}) \union {u}
    BY <2>1, MoveEffect
  <2> QED BY <1>4, <2>2 DEF ConnectFailed, Fault, poolVars, TransportsAreHeld, PoolInv,
     CloseOrder, TypeOK, RequestsAreUnique, OldRoutesAreOld, Connecting, NoRequest
<1>5. ASSUME NEW t \in tasks, ConnectCancelled(t) PROVE TransportsAreHeld'
  BY <1>5 DEF ConnectCancelled, poolVars, TransportsAreHeld, PoolInv, CloseOrder, TypeOK,
     RequestsAreUnique, OldRoutesAreOld, Connecting, Connects, Request, NoRequest
<1>6. ASSUME NEW t \in tasks, ReportUp(t) PROVE TransportsAreHeld'
  <2>1. UpChanges(t) BY <1>6, UpEffect DEF PoolInv
  <2> QED BY <1>6, <2>1 DEF UpChanges, Commits, Waiting, TransportsAreHeld, PoolInv,
     CloseOrder, TypeOK, RequestsAreUnique, OldRoutesAreOld, Connecting, ReportUp
<1>7. ASSUME NEW t \in tasks, ReportDown(t) PROVE TransportsAreHeld'
  <2>1. DownChanges(t) BY <1>7, DownEffect DEF PoolInv
  <2> QED BY <1>7, <2>1 DEF DownChanges, Waiting, TransportsAreHeld, PoolInv, CloseOrder,
     TypeOK, RequestsAreUnique, OldRoutesAreOld, Connecting, ReportDown
<1>8. ASSUME NEW t \in tasks, Publish(t) PROVE TransportsAreHeld'
  <2>1. TypeOK /\ Move(t, "install")
    BY <1>8 DEF PoolInv, Publish
  <2>2. PICK u \in Task : /\ u.slot = t.slot /\ u.id = t.id /\ u.old = t.old /\ u.phase = "install"
                         /\ tasks' = (tasks \ {t}) \union {u}
    BY <2>1, MoveEffect
  <2> QED BY <1>8, <2>2 DEF Publish, poolVars, TransportsAreHeld, PoolInv, CloseOrder, TypeOK,
     RequestsAreUnique, OldRoutesAreOld, Connecting, NoRequest
<1>9. ASSUME NEW t \in tasks, Install(t) PROVE TransportsAreHeld'
  <2> DEFINE old == [slot |-> t.slot, generation |-> t.old]
             new == [slot |-> t.slot, generation |-> t.id]
             Holds(u) == u.phase \in {"up", "publish", "install"}
  <2>1. ~cancelled /\ ~disposed BY <1>9 DEF Install, PoolInv, CloseOrder
  <2>2. /\ tasks' = tasks \ {t} /\ transports' = (transports \ {old}) \union {new}
        /\ open' = IF old \in transports THEN open \ {t.old} ELSE open
        /\ t.phase = "install"
    BY <1>9, <2>1 DEF Install
  <2>3. TransportsAreHeld /\ RequestsAreUnique /\ OldRoutesAreOld BY <2>1 DEF PoolInv
  <2>4. t.id \in open BY <2>2, <2>3 DEF TransportsAreHeld
  <2>5. old \in transports => t.old # t.id /\ \A u \in tasks : u.id # t.old
    BY <2>3 DEF RequestsAreUnique
  <2>6. \A r \in transports : r.generation = t.old /\ old \in transports => r = old
    BY <2>3 DEF RequestsAreUnique
  <2>7. \A r \in transports' : r.generation \in open'
    BY <2>2, <2>3, <2>5, <2>6 DEF TransportsAreHeld
  <2>8. \A u \in tasks' : Holds(u) => u.id \in open'
    BY <2>2, <2>3, <2>5 DEF TransportsAreHeld
  <2>9. ASSUME NEW n \in open'
        PROVE  \/ \E r \in transports' : r.generation = n
               \/ \E u \in tasks' : Holds(u) /\ u.id = n
    <3>1. n \in open /\ (old \in transports => n # t.old) BY <2>2
    <3>2. new \in transports' /\ new.generation = t.id BY <2>2
    <3>3. ASSUME NEW r \in transports, r.generation = n PROVE r \in transports'
      BY <2>2, <3>3
    <3>4. (\E r \in transports : r.generation = n) \/ \E u \in tasks : Holds(u) /\ u.id = n
      BY <2>3, <3>1 DEF TransportsAreHeld
    <3> HIDE DEF new
    <3> QED BY <2>2, <3>2, <3>4
  <2> QED BY <2>7, <2>8, <2>9 DEF TransportsAreHeld
<1>10. ASSUME NEW r \in transports, Fail(r) PROVE TransportsAreHeld'
  BY <1>10 DEF Fail, Fault, poolVars, TransportsAreHeld, PoolInv, CloseOrder, TypeOK,
     RequestsAreUnique, OldRoutesAreOld, Connecting, Connects, Request, NoRequest
<1>11. ASSUME NEW r \in transports, MaybeRefresh(r) PROVE TransportsAreHeld'
  BY <1>11 DEF MaybeRefresh, Fault, Refresh, adapterVars, NoRequest, TransportsAreHeld,
     PoolInv, CloseOrder, TypeOK, RequestsAreUnique, OldRoutesAreOld, Connecting, Connects
<1>12. ASSUME NEW r \in failing, ReportFailed(r) PROVE TransportsAreHeld'
  <2>1. FailedChanges(r) BY <1>12, FailedEffect DEF PoolInv
  <2> QED BY <1>12, <2>1 DEF FailedChanges, TransportsAreHeld, PoolInv, CloseOrder, TypeOK,
     RequestsAreUnique, OldRoutesAreOld
<1>13. CASE Cancel
  BY <1>13 DEF Cancel, poolVars, TransportsAreHeld, PoolInv, CloseOrder, TypeOK,
     RequestsAreUnique, OldRoutesAreOld, Connecting, Connects, Request, NoRequest
<1>14. CASE Dispose
  BY <1>14 DEF Dispose, poolVars, TransportsAreHeld, PoolInv, CloseOrder, TypeOK,
     RequestsAreUnique, OldRoutesAreOld, Connecting, Connects, Request, NoRequest
<1>15. CASE CloseNative
  BY <1>15 DEF CloseNative, ClosePool, adapterVars, NoRequest, TransportsAreHeld, PoolInv,
     CloseOrder, TypeOK, RequestsAreUnique, OldRoutesAreOld, Connecting, Connects, Request,
     Slot, Route, Task
<1>16. CASE UNCHANGED vars
  BY <1>16 DEF vars, poolVars, adapterVars, PoolInv, TypeOK, CloseOrder, RequestsAreUnique,
     SlotsWait, OldRoutesAreOld, RoutesAreHeld, TransportsAreHeld, Connecting, Connects,
     Request, NoRequest
<1> QED BY <1>1, <1>2, <1>3, <1>4, <1>5, <1>6, <1>7, <1>8, <1>9, <1>10, <1>11, <1>12, <1>13,
   <1>14, <1>15, <1>16 DEF Next, Worker, Execute

-----------------------------------------------------------------------------
(* The invariant and what it says.                                         *)

\* A new pool satisfies the invariant.
LEMMA PoolInitially == Init => PoolInv
<1> SUFFICES ASSUME Init PROVE PoolInv
  OBVIOUS
<1>1. NoRequest \in Request BY DEF NoRequest, Request
<1>2. TypeOK
  <2>1. \A s \in Slots : /\ slots[s] = [next |-> 0, endpoint |-> 0, generation |-> 0,
                                        pending |-> NoRequest, due |-> "now"]
                         /\ slots[s] \in Slot /\ slots[s].next = 0
    BY <1>1 DEF Init, PoolInit, Slot
  <2>2. slots \in [Slots -> Slot] BY <2>1 DEF Init, PoolInit
  <2>3. \A s \in Slots : slots[s].next < Endpoints[s] BY <2>1
  <2>4. next = 1 /\ closed = FALSE BY DEF Init, PoolInit
  <2>5. /\ tasks = {} /\ transports = {} /\ failing = {} /\ open = {}
        /\ cancelled = FALSE /\ disposed = FALSE /\ faults = 0
    BY DEF Init
  <2>6. next \in Nat \ {0} BY <2>4
  <2>9. closed \in BOOLEAN BY <2>4, Zenon
  <2>7. tasks \subseteq Task /\ transports \subseteq Route /\ failing \subseteq Route /\ open \subseteq Nat
    BY <2>5
  <2>8. cancelled \in BOOLEAN /\ disposed \in BOOLEAN /\ faults \in Nat BY <2>5
  <2> QED BY <2>2, <2>3, <2>6, <2>7, <2>8, <2>9, Zenon DEF TypeOK
<1>3. SlotsWait BY DEF Init, PoolInit, SlotsWait, SlotWaits
<1> QED BY <1>2, <1>3 DEF Init, PoolInit, PoolInv, CloseOrder, RequestsAreUnique,
   OldRoutesAreOld, RoutesAreHeld, TransportsAreHeld

\* Until close no part needs more than the parts before the step.
LEMMA PoolInductive == PoolInv /\ [Next]_vars => PoolInv'
<1> SUFFICES ASSUME PoolInv, [Next]_vars PROVE PoolInv'
  OBVIOUS
<1>1. TypeOK' /\ CloseOrder' BY TypeStep, CloseStep
<1>2. ASSUME ~cancelled'
      PROVE  /\ RequestsAreUnique' /\ SlotsWait' /\ OldRoutesAreOld'
             /\ RoutesAreHeld' /\ TransportsAreHeld'
  BY <1>2, RequestStep, SlotStep, OldStep, GhostStep, LeakStep
<1> QED BY <1>1, <1>2 DEF PoolInv

\* The inductive invariant holds in every reachable state.
THEOREM PoolInvariant == Spec => []PoolInv
BY PoolInitially, PoolInductive, PTL DEF Spec

\* No route is lost between the lock of the pool and the lock of `transports`,
\* for any number of slots, of endpoints and of failures.
THEOREM RoutesAreNotLost == Spec => []NoGhostRoute
<1>1. PoolInv => NoGhostRoute
  <2> SUFFICES ASSUME PoolInv, ~cancelled, NEW s \in Slots, slots[s].generation # 0
               PROVE  RouteOf(s) \in transports \union Installing \union failing
    BY DEF NoGhostRoute
  <2>1. CASE \E r \in transports \union failing :
               r.slot = s /\ r.generation = slots[s].generation
    <3>1. PICK r \in transports \union failing :
                 r.slot = s /\ r.generation = slots[s].generation
      BY <2>1
    <3>2. r \in Route BY <3>1 DEF PoolInv, TypeOK
    <3>3. r = RouteOf(s) BY <3>1, <3>2 DEF RouteOf, Route
    <3> QED BY <3>1, <3>3
  <2>2. CASE \E t \in tasks : Connects(t) /\ t.slot = s /\ t.id = slots[s].generation
    BY <2>2 DEF RouteOf, Installing, Connects
  <2> QED BY <2>1, <2>2 DEF PoolInv, RoutesAreHeld
<1> QED BY <1>1, PoolInvariant, PTL

\* A slot without a connection is being connected by a coroutine that will
\* report, or waits for a retry: complete and failed never leave one behind.
THEOREM SlotsStayAlive == Spec => []NoDeadSlot
<1>1. PoolInv => NoDeadSlot BY DEF PoolInv, SlotsWait, SlotWaits, NoDeadSlot, Connecting
<1> QED BY <1>1, PoolInvariant, PTL

\* The open transports are those installed and those a coroutine holds: a
\* replacement and a failure that race close each one, once.
THEOREM TransportsDoNotLeak == Spec => []NoLeak
<1>1. PoolInv => NoLeak BY DEF PoolInv, TransportsAreHeld, NoLeak
<1> QED BY <1>1, PoolInvariant, PTL
=============================================================================
