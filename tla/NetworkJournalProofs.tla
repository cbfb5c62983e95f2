------------------------ MODULE NetworkJournalProofs ------------------------
(***************************************************************************)
(* For every plan, every choice of the operations journaled in advance and *)
(* any number of failures and deaths: a change that was journaled in       *)
(* advance is never in effect without being listed on disk and, while the  *)
(* process lives, in memory; and a start that gets past recovery finds     *)
(* nothing of it.                                                          *)
(***************************************************************************)
EXTENDS NetworkJournal, FiniteSetTheorems, TLAPS

\* An operation that is about to run was listed first.
RunsListed == pc = "run" /\ Current \in Pre => Current \in journal /\ Current \in applied

\* The inductive invariant.
JournalInv ==
    /\ host \in [Operations -> {"absent", "ours", "foreign"}]
    /\ NothingForgotten
    /\ RunsListed

\* The caller, and with it what is journaled in advance, never changes.
LEMMA SameCaller == [Next]_vars => Pre' = Pre /\ Pre \subseteq Operations
<1> SUFFICES ASSUME [Next]_vars PROVE worker' = worker
  BY OperationsAssumption DEF Pre
<1> USE DEF env
<1>1. CASE Process
  BY <1>1 DEF Process, Start, JournalFirst, Run, Record, Commit, Undo, Persist, Settle, Resume,
     PlanFails, SaveFails, Fault
<1>2. CASE \E plan \in Plans : Begin(plan)
  BY <1>2 DEF Begin
<1>3. CASE Shutdown \/ Crash \/ \E o \in Owned : ForeignChange(o)
  BY <1>3 DEF Shutdown, Crash, ForeignChange
<1>4. QED
  BY <1>1, <1>2, <1>3 DEF Next, vars

\* Going on with the plan never stops at a command that must be listed first.
LEMMA ContinueListed ==
    ASSUME NEW rest, Continue(rest)
    PROVE  pc' # "down" /\ (pc' = "run" => Current' \notin Pre)
BY DEF Continue, Current

\* Rollback and the error return of a call keep the invariant when the journal
\* still covers what is listed.
LEMMA ErrorReturnKeeps ==
    ASSUME JournalInv, pc # "down", ReturnError, Pre' = Pre, Pre \subseteq Operations,
           \A o \in Pre : o \in journal /\ o \in applied => o \in journal'
    PROVE  JournalInv'
<1>1. pc' # "run" /\ \A o \in Operations : host'[o] = "ours" => host[o] = "ours"
  BY DEF ReturnError, Rollback, Stop, CloseTun, JournalInv
<1>2. host' \in [Operations -> {"absent", "ours", "foreign"}]
  BY DEF ReturnError, CloseTun, JournalInv
<1>3. pc' # "down" => applied' = applied
  BY DEF ReturnError, Stop
<1>4. QED
  BY <1>1, <1>2, <1>3 DEF JournalInv, NothingForgotten, RunsListed

\* Every step keeps the invariant, whatever fails or dies.
LEMMA JournalInductive == JournalInv /\ [Next]_vars => JournalInv'
<1> SUFFICES ASSUME JournalInv, [Next]_vars PROVE JournalInv'
  OBVIOUS
<1>0. Pre' = Pre /\ Pre \subseteq Operations
  BY SameCaller
<1>1. CASE Start
  BY <1>0, <1>1 DEF Start, Rollback, JournalInv, NothingForgotten, RunsListed, disk
<1>2. CASE \E plan \in Plans : Begin(plan)
  BY <1>0, <1>2 DEF Begin, Rollback, JournalInv, NothingForgotten, RunsListed, disk
<1>3. CASE Shutdown
  BY <1>0, <1>3 DEF Shutdown, Rollback, CloseTun, JournalInv, NothingForgotten, RunsListed
<1>4. CASE JournalFirst
  <2>1. CASE /\ journal' = applied \union {Current} /\ applied' = applied \union {Current}
             /\ UNCHANGED <<todo, host>>
    BY <1>0, <1>4, <2>1 DEF JournalFirst, JournalInv, NothingForgotten, RunsListed, Current
  <2>2. CASE SaveFails(applied \union {Current}) /\ ReturnError
    BY <1>0, <1>4, <2>2, ErrorReturnKeeps DEF JournalFirst, SaveFails
  <2>3. QED
    BY <1>0, <1>4, <2>1, <2>2 DEF JournalFirst
<1>5. CASE Run
  <2>1. CASE /\ host' = [host EXCEPT ![Current] = "ours"] /\ Current \in Pre
             /\ Continue(todo \ {Current})
    BY <1>0, <1>5, <2>1, ContinueListed DEF Run, JournalInv, NothingForgotten, RunsListed
  <2>2. CASE host' = [host EXCEPT ![Current] = "ours"] /\ Current \notin Pre /\ pc' = "record"
    BY <1>0, <1>5, <2>2 DEF Run, JournalInv, NothingForgotten, RunsListed
  <2>3. CASE Rollback("fail", applied) /\ UNCHANGED host
    BY <1>0, <1>5, <2>3 DEF Run, Rollback, JournalInv, NothingForgotten, RunsListed
  <2>4. QED
    BY <1>0, <1>5, <2>1, <2>2, <2>3 DEF Run
<1>6. CASE Record
  <2>1. pc' # "down" /\ (pc' = "run" => Current' \notin Pre)
    BY <1>0, <1>6, ContinueListed DEF Record, Rollback
  <2>2. journal' \in {journal, applied'} /\ applied \subseteq applied' /\ UNCHANGED host
    BY <1>0, <1>6 DEF Record, SaveFails
  <2>3. QED
    BY <1>0, <1>6, <2>1, <2>2 DEF Record, JournalInv, NothingForgotten, RunsListed
<1>7. CASE Commit
  <2>1. CASE journal' = Saved(applied) /\ pc' = "idle" /\ UNCHANGED <<host, applied>>
    BY <1>0, <1>7, <2>1 DEF Commit, Saved, JournalInv, NothingForgotten, RunsListed
  <2>2. CASE SaveFails(applied) /\ ReturnError
    BY <1>0, <1>7, <2>2, ErrorReturnKeeps DEF Commit, SaveFails
  <2>3. QED
    BY <1>0, <1>7, <2>1, <2>2 DEF Commit
<1>8. CASE Undo
  BY <1>0, <1>8 DEF Undo, JournalInv, NothingForgotten, RunsListed
<1>9. CASE Persist
  BY <1>0, <1>9 DEF Persist, Saved, SaveFails, JournalInv, NothingForgotten, RunsListed
<1>10. CASE Settle
  BY <1>0, <1>10 DEF Settle, JournalInv, NothingForgotten, RunsListed
<1>11. CASE Resume
  <2>1. CASE ReturnError
    BY <1>0, <1>11, <2>1, ErrorReturnKeeps DEF Resume
  <2>2. CASE goal = "begin" /\ host' = Snapshot /\ Continue(todo) /\ UNCHANGED applied
    BY <1>0, <1>11, <2>2, ContinueListed DEF Resume, Snapshot, JournalInv, NothingForgotten,
       RunsListed
  <2>3. CASE pc' = "idle" /\ UNCHANGED <<host, applied>>
    BY <1>0, <1>11, <2>3 DEF Resume, JournalInv, NothingForgotten, RunsListed
  <2>4. CASE Stop /\ (CloseTun \/ UNCHANGED host)
    BY <1>0, <1>11, <2>4 DEF Resume, Stop, CloseTun, JournalInv, NothingForgotten, RunsListed
  <2>5. QED
    BY <1>0, <1>11, <2>1, <2>2, <2>3, <2>4 DEF Resume
<1>12. CASE Crash
  BY <1>0, <1>12 DEF Crash, Stop, CloseTun, JournalInv, NothingForgotten, RunsListed
<1>13. CASE \E o \in Owned : ForeignChange(o)
  BY <1>0, <1>13 DEF ForeignChange, JournalInv, NothingForgotten, RunsListed, memory, Current
<1>14. CASE PlanFails
  BY <1>0, <1>14, ErrorReturnKeeps DEF PlanFails
<1>15. CASE UNCHANGED vars
  BY <1>0, <1>15 DEF vars, disk, memory, JournalInv, NothingForgotten, RunsListed, Current
<1>16. QED
  BY <1>1, <1>2, <1>3, <1>4, <1>5, <1>6, <1>7, <1>8, <1>9, <1>10, <1>11, <1>12, <1>13, <1>14,
     <1>15 DEF Next, Process

\* A change journaled in advance survives every failure and every death of the
\* process in the journal, for every plan (apply_operations_journaled).
THEOREM NothingIsForgotten == Spec => []NothingForgotten
<1>1. Init => JournalInv
  BY OperationsAssumption DEF Init, JournalInv, NothingForgotten, RunsListed, Pre
<1>2. JournalInv => NothingForgotten
  BY DEF JournalInv
<1>3. QED
  BY <1>1, <1>2, JournalInductive, PTL DEF Spec

\* A rollback without an error has undone everything it has visited, and its end
\* leaves neither a list nor a file.
RollbackInv ==
    /\ pc \in {"undo", "persist"} /\ failed = FALSE => left = applied
    /\ pc = "settle" /\ failed = FALSE => applied = {} /\ journal = {}

\* The error return of a call starts a rollback of everything, or none.
LEMMA ErrorReturnRestarts == ReturnError => RollbackInv'
BY DEF ReturnError, Rollback, Stop, RollbackInv

\* Every step keeps what a clean rollback has achieved.
LEMMA RollbackInductive == RollbackInv /\ [Next]_vars => RollbackInv'
<1> SUFFICES ASSUME RollbackInv, [Next]_vars PROVE RollbackInv'
  OBVIOUS
<1>1. CASE Start
  BY <1>1 DEF Start, Rollback, RollbackInv
<1>2. CASE \E plan \in Plans : Begin(plan)
  BY <1>2 DEF Begin, Rollback, RollbackInv
<1>3. CASE Shutdown
  BY <1>3 DEF Shutdown, Rollback, RollbackInv
<1>4. CASE JournalFirst
  BY <1>4, ErrorReturnRestarts DEF JournalFirst, RollbackInv
<1>5. CASE Run
  BY <1>5 DEF Run, Rollback, Continue, RollbackInv
<1>6. CASE Record
  BY <1>6 DEF Record, Rollback, Continue, RollbackInv
<1>7. CASE Commit
  BY <1>7, ErrorReturnRestarts DEF Commit, RollbackInv
<1>8. CASE Undo
  BY <1>8 DEF Undo, RollbackInv
<1>9. CASE Persist
  BY <1>9 DEF Persist, RollbackInv
<1>10. CASE Settle
  BY <1>10 DEF Settle, RollbackInv
<1>11. CASE Resume
  BY <1>11, ErrorReturnRestarts DEF Resume, Stop, Continue, RollbackInv
<1>12. CASE Crash
  BY <1>12 DEF Crash, Stop, RollbackInv
<1>13. CASE \E o \in Owned : ForeignChange(o)
  BY <1>13 DEF ForeignChange, memory, RollbackInv
<1>14. CASE PlanFails
  BY <1>14, ErrorReturnRestarts DEF PlanFails
<1>15. CASE UNCHANGED vars
  BY <1>15 DEF vars, disk, memory, RollbackInv
<1>16. QED
  BY <1>1, <1>2, <1>3, <1>4, <1>5, <1>6, <1>7, <1>8, <1>9, <1>10, <1>11, <1>12, <1>13, <1>14,
     <1>15 DEF Next, Process

\* A start that gets past recovery finds nothing of an earlier process that was
\* journaled in advance, however that process ended (StateCoordinator::recover).
THEOREM RecoveryCleans == Spec => RecoveredIsClean
<1> DEFINE Clean == pc' = "idle" /\ goal = "recover" /\ pc = "settle" =>
                      journal' = {} /\ \A o \in Pre : host'[o] # "ours"
<1>1. Init => JournalInv /\ RollbackInv
  BY OperationsAssumption DEF Init, JournalInv, NothingForgotten, RunsListed, RollbackInv, Pre
<1>2. JournalInv /\ RollbackInv /\ [Next]_vars => [Clean]_vars
  <2> SUFFICES ASSUME JournalInv, RollbackInv, Next,
                      pc' = "idle", goal = "recover", pc = "settle"
               PROVE  journal' = {} /\ \A o \in Pre : host'[o] # "ours"
    BY DEF vars, memory
  <2>1. Resume
    BY DEF Next, Process, Start, Begin, Shutdown, JournalFirst, Run, Record, Commit, Undo,
           Persist, Settle, PlanFails, Crash, Stop, ForeignChange, memory
  <2>2. failed = FALSE /\ UNCHANGED <<host, journal>>
    BY <2>1 DEF Resume, Stop
  <2>3. QED
    BY <2>2 DEF RollbackInv, JournalInv, NothingForgotten
<1>3. QED
  BY <1>1, <1>2, JournalInductive, RollbackInductive, PTL DEF Spec, RecoveredIsClean

-----------------------------------------------------------------------------
(* Types.  Min chooses an operation of a plan because plans are finite: a  *)
(* smallest plan without a first operation would have one after all.       *)

\* Every plan has a first operation.
LEMMA PlansHaveAFirst ==
    ASSUME NEW ops \in SUBSET Operations, ops # {}
    PROVE  Min(ops) \in ops
<1> DEFINE First(A) == \E x \in A : \A y \in A : x <= y
           Bad == {A \in SUBSET Operations : A # {} /\ ~First(A)}
<1>f. IsWellFoundedOn(StrictSubsetOrdering(Operations), SUBSET Operations)
  BY FS_FiniteSubsetsOfFinite, FS_StrictSubsetOrderingWellFounded, OperationsAssumption
<1>1. Bad = {}
  <2> SUFFICES ASSUME Bad # {} PROVE FALSE OBVIOUS
  <2>1. PICK A \in Bad : \A B \in Bad : <<B, A>> \notin StrictSubsetOrdering(Operations)
    <3>1. Bad \subseteq SUBSET Operations OBVIOUS
    <3> HIDE DEF Bad
    <3> QED BY <1>f, <3>1, WFMin
  <2>2. PICK x \in A : TRUE BY <2>1
  <2> DEFINE B == A \ {x}
  <2>3. <<B, A>> \in StrictSubsetOrdering(Operations) BY <2>1, <2>2 DEF StrictSubsetOrdering
  <2>4. A \subseteq Nat BY <2>1, OperationsAssumption
  <2>5. CASE B = {}
    <3>1. \A y \in A : y = x BY <2>5
    <3> QED BY <2>1, <2>2, <2>4, <3>1
  <2>6. CASE B # {}
    <3>1. PICK c \in B : \A y \in B : c <= y BY <2>1, <2>3, <2>6
    <3>2. x \in Nat /\ c \in Nat /\ \A y \in A : y = x \/ y \in B
      BY <2>2, <2>4, <3>1
    <3>3. CASE x <= c BY <2>1, <2>2, <2>4, <3>1, <3>2, <3>3
    <3>4. CASE c <= x BY <2>1, <2>4, <3>1, <3>2, <3>4
    <3> QED BY <3>2, <3>3, <3>4
  <2> QED BY <2>5, <2>6
<1>2. First(ops) BY <1>1
<1> QED BY <1>2 DEF Min

\* A call that runs an operation has one left.
PlanLeft == pc \in {"journal", "run", "record"} => todo # {}

\* The types of the host, the TUN and what the process remembers.
MemoryTypes ==
    /\ host \in [Operations -> {"absent", "ours", "foreign"}] /\ tun \in BOOLEAN
    /\ applied \subseteq Operations /\ left \subseteq applied /\ todo \subseteq Operations
    /\ pc \in Phases /\ goal \in Goals /\ failed \in BOOLEAN /\ PlanLeft

\* Going on with the plan keeps an operation for the next command.
LEMMA ContinueTypes ==
    ASSUME NEW rest \in SUBSET Operations, Continue(rest)
    PROVE  todo' \subseteq Operations /\ pc' \in Phases /\ PlanLeft'
BY DEF Continue, Phases, PlanLeft

\* A stopped process has empty lists, with its TUN or without.
LEMMA StopTypes ==
    ASSUME TypeOK, Stop, CloseTun \/ UNCHANGED <<host, tun>>
    PROVE  MemoryTypes'
BY DEF TypeOK, Stop, CloseTun, Phases, Goals, PlanLeft, MemoryTypes

\* The error return of a call keeps the types.
LEMMA ErrorReturnTypes ==
    ASSUME TypeOK, ReturnError
    PROVE  MemoryTypes'
BY DEF TypeOK, ReturnError, Rollback, Stop, CloseTun, Phases, Goals, PlanLeft, MemoryTypes

\* Every variable keeps its type; every list names operations of the plan, and the
\* rollback visits only what is listed (StateCoordinator).
LEMMA TypesInductive == TypeOK /\ PlanLeft /\ [Next]_vars => TypeOK' /\ PlanLeft'
<1> SUFFICES ASSUME TypeOK, PlanLeft, [Next]_vars PROVE TypeOK' /\ PlanLeft'
  OBVIOUS
<1> USE DEF TypeOK, PlanLeft, Phases, Goals, env, disk
<1>c. pc \in {"journal", "run", "record"} => Current \in Operations
  BY PlansHaveAFirst DEF Current
<1>v. Fault => faults' \in Nat /\ worker' \in BOOLEAN /\ crashes' \in Nat /\ foreign' \in Nat
  BY DEF Fault
<1>1. CASE Start BY <1>1 DEF Start, Rollback
<1>2. CASE \E plan \in Plans : Begin(plan)
  BY ZenonT(60), <1>2, OperationsAssumption DEF Begin, Rollback
<1>3. CASE Shutdown BY <1>3 DEF Shutdown, Rollback, CloseTun
<1>4. CASE JournalFirst
  BY <1>4, <1>c, <1>v, ErrorReturnTypes DEF JournalFirst, SaveFails, MemoryTypes
<1>5. CASE Run
  <2>1. todo \ {Current} \in SUBSET Operations OBVIOUS
  <2> QED BY <1>5, <1>c, <1>v, <2>1, ContinueTypes DEF Run, Rollback
<1>6. CASE Record
  <2>1. todo \ {Current} \in SUBSET Operations OBVIOUS
  <2> QED BY <1>6, <1>c, <1>v, <2>1, ContinueTypes DEF Record, Rollback, SaveFails
<1>7. CASE Commit
  BY <1>7, <1>v, ErrorReturnTypes DEF Commit, Saved, SaveFails, MemoryTypes
<1>8. CASE Undo BY <1>8, <1>v DEF Undo
<1>9. CASE Persist BY <1>9, <1>v DEF Persist, Saved, SaveFails
<1>10. CASE Settle BY <1>10, <1>v DEF Settle
<1>11. CASE Resume
  <2>1. Snapshot \in [Operations -> {"absent", "ours", "foreign"}] BY DEF Snapshot
  <2>2. UNCHANGED <<journal, env>> BY <1>11 DEF Resume
  <2>3. CASE ReturnError
    <3>1. MemoryTypes' BY <2>3, ErrorReturnTypes
    <3> QED BY <2>2, <3>1 DEF MemoryTypes
  <2>4. CASE Stop
    <3>1. CloseTun \/ UNCHANGED <<host, tun>> BY <1>11, <2>4 DEF Resume, ReturnError, Rollback, Stop
    <3>2. MemoryTypes' BY <2>4, <3>1, StopTypes
    <3> QED BY <2>2, <3>2 DEF MemoryTypes
  <2> QED BY <1>11, <2>1, <2>2, <2>3, <2>4, ContinueTypes DEF Resume
<1>12. CASE Crash
  <2>1. MemoryTypes' BY <1>12, StopTypes DEF Crash
  <2>2. UNCHANGED <<journal, worker, faults, foreign>> /\ crashes' = crashes + 1 BY <1>12 DEF Crash
  <2>3. crashes' \in Nat BY <2>2
  <2>4. journal' \subseteq Operations /\ worker' \in BOOLEAN /\ faults' \in Nat /\ foreign' \in Nat
    BY <2>2
  <2> QED BY <2>1, <2>3, <2>4 DEF MemoryTypes
<1>13. CASE \E o \in Owned : ForeignChange(o)
  <2>1. PICK o \in Owned : ForeignChange(o) BY <1>13
  <2>2. host' \in [Operations -> {"absent", "ours", "foreign"}] BY <2>1 DEF ForeignChange
  <2>3. /\ UNCHANGED <<tun, journal, worker, faults, crashes>> /\ foreign' = foreign + 1
        /\ UNCHANGED memory
    BY <2>1 DEF ForeignChange
  <2>4. foreign' \in Nat BY <2>3
  <2> QED BY <2>2, <2>3, <2>4 DEF memory
<1>14. CASE PlanFails
  BY <1>14, <1>v, ErrorReturnTypes DEF PlanFails, MemoryTypes
<1>15. CASE UNCHANGED vars BY <1>15 DEF vars, memory
<1>16. QED
  BY <1>1, <1>2, <1>3, <1>4, <1>5, <1>6, <1>7, <1>8, <1>9, <1>10, <1>11, <1>12, <1>13, <1>14,
     <1>15 DEF Next, Process

\* Every variable keeps its type, and what a rollback has still to visit is listed.
THEOREM JournalTypes == Spec => []TypeOK
<1>1. ASSUME Init PROVE TypeOK /\ PlanLeft
  <2>1. tun \in BOOLEAN /\ failed \in BOOLEAN /\ worker \in BOOLEAN BY <1>1, Zenon DEF Init
  <2>2. host \in [Operations -> {"absent", "ours", "foreign"}] BY <1>1 DEF Init
  <2> QED BY <1>1, <2>1, <2>2 DEF Init, TypeOK, PlanLeft, Phases, Goals
<1> QED BY <1>1, TypesInductive, PTL DEF Spec

-----------------------------------------------------------------------------
(* What a rollback leaves.                                                 *)

\* The listed changes a rollback has visited and that are still in effect.
Kept == {o \in applied \ left : host[o] = "ours"}

\* Each of them has cost a failure, and at the end all have been visited.
VisitedInv ==
    /\ pc \in {"undo", "persist", "settle"} => Cardinality(Kept) <= faults
    /\ pc = "settle" => left = {}

\* A rollback begins with nothing visited.
LEMMA RollbackStarts ==
    ASSUME TypeOK', pc' # "settle", left' = applied' \/ pc' \notin {"undo", "persist", "settle"}
    PROVE  VisitedInv'
<1>1. CASE left' = applied'
  <2>1. Kept' = {} BY <1>1 DEF Kept
  <2> QED BY <2>1, FS_EmptySet DEF VisitedInv, TypeOK
<1>2. CASE pc' \notin {"undo", "persist", "settle"} BY <1>2 DEF VisitedInv
<1> QED BY <1>1, <1>2

\* The error return of a call begins a rollback, or none.
LEMMA ErrorReturnStarts == TypeOK' /\ ReturnError => VisitedInv'
<1> SUFFICES ASSUME TypeOK', ReturnError PROVE VisitedInv'
  OBVIOUS
<1>1. pc' # "settle" /\ (left' = applied' \/ pc' \notin {"undo", "persist", "settle"})
  BY DEF ReturnError, Rollback, Stop
<1> QED BY <1>1, RollbackStarts

\* Nothing is added to what a rollback has to answer for.
LEMMA KeptShrinks ==
    ASSUME TypeOK, Kept' \subseteq Kept, Cardinality(Kept) <= faults, faults' >= faults, faults' \in Nat
    PROVE  Cardinality(Kept') <= faults'
<1>1. IsFiniteSet(Kept)
  BY FS_Subset, OperationsAssumption DEF Kept, TypeOK
<1>2. /\ IsFiniteSet(Kept') /\ Cardinality(Kept') <= Cardinality(Kept)
  BY <1>1, FS_Subset
<1>3. Cardinality(Kept) \in Nat /\ Cardinality(Kept') \in Nat BY <1>1, <1>2, FS_CardinalityType
<1> QED BY <1>2, <1>3 DEF TypeOK

\* Every command and every failure keeps the account.
LEMMA VisitedInductive == TypeOK /\ TypeOK' /\ VisitedInv /\ [Next]_vars => VisitedInv'
<1> SUFFICES ASSUME TypeOK, TypeOK', VisitedInv, [Next]_vars PROVE VisitedInv'
  OBVIOUS
<1>f. Fault => faults' = faults + 1 /\ faults \in Nat BY DEF Fault, TypeOK
<1>e. UNCHANGED env => faults' = faults /\ faults \in Nat BY DEF env, TypeOK
<1>1. CASE Start
  BY <1>1, RollbackStarts DEF Start, Rollback
<1>2. CASE \E plan \in Plans : Begin(plan)
  BY <1>2, RollbackStarts DEF Begin, Rollback
<1>3. CASE Shutdown
  BY <1>3, RollbackStarts DEF Shutdown, Rollback
<1>4. CASE JournalFirst
  BY <1>4, ErrorReturnStarts, RollbackStarts DEF JournalFirst
<1>5. CASE Run
  BY <1>5, RollbackStarts DEF Run, Rollback, Continue
<1>6. CASE Record
  BY <1>6, RollbackStarts DEF Record, Rollback, Continue
<1>7. CASE Commit
  BY <1>7, ErrorReturnStarts, RollbackStarts DEF Commit
<1>8. CASE Undo
  <2>1. Cardinality(Kept) <= faults /\ pc' # "settle" BY <1>8 DEF Undo, VisitedInv
  <2>2. CASE Undoes(NextUndo) /\ host' = [host EXCEPT ![NextUndo] = "absent"]
             /\ applied' = applied \ {NextUndo} /\ UNCHANGED env
    <3>1. left' = left \ {NextUndo} BY <1>8 DEF Undo
    <3>2. Kept' \subseteq Kept BY <2>2, <3>1 DEF Kept, TypeOK
    <3> QED BY <1>e, <2>1, <2>2, <3>2, KeptShrinks DEF VisitedInv
  <2>3. CASE ~Undoes(NextUndo) /\ UNCHANGED <<host, applied>> /\ UNCHANGED env
    <3>1. host[NextUndo] # "ours" BY <2>3 DEF Undoes
    <3>2. left' = left \ {NextUndo} BY <1>8 DEF Undo
    <3>3. Kept' \subseteq Kept BY <2>3, <3>1, <3>2 DEF Kept
    <3> QED BY <1>e, <2>1, <2>3, <3>3, KeptShrinks DEF VisitedInv
  <2>4. CASE Fault /\ UNCHANGED <<host, applied>>
    <3>1. left' = left \ {NextUndo} BY <1>8 DEF Undo
    <3>2. Kept' \subseteq Kept \union {NextUndo} BY <2>4, <3>1 DEF Kept
    <3>3. IsFiniteSet(Kept) BY FS_Subset, OperationsAssumption DEF Kept, TypeOK
    <3>4. Cardinality(Kept) \in Nat BY <3>3, FS_CardinalityType
    <3>5. /\ IsFiniteSet(Kept \union {NextUndo})
          /\ Cardinality(Kept \union {NextUndo}) <= Cardinality(Kept) + 1
      BY <3>3, <3>4, FS_AddElement
    <3>6. /\ IsFiniteSet(Kept') /\ Cardinality(Kept') <= Cardinality(Kept \union {NextUndo})
      BY <3>2, <3>5, FS_Subset
    <3>7. Cardinality(Kept') \in Nat /\ Cardinality(Kept \union {NextUndo}) \in Nat
      BY <3>5, <3>6, FS_CardinalityType
    <3>8. Cardinality(Kept') <= faults' BY <1>f, <2>1, <2>4, <3>4, <3>5, <3>6, <3>7
    <3> QED BY <2>1, <3>8 DEF VisitedInv
  <2> QED BY <1>8, <2>2, <2>3, <2>4 DEF Undo
<1>9. CASE Persist
  <2>1. Kept' = Kept BY <1>9 DEF Persist, Kept
  <2>2. faults' >= faults /\ faults' \in Nat BY <1>9, <1>e, <1>f DEF Persist, SaveFails
  <2>3. Cardinality(Kept) <= faults BY <1>9 DEF Persist, VisitedInv
  <2> QED BY <1>9, <2>1, <2>2, <2>3, KeptShrinks DEF Persist, VisitedInv
<1>10. CASE Settle
  <2>1. Kept' = Kept /\ left' = {} BY <1>10 DEF Settle, Kept
  <2>2. faults' >= faults /\ faults' \in Nat BY <1>10, <1>e, <1>f DEF Settle
  <2>3. Cardinality(Kept) <= faults BY <1>10 DEF Settle, VisitedInv
  <2> QED BY <2>1, <2>2, <2>3, KeptShrinks DEF VisitedInv
<1>11. CASE Resume
  BY <1>11, ErrorReturnStarts, RollbackStarts DEF Resume, Stop, Continue
<1>12. CASE Crash
  BY <1>12, RollbackStarts DEF Crash, Stop
<1>13. CASE \E o \in Owned : ForeignChange(o)
  <2>1. PICK o \in Owned : ForeignChange(o) BY <1>13
  <2>2. /\ UNCHANGED <<applied, left, pc, faults>>
        /\ \A p \in Operations : host'[p] = "ours" => host[p] = "ours"
    BY <2>1 DEF ForeignChange, memory, TypeOK
  <2>3. Kept' \subseteq Kept BY <2>2 DEF Kept, TypeOK
  <2>4. faults' >= faults /\ faults' \in Nat BY <2>2 DEF TypeOK
  <2> QED BY <2>2, <2>3, <2>4, KeptShrinks DEF VisitedInv
<1>14. CASE PlanFails
  BY <1>14, ErrorReturnStarts DEF PlanFails
<1>15. CASE UNCHANGED vars
  BY <1>15 DEF vars, disk, memory, env, VisitedInv, Kept
<1>16. QED
  BY <1>1, <1>2, <1>3, <1>4, <1>5, <1>6, <1>7, <1>8, <1>9, <1>10, <1>11, <1>12, <1>13, <1>14,
     <1>15 DEF Next, Process

\* For every plan and any number of failures, a rollback undoes every listed change
\* but those that have cost a failure of their own (rollback_all goes on after one).
THEOREM OthersAreAlwaysUndone == Spec => []OthersAreUndone
<1>1. Init => VisitedInv
  BY DEF Init, VisitedInv
<1>2. VisitedInv => OthersAreUndone
  <2> SUFFICES ASSUME VisitedInv, pc = "settle"
               PROVE  Cardinality({o \in applied : host[o] = "ours"}) <= faults
    BY DEF OthersAreUndone
  <2>1. Kept = {o \in applied : host[o] = "ours"} BY DEF VisitedInv, Kept
  <2> QED BY <2>1 DEF VisitedInv
<1> QED BY <1>1, <1>2, VisitedInductive, JournalTypes, PTL DEF Spec
=============================================================================
