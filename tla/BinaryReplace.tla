---------------------------- MODULE BinaryReplace ----------------------------
(***************************************************************************)
(* The standalone updater: install_verified and rollback of lib.rs, which  *)
(* replace one executable by renaming its siblings.  Every rename is a     *)
(* step; the process may die before it, and it may fail and take the error *)
(* path of the code.  The incoming file is complete before the first       *)
(* rename and private to its command: it is the command's `job`.           *)
(***************************************************************************)
EXTENDS Naturals

CONSTANTS Builds,       \* executables
          Absent,       \* no such file
          MaxCommands,  \* bound on commands
          MaxFaults     \* bound on crashes and failed renames

VARIABLES destination, saved, retired, failed,  \* the file and its siblings
          pc, job,                              \* the running command
          commands, faults

files == <<destination, saved, retired, failed>>
vars == <<files, pc, job, commands, faults>>

Init ==
    /\ destination \in Builds
    /\ saved = Absent /\ retired = Absent /\ failed = Absent
    /\ pc = "idle" /\ job = Absent
    /\ commands = 0 /\ faults = 0

Begin(p, b) == pc = "idle" /\ pc' = p /\ job' = b
               /\ commands < MaxCommands /\ commands' = commands + 1 /\ UNCHANGED faults
Return == pc' = "idle" /\ job' = Absent /\ UNCHANGED commands
Fault == faults < MaxFaults /\ faults' = faults + 1

\* install_verified, refused without a destination.
Install(b) ==
    /\ destination # Absent
    /\ Begin("retire", b)
    /\ UNCHANGED files

\* rollback.previous is removed and the old rollback copy takes its name; nothing
\* reads that file again, so the two calls are one step.
Retire ==
    /\ pc = "retire"
    /\ retired' = saved /\ saved' = Absent
    /\ pc' = "save"
    /\ UNCHANGED <<destination, failed, job, commands, faults>>

\* The executable becomes the rollback copy.
Save ==
    /\ pc = "save"
    /\ \/ /\ saved' = destination /\ destination' = Absent
          /\ pc' = "publish" /\ UNCHANGED <<job, commands, faults>>
       \/ Fault /\ Return /\ UNCHANGED <<destination, saved>>
    /\ UNCHANGED <<retired, failed>>

\* The incoming file takes its place; on an error the copy is put back, unless
\* that fails as well.
Publish ==
    /\ pc = "publish" /\ Return
    /\ \/ destination' = job /\ UNCHANGED <<saved, faults>>
       \/ Fault /\ destination' = saved /\ saved' = Absent
       \/ Fault /\ UNCHANGED <<destination, saved>>
    /\ UNCHANGED <<retired, failed>>

\* rollback, refused without both files: the executable steps aside under a
\* unique name, which a later rollback does not look for.
Rollback ==
    /\ saved # Absent /\ destination # Absent
    /\ Begin("restore", Absent)
    /\ failed' = destination /\ destination' = Absent
    /\ UNCHANGED <<saved, retired>>

\* The copy takes its place and the failed executable is removed, or left there
\* when the removal fails.
Restore ==
    /\ pc = "restore" /\ Return
    /\ \/ /\ destination' = saved /\ saved' = Absent
          /\ failed' \in {failed, Absent} /\ UNCHANGED faults
       \/ Fault /\ destination' = failed /\ failed' = Absent /\ UNCHANGED saved
       \/ Fault /\ UNCHANGED <<destination, saved, failed>>
    /\ UNCHANGED retired

Crash == pc # "idle" /\ Fault /\ Return /\ UNCHANGED files

Next ==
    \/ \E b \in Builds : Install(b)
    \/ Retire \/ Save \/ Publish \/ Rollback \/ Restore \/ Crash

Spec == Init /\ [][Next]_vars

-----------------------------------------------------------------------------

\* "Restores the retained rollback copy atomically" (lib.rs:374): a rollback never
\* ends, even by dying, without an executable in place.
RollbackIsAtomic == [][pc = "restore" /\ pc' = "idle" => destination' # Absent]_vars
=============================================================================
