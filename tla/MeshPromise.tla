---------------------------- MODULE MeshPromise ----------------------------
(***************************************************************************)
(* What an installation promises of a dynamic Mesh, whatever Control        *)
(* processes and Relay hosts do to keep it: a Mesh is requested, comes to   *)
(* serve, is ended by its administrator and never serves again; private     *)
(* keys of the Mesh are obtained by hosts while it lives, are given up only *)
(* once its termination is signed, and the Mesh is gone only when no host   *)
(* holds one any more.                                                      *)
(***************************************************************************)
CONSTANT Hosts

VARIABLES
    phase,          \* the phase of the Mesh
    keyHolders      \* hosts with a private key of the Mesh

vars == <<phase, keyHolders>>

Phases == {"absent", "requested", "serving", "ending", "terminated", "gone"}

Init == phase = "absent" /\ keyHolders = {}

\* A Mesh that is already serving is a legal starting point as well.
InitServing == phase = "serving" /\ keyHolders \in SUBSET Hosts

Move(from, to) == phase \in from /\ phase' = to /\ UNCHANGED keyHolders

Request == Move({"absent"}, "requested")
Serve == Move({"requested"}, "serving")
End == Move({"requested", "serving"}, "ending")
Terminate == Move({"ending"}, "terminated")
Disappear == keyHolders = {} /\ Move({"terminated"}, "gone")

\* A host may still be at it when the Mesh is ended, and stops being a holder
\* for good once it has seen the termination.
Obtain(h) ==
    /\ phase \in Phases \ {"absent", "gone"}
    /\ h \notin keyHolders
    /\ keyHolders' = keyHolders \cup {h}
    /\ UNCHANGED phase

GiveUp(h) ==
    /\ phase = "terminated"
    /\ h \in keyHolders
    /\ keyHolders' = keyHolders \ {h}
    /\ UNCHANGED phase

Next ==
    \/ Request
    \/ Serve
    \/ End
    \/ Terminate
    \/ Disappear
    \/ \E h \in Hosts : Obtain(h) \/ GiveUp(h)

Spec == (Init \/ InitServing) /\ [][Next]_vars
=============================================================================
