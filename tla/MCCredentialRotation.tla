------------------------- MODULE MCCredentialRotation -------------------------
\* Two rotations in a row, one rotation with a fault, and one with other traffic on
\* the control channel.
EXTENDS CredentialRotation

MCBudgets == {[rotations |-> 2, faults |-> 0, traffic |-> 0],
              [rotations |-> 1, faults |-> 1, traffic |-> 0],
              [rotations |-> 1, faults |-> 0, traffic |-> 1]}
=============================================================================
