------------------------- MODULE MCHostMaintenance -------------------------
EXTENDS HostMaintenance

CONSTANTS w1, w2, h1, h2

MCHosts == {h1, h2}
MCWorkers == {w1, w2}

\* An instance without administrators: nothing fails, nothing is requested.
Quiet == [workers |-> {w1}, hosts |-> {h1, h2}, default |-> h1,
          serving |-> {h1, h2}, faults |-> 0, drains |-> 0,
          deletes |-> FALSE, assigns |-> FALSE, renews |-> FALSE]

\* The Mesh on one host, from its request on.
Requesting == [Quiet EXCEPT !.hosts = {h1}, !.serving = {}]

MCScopes ==
    { \* created and deleted by two Control processes
      [Requesting EXCEPT !.workers = {w1, w2}, !.deletes = TRUE],
      \* created by two Control processes, one failure
      [Requesting EXCEPT !.workers = {w1, w2}, !.faults = 1],
      \* created and deleted by one, two failures
      [Requesting EXCEPT !.faults = 2, !.deletes = TRUE],
      \* deleted by two Control processes, one failure
      [Quiet EXCEPT !.workers = {w1, w2}, !.hosts = {h1}, !.serving = {h1},
                    !.faults = 1, !.deletes = TRUE],
      \* two drains, one after or despite the other, one failure
      [Quiet EXCEPT !.faults = 1, !.drains = 2],
      \* a host is drained while the Mesh is deleted
      [Quiet EXCEPT !.drains = 1, !.deletes = TRUE],
      \* a second host is assigned, and credentials are renewed, during a drain
      [Quiet EXCEPT !.serving = {h1}, !.drains = 1, !.assigns = TRUE, !.renews = TRUE] }

\* What a deletion that overtakes a failing creation runs into.
DeletionScopes == { [Requesting EXCEPT !.faults = 1, !.deletes = TRUE] }
=============================================================================
