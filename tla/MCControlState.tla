--------------------------- MODULE MCControlState ---------------------------
(* Instance of ControlState: two Authorities, one device with two          *)
(* credentials and one service, one Relay with two credentials.            *)
EXTENDS ControlState

CONSTANTS a1, a2, p1, x1, x2, q1, y1, y2, s1, k1, k2

MCPeerOf == [x \in {x1, x2} |-> p1]
MCRelayOf == [y \in {y1, y2} |-> q1]
MCProviderOf == [s \in {s1} |-> p1]

Scope(families, n, m, controls) ==
    [families |-> families, changes |-> n, lapses |-> m, controls |-> controls]

\* Any two transactions; any one with a lapse or an aborted pass; long histories
\* of one or two families; two publishers at once.
MCScopes ==
    {Scope(Families, 2, 0, {k1}),
     Scope(Families, 1, 1, {k1}),
     Scope({"admission", "devices"}, 3, 0, {k1}),
     Scope({"devices"}, 4, 0, {k1}),
     Scope({"authorities"}, 3, 1, {k1}),
     Scope(Families, 1, 0, {k1, k2}),
     Scope({"authorities"}, 1, 1, {k1, k2})}

=============================================================================
