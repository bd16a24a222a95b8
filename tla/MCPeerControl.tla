--------------------------- MODULE MCPeerControl ---------------------------
(* Two nodes, and a peer outside on the host of a and the port of b.       *)
EXTENDS PeerControl, TLC

CONSTANTS a, b, x, s1, s2

MCNode == {a, b}
MCSlot == {s1, s2}
MCHost == [p \in {a, b, x} |-> IF p = b THEN "two" ELSE "one"]
MCPort == [p \in {a, b, x} |-> IF p = a THEN 1 ELSE 2]
Symmetry == Permutations(MCSlot)

\* One request at a time over a reconnection, or two over one connection.
Long == [open |-> 1, socket |-> 2, drop |-> 1, fail |-> 1]
Short == [open |-> 1, socket |-> 2, drop |-> 1, fail |-> 0]
Busy == [open |-> 2, socket |-> 1, drop |-> 0, fail |-> 0]

Setup(links, hosts, bounds) == [entries |-> links, loopback |-> hosts, bounds |-> bounds]
Linked == {<<a, b, "catalog">>}
Spelled == {<<b, a, "other">>}
SameHost == {<<b, a, "catalog">>, <<b, x, "other">>}
SamePort == {<<a, x, "other">>, <<b, a, "catalog">>}
OneMachine == {"one", "two"}

MCSetups == {Setup(Linked, {}, Short), Setup(Spelled, OneMachine, Long), Setup(SameHost, {}, Long),
             Setup(SameHost, OneMachine, Long), Setup(SamePort, {}, Long),
             Setup(Linked \cup Spelled, {}, Busy), Setup(SamePort, {}, Busy)}
=============================================================================
