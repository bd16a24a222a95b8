---------------------------- MODULE PeerControl ----------------------------
(***************************************************************************)
(* The Node Connection Manager of one network (src/src/peer_api.rs and its *)
(* page): the peer view that names the configured node at the other end of *)
(* every connection, and the requests that connect and disconnect peers.   *)
(*                                                                         *)
(* A Bitcoin Core node keeps addnode entries, which it dials until they    *)
(* are connected, and sockets; a connection is two sockets of one number.  *)
(* An entry is <<owner, peer, form>>: the form "catalog" is the address    *)
(* the view shows for the peer, "other" is another numeric spelling of it, *)
(* typed into bitcoin-cli or bitcoin.conf.  Handlers make one RPC a step,  *)
(* and the nodes dial, connect and lose peers between the steps.           *)
(***************************************************************************)
EXTENDS Naturals, FiniteSets

CONSTANTS
    Node,         \* the configured nodes
    Outside,      \* peers that are not configured
    Slot,         \* requests the page may have open at once
    Host, Port,   \* where each peer listens
    Configured,   \* nodes whose configuration has a p2p_port
    Setups,       \* deployments: the entries at start, the hosts that are loopback, and
                  \* bounds on open requests, connections, lost sockets and failed calls
    MaxSockets,   \* the most connections of any deployment
    None

Peer == Node \cup Outside
Form == {"catalog", "other"}
Entry == Node \X Peer \X Form
Bounds == [open : Nat, socket : Nat, drop : Nat, fail : Nat]

ASSUME PeerAssumption ==
    /\ Node \cap Outside = {} /\ None \notin Peer
    /\ Configured \subseteq Node
    /\ MaxSockets \in Nat
    /\ \A u \in Setups : /\ u.entries \subseteq Entry /\ u.bounds \in Bounds
                         /\ u.bounds.socket <= MaxSockets

VARIABLES
    loopback,  \* the hosts of this deployment that are loopback
    entries,   \* the addnode entries of the nodes
    dialing,   \* entries whose node has started to connect
    socks,     \* open sockets
    made,      \* connections made so far
    load,      \* the peer lists the running load has got, or None, by node
    view,      \* what the page shows
    req,       \* the request of each slot, as its handler sees it
    page,      \* what the page waits for, by slot
    cleared,   \* pairs disconnected with both addresses known and not connected since
    leftover,  \* entries a disconnect could not see or could not remove
    caught,    \* sockets a disconnect closed that were not the chosen pair's
    left       \* what remains of each bound

nodeVars == <<loopback, entries, dialing, socks, made>>
viewVars == <<load, view>>
ghostVars == <<cleared, leftover, caught>>
vars == <<nodeVars, viewVars, req, page, ghostVars, left>>

Socket == [at : Node, peer : Peer, out : BOOLEAN, form : Form, id : 1..MaxSockets]
Row == [sock : Socket, match : Node \cup {None}]
Idle == [pc |-> "idle"]
SomeLeft(what) == left[what] > 0
Use(what) == left' = [left EXCEPT ![what] = @ - 1]
Pair(s) == {s.at, s.peer}

Init ==
    /\ \E u \in Setups : entries = u.entries /\ loopback = u.loopback /\ left = u.bounds
    /\ dialing = {} /\ socks = {} /\ made = 0
    /\ load = <<>>
    /\ view = [rows |-> [n \in Node |-> {}], listed |-> {}]
    /\ req = [s \in Slot |-> Idle] /\ page = [s \in Slot |-> Idle]
    /\ cleared = {} /\ leftover = {} /\ caught = {}

-----------------------------------------------------------------------------
(* Bitcoin Core.                                                           *)

\* An entry without a connection is dialled, again and again, one at a time.
Dial(e) ==
    /\ e \in entries \ dialing
    /\ ~\E d \in dialing : d[1] = e[1]
    /\ ~\E s \in socks : s.at = e[1] /\ s.peer = e[2] /\ s.out
    /\ dialing' = dialing \cup {e}
    /\ UNCHANGED <<loopback, entries, socks, made, viewVars, req, page, ghostVars, left>>

Ends(from, to, form, id) ==
    {[at |-> from, peer |-> to, out |-> TRUE, form |-> form, id |-> id]} \cup
    (IF to \in Node THEN {[at |-> to, peer |-> from, out |-> FALSE, form |-> "other", id |-> id]}
                    ELSE {})

\* The peer answers, also when the entry was removed in the meantime.
Establish(e) ==
    /\ e \in dialing /\ made < left.socket
    /\ dialing' = dialing \ {e}
    /\ made' = made + 1
    /\ socks' = socks \cup Ends(e[1], e[2], e[3], made')
    /\ UNCHANGED <<loopback, entries, viewVars, req, page, ghostVars, left>>

\* One end of a connection is gone and the other end notices.
Notice(s) ==
    /\ s \in socks /\ s.peer \in Node
    /\ ~\E t \in socks : t.id = s.id /\ t # s
    /\ socks' = socks \ {s}
    /\ UNCHANGED <<loopback, entries, dialing, made, viewVars, req, page, ghostVars, left>>

Drop(s) ==
    /\ s \in socks /\ SomeLeft("drop") /\ Use("drop")
    /\ socks' = socks \ {s}
    /\ UNCHANGED <<loopback, entries, dialing, made, viewVars, req, page, ghostVars>>

Core ==
    \/ \E e \in Entry : Dial(e) \/ Establish(e)
    \/ \E s \in socks : Notice(s) \/ Drop(s)

-----------------------------------------------------------------------------
(* The peer view.                                                          *)

\* A new load replaces the one under way; none has read anything yet.
Reload == load' = <<>>

\* On focus, once a minute and every three seconds while something is awaited.
StartLoad ==
    /\ load # <<>> /\ Reload
    /\ UNCHANGED <<nodeVars, view, req, page, ghostVars, left>>

\* A bug the detection of addresses guards against: only configured ports count.
ListedConfigured(lists) == Configured

\* An inbound peer tells the port its node listens on; else the configuration does.
Listed(lists) == {n \in Node : n \in Configured \/ \E s \in lists[n] : ~s.out}

\* The peer is at the address of a listed node, or on the port of just one.
OutboundMatch(s, listed) ==
    IF s.peer \in listed THEN s.peer
    ELSE LET owners == {m \in listed : Port[m] = Port[s.peer]}
         IN  IF s.form = "other" /\ Cardinality(owners) = 1 THEN CHOOSE m \in owners : TRUE
                                                            ELSE None

\* The peer's address is the local end of an outbound peer of some node.
InboundMatch(s, lists) ==
    LET owners == {m \in Node : \E t \in lists[m] : t.out /\ t.id = s.id}
    IN  IF owners = {} THEN None ELSE CHOOSE m \in owners : TRUE

\* A node is never taken for its own peer.
MatchPeer(s, lists) ==
    LET m == IF s.out THEN OutboundMatch(s, Listed(lists)) ELSE InboundMatch(s, lists)
    IN  IF m = s.at THEN None ELSE m

Rows(lists) == [n \in Node |-> {[sock |-> s, match |-> MatchPeer(s, lists)] : s \in lists[n]}]

\* What ends the wait of the page, with the data it has.
ConnectSeen(p, rows) == \E r \in rows[p.node] : r.match = p.target

\* A bug the row's own number guards against: waiting for the name only.
DisconnectSeenByName(p, rows) ==
    ~\E r \in rows[p.node] : p.row.match # None /\ r.match = p.row.match

DisconnectSeen(p, rows) ==
    ~\E r \in rows[p.node] :
        \/ p.row.match # None /\ r.match = p.row.match
        \/ r.sock.id = p.row.sock.id
        \/ r.sock.out /\ p.row.sock.out /\ r.sock.peer = p.row.sock.peer /\ r.sock.form = p.row.sock.form

Seen(p, rows) ==
    \/ p.pc = "connecting" /\ ConnectSeen(p, rows)
    \/ p.pc = "disconnecting" /\ DisconnectSeen(p, rows)

\* Half a minute after it began a wait is given up, but only where the page looks.
LookAtWaits(waits, old, rows) ==
    \E late \in SUBSET old :
        page' = [s \in Slot |-> IF s \in late \/ Seen(waits[s], rows) THEN Idle ELSE waits[s]]

\* The lists are read at the same time, each when its node gets to it; a list
\* that cannot be read counts as empty.  The last one completes the view, and the
\* page looks at its waits when that differs from the view it had.
ReadPeers(n) ==
    /\ n \notin DOMAIN load
    /\ \E list \in {{s \in socks : s.at = n}, None} :
        LET got == [m \in DOMAIN load \cup {n} |-> IF m = n THEN list ELSE load[m]]
            lists == [m \in Node |-> IF got[m] = None THEN {} ELSE got[m]]
        IN  /\ IF list = None THEN SomeLeft("fail") /\ Use("fail") ELSE UNCHANGED left
            /\ IF DOMAIN got # Node
               THEN load' = got /\ UNCHANGED <<view, page>>
               ELSE /\ Reload
                    /\ view' = [rows |-> Rows(lists), listed |-> Listed(lists)]
                    /\ IF view' = view THEN UNCHANGED page ELSE LookAtWaits(page, Slot, view'.rows)
    /\ UNCHANGED <<nodeVars, req, ghostVars>>

View == StartLoad \/ \E n \in Node : ReadPeers(n)

-----------------------------------------------------------------------------
(* The requests of the page.                                               *)

Pending(s) == page[s] # Idle \/ req[s] # Idle
Free(s) == ~Pending(s) /\ Cardinality({t \in Slot : Pending(t)}) < left.open

\* A connect is offered for a listed node the view shows no peer of.
Connect(s, n, m) ==
    /\ Free(s)
    /\ n # m /\ m \in view.listed
    /\ ~\E r \in view.rows[n] : r.match = m
    /\ ~\E t \in Slot : \/ page[t].pc = "connecting" /\ {page[t].node, page[t].target} = {n, m}
                        \/ page[t].pc = "disconnecting" /\ {page[t].node, page[t].row.match} = {n, m}
    /\ req' = [req EXCEPT ![s] = [pc |-> "add", node |-> n, target |-> m]]
    /\ LookAtWaits([page EXCEPT ![s] = [pc |-> "connecting", node |-> n, target |-> m]],
                   Slot \ {s}, view.rows)
    /\ UNCHANGED <<nodeVars, viewVars, ghostVars, left>>

\* The row tells the handler which peer, which node is taken for its other end
\* and which addresses the view has of the two.
Disconnect(s, n, r) ==
    /\ Free(s)
    /\ r \in view.rows[n]
    /\ ~\E t \in Slot : /\ page[t].pc = "disconnecting"
                        /\ \/ page[t].node = n /\ page[t].row.sock.id = r.sock.id
                           \/ r.match # None /\ {page[t].node, page[t].row.match} = {n, r.match}
    /\ req' = [req EXCEPT ![s] = [pc |-> "plan", node |-> n, row |-> r,
                                  listed |-> view.listed]]
    /\ LookAtWaits([page EXCEPT ![s] = [pc |-> "disconnecting", node |-> n, row |-> r]],
                   Slot \ {s}, view.rows)
    /\ UNCHANGED <<nodeVars, viewVars, ghostVars, left>>

-----------------------------------------------------------------------------
(* The handlers.                                                           *)

Succeed(s) ==
    /\ req' = [req EXCEPT ![s] = Idle]
    /\ Reload
    /\ UNCHANGED <<view, page>>

\* The page drops its wait with the error.
Fail(s, publish) ==
    /\ req' = [req EXCEPT ![s] = Idle]
    /\ IF publish THEN Reload ELSE UNCHANGED load
    /\ LookAtWaits([page EXCEPT ![s] = Idle], Slot \ {s}, view.rows)
    /\ UNCHANGED view

Goto(s, pc) ==
    /\ req' = [req EXCEPT ![s].pc = pc]
    /\ UNCHANGED <<viewVars, page>>

\* A second add of the same string is no error; a call that fails may have worked.
Added(e, known) ==
    /\ entries' = entries \cup {e}
    /\ cleared' = cleared \ {{e[1], e[2]}}
    /\ leftover' = leftover \cup IF known THEN {e} ELSE {}
    /\ UNCHANGED caught

Disconnecting(pair) ==
    \E t \in Slot : req[t].pc \in {"drop", "farRemove", "farDrop"} /\ {req[t].node, req[t].row.match} = pair

AddPeer(s) ==
    /\ req[s].pc = "add"
    /\ LET pair == {req[s].node, req[s].target}
           done == Added(<<req[s].node, req[s].target, "catalog">>, Disconnecting(pair))
       IN  \/ done /\ Succeed(s) /\ UNCHANGED left
           \/ SomeLeft("fail") /\ Use("fail") /\ Fail(s, FALSE) /\ (done \/ UNCHANGED <<entries, ghostVars>>)
    /\ UNCHANGED <<loopback, dialing, socks, made>>

\* Nothing has changed yet when the far end cannot be told which address to drop.
PlanDisconnect(s) ==
    /\ req[s].pc = "plan"
    /\ IF req[s].row.match # None /\ req[s].node \notin req[s].listed
       THEN Fail(s, FALSE)
       ELSE Goto(s, "remove")
    /\ UNCHANGED <<nodeVars, ghostVars, left>>

\* getaddednodeinfo knows a numeric entry by its socket, a name by its own connection.
Connected(e) ==
    \E t \in socks : t.at = e[1] /\ t.peer = e[2] /\ t.out /\ (e[3] = "other" \/ t.form = e[3])

\* The catalog address of the match, the peer's own, and what is connected to it.
NearStrings(n, r, listed) ==
    {<<n, m, "catalog">> : m \in {r.match} \cap listed} \cup
    (IF ~r.sock.out THEN {} ELSE
        {<<n, r.sock.peer, r.sock.form>>} \cup
        {e \in entries : e[1] = n /\ e[2] = r.sock.peer /\ r.sock.form = "other" /\ Connected(e)})

\* A removal that fails is passed over in silence.
RemoveEntries(strings, s, next) ==
    \E kept \in SUBSET (entries \cap strings) :
        /\ IF kept = {} THEN UNCHANGED left ELSE SomeLeft("fail") /\ Use("fail")
        /\ entries' = entries \ (strings \ kept)
        /\ leftover' = (leftover \cap entries') \cup kept
        /\ Goto(s, next)
        /\ UNCHANGED <<loopback, dialing, socks, made, cleared, caught>>

RemoveNear(s) ==
    /\ req[s].pc = "remove"
    /\ RemoveEntries(NearStrings(req[s].node, req[s].row, req[s].listed), s, "drop")

Caught(closed, s) ==
    caught' = caught \cup
        {[sock |-> t, node |-> req[s].node, row |-> req[s].row] :
            t \in {t \in closed : Pair(t) # Pair(req[s].row.sock)}}

NearDone(s, closed) ==
    /\ socks' = socks \ closed
    /\ Caught(closed, s)
    /\ IF req[s].row.match = None THEN Succeed(s) ELSE Goto(s, "farRemove")
    /\ UNCHANGED <<loopback, entries, dialing, made, cleared, leftover>>

\* By the peer's number, which counts as done when no such peer is left; by its
\* address when that call fails.
DropNear(s) ==
    /\ req[s].pc = "drop"
    /\ LET n == req[s].node
           chosen == req[s].row.sock
           mine == {t \in socks : t.at = n}
           sameAddress == {t \in mine : \/ t.id = chosen.id
                                        \/ t.out /\ chosen.out /\ t.peer = chosen.peer /\ t.form = chosen.form}
       IN  \/ NearDone(s, {t \in mine : t.id = chosen.id}) /\ UNCHANGED left
           \/ SomeLeft("fail") /\ Use("fail") /\ NearDone(s, sameAddress)
           \/ SomeLeft("fail") /\ Use("fail") /\ Fail(s, FALSE) /\ UNCHANGED <<nodeVars, ghostVars>>

\* A bug the removal by address guards against: only what is connected right now.
FarStringsConnected(m, n) == {e \in entries : e[1] = m /\ e[2] = n /\ Connected(e)}

\* The near node's catalog address, and what is connected to any form of it.
FarStrings(m, n) ==
    {<<m, n, "catalog">>} \cup {e \in entries : e[1] = m /\ e[2] = n /\ Connected(e)}

RemoveFar(s) ==
    /\ req[s].pc = "farRemove"
    /\ RemoveEntries(FarStrings(req[s].row.match, req[s].node), s, "farDrop")

\* A bug the loopback test guards against: every peer on the near node's host.
FarTargetsByHost(m, n) == {t \in socks : t.at = m /\ Host[t.peer] = Host[n]}

\* Peers at any form of the near node's address, or on its host unless that is loopback.
FarTargets(m, n) ==
    {t \in socks :
        /\ t.at = m
        /\ \/ t.out /\ t.peer = n
           \/ /\ Host[n] \notin loopback /\ Host[t.peer] = Host[n]
              /\ ~t.out \/ t.form = "other"}

DropFar(s) ==
    /\ req[s].pc = "farDrop"
    /\ LET n == req[s].node
           m == req[s].row.match
       IN  \/ /\ socks' = socks \ FarTargets(m, n)
              /\ Caught(FarTargets(m, n), s)
              /\ cleared' = cleared \cup {{n, k} : k \in {m} \cap req[s].listed}
              /\ Succeed(s)
              /\ UNCHANGED <<loopback, entries, dialing, made, leftover, left>>
           \/ /\ SomeLeft("fail") /\ Use("fail") /\ Fail(s, TRUE)
              /\ UNCHANGED <<nodeVars, ghostVars>>

Server(s) == AddPeer(s) \/ PlanDisconnect(s) \/ RemoveNear(s) \/ DropNear(s) \/ RemoveFar(s) \/ DropFar(s)

User ==
    \E s \in Slot, n \in Node :
        \/ \E m \in Node : Connect(s, n, m)
        \/ \E r \in view.rows[n] : Disconnect(s, n, r)

Next == Core \/ View \/ User \/ \E s \in Slot : Server(s)

Spec == Init /\ [][Next]_vars

-----------------------------------------------------------------------------
(* Properties.                                                             *)

Disconnects == {"plan", "remove", "drop", "farRemove", "farDrop"}

Request ==
    {Idle} \cup [pc : {"add"}, node : Node, target : Node]
           \cup [pc : Disconnects, node : Node, row : Row, listed : SUBSET Node]

Wait ==
    {Idle} \cup [pc : {"connecting"}, node : Node, target : Node]
           \cup [pc : {"disconnecting"}, node : Node, row : Row]

TypeOK ==
    /\ entries \subseteq Entry /\ dialing \subseteq Entry /\ leftover \subseteq entries
    /\ socks \subseteq Socket /\ made \in 0..MaxSockets
    /\ DOMAIN load \subseteq Node /\ \A n \in DOMAIN load : load[n] = None \/ load[n] \subseteq Socket
    /\ view \in [rows : [Node -> SUBSET Row], listed : SUBSET Node]
    /\ req \in [Slot -> Request] /\ page \in [Slot -> Wait]
    /\ left \in Bounds /\ left.socket <= MaxSockets

\* The view may be read while connections come and go, yet it names no wrong
\* node: where it shows both ends of a connection, each names the other, and any
\* name is that of the true other end - but for a peer the view has no address of,
\* dialled by a numeric address, which is taken for the one node on its port.
MatchesTrue ==
    \A n \in Node : \A r \in view.rows[n] :
        /\ \A m \in Node : \A t \in view.rows[m] :
              t.sock.id = r.sock.id /\ m # n => r.match = m
        /\ r.match \notin {None, r.sock.peer} =>
              r.sock.out /\ r.sock.form = "other" /\ r.sock.peer \notin view.listed

\* A disconnect that succeeded at both ends, and was given both addresses, leaves
\* neither node an addnode entry for the other's catalog address, whatever connected,
\* failed or noticed between its calls - but for a removal whose failure it passed
\* over, and for an entry added while it ran.
EntriesCleared ==
    \A e \in entries : {e[1], e[2]} \in cleared => e \in leftover \/ e[3] = "other"

\* "The optional counterparty cleanup prevents reconnect loops when the remote
\* node still has a persistent `addnode` entry pointing back at the local node"
\* (peer_api.rs): after a disconnect at both ends nothing reconnects the pair.
NoReconnectLoop ==
    \A e \in entries : {e[1], e[2]} \in cleared => e \in leftover

\* A disconnect closes connections of the chosen pair only - but for other peers on
\* the near node's host when that is not loopback, and for a row that was given a
\* wrong name.
OnlyThatLink ==
    \A c \in caught :
        \/ c.row.match # c.row.sock.peer
        \/ Host[c.sock.peer] = Host[c.node] /\ Host[c.node] \notin loopback

\* When the page sees a disconnect done, the connection it was asked for is closed
\* at its node - unless the node's peer list could not be read, which looks the same.
ListUnread(n) == \/ n \in DOMAIN load /\ load[n] = None
                 \/ n \notin DOMAIN load /\ left'.fail < left.fail

DisconnectReported ==
    [][\A s \in Slot :
        page[s].pc = "disconnecting" /\ view' # view /\ DisconnectSeen(page[s], view'.rows) =>
            \/ ListUnread(page[s].node)
            \/ ~\E t \in socks : t.at = page[s].node /\ t.id = page[s].row.sock.id]_vars
=============================================================================
