-------------------------- MODULE PeerControlProofs --------------------------
(***************************************************************************)
(* What the Node Connection Manager shows and does (PeerControl), for any  *)
(* nodes, addresses and deployments: the names in the peer view, the       *)
(* entries and connections a disconnect removes, and what the page reports *)
(* of it.                                                                  *)
(***************************************************************************)
EXTENDS PeerControl, TLAPS

Disconnection == [pc : Disconnects, node : Node, row : Row, listed : SUBSET Node]

LEMMA RequestKinds ==
    ASSUME NEW r \in Request
    PROVE  /\ r.pc \in Disconnects => r \in Disconnection
           /\ r.pc = "add" => r.node \in Node /\ r.target \in Node
<1>1. CASE r = Idle
    BY <1>1 DEF Idle, Disconnects
<1>2. CASE r \in [pc : {"add"}, node : Node, target : Node]
    BY <1>2 DEF Disconnects
<1>3. CASE r \in Disconnection
    BY <1>3 DEF Disconnection, Disconnects
<1>. QED
    BY <1>1, <1>2, <1>3 DEF Request, Disconnection

LEMMA WaitKinds ==
    ASSUME NEW w \in Wait, w.pc = "disconnecting"
    PROVE  w \in [pc : {"disconnecting"}, node : Node, row : Row]
BY DEF Wait, Idle

LEMMA RowTypes ==
    ASSUME TypeOK, NEW n \in Node
    PROVE  view.rows[n] \subseteq Row /\ view.listed \subseteq Node
BY DEF TypeOK

\* The handler goes on with the same request.
LEMMA GoneOn ==
    ASSUME TypeOK, NEW s \in Slot, NEW pc \in Disconnects, req[s].pc \in Disconnects, Goto(s, pc)
    PROVE  /\ req' \in [Slot -> Request] /\ req'[s] = [req[s] EXCEPT !.pc = pc]
           /\ req'[s].pc = pc /\ req'[s].node = req[s].node /\ req'[s].row = req[s].row
           /\ req'[s].listed = req[s].listed
           /\ \A t \in Slot : t # s => req'[t] = req[t]
<1>1. req \in [Slot -> Request] /\ req[s] \in Disconnection
    BY RequestKinds DEF TypeOK
<1>2. req' = [req EXCEPT ![s].pc = pc]
    BY DEF Goto
<1>3. req' = [req EXCEPT ![s] = [req[s] EXCEPT !.pc = pc]]
    BY <1>2
<1>4. [req[s] EXCEPT !.pc = pc] \in Disconnection
    BY <1>1 DEF Disconnection
<1>5. [req[s] EXCEPT !.pc = pc] \in Request
    BY <1>4 DEF Request, Disconnection
<1>. QED
    BY <1>1, <1>3, <1>4, <1>5 DEF Disconnection

\* What looking at the waits leaves of them.
LEMMA WaitsLooked ==
    ASSUME NEW waits \in [Slot -> Wait], NEW old \in SUBSET Slot, NEW rows, LookAtWaits(waits, old, rows)
    PROVE  page' \in [Slot -> Wait] /\ \A s \in Slot : page'[s] \in {waits[s], Idle}
<1>1. Idle \in Wait
    BY DEF Wait
<1>2. PICK late \in SUBSET old :
          page' = [s \in Slot |-> IF s \in late \/ Seen(waits[s], rows) THEN Idle ELSE waits[s]]
    BY DEF LookAtWaits
<1>. QED
    BY <1>1, <1>2

\* The two ends of a new connection.
LEMMA NewEnds ==
    ASSUME NEW e \in Entry, NEW id \in 1 .. MaxSockets,
           NEW t \in Ends(e[1], e[2], e[3], id)
    PROVE  t \in Socket /\ t.id = id
<1>1. e[1] \in Node /\ e[2] \in Peer /\ e[3] \in Form
    BY DEF Entry
<1>2. CASE t = [at |-> e[1], peer |-> e[2], out |-> TRUE, form |-> e[3], id |-> id]
    BY <1>1, <1>2 DEF Socket
<1>3. CASE e[2] \in Node /\ t = [at |-> e[2], peer |-> e[1], out |-> FALSE, form |-> "other", id |-> id]
    BY <1>1, <1>3 DEF Socket, Form, Peer
<1>. QED
    BY <1>2, <1>3 DEF Ends

-----------------------------------------------------------------------------
(* What a step does to the requests, to the waits and to the bounds. *)

LEMMA RequestSteps ==
    ASSUME TypeOK, [Next]_vars
    PROVE  /\ req' \in [Slot -> Request]
           /\ \A t \in Slot :
                \/ req'[t] \in {req[t], Idle}
                \/ \E n, m \in Node : req'[t] = [pc |-> "add", node |-> n, target |-> m]
                \/ \E n \in Node : \E r \in view.rows[n] :
                      req'[t] = [pc |-> "plan", node |-> n, row |-> r, listed |-> view.listed]
                \/ /\ req[t].pc \in Disconnects /\ req'[t].pc \in Disconnects
                   /\ req'[t].node = req[t].node /\ req'[t].row = req[t].row
<1>1. req \in [Slot -> Request] /\ Idle \in Request
    BY DEF TypeOK, Request
<1>2. CASE req' = req
    BY <1>1, <1>2
<1>3. ASSUME NEW s \in Slot, req' = [req EXCEPT ![s] = Idle]
      PROVE  req' \in [Slot -> Request] /\ \A t \in Slot : req'[t] \in {req[t], Idle}
    BY <1>1, <1>3
<1>4. ASSUME NEW s \in Slot, NEW pc \in Disconnects, req[s].pc \in Disconnects, Goto(s, pc)
      PROVE  /\ req' \in [Slot -> Request]
             /\ \A t \in Slot :
                  \/ req'[t] = req[t]
                  \/ /\ req[t].pc \in Disconnects /\ req'[t].pc \in Disconnects
                     /\ req'[t].node = req[t].node /\ req'[t].row = req[t].row
    <2>1. /\ req' \in [Slot -> Request]
          /\ req'[s].pc = pc /\ req'[s].node = req[s].node /\ req'[s].row = req[s].row
          /\ \A t \in Slot : t # s => req'[t] = req[t]
        BY <1>4, GoneOn
    <2>. QED
        BY <1>4, <2>1
<1>5. ASSUME NEW s \in Slot, NEW n \in Node, NEW m \in Node, Connect(s, n, m)
      PROVE  /\ req' \in [Slot -> Request]
             /\ \A t \in Slot : req'[t] \in {req[t], [pc |-> "add", node |-> n, target |-> m]}
    <2>1. [pc |-> "add", node |-> n, target |-> m] \in Request
        BY DEF Request
    <2>. QED
        BY <1>1, <1>5, <2>1 DEF Connect
<1>6. ASSUME NEW s \in Slot, NEW n \in Node, NEW r \in view.rows[n], Disconnect(s, n, r)
      PROVE  /\ req' \in [Slot -> Request]
             /\ \A t \in Slot :
                  req'[t] \in {req[t], [pc |-> "plan", node |-> n, row |-> r, listed |-> view.listed]}
    <2>1. [pc |-> "plan", node |-> n, row |-> r, listed |-> view.listed] \in Request
        BY RowTypes DEF Request, Disconnects
    <2>. QED
        BY <1>1, <1>6, <2>1 DEF Disconnect
<1>7. ASSUME NEW s \in Slot, Server(s)
      PROVE  \/ req' = [req EXCEPT ![s] = Idle]
             \/ \E pc \in Disconnects : req[s].pc \in Disconnects /\ Goto(s, pc)
    BY <1>7 DEF Server, AddPeer, PlanDisconnect, RemoveNear, DropNear, NearDone, RemoveFar, DropFar,
                RemoveEntries, Succeed, Fail, Disconnects
<1>8. CASE Core \/ View \/ UNCHANGED vars
    BY <1>2, <1>8 DEF Core, Dial, Establish, Notice, Drop, View, StartLoad, ReadPeers, vars
<1>9. CASE User
    BY <1>5, <1>6, <1>9 DEF User
<1>10. CASE \E s \in Slot : Server(s)
    BY <1>3, <1>4, <1>7, <1>10
<1>. QED
    BY <1>8, <1>9, <1>10 DEF Next

LEMMA WaitSteps ==
    ASSUME TypeOK, [Next]_vars
    PROVE  /\ page' \in [Slot -> Wait]
           /\ \A t \in Slot :
                \/ page'[t] \in {page[t], Idle}
                \/ \E n, m \in Node : page'[t] = [pc |-> "connecting", node |-> n, target |-> m]
                \/ \E n \in Node : \E r \in view.rows[n] :
                      page'[t] = [pc |-> "disconnecting", node |-> n, row |-> r]
<1>1. page \in [Slot -> Wait] /\ Idle \in Wait
    BY DEF TypeOK, Wait
<1>2. CASE page' = page
    BY <1>1, <1>2
<1>3. ASSUME NEW n \in Node, ReadPeers(n), page' # page
      PROVE  LookAtWaits(page, Slot, view'.rows)
    BY <1>3 DEF ReadPeers
<1>4. ASSUME NEW s \in Slot, NEW n \in Node, NEW m \in Node, Connect(s, n, m)
      PROVE  /\ page' \in [Slot -> Wait]
             /\ \A t \in Slot : page'[t] \in {page[t], Idle, [pc |-> "connecting", node |-> n, target |-> m]}
    <2> DEFINE wait == [pc |-> "connecting", node |-> n, target |-> m]
    <2>1. wait \in Wait
        BY DEF Wait
    <2>2. LookAtWaits([page EXCEPT ![s] = wait], Slot \ {s}, view.rows)
        BY <1>4 DEF Connect
    <2>3. [page EXCEPT ![s] = wait] \in [Slot -> Wait]
        BY <1>1, <2>1
    <2>4. \A t \in Slot : [page EXCEPT ![s] = wait][t] \in {page[t], wait}
        BY <1>1
    <2> HIDE DEF wait
    <2>5. page' \in [Slot -> Wait] /\ \A t \in Slot : page'[t] \in {[page EXCEPT ![s] = wait][t], Idle}
        BY <2>2, <2>3, WaitsLooked
    <2>6. \A t \in Slot : page'[t] \in {page[t], Idle, wait}
        BY <2>4, <2>5
    <2>. QED
        BY <2>5, <2>6 DEF wait
<1>5. ASSUME NEW s \in Slot, NEW n \in Node, NEW r \in view.rows[n], Disconnect(s, n, r)
      PROVE  /\ page' \in [Slot -> Wait]
             /\ \A t \in Slot : page'[t] \in {page[t], Idle, [pc |-> "disconnecting", node |-> n, row |-> r]}
    <2> DEFINE wait == [pc |-> "disconnecting", node |-> n, row |-> r]
    <2>1. wait \in Wait
        BY RowTypes DEF Wait
    <2>2. LookAtWaits([page EXCEPT ![s] = wait], Slot \ {s}, view.rows)
        BY <1>5 DEF Disconnect
    <2>3. [page EXCEPT ![s] = wait] \in [Slot -> Wait]
        BY <1>1, <2>1
    <2>4. \A t \in Slot : [page EXCEPT ![s] = wait][t] \in {page[t], wait}
        BY <1>1
    <2> HIDE DEF wait
    <2>5. page' \in [Slot -> Wait] /\ \A t \in Slot : page'[t] \in {[page EXCEPT ![s] = wait][t], Idle}
        BY <2>2, <2>3, WaitsLooked
    <2>6. \A t \in Slot : page'[t] \in {page[t], Idle, wait}
        BY <2>4, <2>5
    <2>. QED
        BY <2>5, <2>6 DEF wait
<1>6. ASSUME NEW s \in Slot, Server(s)
      PROVE  page' = page \/ LookAtWaits([page EXCEPT ![s] = Idle], Slot \ {s}, view.rows)
    BY <1>6 DEF Server, AddPeer, PlanDisconnect, RemoveNear, DropNear, NearDone, RemoveFar, DropFar,
                RemoveEntries, Succeed, Fail, Goto
<1>7. ASSUME NEW s \in Slot
      PROVE  /\ [page EXCEPT ![s] = Idle] \in [Slot -> Wait]
             /\ \A t \in Slot : [page EXCEPT ![s] = Idle][t] \in {page[t], Idle}
    BY <1>1
<1>8. CASE Core \/ StartLoad \/ UNCHANGED vars
    BY <1>2, <1>8 DEF Core, Dial, Establish, Notice, Drop, StartLoad, viewVars, vars
<1>9. CASE \E n \in Node : ReadPeers(n)
    BY <1>1, <1>2, <1>3, <1>9, WaitsLooked
<1>10. CASE User
    BY <1>4, <1>5, <1>10 DEF User
<1>11. CASE \E s \in Slot : Server(s)
    <2>1. PICK s \in Slot : Server(s)
        BY <1>11
    <2>2. CASE LookAtWaits([page EXCEPT ![s] = Idle], Slot \ {s}, view.rows)
        <3>1. /\ page' \in [Slot -> Wait]
              /\ \A t \in Slot : page'[t] \in {[page EXCEPT ![s] = Idle][t], Idle}
            BY <1>7, <2>2, WaitsLooked
        <3>. QED
            BY <1>7, <3>1
    <2>. QED
        BY <1>2, <1>6, <2>1, <2>2
<1>. QED
    BY <1>8, <1>9, <1>10, <1>11 DEF Next, View

LEMMA BoundSteps ==
    ASSUME TypeOK, [Next]_vars
    PROVE  left' \in Bounds /\ left'.socket = left.socket
<1>1. \/ left' = left
      \/ \E what \in {"drop", "fail"} : SomeLeft(what) /\ Use(what)
    BY DEF Next, Core, View, User, Server, Dial, Establish, Notice, Drop, StartLoad, ReadPeers,
           Connect, Disconnect, AddPeer, PlanDisconnect, RemoveNear, DropNear, NearDone, RemoveFar,
           DropFar, RemoveEntries, vars
<1>2. left \in Bounds
    BY DEF TypeOK
<1>3. ASSUME NEW what \in {"drop", "fail"}, SomeLeft(what), Use(what)
      PROVE  left' \in Bounds /\ left'.socket = left.socket
    <2>1. CASE what = "drop"
        BY <1>2, <1>3, <2>1 DEF SomeLeft, Use, Bounds
    <2>2. CASE what = "fail"
        BY <1>2, <1>3, <2>2 DEF SomeLeft, Use, Bounds
    <2>. QED
        BY <2>1, <2>2
<1>. QED
    BY <1>1, <1>2, <1>3

-----------------------------------------------------------------------------
(* Types. *)

LEMMA EntrySteps ==
    ASSUME TypeOK, [Next]_vars
    PROVE  entries' \subseteq Entry /\ dialing' \subseteq Entry /\ leftover' \subseteq entries'
<1>1. entries \subseteq Entry /\ dialing \subseteq Entry /\ leftover \subseteq entries
    BY DEF TypeOK
<1>2. ASSUME NEW s \in Slot, AddPeer(s)
      PROVE  entries' \subseteq Entry /\ dialing' \subseteq Entry /\ leftover' \subseteq entries'
    <2>1. req[s].node \in Node /\ req[s].target \in Node
        BY <1>2, RequestKinds DEF AddPeer, TypeOK
    <2>2. <<req[s].node, req[s].target, "catalog">> \in Entry
        BY <2>1 DEF Entry, Peer, Form
    <2>. QED
        BY <1>1, <1>2, <2>2 DEF AddPeer, Added, ghostVars
<1>3. ASSUME NEW s \in Slot, RemoveNear(s) \/ RemoveFar(s)
      PROVE  entries' \subseteq Entry /\ dialing' \subseteq Entry /\ leftover' \subseteq entries'
    BY <1>1, <1>3 DEF RemoveNear, RemoveFar, RemoveEntries
<1>4. ASSUME NEW e \in Entry, Dial(e) \/ Establish(e)
      PROVE  entries' \subseteq Entry /\ dialing' \subseteq Entry /\ leftover' \subseteq entries'
    BY <1>1, <1>4 DEF Dial, Establish, ghostVars
<1>5. ASSUME \/ \E s \in socks : Notice(s) \/ Drop(s)
             \/ View \/ User \/ UNCHANGED vars
             \/ \E s \in Slot : PlanDisconnect(s) \/ DropNear(s) \/ DropFar(s)
      PROVE  UNCHANGED <<entries, dialing, leftover>>
    BY <1>5 DEF View, User, Notice, Drop, StartLoad, ReadPeers, Connect, Disconnect,
                PlanDisconnect, DropNear, NearDone, DropFar, vars, nodeVars, ghostVars
<1>. QED
    BY <1>1, <1>2, <1>3, <1>4, <1>5 DEF Next, Core, Server

LEMMA SocketSteps ==
    ASSUME TypeOK, [Next]_vars
    PROVE  /\ socks' \subseteq Socket /\ made' \in 0 .. MaxSockets
           /\ \/ socks' \subseteq socks /\ made' = made
              \/ \E e \in Entry : Establish(e)
<1>1. socks \subseteq Socket /\ made \in 0 .. MaxSockets
    BY DEF TypeOK
<1>2. ASSUME NEW e \in Entry, Establish(e)
      PROVE  socks' \subseteq Socket /\ made' \in 0 .. MaxSockets
    <2>1. made' \in 1 .. MaxSockets
        BY <1>1, <1>2, PeerAssumption DEF Establish, TypeOK, Bounds
    <2>. QED
        <3>1. socks' = socks \cup Ends(e[1], e[2], e[3], made')
            BY <1>2 DEF Establish
        <3>2. Ends(e[1], e[2], e[3], made') \subseteq Socket
            BY <2>1, NewEnds
        <3>. QED
            BY <1>1, <2>1, <3>1, <3>2
<1>3. ASSUME ~\E e \in Entry : Establish(e)
      PROVE  socks' \subseteq socks /\ made' = made
    BY <1>3 DEF Next, Core, View, User, Server, Dial, Notice, Drop, StartLoad, ReadPeers,
           Connect, Disconnect, AddPeer, PlanDisconnect, RemoveNear, DropNear, NearDone, RemoveFar,
           DropFar, RemoveEntries, vars, nodeVars
<1>. QED
    BY <1>1, <1>2, <1>3

\* The lists a load has got, and what the view is made of when it has got them all.
Got(n, list) == [m \in DOMAIN load \cup {n} |-> IF m = n THEN list ELSE load[m]]
Lists(got) == [m \in Node |-> IF got[m] = None THEN {} ELSE got[m]]

LEMMA ViewSteps ==
    ASSUME [Next]_vars
    PROVE  \/ UNCHANGED view /\ load' \in {load, <<>>}
           \/ \E n \in Node \ DOMAIN load : \E list \in {{s \in socks : s.at = n}, None} :
                 /\ \/ list # None /\ UNCHANGED left
                    \/ list = None /\ SomeLeft("fail") /\ Use("fail")
                 /\ UNCHANGED <<socks, req, made>>
                 /\ \/ load' = Got(n, list) /\ UNCHANGED <<view, page>>
                    \/ /\ DOMAIN load \cup {n} = Node /\ load' = <<>>
                       /\ view' = [rows |-> Rows(Lists(Got(n, list))), listed |-> Listed(Lists(Got(n, list)))]
<1>1. CASE \E n \in Node : ReadPeers(n)
    <2>1. PICK n \in Node : ReadPeers(n)
        BY <1>1
    <2>2. PICK list \in {{s \in socks : s.at = n}, None} :
              /\ IF list = None THEN SomeLeft("fail") /\ Use("fail") ELSE UNCHANGED left
              /\ IF DOMAIN Got(n, list) # Node
                 THEN load' = Got(n, list) /\ UNCHANGED <<view, page>>
                 ELSE /\ load' = <<>>
                      /\ view' = [rows |-> Rows(Lists(Got(n, list))), listed |-> Listed(Lists(Got(n, list)))]
        BY <2>1 DEF ReadPeers, Got, Lists, Reload
    <2>3. n \notin DOMAIN load /\ UNCHANGED <<socks, req, made>>
        BY <2>1 DEF ReadPeers, nodeVars
    <2>4. DOMAIN Got(n, list) = DOMAIN load \cup {n}
        BY DEF Got
    <2>. QED
        BY <2>2, <2>3, <2>4
<1>2. CASE ~\E n \in Node : ReadPeers(n)
    BY <1>2 DEF Next, Core, View, User, Server, Dial, Establish, Notice, Drop, StartLoad, Reload,
           Connect, Disconnect, AddPeer, PlanDisconnect, RemoveNear, DropNear, NearDone, RemoveFar,
           DropFar, RemoveEntries, Succeed, Fail, Goto, viewVars, vars
<1>. QED
    BY <1>1, <1>2

LEMMA MatchType ==
    ASSUME NEW lists, NEW s
    PROVE  MatchPeer(s, lists) \in Node \cup {None}
<1>1. OutboundMatch(s, Listed(lists)) \in Node \cup {None}
    BY DEF OutboundMatch, Listed
<1>2. InboundMatch(s, lists) \in Node \cup {None}
    BY DEF InboundMatch
<1>. QED
    BY <1>1, <1>2 DEF MatchPeer

LEMMA LoadTypes ==
    ASSUME TypeOK, NEW n \in Node \ DOMAIN load, NEW list, list = {s \in socks : s.at = n} \/ list = None
    PROVE  /\ DOMAIN Got(n, list) = DOMAIN load \cup {n}
           /\ \A m \in DOMAIN Got(n, list) : Got(n, list)[m] = None \/ Got(n, list)[m] \subseteq Socket
           /\ \A m \in Node : DOMAIN load \cup {n} = Node => Lists(Got(n, list))[m] \subseteq Socket
<1>1. socks \subseteq Socket /\ \A m \in DOMAIN load : load[m] = None \/ load[m] \subseteq Socket
    BY DEF TypeOK
<1>2. /\ DOMAIN Got(n, list) = DOMAIN load \cup {n} /\ Got(n, list)[n] = list
      /\ \A m \in DOMAIN load : Got(n, list)[m] = load[m]
    BY DEF Got
<1>3. \A m \in DOMAIN Got(n, list) : Got(n, list)[m] = None \/ Got(n, list)[m] \subseteq Socket
    BY <1>1, <1>2
<1>. QED
    BY <1>2, <1>3 DEF Lists

LEMMA RowsType ==
    ASSUME NEW lists, \A m \in Node : lists[m] \subseteq Socket
    PROVE  [rows |-> Rows(lists), listed |-> Listed(lists)]
               \in [rows : [Node -> SUBSET Row], listed : SUBSET Node]
<1>1. ASSUME NEW n \in Node, NEW s \in lists[n]
      PROVE  [sock |-> s, match |-> MatchPeer(s, lists)] \in Row
    BY MatchType DEF Row
<1>. QED
    BY <1>1 DEF Rows, Listed

LEMMA ViewTypeStep ==
    ASSUME TypeOK, [Next]_vars
    PROVE  /\ view' \in [rows : [Node -> SUBSET Row], listed : SUBSET Node]
           /\ DOMAIN load' \subseteq Node
           /\ \A n \in DOMAIN load' : load'[n] = None \/ load'[n] \subseteq Socket
<1>1. /\ view \in [rows : [Node -> SUBSET Row], listed : SUBSET Node]
      /\ DOMAIN load \subseteq Node
      /\ \A n \in DOMAIN load : load[n] = None \/ load[n] \subseteq Socket
    BY DEF TypeOK
<1>2. DOMAIN <<>> = {}
    OBVIOUS
<1>3. CASE UNCHANGED view /\ load' \in {load, <<>>}
    BY <1>1, <1>2, <1>3
<1>4. ASSUME NEW n \in Node \ DOMAIN load, NEW list \in {{s \in socks : s.at = n}, None},
             \/ load' = Got(n, list) /\ UNCHANGED <<view, page>>
             \/ /\ DOMAIN load \cup {n} = Node /\ load' = <<>>
                /\ view' = [rows |-> Rows(Lists(Got(n, list))), listed |-> Listed(Lists(Got(n, list)))]
      PROVE  /\ view' \in [rows : [Node -> SUBSET Row], listed : SUBSET Node]
             /\ DOMAIN load' \subseteq Node
             /\ \A m \in DOMAIN load' : load'[m] = None \/ load'[m] \subseteq Socket
    <2>1. CASE load' = Got(n, list) /\ UNCHANGED <<view, page>>
        <3>1. /\ DOMAIN Got(n, list) = DOMAIN load \cup {n}
              /\ \A m \in DOMAIN Got(n, list) : Got(n, list)[m] = None \/ Got(n, list)[m] \subseteq Socket
            BY LoadTypes
        <3>. QED
            BY <1>1, <2>1, <3>1
    <2>2. CASE /\ DOMAIN load \cup {n} = Node /\ load' = <<>>
               /\ view' = [rows |-> Rows(Lists(Got(n, list))), listed |-> Listed(Lists(Got(n, list)))]
        <3>1. \A m \in Node : Lists(Got(n, list))[m] \subseteq Socket
            BY <2>2, LoadTypes
        <3>2. view' \in [rows : [Node -> SUBSET Row], listed : SUBSET Node]
            BY <2>2, <3>1, RowsType
        <3>. QED
            BY <1>2, <2>2, <3>2
    <2>. QED
        BY <1>4, <2>1, <2>2
<1>. QED
    BY <1>3, <1>4, ViewSteps

LEMMA TypeInit == Init => TypeOK
<1> SUFFICES ASSUME Init PROVE TypeOK
    OBVIOUS
<1>1. PICK u \in Setups : entries = u.entries /\ left = u.bounds
    BY DEF Init
<1>2. entries \subseteq Entry /\ left \in Bounds /\ left.socket <= MaxSockets
    BY <1>1, PeerAssumption
<1>3. view \in [rows : [Node -> SUBSET Row], listed : SUBSET Node]
    BY DEF Init
<1>4. req \in [Slot -> Request] /\ page \in [Slot -> Wait]
    BY DEF Init, Request, Wait
<1>5. DOMAIN load = {}
    BY DEF Init
<1>6. socks = {} /\ made \in 0 .. MaxSockets
    BY PeerAssumption DEF Init
<1>. QED
    BY <1>2, <1>3, <1>4, <1>5, <1>6 DEF Init, TypeOK

LEMMA TypeStep == TypeOK /\ [Next]_vars => TypeOK'
<1> SUFFICES ASSUME TypeOK, [Next]_vars
             PROVE  TypeOK'
    OBVIOUS
<1>1. left'.socket <= MaxSockets
    BY BoundSteps DEF TypeOK
<1>. QED
    BY <1>1, RequestSteps, WaitSteps, BoundSteps, EntrySteps, SocketSteps, ViewTypeStep DEF TypeOK

\* The nodes' entries and sockets, the lists of a load, the view and what the page and
\* the handlers keep of it are well formed (PeerViewResponse, DisconnectPeerRequest).
THEOREM TypeCorrect == Spec => []TypeOK
BY TypeInit, TypeStep, PTL DEF Spec

-----------------------------------------------------------------------------
(* The entries of a disconnected pair: removed, or noted as left over, from *)
(* the step that removes them on, whatever a connect adds meanwhile.       *)

NearEntry(s) == <<req[s].node, req[s].row.match, "catalog">>
FarEntry(s) == <<req[s].row.match, req[s].node, "catalog">>
Gone(e) == e \in entries => e \in leftover

RemovedInv(s) ==
    /\ req[s].pc \in {"farRemove", "farDrop"} => req[s].row.match # None
    /\ req[s].pc \in {"drop", "farRemove", "farDrop"} /\ req[s].row.match \in req[s].listed => Gone(NearEntry(s))
    /\ req[s].pc = "farDrop" => Gone(FarEntry(s))

ClearedInv == EntriesCleared /\ \A s \in Slot : RemovedInv(s)

\* What a step may do to the entries.
LEMMA GoneSteps ==
    ASSUME TypeOK, [Next]_vars
    PROVE  \/ \A e : Gone(e) => Gone(e)'
           \/ \E s \in Slot : AddPeer(s)
<1>1. ASSUME NEW s \in Slot, RemoveNear(s) \/ RemoveFar(s), NEW e, Gone(e)
      PROVE  Gone(e)'
    BY <1>1 DEF RemoveNear, RemoveFar, RemoveEntries, Gone
<1>2. ASSUME Core \/ View \/ User \/ UNCHANGED vars \/ \E s \in Slot : PlanDisconnect(s) \/ DropNear(s) \/ DropFar(s)
      PROVE  UNCHANGED <<entries, leftover>>
    BY <1>2 DEF Core, View, User, Dial, Establish, Notice, Drop, StartLoad, ReadPeers, Connect, Disconnect,
                PlanDisconnect, DropNear, NearDone, DropFar, vars, nodeVars, ghostVars
<1>3. ASSUME UNCHANGED <<entries, leftover>>, NEW e, Gone(e)
      PROVE  Gone(e)'
    BY <1>3 DEF Gone
<1>. QED
    BY <1>1, <1>2, <1>3 DEF Next, Server

LEMMA AddedSteps ==
    ASSUME TypeOK, NEW s \in Slot, AddPeer(s), NEW e, e = <<req[s].node, req[s].target, "catalog">>
    PROVE  \/ UNCHANGED <<entries, leftover, cleared>>
           \/ /\ entries' = entries \cup {e} /\ cleared' = cleared \ {{e[1], e[2]}}
              /\ leftover \subseteq leftover'
              /\ Disconnecting({e[1], e[2]}) => e \in leftover'
<1>1. e[1] = req[s].node /\ e[2] = req[s].target
    OBVIOUS
<1>2. \/ UNCHANGED <<entries, leftover, cleared>>
      \/ Added(e, Disconnecting({req[s].node, req[s].target}))
    BY DEF AddPeer, ghostVars
<1>. QED
    BY <1>1, <1>2 DEF Added

\* A request stays where it is, is served, or is new.
LEMMA RemovedKept ==
    ASSUME TypeOK, [Next]_vars, NEW s \in Slot, RemovedInv(s)
    PROVE  req'[s] = req[s] \/ Server(s) \/ req'[s].pc \notin {"drop", "farRemove", "farDrop"}
<1>1. req \in [Slot -> Request] /\ req' \in [Slot -> Request]
    BY RequestSteps DEF TypeOK
<1>2. ASSUME NEW t \in Slot, t # s, Server(t)
      PROVE  req'[s] = req[s]
    <2>1. \/ req' = [req EXCEPT ![t] = Idle]
          \/ \E pc \in Disconnects : req' = [req EXCEPT ![t].pc = pc]
        BY <1>2 DEF Server, AddPeer, PlanDisconnect, RemoveNear, DropNear, NearDone, RemoveFar, DropFar,
                    RemoveEntries, Succeed, Fail, Goto, Disconnects
    <2>. QED
        BY <1>1, <1>2, <2>1
<1>3. ASSUME NEW t \in Slot, NEW n \in Node,
             (\E m \in Node : Connect(t, n, m)) \/ (\E r \in view.rows[n] : Disconnect(t, n, r))
      PROVE  req'[s] = req[s] \/ req'[s].pc \in {"add", "plan"}
    <2>1. ASSUME NEW m \in Node, Connect(t, n, m)
          PROVE  req'[s] = req[s] \/ req'[s].pc = "add"
        BY <1>1, <2>1 DEF Connect
    <2>2. ASSUME NEW r \in view.rows[n], Disconnect(t, n, r)
          PROVE  req'[s] = req[s] \/ req'[s].pc = "plan"
        BY <1>1, <2>2 DEF Disconnect
    <2>. QED
        BY <1>3, <2>1, <2>2
<1>4. CASE Core \/ View \/ UNCHANGED vars
    BY <1>4 DEF Core, Dial, Establish, Notice, Drop, View, StartLoad, ReadPeers, vars
<1>. QED
    BY <1>2, <1>3, <1>4 DEF Next, User

LEMMA ServedRemoved ==
    ASSUME TypeOK, NEW s \in Slot, RemovedInv(s), Server(s), ~AddPeer(s), \A e : Gone(e) => Gone(e)'
    PROVE  RemovedInv(s)'
<1>1. ASSUME req'[s].pc \notin {"drop", "farRemove", "farDrop"}
      PROVE  RemovedInv(s)'
    BY <1>1 DEF RemovedInv
<1>2. ASSUME NEW pc \in Disconnects, req[s].pc \in Disconnects, Goto(s, pc)
      PROVE  /\ req'[s].pc = pc /\ req'[s].row = req[s].row /\ req'[s].listed = req[s].listed
             /\ NearEntry(s)' = NearEntry(s) /\ FarEntry(s)' = FarEntry(s)
    BY <1>2, GoneOn DEF NearEntry, FarEntry
<1>3. ASSUME req' = [req EXCEPT ![s] = Idle]
      PROVE  RemovedInv(s)'
    <2>1. req'[s].pc = "idle"
        BY <1>3 DEF TypeOK, Idle
    <2>. QED
        BY <1>1, <2>1
<1>4. CASE PlanDisconnect(s)
    <2>1. req' = [req EXCEPT ![s] = Idle] \/ (Goto(s, "remove") /\ req[s].pc = "plan")
        BY <1>4 DEF PlanDisconnect, Fail
    <2>2. ASSUME Goto(s, "remove"), req[s].pc = "plan"
          PROVE  req'[s].pc = "remove"
        BY <1>2, <2>2 DEF Disconnects
    <2>. QED
        BY <1>1, <1>3, <2>1, <2>2
<1>5. CASE RemoveNear(s)
    <2>1. req[s].pc = "remove" /\ Goto(s, "drop")
        BY <1>5 DEF RemoveNear, RemoveEntries
    <2>2. /\ req'[s].pc = "drop" /\ req'[s].row = req[s].row /\ req'[s].listed = req[s].listed
          /\ NearEntry(s)' = NearEntry(s)
        BY <1>2, <2>1 DEF Disconnects
    <2>3. ASSUME req[s].row.match \in req[s].listed
          PROVE  Gone(NearEntry(s))'
        <3>1. NearEntry(s) \in NearStrings(req[s].node, req[s].row, req[s].listed)
            BY <2>3 DEF NearStrings, NearEntry
        <3>. QED
            BY <1>5, <2>2, <3>1 DEF RemoveNear, RemoveEntries, Gone
    <2>. QED
        BY <2>2, <2>3 DEF RemovedInv
<1>6. CASE DropNear(s)
    <2>1. req[s].pc = "drop"
        BY <1>6 DEF DropNear
    <2>2. req' = [req EXCEPT ![s] = Idle] \/ (req[s].row.match # None /\ Goto(s, "farRemove"))
        BY <1>6 DEF DropNear, NearDone, Succeed, Fail
    <2>3. ASSUME req[s].row.match # None, Goto(s, "farRemove")
          PROVE  RemovedInv(s)'
        <3>1. /\ req'[s].pc = "farRemove" /\ req'[s].row = req[s].row /\ req'[s].listed = req[s].listed
              /\ NearEntry(s)' = NearEntry(s)
            BY <1>2, <2>1, <2>3 DEF Disconnects
        <3>2. req[s].row.match \in req[s].listed => Gone(NearEntry(s))
            BY <2>1 DEF RemovedInv
        <3>3. req[s].row.match \in req[s].listed => Gone(NearEntry(s))'
            BY <3>1, <3>2 DEF Gone
        <3>. QED
            BY <2>3, <3>1, <3>3 DEF RemovedInv
    <2>. QED
        BY <1>3, <2>2, <2>3
<1>7. CASE RemoveFar(s)
    <2>1. req[s].pc = "farRemove" /\ Goto(s, "farDrop")
        BY <1>7 DEF RemoveFar, RemoveEntries
    <2>2. /\ req'[s].pc = "farDrop" /\ req'[s].row = req[s].row /\ req'[s].listed = req[s].listed
          /\ NearEntry(s)' = NearEntry(s) /\ FarEntry(s)' = FarEntry(s)
        BY <1>2, <2>1 DEF Disconnects
    <2>3. Gone(FarEntry(s))'
        <3>1. FarEntry(s) \in FarStrings(req[s].row.match, req[s].node)
            BY DEF FarStrings, FarEntry
        <3>. QED
            BY <1>7, <2>2, <3>1 DEF RemoveFar, RemoveEntries, Gone
    <2>4. req[s].row.match # None /\ (req[s].row.match \in req[s].listed => Gone(NearEntry(s)))
        BY <2>1 DEF RemovedInv
    <2>5. req[s].row.match \in req[s].listed => Gone(NearEntry(s))'
        BY <2>2, <2>4 DEF Gone
    <2>. QED
        BY <2>2, <2>3, <2>4, <2>5 DEF RemovedInv
<1>8. CASE DropFar(s)
    BY <1>3, <1>8 DEF DropFar, Succeed, Fail
<1>. QED
    BY <1>4, <1>5, <1>6, <1>7, <1>8 DEF Server

LEMMA RemovedStep ==
    ASSUME TypeOK, [Next]_vars, NEW s \in Slot, RemovedInv(s)
    PROVE  RemovedInv(s)'
<1>1. CASE \A e : Gone(e) => Gone(e)'
    <2>1. CASE req'[s] = req[s]
        BY <1>1, <2>1 DEF RemovedInv, NearEntry, FarEntry, Gone
    <2>2. CASE req'[s].pc \notin {"drop", "farRemove", "farDrop"}
        BY <2>2 DEF RemovedInv
    <2>3. CASE AddPeer(s)
        <3>1. req'[s].pc = "idle"
            BY <2>3 DEF AddPeer, Succeed, Fail, TypeOK, Idle
        <3>. QED
            BY <2>2, <3>1
    <2>. QED
        BY <1>1, <2>1, <2>2, <2>3, RemovedKept, ServedRemoved
<1>2. ASSUME NEW t \in Slot, AddPeer(t)
      PROVE  RemovedInv(s)'
    <2>4. PICK e : e = <<req[t].node, req[t].target, "catalog">>
        OBVIOUS
    <2>5. \/ UNCHANGED <<entries, leftover, cleared>>
          \/ /\ entries' = entries \cup {e} /\ leftover \subseteq leftover'
             /\ Disconnecting({e[1], e[2]}) => e \in leftover'
        BY <1>2, <2>4, AddedSteps
    <2>1. req' = [req EXCEPT ![t] = Idle] /\ req \in [Slot -> Request]
        BY <1>2 DEF AddPeer, Succeed, Fail, TypeOK
    <2>2. CASE s = t
        BY <2>1, <2>2 DEF RemovedInv, Idle
    <2>3. CASE s # t
        <3>1. req'[s] = req[s]
            BY <2>1, <2>3
        <3>2. ASSUME NEW x, Gone(x), req[s].pc \in {"drop", "farRemove", "farDrop"},
                     {x[1], x[2]} = {req[s].node, req[s].row.match}
              PROVE  Gone(x)'
            <4>1. CASE x = e
                <5>1. Disconnecting({e[1], e[2]})
                    BY <3>2, <4>1 DEF Disconnecting
                <5>. QED
                    BY <2>5, <3>2, <4>1, <5>1 DEF Gone
            <4>2. CASE x # e
                BY <2>5, <3>2, <4>2 DEF Gone
            <4>. QED
                BY <4>1, <4>2
        <3>3. NearEntry(s)' = NearEntry(s) /\ FarEntry(s)' = FarEntry(s)
            BY <3>1 DEF NearEntry, FarEntry
        <3>4. /\ {NearEntry(s)[1], NearEntry(s)[2]} = {req[s].node, req[s].row.match}
              /\ {FarEntry(s)[1], FarEntry(s)[2]} = {req[s].node, req[s].row.match}
            BY DEF NearEntry, FarEntry
        <3>5. \A x : Gone(x)' <=> (x \in entries' => x \in leftover')
            BY DEF Gone
        <3>. QED
            BY <3>1, <3>2, <3>3, <3>4, <3>5 DEF RemovedInv
    <2>. QED
        BY <2>2, <2>3
<1>. QED
    BY <1>1, <1>2, GoneSteps

LEMMA ClearedStep ==
    ASSUME TypeOK, ClearedInv, [Next]_vars
    PROVE  ClearedInv'
<1>1. \A s \in Slot : RemovedInv(s)'
    BY RemovedStep DEF ClearedInv
<1>2. EntriesCleared /\ entries \subseteq Entry
    BY DEF ClearedInv, TypeOK
<1>3. ASSUME NEW s \in Slot, AddPeer(s)
      PROVE  EntriesCleared'
    <2>1. PICK e : e = <<req[s].node, req[s].target, "catalog">>
        OBVIOUS
    <2>2. \/ UNCHANGED <<entries, leftover, cleared>>
          \/ /\ entries' = entries \cup {e} /\ cleared' = cleared \ {{e[1], e[2]}}
             /\ leftover \subseteq leftover'
        BY <1>3, <2>1, AddedSteps
    <2>. QED
        BY <1>2, <2>2 DEF EntriesCleared
<1>4. ASSUME NEW s \in Slot, DropFar(s)
      PROVE  EntriesCleared'
    <2> DEFINE n == req[s].node
               m == req[s].row.match
    <2>1. UNCHANGED <<entries, leftover>> /\ req[s].pc = "farDrop"
        BY <1>4 DEF DropFar, nodeVars, ghostVars
    <2>2. ASSUME NEW x \in entries, {x[1], x[2]} \in cleared' \ cleared
          PROVE  x \in leftover \/ x[3] = "other"
        <3>1. {x[1], x[2]} = {n, m} /\ m \in req[s].listed
            BY <1>4, <2>2 DEF DropFar, ghostVars
        <3>2. x = <<x[1], x[2], x[3]>> /\ x[3] \in {"catalog", "other"}
            BY <1>2 DEF Entry, Form
        <3>3. CASE x[3] = "catalog"
            <4>1. (x[1] = n /\ x[2] = m) \/ (x[1] = m /\ x[2] = n)
                BY <3>1
            <4>2. x = NearEntry(s) \/ x = FarEntry(s)
                BY <3>2, <3>3, <4>1 DEF NearEntry, FarEntry
            <4>3. Gone(NearEntry(s)) /\ Gone(FarEntry(s))
                BY <2>1, <3>1 DEF ClearedInv, RemovedInv
            <4>. QED
                BY <4>2, <4>3 DEF Gone
        <3>. QED
            BY <3>2, <3>3
    <2>. QED
        BY <1>2, <2>1, <2>2 DEF EntriesCleared
<1>5. ASSUME ~\E s \in Slot : AddPeer(s) \/ DropFar(s)
      PROVE  EntriesCleared'
    <2>1. cleared' = cleared /\ entries' \subseteq entries
        BY <1>5 DEF Next, Core, View, User, Server, Dial, Establish, Notice, Drop, StartLoad, ReadPeers,
             Connect, Disconnect, PlanDisconnect, RemoveNear, DropNear, NearDone, RemoveFar,
             RemoveEntries, vars, nodeVars, ghostVars
    <2>2. \A x : Gone(x) => Gone(x)'
        BY <1>5, GoneSteps
    <2>. QED
        BY <1>2, <2>1, <2>2 DEF EntriesCleared, Gone
<1>. QED
    BY <1>1, <1>3, <1>4, <1>5 DEF ClearedInv

\* A disconnect that succeeded at both ends leaves neither node an addnode entry for
\* the catalog address of the other (disconnect_node, remove_peer_connection), however
\* its calls interleave with other requests and with the nodes' own dialling.
THEOREM ClearedCorrect == Spec => []EntriesCleared
<1>1. Init => ClearedInv
    BY DEF Init, ClearedInv, EntriesCleared, RemovedInv, Idle
<1>2. TypeOK /\ ClearedInv /\ [Next]_vars => ClearedInv'
    BY ClearedStep
<1>3. ClearedInv => EntriesCleared
    BY DEF ClearedInv
<1>. QED
    BY <1>1, <1>2, <1>3, TypeCorrect, PTL DEF Spec

-----------------------------------------------------------------------------
(* Sockets of one number are the two ends of one connection, also those    *)
(* that are gone and only a list, the view, a wait or a request knows.     *)

EndsAgree(t, u) ==
    t.id = u.id => t = u \/ (t.out # u.out /\ t.at = u.peer /\ t.peer = u.at)

\* The rows of n that the view, a wait or a request has.
Rowed(n) ==
    view.rows[n]
        \cup {page[s].row : s \in {w \in Slot : page[w].pc = "disconnecting" /\ page[w].node = n}}
        \cup {req[s].row : s \in {w \in Slot : req[w].pc \in Disconnects /\ req[w].node = n}}

Loaded(n) == IF n \in DOMAIN load /\ load[n] # None THEN load[n] ELSE {}

SocketsAt(n) == {t \in socks : t.at = n} \cup Loaded(n) \cup {r.sock : r \in Rowed(n)}

SocketInv ==
    /\ \A n \in Node : \A t \in SocketsAt(n) : t \in Socket /\ t.at = n /\ t.id <= made
    /\ \A n, m \in Node : \A t \in SocketsAt(n) : \A u \in SocketsAt(m) : EndsAgree(t, u)

\* The page and the handlers have their rows from the view.
LEMMA RowedSteps ==
    ASSUME TypeOK, [Next]_vars, NEW n \in Node
    PROVE  Rowed(n)' \subseteq Rowed(n) \cup view'.rows[n]
<1>1. ASSUME NEW s \in Slot, page'[s].pc = "disconnecting", page'[s].node = n
      PROVE  page'[s].row \in Rowed(n)
    <2>1. CASE page'[s] = page[s]
        BY <1>1, <2>1 DEF Rowed
    <2>2. ASSUME NEW m \in Node, NEW r \in view.rows[m],
                 page'[s] = [pc |-> "disconnecting", node |-> m, row |-> r]
          PROVE  page'[s].row \in Rowed(n)
        BY <1>1, <2>2 DEF Rowed
    <2>3. page'[s] # Idle /\ \A k, m \in Node : page'[s] # [pc |-> "connecting", node |-> k, target |-> m]
        BY <1>1 DEF Idle
    <2>. QED
        BY <2>1, <2>2, <2>3, WaitSteps
<1>2. ASSUME NEW s \in Slot, req'[s].pc \in Disconnects, req'[s].node = n
      PROVE  req'[s].row \in Rowed(n)
    <2>1. CASE req'[s] = req[s]
        BY <1>2, <2>1 DEF Rowed
    <2>2. ASSUME NEW m \in Node, NEW r \in view.rows[m],
                 req'[s] = [pc |-> "plan", node |-> m, row |-> r, listed |-> view.listed]
          PROVE  req'[s].row \in Rowed(n)
        BY <1>2, <2>2 DEF Rowed
    <2>3. CASE req[s].pc \in Disconnects /\ req'[s].node = req[s].node /\ req'[s].row = req[s].row
        BY <1>2, <2>3 DEF Rowed
    <2>4. req'[s] # Idle /\ \A k, m \in Node : req'[s] # [pc |-> "add", node |-> k, target |-> m]
        BY <1>2 DEF Idle, Disconnects
    <2>. QED
        BY <2>1, <2>2, <2>3, <2>4, RequestSteps
<1>. QED
    BY <1>1, <1>2 DEF Rowed

\* A load has seen each socket it lists.
LEMMA ListsKnown ==
    ASSUME NEW n \in Node \ DOMAIN load, NEW list, list = {s \in socks : s.at = n} \/ list = None
    PROVE  /\ \A m \in DOMAIN Got(n, list) : Got(n, list)[m] # None => Got(n, list)[m] \subseteq SocketsAt(m)
           /\ \A m \in Node : DOMAIN load \cup {n} = Node => Lists(Got(n, list))[m] \subseteq SocketsAt(m)
<1>1. /\ DOMAIN Got(n, list) = DOMAIN load \cup {n} /\ Got(n, list)[n] = list
      /\ \A m \in DOMAIN load : Got(n, list)[m] = load[m]
    BY DEF Got
<1>2. \A m \in DOMAIN Got(n, list) : Got(n, list)[m] # None => Got(n, list)[m] \subseteq SocketsAt(m)
    BY <1>1 DEF SocketsAt, Loaded
<1>3. \A m \in Node : Lists(Got(n, list))[m] = IF Got(n, list)[m] = None THEN {} ELSE Got(n, list)[m]
    BY DEF Lists
<1>. QED
    BY <1>1, <1>2, <1>3

LEMMA KnownSockets ==
    ASSUME TypeOK, [Next]_vars, NEW n \in Node
    PROVE  /\ \A e \in Entry : Establish(e) =>
                SocketsAt(n)' \subseteq SocketsAt(n) \cup {t \in Ends(e[1], e[2], e[3], made') : t.at = n}
           /\ (\A e \in Entry : ~Establish(e)) =>
                SocketsAt(n)' \subseteq SocketsAt(n) /\ made' = made
<1>1. ASSUME NEW e \in Entry, Establish(e)
      PROVE  SocketsAt(n)' \subseteq SocketsAt(n) \cup {t \in Ends(e[1], e[2], e[3], made') : t.at = n}
    BY <1>1 DEF Establish, SocketsAt, Loaded, Rowed, viewVars
<1>2. ASSUME socks' \subseteq socks
      PROVE  SocketsAt(n)' \subseteq SocketsAt(n)
    <2>1. {t \in socks' : t.at = n} \subseteq SocketsAt(n)
        BY <1>2 DEF SocketsAt
    <2>2. DOMAIN <<>> = {}
        OBVIOUS
    <2>3. Loaded(n)' \subseteq SocketsAt(n) /\ \A r \in view'.rows[n] : r.sock \in SocketsAt(n)
        <3>1. CASE UNCHANGED view /\ load' \in {load, <<>>}
            BY <2>2, <3>1 DEF Loaded, SocketsAt, Rowed
        <3>2. ASSUME NEW k \in Node \ DOMAIN load, NEW list \in {{s \in socks : s.at = k}, None},
                     load' = Got(k, list), UNCHANGED view
              PROVE  Loaded(n)' \subseteq SocketsAt(n) /\ \A r \in view'.rows[n] : r.sock \in SocketsAt(n)
            <4>1. Loaded(n)' \subseteq SocketsAt(n)
                BY <3>2, ListsKnown DEF Loaded
            <4>. QED
                BY <3>2, <4>1 DEF SocketsAt, Rowed
        <3>3. ASSUME NEW k \in Node \ DOMAIN load, NEW list \in {{s \in socks : s.at = k}, None},
                     DOMAIN load \cup {k} = Node, load' = <<>>,
                     view' = [rows |-> Rows(Lists(Got(k, list))), listed |-> Listed(Lists(Got(k, list)))]
              PROVE  Loaded(n)' \subseteq SocketsAt(n) /\ \A r \in view'.rows[n] : r.sock \in SocketsAt(n)
            <4>1. Loaded(n)' = {}
                BY <2>2, <3>3 DEF Loaded
            <4>2. Lists(Got(k, list))[n] \subseteq SocketsAt(n)
                BY <3>3, ListsKnown
            <4>3. view'.rows[n] = {[sock |-> s, match |-> MatchPeer(s, Lists(Got(k, list)))] :
                                     s \in Lists(Got(k, list))[n]}
                BY <3>3 DEF Rows
            <4>. QED
                BY <4>1, <4>2, <4>3
        <3>. QED
            BY <3>1, <3>2, <3>3, ViewSteps
    <2>4. \A r \in Rowed(n)' : r.sock \in SocketsAt(n)
        BY <2>3, RowedSteps DEF SocketsAt
    <2>. QED
        BY <2>1, <2>3, <2>4 DEF SocketsAt
<1>. QED
    BY <1>1, <1>2, SocketSteps


LEMMA NewEndsAgree ==
    ASSUME NEW from, NEW to, NEW form, NEW id,
           NEW t \in Ends(from, to, form, id), NEW u \in Ends(from, to, form, id)
    PROVE  EndsAgree(t, u)
<1> DEFINE near == [at |-> from, peer |-> to, out |-> TRUE, form |-> form, id |-> id]
           far == [at |-> to, peer |-> from, out |-> FALSE, form |-> "other", id |-> id]
<1>1. t \in {near, far} /\ u \in {near, far}
    BY DEF Ends
<1>2. near.at = far.peer /\ near.peer = far.at /\ near.out # far.out
    OBVIOUS
<1> HIDE DEF near, far
<1>. QED
    BY <1>1, <1>2 DEF EndsAgree

LEMMA SocketInvStep ==
    ASSUME TypeOK, SocketInv, [Next]_vars
    PROVE  SocketInv'
<1>0. made \in Nat
    BY DEF TypeOK
<1>1. CASE /\ \A n \in Node : SocketsAt(n)' \subseteq SocketsAt(n)
           /\ made' = made
    BY <1>1 DEF SocketInv, EndsAgree
<1>2. ASSUME NEW e \in Entry, Establish(e),
             \A n \in Node : SocketsAt(n)' \subseteq SocketsAt(n) \cup {t \in Ends(e[1], e[2], e[3], made') : t.at = n}
      PROVE  SocketInv'
    <2> DEFINE new == Ends(e[1], e[2], e[3], made')
    <2>1. made' = made + 1 /\ made' \in 1 .. MaxSockets
        BY <1>2, PeerAssumption DEF Establish, TypeOK, Bounds
    <2>2. \A t \in new : t \in Socket /\ t.id = made'
        BY <2>1, NewEnds
    <2>3. \A t, u \in new : EndsAgree(t, u)
        BY NewEndsAgree
    <2>4. \A n \in Node : \A t \in SocketsAt(n) : t \in Socket /\ t.at = n /\ t.id <= made /\ t.id \in Nat
        BY DEF SocketInv, Socket
    <2> HIDE DEF new
    <2>5. \A n \in Node : \A t \in SocketsAt(n) : \A u \in new : t.id # u.id
        BY <1>0, <2>1, <2>2, <2>4
    <2>6. \A n \in Node : \A t \in SocketsAt(n)' : t \in Socket /\ t.at = n /\ t.id <= made'
        BY <1>0, <1>2, <2>1, <2>2, <2>4 DEF new
    <2>7. ASSUME NEW n \in Node, NEW m \in Node, NEW t \in SocketsAt(n)', NEW u \in SocketsAt(m)'
          PROVE  EndsAgree(t, u)
        <3>1. t \in SocketsAt(n) \/ t \in new
            BY <1>2 DEF new
        <3>2. u \in SocketsAt(m) \/ u \in new
            BY <1>2 DEF new
        <3>3. CASE t \in SocketsAt(n) /\ u \in SocketsAt(m)
            BY <3>3 DEF SocketInv
        <3>4. CASE t \in new /\ u \in new
            BY <2>3, <3>4
        <3>5. CASE t.id # u.id
            BY <3>5 DEF EndsAgree
        <3>. QED
            BY <2>5, <3>1, <3>2, <3>3, <3>4, <3>5
    <2>. QED
        BY <2>6, <2>7 DEF SocketInv, EndsAgree
<1>3. CASE \A e \in Entry : ~Establish(e)
    <2>1. made' = made
        BY <1>3, SocketSteps
    <2>2. \A n \in Node : SocketsAt(n)' \subseteq SocketsAt(n)
        BY <1>3, KnownSockets
    <2>. QED
        BY <1>1, <2>1, <2>2
<1>4. ASSUME NEW e \in Entry, Establish(e)
      PROVE  SocketInv'
    <2>1. \A n \in Node :
              SocketsAt(n)' \subseteq SocketsAt(n) \cup {t \in Ends(e[1], e[2], e[3], made') : t.at = n}
        BY <1>4, KnownSockets
    <2>. QED
        BY <1>2, <1>4, <2>1
<1>. QED
    BY <1>3, <1>4

LEMMA SocketInvInit == Init => SocketInv
<1> SUFFICES ASSUME Init PROVE \A n \in Node : SocketsAt(n) = {}
    BY DEF SocketInv
<1> TAKE n \in Node
<1>1. socks = {} /\ Loaded(n) = {} /\ view.rows[n] = {}
    BY DEF Init, Loaded
<1>2. \A s \in Slot : req[s].pc = "idle" /\ page[s].pc = "idle"
    BY DEF Init, Idle
<1>. QED
    BY <1>1, <1>2 DEF SocketsAt, Rowed, Disconnects

LEMMA SocketsCorrect == Spec => [](TypeOK /\ SocketInv)
<1>1. TypeOK /\ SocketInv /\ [Next]_vars => (TypeOK /\ SocketInv)'
    BY TypeStep, SocketInvStep
<1>. QED
    BY <1>1, TypeInit, SocketInvInit, PTL DEF Spec

-----------------------------------------------------------------------------
(* The names in the view. *)

\* The list of the other end tells the name.
LEMMA FarEndNamed ==
    ASSUME SocketInv, NEW lists, \A k \in Node : lists[k] \subseteq SocketsAt(k),
           NEW n \in Node, NEW s \in lists[n], NEW m \in Node, NEW t \in lists[m],
           t.id = s.id, m # n
    PROVE  MatchPeer(s, lists) = m
<1>1. /\ t \in Socket /\ t.at = m /\ s \in Socket /\ s.at = n
      /\ t.out # s.out /\ t.at = s.peer
    BY DEF SocketInv, EndsAgree
<1>2. t.out \in BOOLEAN /\ s.out \in BOOLEAN
    BY <1>1 DEF Socket
<1>3. CASE s.out
    <2>1. ~t.out
        BY <1>1, <1>2, <1>3, Zenon
    <2>2. m \in Listed(lists)
        BY <2>1 DEF Listed
    <2>3. OutboundMatch(s, Listed(lists)) = m
        BY <1>1, <2>2 DEF OutboundMatch
    <2>. QED
        BY <1>1, <1>3, <2>3 DEF MatchPeer
<1>4. CASE ~s.out
    <2>1. t.out
        BY <1>1, <1>2, <1>4, Zenon
    <2>2. ASSUME NEW k \in Node, NEW u \in lists[k], u.out, u.id = s.id
          PROVE  k = m
        <3>1. u \in Socket /\ u.at = k /\ EndsAgree(u, t)
            BY DEF SocketInv
        <3>2. u.out \in BOOLEAN
            BY <3>1 DEF Socket
        <3>3. u.out = t.out
            BY <1>2, <2>1, <2>2, <3>2, Zenon
        <3>4. u = t
            BY <2>2, <3>1, <3>3 DEF EndsAgree
        <3>. QED
            BY <1>1, <3>1, <3>4
    <2>3. {k \in Node : \E u \in lists[k] : u.out /\ u.id = s.id} = {m}
        BY <2>1, <2>2
    <2>4. InboundMatch(s, lists) = m
        BY <2>3 DEF InboundMatch
    <2>. QED
        BY <1>1, <1>4, <2>4 DEF MatchPeer
<1>. QED
    BY <1>3, <1>4

\* No other name is given, but by the port.
LEMMA OtherwiseNamed ==
    ASSUME SocketInv, NEW lists, \A k \in Node : lists[k] \subseteq SocketsAt(k),
           NEW n \in Node, NEW s \in lists[n], MatchPeer(s, lists) \notin {None, s.peer}
    PROVE  s.out /\ s.form = "other" /\ s.peer \notin Listed(lists)
<1>1. CASE s.out
    BY <1>1 DEF MatchPeer, OutboundMatch
<1>2. CASE ~s.out
    <2> DEFINE owners == {k \in Node : \E u \in lists[k] : u.out /\ u.id = s.id}
    <2>1. owners # {} /\ MatchPeer(s, lists) = CHOOSE k \in owners : TRUE
        BY <1>2 DEF MatchPeer, InboundMatch
    <2>2. MatchPeer(s, lists) \in owners
        BY <2>1
    <2>3. PICK k \in Node : k = MatchPeer(s, lists) /\ \E u \in lists[k] : u.out /\ u.id = s.id
        BY <2>2
    <2>6. PICK u \in lists[k] : u.out /\ u.id = s.id
        BY <2>3
    <2>4. u \in Socket /\ u.at = k /\ s \in Socket /\ EndsAgree(u, s)
        BY DEF SocketInv
    <2>5. u # s
        BY <1>2, <2>6
    <2>. QED
        BY <2>3, <2>4, <2>5, <2>6 DEF EndsAgree
<1>. QED
    BY <1>1, <1>2

LEMMA MatchesStep ==
    ASSUME TypeOK, SocketInv, MatchesTrue, [Next]_vars
    PROVE  MatchesTrue'
<1>1. CASE UNCHANGED view
    BY <1>1 DEF MatchesTrue
<1>2. ASSUME NEW k \in Node \ DOMAIN load, NEW list \in {{s \in socks : s.at = k}, None},
             DOMAIN load \cup {k} = Node,
             view' = [rows |-> Rows(Lists(Got(k, list))), listed |-> Listed(Lists(Got(k, list)))]
      PROVE  MatchesTrue'
    <2> DEFINE lists == Lists(Got(k, list))
    <2>1. \A m \in Node : lists[m] \subseteq SocketsAt(m)
        BY <1>2, ListsKnown
    <2>2. view'.rows = Rows(lists) /\ view'.listed = Listed(lists)
        BY <1>2
    <2> HIDE DEF lists
    <2>3. ASSUME NEW n \in Node, NEW r \in view'.rows[n]
          PROVE  r.sock \in lists[n] /\ r.match = MatchPeer(r.sock, lists)
        BY <2>2, <2>3 DEF Rows
    <2>4. ASSUME NEW n \in Node, NEW r \in view'.rows[n], NEW m \in Node, NEW t \in view'.rows[m],
                 t.sock.id = r.sock.id, m # n
          PROVE  r.match = m
        BY <2>1, <2>3, <2>4, FarEndNamed
    <2>5. ASSUME NEW n \in Node, NEW r \in view'.rows[n], r.match \notin {None, r.sock.peer}
          PROVE  r.sock.out /\ r.sock.form = "other" /\ r.sock.peer \notin view'.listed
        BY <2>1, <2>2, <2>3, <2>5, OtherwiseNamed
    <2>. QED
        BY <2>4, <2>5 DEF MatchesTrue
<1>. QED
    BY <1>1, <1>2, ViewSteps

\* The view names no wrong node, whatever connects and closes while the lists are read
\* (match_peer, match_inbound_peer, match_outbound_peer), but for a numeric address on
\* the port of one node.
THEOREM MatchesCorrect == Spec => []MatchesTrue
<1>1. Init => MatchesTrue
    BY DEF Init, MatchesTrue
<1>. QED
    BY <1>1, SocketsCorrect, MatchesStep, PTL DEF Spec


-----------------------------------------------------------------------------
(* What a disconnect closes. *)

\* What a disconnect closes at its node by number or by address is the chosen pair's.
LEMMA NearIsPair ==
    ASSUME SocketInv, NEW n \in Node, NEW r \in Rowed(n), NEW t \in socks, t.at = n,
           \/ t.id = r.sock.id
           \/ t.out /\ r.sock.out /\ t.peer = r.sock.peer
    PROVE  Pair(t) = Pair(r.sock)
<1>1. t \in SocketsAt(n) /\ r.sock \in SocketsAt(n)
    BY DEF SocketsAt
<1>2. r.sock.at = n /\ EndsAgree(t, r.sock)
    BY <1>1 DEF SocketInv
<1>. QED
    BY <1>2 DEF EndsAgree, Pair

LEMMA CaughtStep ==
    ASSUME TypeOK, SocketInv, OnlyThatLink, [Next]_vars
    PROVE  OnlyThatLink'
<1>1. loopback' = loopback
    BY DEF Next, Core, View, User, Server, Dial, Establish, Notice, Drop, StartLoad, ReadPeers,
         Connect, Disconnect, AddPeer, PlanDisconnect, RemoveNear, DropNear, NearDone, RemoveFar,
         DropFar, RemoveEntries, vars, nodeVars
<1>2. CASE caught' = caught
    BY <1>1, <1>2 DEF OnlyThatLink
<1>3. ASSUME NEW s \in Slot, NEW closed, Caught(closed, s),
             \A t \in closed : Pair(t) # Pair(req[s].row.sock) =>
                 \/ req[s].row.match # req[s].row.sock.peer
                 \/ Host[t.peer] = Host[req[s].node] /\ Host[req[s].node] \notin loopback
      PROVE  OnlyThatLink'
    <2>1. ASSUME NEW c \in caught' \ caught
          PROVE  \/ c.row.match # c.row.sock.peer
                 \/ Host[c.sock.peer] = Host[c.node] /\ Host[c.node] \notin loopback
        <3>1. PICK t \in closed : /\ Pair(t) # Pair(req[s].row.sock)
                                  /\ c = [sock |-> t, node |-> req[s].node, row |-> req[s].row]
            BY <1>3 DEF Caught
        <3>. QED
            BY <1>3, <3>1
    <2>. QED
        BY <1>1, <2>1 DEF OnlyThatLink
<1>4. ASSUME NEW s \in Slot, req[s].pc \in Disconnects
      PROVE  req[s].node \in Node /\ req[s].row \in Rowed(req[s].node) /\ req[s].row.sock.at = req[s].node
    <2>1. req[s].node \in Node
        BY <1>4, RequestKinds DEF TypeOK, Disconnection
    <2>2. req[s].row \in Rowed(req[s].node)
        BY <1>4 DEF Rowed
    <2>3. req[s].row.sock \in SocketsAt(req[s].node)
        BY <2>2 DEF SocketsAt
    <2>. QED
        BY <2>1, <2>2, <2>3 DEF SocketInv
<1>5. ASSUME NEW s \in Slot, DropNear(s)
      PROVE  OnlyThatLink'
    <2>1. req[s].pc \in Disconnects
        BY <1>5 DEF DropNear, Disconnects
    <2>2. caught' = caught \/ \E closed : /\ Caught(closed, s)
                                          /\ \A t \in closed :
                                                /\ t \in socks /\ t.at = req[s].node
                                                /\ \/ t.id = req[s].row.sock.id
                                                   \/ t.out /\ req[s].row.sock.out /\ t.peer = req[s].row.sock.peer
        BY <1>5 DEF DropNear, NearDone, ghostVars
    <2>3. ASSUME NEW closed, Caught(closed, s),
                 \A t \in closed : /\ t \in socks /\ t.at = req[s].node
                                   /\ \/ t.id = req[s].row.sock.id
                                      \/ t.out /\ req[s].row.sock.out /\ t.peer = req[s].row.sock.peer
          PROVE  OnlyThatLink'
        <3>1. \A t \in closed : Pair(t) = Pair(req[s].row.sock)
            BY <1>4, <2>1, <2>3, NearIsPair
        <3>. QED
            BY <1>3, <2>3, <3>1
    <2>. QED
        BY <1>2, <2>2, <2>3
<1>6. ASSUME NEW s \in Slot, DropFar(s)
      PROVE  OnlyThatLink'
    <2> DEFINE n == req[s].node
               m == req[s].row.match
    <2>1. req[s].pc \in Disconnects
        BY <1>6 DEF DropFar, Disconnects
    <2>2. caught' = caught \/ Caught(FarTargets(m, n), s)
        BY <1>6 DEF DropFar, ghostVars
    <2>3. ASSUME NEW t \in FarTargets(m, n), Pair(t) # Pair(req[s].row.sock), m = req[s].row.sock.peer
          PROVE  Host[t.peer] = Host[n] /\ Host[n] \notin loopback
        <3>1. t.at = m /\ ~(t.out /\ t.peer = n)
            BY <1>4, <2>1, <2>3 DEF FarTargets, Pair
        <3>. QED
            BY <2>3, <3>1 DEF FarTargets
    <2>. QED
        BY <1>2, <1>3, <2>2, <2>3
<1>7. ASSUME ~\E s \in Slot : DropNear(s) \/ DropFar(s)
      PROVE  caught' = caught
    BY <1>7 DEF Next, Core, View, User, Server, Dial, Establish, Notice, Drop, StartLoad, ReadPeers,
         Connect, Disconnect, AddPeer, Added, PlanDisconnect, RemoveNear, RemoveFar, RemoveEntries,
         vars, ghostVars
<1>. QED
    BY <1>2, <1>5, <1>6, <1>7

\* A disconnect closes connections of the chosen pair only (remove_peer_connection,
\* remove_counterparty_peer_connection), but for peers on the near node's host when that
\* is not loopback and for a row with a wrong name.
THEOREM CaughtCorrect == Spec => []OnlyThatLink
<1>1. Init => OnlyThatLink
    BY DEF Init, OnlyThatLink
<1>. QED
    BY <1>1, SocketsCorrect, CaughtStep, PTL DEF Spec

-----------------------------------------------------------------------------
(* What the page reports of a disconnect. *)

\* What a load has read of a node is not older than the rows of the node in use: a
\* socket that one of them is about and that is open now is in the list.
FreshInv ==
    \A n \in DOMAIN load : load[n] # None =>
        \A r \in Rowed(n), t \in socks : t.at = n /\ t.id = r.sock.id => t \in load[n]

LEMMA FreshInit == Init => FreshInv
<1>1. DOMAIN <<>> = {}
    OBVIOUS
<1>. QED
    BY <1>1 DEF Init, FreshInv

\* A new connection has a number of its own.
LEMMA NewNumber ==
    ASSUME TypeOK, SocketInv, [Next]_vars, NEW n \in Node, NEW r \in Rowed(n),
           NEW t \in socks', t.id = r.sock.id
    PROVE  t \in socks
<1>1. CASE socks' \subseteq socks
    BY <1>1
<1>2. ASSUME NEW e \in Entry, Establish(e)
      PROVE  t \in socks
    <2>1. made' = made + 1 /\ made' \in 1 .. MaxSockets
        BY <1>2, PeerAssumption DEF Establish, TypeOK, Bounds
    <2>2. t \in socks \/ t.id = made'
        BY <1>2, <2>1, NewEnds DEF Establish
    <2>3. r.sock \in Socket /\ r.sock.id <= made
        BY DEF SocketInv, SocketsAt
    <2>4. made \in Nat /\ r.sock.id \in Nat
        BY <2>3 DEF TypeOK, Socket
    <2>. QED
        BY <2>1, <2>2, <2>3, <2>4
<1>. QED
    BY <1>1, <1>2, SocketSteps

LEMMA FreshStep ==
    ASSUME TypeOK, SocketInv, FreshInv, [Next]_vars
    PROVE  FreshInv'
<1>1. DOMAIN <<>> = {} /\ DOMAIN load \subseteq Node
    BY DEF TypeOK
<1>2. CASE load' = <<>>
    BY <1>1, <1>2 DEF FreshInv
<1>3. CASE UNCHANGED <<view, load>>
    <2> SUFFICES ASSUME NEW n \in DOMAIN load, load[n] # None, NEW r \in Rowed(n)', NEW t \in socks',
                        t.at = n, t.id = r.sock.id
                 PROVE  t \in load[n]
        BY <1>3 DEF FreshInv
    <2>1. n \in Node
        BY <1>1
    <2>2. r \in Rowed(n)
        <3>1. Rowed(n)' \subseteq Rowed(n) \cup view'.rows[n]
            BY <2>1, RowedSteps
        <3>. QED
            BY <1>3, <3>1 DEF Rowed
    <2>3. t \in socks
        BY <2>1, <2>2, NewNumber
    <2>. QED
        BY <2>2, <2>3 DEF FreshInv
<1>4. ASSUME NEW k \in Node \ DOMAIN load, NEW list \in {{s \in socks : s.at = k}, None},
             UNCHANGED <<socks, view>>, load' = Got(k, list)
      PROVE  FreshInv'
    <2> SUFFICES ASSUME NEW n \in DOMAIN load', load'[n] # None, NEW r \in Rowed(n)', NEW t \in socks,
                        t.at = n, t.id = r.sock.id
                 PROVE  t \in load'[n]
        BY <1>4 DEF FreshInv
    <2>1. /\ DOMAIN load' = DOMAIN load \cup {k}
          /\ \A m \in DOMAIN load \cup {k} : load'[m] = IF m = k THEN list ELSE load[m]
        BY <1>4 DEF Got
    <2>2. n \in Node
        BY <1>1, <2>1
    <2>3. r \in Rowed(n)
        <3>1. Rowed(n)' \subseteq Rowed(n) \cup view'.rows[n]
            BY <2>2, RowedSteps
        <3>. QED
            BY <1>4, <3>1 DEF Rowed
    <2>4. CASE n = k
        BY <1>4, <2>1, <2>4
    <2>5. CASE n # k
        BY <2>1, <2>3, <2>5 DEF FreshInv
    <2>. QED
        BY <2>4, <2>5
<1>. QED
    BY <1>2, <1>3, <1>4, ViewSteps

\* The view that a load completes has a row for every socket a wait is about that is
\* still open, where the list of its node was read.
LEMMA ReportedStep ==
    ASSUME TypeOK, SocketInv, FreshInv, [Next]_vars, NEW s \in Slot,
           page[s].pc = "disconnecting", view' # view, DisconnectSeen(page[s], view'.rows)
    PROVE  \/ ListUnread(page[s].node)
           \/ ~\E t \in socks : t.at = page[s].node /\ t.id = page[s].row.sock.id
<1>1. /\ page[s].node \in Node /\ page[s].row \in Row
      /\ page[s].row \in Rowed(page[s].node)
    BY WaitKinds DEF TypeOK, Rowed
<1> DEFINE n == page[s].node
<1>2. PICK k \in Node \ DOMAIN load : \E list \in {{u \in socks : u.at = k}, None} :
          /\ \/ list # None /\ UNCHANGED left
             \/ list = None /\ SomeLeft("fail") /\ Use("fail")
          /\ DOMAIN load \cup {k} = Node
          /\ view' = [rows |-> Rows(Lists(Got(k, list))), listed |-> Listed(Lists(Got(k, list)))]
    BY ViewSteps
<1>3. PICK list \in {{u \in socks : u.at = k}, None} :
          /\ \/ list # None /\ UNCHANGED left
             \/ list = None /\ SomeLeft("fail") /\ Use("fail")
          /\ DOMAIN load \cup {k} = Node
          /\ view' = [rows |-> Rows(Lists(Got(k, list))), listed |-> Listed(Lists(Got(k, list)))]
    BY <1>2
<1> DEFINE lists == Lists(Got(k, list))
<1>4. Got(k, list)[n] = IF n = k THEN list ELSE load[n]
    BY <1>1, <1>3 DEF Got
<1>5. lists[n] = IF Got(k, list)[n] = None THEN {} ELSE Got(k, list)[n]
    BY <1>1 DEF Lists
<1>6. view'.rows[n] = {[sock |-> t, match |-> MatchPeer(t, lists)] : t \in lists[n]}
    BY <1>1, <1>3 DEF Rows
<1>7. ASSUME NEW t \in socks, t.at = n, t.id = page[s].row.sock.id, Got(k, list)[n] # None
      PROVE  FALSE
    <2>1. t \in lists[n]
        <3>1. CASE n = k
            BY <1>3, <1>4, <1>5, <1>7, <3>1
        <3>2. CASE n # k
            BY <1>1, <1>3, <1>4, <1>5, <1>7, <3>2 DEF FreshInv
        <3>. QED
            BY <3>1, <3>2
    <2> DEFINE row == [sock |-> t, match |-> MatchPeer(t, lists)]
    <2>2. row \in view'.rows[n]
        BY <1>6, <2>1
    <2>3. row.sock.id = page[s].row.sock.id
        BY <1>7
    <2> HIDE DEF row
    <2>. QED
        BY <2>2, <2>3 DEF DisconnectSeen
<1>8. CASE Got(k, list)[n] = None
    <2>1. CASE n = k
        <3>1. SomeLeft("fail") /\ Use("fail")
            BY <1>3, <1>4, <1>8, <2>1
        <3>2. left'.fail < left.fail
            BY <3>1 DEF SomeLeft, Use, Bounds, TypeOK
        <3>. QED
            BY <1>2, <2>1, <3>2 DEF ListUnread
    <2>2. CASE n # k
        BY <1>1, <1>3, <1>4, <1>8, <2>2 DEF ListUnread
    <2>. QED
        BY <2>1, <2>2
<1>. QED
    BY <1>7, <1>8

\* When the page sees a disconnect done the connection is closed at its node, or the
\* node's peer list could not be read (load_observed_node_peers,
\* resolvePendingDisconnects), however connections come and go while the lists are read.
THEOREM ReportedCorrect == Spec => DisconnectReported
<1>1. TypeOK /\ SocketInv /\ FreshInv /\ [Next]_vars => FreshInv'
    BY FreshStep
<1>2. ASSUME TypeOK, SocketInv, FreshInv, [Next]_vars
      PROVE  [\A s \in Slot :
                page[s].pc = "disconnecting" /\ view' # view /\ DisconnectSeen(page[s], view'.rows) =>
                    \/ ListUnread(page[s].node)
                    \/ ~\E t \in socks : t.at = page[s].node /\ t.id = page[s].row.sock.id]_vars
    BY <1>2, ReportedStep
<1>. QED
    BY <1>1, <1>2, SocketsCorrect, FreshInit, PTL DEF Spec, DisconnectReported

=============================================================================
