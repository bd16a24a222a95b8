------------------------------ MODULE AutoMine ------------------------------
(***************************************************************************)
(* The auto-mine loop of a page (AutoMineButton.tsx): a timer, a request   *)
(* to mine when it fires, and the next timer when the request is answered. *)
(* When a network is selected whose data the page already has, the button  *)
(* stays and only its properties, the network and its nodes, change; when  *)
(* the data must be loaded first, the button goes and comes back new       *)
(* (BlockGraph.tsx).  Node ids are unique within a network only.           *)
(***************************************************************************)
EXTENDS Naturals, FiniteSets

CONSTANTS
    Network,
    Miner,       \* Miner[m]: ids of the nodes of network m that mine
    MaxTicks     \* bound: requests

ASSUME AutoMineAssumption == MaxTicks \in Nat

VARIABLES
    selected,  \* the network selected
    loaded,    \* networks whose data the page has
    loop,      \* the latest loop: its number, network and chosen node ids, whether it is on
    timer,     \* its timer runs
    requests,  \* requests to mine: the loop and button that sent it, its node, its answer
    ticks

autoVars == <<selected, loaded, loop, timer, requests, ticks>>

AutoMineInit ==
    /\ selected \in Network
    /\ loaded \in {{selected}, Network}  \* a new page, or one that has shown them all
    /\ loop = [number |-> 0, on |-> FALSE, network |-> selected, nodes |-> {}]
    /\ timer = FALSE /\ requests = {}
    /\ ticks = 0

\* handleStart, and the effect for the new configuration.
StartAutoMine ==
    /\ ~loop.on /\ selected \in loaded
    /\ \E nodes \in SUBSET Miner[selected] \ {{}} :
          loop' = [number |-> loop.number + 1, on |-> TRUE, network |-> selected, nodes |-> nodes]
    /\ timer' = TRUE
    /\ UNCHANGED <<selected, loaded, requests, ticks>>

\* stopAutoMine, and the clean-up of the effect.
Stopped == loop' = [loop EXCEPT !.on = FALSE] /\ timer' = FALSE

StopAutoMine ==
    /\ loop.on
    /\ Stopped
    /\ UNCHANGED <<selected, loaded, requests, ticks>>

\* mineNextBlock: the nodes are those of the network selected now.
SendMine ==
    /\ timer /\ timer' = FALSE
    /\ ticks < MaxTicks /\ ticks' = ticks + 1
    /\ \E n \in loop.nodes \cap Miner[selected] :
          requests' = requests \cup {[id |-> ticks, number |-> loop.number, button |-> TRUE, node |-> n,
                                      chosen |-> loop.network, network |-> selected, answer |-> "none"]}
    /\ UNCHANGED <<selected, loaded, loop>>

\* mineNextBlock when the selected network has none of the chosen ids.
NoMiner ==
    /\ timer /\ loop.nodes \cap Miner[selected] = {}
    /\ Stopped
    /\ UNCHANGED <<selected, loaded, requests, ticks>>

Answered(r, answer) ==
    /\ r.answer = "none"
    /\ requests' = (requests \ {r}) \cup {[r EXCEPT !.answer = answer]}
    /\ UNCHANGED <<selected, loaded, loop, timer, ticks>>

\* The loop that sent the request is not asked for.
TickWithoutCancel(r) ==
    /\ r.answer = "ok"
    /\ requests' = requests \ {r}
    /\ timer' = TRUE
    /\ UNCHANGED <<selected, loaded, loop, ticks>>

\* shouldContinue, and not cancelled.
Tick(r) ==
    /\ r.answer = "ok"
    /\ requests' = requests \ {r}
    /\ timer' = (timer \/ (loop.on /\ r.number = loop.number))
    /\ UNCHANGED <<selected, loaded, loop, ticks>>

\* Whichever loop of its button is on is stopped.
TickFails(r) ==
    /\ r.answer = "failed"
    /\ requests' = requests \ {r}
    /\ IF r.button THEN Stopped ELSE UNCHANGED <<loop, timer>>
    /\ UNCHANGED <<selected, loaded, ticks>>

\* handleNetworkChange: the button stays, or goes with its loop.
SelectNetwork(m) ==
    /\ m # selected /\ selected' = m
    /\ IF m \in loaded THEN UNCHANGED <<loop, timer, requests>>
       ELSE Stopped /\ requests' = {[r EXCEPT !.button = FALSE] : r \in requests}
    /\ UNCHANGED <<loaded, ticks>>

LoadNetwork ==
    /\ selected \notin loaded
    /\ loaded' = loaded \cup {selected}
    /\ UNCHANGED <<selected, loop, timer, requests, ticks>>

UserNext == StartAutoMine \/ \E m \in Network : SelectNetwork(m)

PageNext ==
    \/ StopAutoMine \/ SendMine \/ NoMiner \/ LoadNetwork
    \/ \E r \in requests : Tick(r) \/ TickFails(r)

-----------------------------------------------------------------------------
(* Properties *)

\* While auto-mine is on there is exactly one loop: one timer, or one request whose
\* answer starts the next.  Late answers of stopped loops start no second one and do
\* not leave auto-mine on with nothing to come; when it is off no timer runs.
OneLoop ==
    Cardinality({r \in requests : r.number = loop.number /\ loop.on}) + (IF timer THEN 1 ELSE 0)
        = IF loop.on THEN 1 ELSE 0

\* "set a timer, select one or more miners, and optionally randomize which selected
\* node mines the next block" (README.md): only nodes that were selected mine.
MinesSelectedNodes == \A r \in requests : r.network = r.chosen
=============================================================================
