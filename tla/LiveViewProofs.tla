--------------------------- MODULE LiveViewProofs ---------------------------
(***************************************************************************)
(* No change of the cache is forgotten between the broadcast channel, the  *)
(* event stream, the debounce timer and the request (LiveView), for any    *)
(* number of networks and any capacity of the channel.                     *)
(***************************************************************************)
EXTENDS LiveView, SequenceTheorems, TLAPS

Events == {"cache_changed", "resync_required"}

ServerType ==
    /\ version \in [Network -> 1 .. MaxVersion]
    /\ unsent \subseteq Network /\ network \in Network /\ log \in Seq(Network)

WireType ==
    /\ link \in {"connecting", "open", "closed"}
    /\ next \in Nat \ {0} /\ next <= Len(log) + 1
    /\ stream \in Seq(Events) /\ Len(stream) <= StreamLimit

FlagType == timer \in BOOLEAN /\ missed \in BOOLEAN

PageType ==
    /\ request \in {"none", "sent", "answered", "retry"} /\ answer \in 0 .. MaxVersion
    /\ displayed \in [Network -> 0 .. MaxVersion]

LEMMA TypeParts == TypeOK <=> ServerType /\ WireType /\ FlagType /\ PageType
<1>1. log \in Seq(Network) => Len(log) \in Nat
    OBVIOUS
<1>2. log \in Seq(Network) =>
        (next \in 1 .. Len(log) + 1 <=> next \in Nat \ {0} /\ next <= Len(log) + 1)
    BY <1>1
<1>. QED
    BY <1>2, Zenon DEF TypeOK, ServerType, WireType, FlagType, PageType, Events

LEMMA NothingOnWire == <<>> \in Seq(Events) /\ Len(<<>>) = 0
OBVIOUS

LEMMA TypeInit == Init => TypeOK
<1> SUFFICES ASSUME Init PROVE ServerType /\ WireType /\ FlagType /\ PageType
    BY TypeParts
<1> USE ViewAssumption
<1>1. ServerType
    <2>1. log \in Seq(Network)
        BY DEF Init
    <2>. QED
        BY <2>1 DEF Init, ServerType
<1>2. WireType
    <2>1. Len(log) = 0 /\ Len(stream) = 0 /\ stream \in Seq(Events)
        BY NothingOnWire DEF Init
    <2>. QED
        BY <2>1 DEF Init, WireType
<1>3. FlagType
    BY Zenon DEF Init, FlagType
<1>4. PageType
    BY DEF Init, PageType
<1>. QED
    BY <1>1, <1>2, <1>3, <1>4

LEMMA TypeServer == ServerType /\ [Next]_vars => ServerType'
<1> SUFFICES ASSUME ServerType, [Next]_vars
             PROVE  ServerType'
    OBVIOUS
<1> USE ViewAssumption DEF ServerType
<1>1. ASSUME NEW m \in Network, CacheChanges(m)
      PROVE  ServerType'
    BY <1>1 DEF CacheChanges
<1>2. ASSUME NEW m \in Network, Broadcast(m)
      PROVE  ServerType'
    BY <1>2 DEF Broadcast
<1>3. ASSUME NEW m \in Network, SelectNetwork(m)
      PROVE  ServerType'
    BY <1>3 DEF SelectNetwork, server
<1>4. CASE UNCHANGED <<server, network>>
    BY <1>4 DEF server
<1>5. ASSUME \/ Subscribe \/ StreamEvent \/ Answer \/ ReceiveEvent \/ Refresh \/ ShowAnswer \/ Retry
             \/ RequestFails \/ ConnectionLost \/ ConnectionRefused \/ UNCHANGED vars
      PROVE  UNCHANGED <<server, network>>
    BY <1>5 DEF Subscribe, StreamEvent, Answer, ReceiveEvent, Refresh, ShowAnswer, Retry,
                RequestFails, ConnectionLost, ConnectionRefused, vars
<1>. QED
    BY <1>1, <1>2, <1>3, <1>4, <1>5 DEF Next

LEMMA TypeWire == ServerType /\ WireType /\ [Next]_vars => WireType'
<1> SUFFICES ASSUME ServerType, WireType, [Next]_vars
             PROVE  WireType'
    OBVIOUS
<1>0. Len(log) \in Nat /\ Len(stream) \in Nat
    BY DEF ServerType, WireType
<1>1. CASE \E m \in Network : Broadcast(m)
    <2>1. UNCHANGED wire /\ Len(log') = Len(log) + 1
        BY <1>1 DEF Broadcast, ServerType
    <2>. QED
        BY <1>0, <2>1 DEF wire, WireType
<1>2. CASE \E m \in Network : SelectNetwork(m)
    BY <1>0, <1>2, NothingOnWire, ViewAssumption DEF SelectNetwork, server, WireType
<1>3. CASE Subscribe
    BY <1>0, <1>3, NothingOnWire, ViewAssumption DEF Subscribe, server, WireType
<1>4. CASE StreamEvent
    <2>1. Unread > 0 /\ Len(stream) < StreamLimit /\ UNCHANGED <<log, link>>
        BY <1>4 DEF StreamEvent, server
    <2>2. next' \in Nat \ {0} /\ next' <= Len(log) + 1
        <3>1. CASE Unread > Capacity
            <4>1. next' = Len(log) - Capacity + 1
                BY <1>4, <3>1 DEF StreamEvent, Lagged
            <4>. QED
                BY <1>0, <3>1, <4>1, ViewAssumption DEF Unread, WireType
        <3>2. CASE ~(Unread > Capacity)
            <4>1. next' = next + 1
                BY <1>4, <3>2 DEF StreamEvent
            <4>. QED
                BY <1>0, <2>1, <4>1 DEF Unread, WireType
        <3>. QED
            BY <3>1, <3>2
    <2>3. stream' \in Seq(Events) /\ Len(stream') <= StreamLimit
        <3>1. \/ stream' = stream
              \/ stream' = Append(stream, "cache_changed")
              \/ stream' = Append(stream, "resync_required")
            BY <1>4 DEF StreamEvent, Lagged
        <3>2. CASE stream' = stream
            BY <3>2 DEF WireType
        <3>3. ASSUME NEW e \in Events, stream' = Append(stream, e)
              PROVE  stream' \in Seq(Events) /\ Len(stream') <= StreamLimit
            BY <1>0, <2>1, <3>3, ViewAssumption DEF WireType
        <3>. QED
            BY <3>1, <3>2, <3>3 DEF Events
    <2>. QED
        BY <2>1, <2>2, <2>3 DEF WireType
<1>5. CASE ReceiveEvent
    <2>1. stream' \in Seq(Events) /\ Len(stream') <= StreamLimit
        BY <1>0, <1>5, ViewAssumption DEF ReceiveEvent, WireType
    <2>. QED
        BY <1>5, <2>1 DEF ReceiveEvent, server, WireType
<1>6. CASE ConnectionLost
    BY <1>6, NothingOnWire, ViewAssumption DEF ConnectionLost, server, WireType
<1>7. CASE ConnectionRefused
    BY <1>7 DEF ConnectionRefused, server, WireType
<1>8. ASSUME \/ \E m \in Network : CacheChanges(m)
             \/ Answer \/ Refresh \/ ShowAnswer \/ Retry \/ RequestFails \/ UNCHANGED vars
      PROVE  UNCHANGED <<wire, log>>
    BY <1>8 DEF CacheChanges, Answer, Refresh, ShowAnswer, Retry, RequestFails, vars, server
<1>9. CASE UNCHANGED <<wire, log>>
    BY <1>9 DEF wire, WireType
<1>. QED
    BY <1>1, <1>2, <1>3, <1>4, <1>5, <1>6, <1>7, <1>8, <1>9 DEF Next

LEMMA TypeFlags == FlagType /\ [Next]_vars => FlagType'
<1> SUFFICES ASSUME FlagType, [Next]_vars
             PROVE  FlagType'
    OBVIOUS
<1>1. timer' \in {TRUE, FALSE, timer}
    BY DEF Next, CacheChanges, Broadcast, SelectNetwork, Subscribe, StreamEvent, Answer, ReceiveEvent,
           Refresh, ShowAnswer, Retry, RequestFails, ConnectionLost, ConnectionRefused, vars, page
<1>2. missed' \in BOOLEAN
    <2>1. CASE \E m \in Network : Broadcast(m)
        BY <2>1, Zenon DEF Broadcast
    <2>2. CASE ConnectionLost
        BY <2>2, Zenon DEF ConnectionLost
    <2>3. CASE ~(\E m \in Network : Broadcast(m)) /\ ~ConnectionLost
        <3>1. missed' \in {FALSE, missed}
            BY <2>3 DEF Next, CacheChanges, SelectNetwork, Subscribe, StreamEvent, Answer, ReceiveEvent,
                   Refresh, ShowAnswer, Retry, RequestFails, ConnectionRefused, vars
        <3>. QED
            BY <3>1, Zenon DEF FlagType
    <2>. QED
        BY <2>1, <2>2, <2>3
<1>. QED
    BY <1>1, <1>2, Zenon DEF FlagType

LEMMA TypePage == ServerType /\ PageType /\ [Next]_vars => PageType'
<1> SUFFICES ASSUME ServerType, PageType, [Next]_vars
             PROVE  PageType'
    OBVIOUS
<1> USE ViewAssumption DEF PageType, page
<1>1. CASE \E m \in Network : CacheChanges(m) \/ Broadcast(m) \/ SelectNetwork(m)
    <2>1. displayed' = displayed /\ request' \in {request, "sent"} /\ answer' \in {answer, 0}
        BY <1>1 DEF CacheChanges, Broadcast, SelectNetwork
    <2>. QED
        BY <2>1
<1>2. CASE Answer
    BY <1>2 DEF Answer, ServerType
<1>3. CASE ReceiveEvent \/ Refresh \/ Retry \/ RequestFails
    BY <1>3 DEF ReceiveEvent, Refresh, Retry, RequestFails
<1>4. CASE ShowAnswer
    <2>1. displayed' = [displayed EXCEPT ![network] = answer] /\ request' = "none" /\ answer' = 0
        BY <1>4 DEF ShowAnswer
    <2>2. displayed' \in [Network -> 0 .. MaxVersion]
        BY <2>1
    <2>3. 0 \in 0 .. MaxVersion
        OBVIOUS
    <2>. QED
        BY <2>1, <2>2, <2>3
<1>5. CASE Subscribe \/ StreamEvent \/ ConnectionLost \/ ConnectionRefused \/ UNCHANGED vars
    BY <1>5 DEF Subscribe, StreamEvent, ConnectionLost, ConnectionRefused, vars
<1>. QED
    BY <1>1, <1>2, <1>3, <1>4, <1>5 DEF Next

LEMMA TypeStep == TypeOK /\ [Next]_vars => TypeOK'
<1>1. TypeOK <=> ServerType /\ WireType /\ FlagType /\ PageType
    BY TypeParts
<1>. QED
    BY <1>1, TypeServer, TypeWire, TypeFlags, TypePage, PTL

\* The stream, the log and the requests of the page are well formed: the stream's place
\* is in the log or just behind it, and no more is on the wire than fits.
THEOREM TypeCorrect == Spec => []TypeOK
BY TypeInit, TypeStep, PTL DEF Spec

-----------------------------------------------------------------------------
(* A change the page does not show is either on its way to the page, or a  *)
(* request will bring it, or its broadcast has passed the page by.         *)

\* What is on its way to the page.
Coming ==
    \/ timer \/ stream # <<>> \/ network \in unsent
    \/ link = "open" /\ \E i \in next .. Len(log) : log[i] = network

Requested ==
    \/ request \in {"sent", "retry"}
    \/ request = "answered" /\ answer = version[network]

Shown == request = "none" /\ displayed[network] = version[network]

ViewInv ==
    /\ link # "open" => stream = <<>>
    /\ missed \/ Coming \/ Requested \/ Shown

LEMMA ViewServer ==
    ASSUME TypeOK, ViewInv, NEW m \in Network, CacheChanges(m) \/ Broadcast(m) \/ SelectNetwork(m)
    PROVE  ViewInv'
<1>1. log \in Seq(Network) /\ Len(log) \in Nat /\ next \in Nat /\ next <= Len(log) + 1
    BY TypeParts DEF ServerType, WireType
<1>2. CASE CacheChanges(m)
    <2>1. /\ UNCHANGED <<network, link, next, stream, log, timer, request, answer, displayed, missed>>
          /\ unsent' = unsent \cup {m} /\ \A k \in Network : k # m => version'[k] = version[k]
        BY <1>2, TypeParts DEF CacheChanges, ServerType, wire, page
    <2>2. network \in Network
        BY DEF TypeOK
    <2>. QED
        BY <2>1, <2>2, Zenon DEF ViewInv, Coming, Requested, Shown
<1>3. CASE Broadcast(m)
    <2>1. /\ UNCHANGED <<version, network, link, next, stream, timer, request, answer, displayed>>
          /\ unsent' = unsent \ {m} /\ log' = Append(log, m)
        BY <1>3 DEF Broadcast, wire, page
    <2>2. missed' <=> missed \/ (m = network /\ link # "open")
        BY <1>3, Zenon DEF Broadcast
    <2>3. /\ next .. Len(log) \subseteq next .. Len(log')
          /\ Len(log) + 1 \in next .. Len(log') /\ log'[Len(log) + 1] = m
          /\ \A i \in next .. Len(log) : i \in 1 .. Len(log) => log'[i] = log[i]
        BY <1>1, <2>1
    <2>4. \A i \in next .. Len(log) : i \in 1 .. Len(log)
        BY TypeParts, <1>1 DEF WireType
    <2>5. Coming => Coming' \/ missed'
        BY <2>1, <2>2, <2>3, <2>4, Zenon DEF Coming
    <2>. QED
        BY <2>1, <2>2, <2>5, Zenon DEF ViewInv, Requested, Shown
<1>4. CASE SelectNetwork(m)
    BY <1>4 DEF SelectNetwork, ViewInv, Requested
<1>. QED
    BY <1>2, <1>3, <1>4

LEMMA ViewStream ==
    ASSUME TypeOK, ViewInv, StreamEvent
    PROVE  ViewInv'
<1>1. /\ link = "open" /\ UNCHANGED <<server, network, link, page, missed>>
      /\ next \in Nat /\ Len(log) \in Nat /\ Unread > 0 /\ stream \in Seq(Events)
    BY TypeParts DEF StreamEvent, ServerType, WireType
<1>2. Coming => Coming'
    <2>1. CASE stream' # <<>>
        BY <2>1 DEF Coming
    <2>2. CASE stream' = <<>>
        <3>1. stream' # Append(stream, "resync_required") /\ stream' # Append(stream, "cache_changed")
            <4>1. ASSUME NEW e \in Events PROVE Append(stream, e) # <<>>
                BY <1>1, AppendProperties
            <4>. QED
                BY <2>2, <4>1 DEF Events
        <3>2. /\ next' = next + 1 /\ stream' = stream
              /\ log[next] # network
            BY <3>1 DEF StreamEvent, Lagged
        <3>3. \A i \in next .. Len(log) : log[i] = network => i \in next' .. Len(log)
            BY <1>1, <3>2
        <3>. QED
            BY <1>1, <3>2, <3>3, Zenon DEF Coming, server, page
    <2>. QED
        BY <2>1, <2>2
<1>. QED
    BY <1>1, <1>2, Zenon DEF ViewInv, Requested, Shown, server, page

LEMMA ViewRequests ==
    ASSUME TypeOK, ViewInv, Answer \/ Refresh \/ ShowAnswer \/ Retry \/ RequestFails
    PROVE  ViewInv'
<1>1. UNCHANGED <<server, network, wire>> /\ network \in Network
    BY DEF Answer, Refresh, ShowAnswer, Retry, RequestFails, TypeOK
<1>2. CASE Answer
    BY <1>1, <1>2 DEF Answer, ViewInv, Requested, server, wire
<1>3. CASE Refresh \/ Retry \/ RequestFails
    BY <1>1, <1>3 DEF Refresh, Retry, RequestFails, ViewInv, Requested, server, wire
<1>4. CASE ShowAnswer
    <2>1. /\ request = "answered" /\ request' = "none" /\ displayed'[network] = answer
          /\ UNCHANGED <<timer, missed>>
        BY <1>1, <1>4 DEF ShowAnswer, TypeOK
    <2>2. Coming => Coming'
        BY <1>1, <2>1, Zenon DEF Coming, server, wire
    <2>3. Requested => Shown'
        BY <1>1, <2>1 DEF Requested, Shown, server
    <2>. QED
        BY <1>1, <2>1, <2>2, <2>3, Zenon DEF ViewInv, Shown, server, wire
<1>. QED
    BY <1>2, <1>3, <1>4

LEMMA ViewWire ==
    ASSUME TypeOK, ViewInv, Subscribe \/ ReceiveEvent \/ ConnectionLost \/ ConnectionRefused
    PROVE  ViewInv'
<1>1. UNCHANGED <<server, network, request, answer, displayed>>
    BY DEF Subscribe, ReceiveEvent, ConnectionLost, ConnectionRefused, page
<1>2. (link # "open" => stream = <<>>) /\ (missed \/ Coming \/ Requested \/ Shown)
    BY DEF ViewInv
<1>3. (Requested => Requested') /\ (Shown => Shown')
    BY <1>1 DEF Requested, Shown, server
<1>4. CASE Subscribe
    <2>1. UNCHANGED <<timer, missed>> /\ link = "connecting" /\ link' = "open" /\ stream' = <<>>
        BY <1>4 DEF Subscribe, page
    <2>2. Coming => Coming'
        BY <1>1, <1>2, <2>1 DEF Coming, server
    <2>. QED
        BY <1>2, <1>3, <2>1, <2>2 DEF ViewInv
<1>5. CASE ReceiveEvent
    <2>1. timer' = TRUE /\ link' = link /\ stream # <<>>
        BY <1>5 DEF ReceiveEvent
    <2>. QED
        BY <1>2, <2>1 DEF ViewInv, Coming
<1>6. CASE ConnectionLost
    <2>1. /\ UNCHANGED timer /\ link' = "connecting" /\ stream' = <<>>
        BY <1>6 DEF ConnectionLost, page
    <2>2. missed' <=> missed \/ stream # <<>> \/ \E i \in next .. Len(log) : log[i] = network
        BY <1>6, Zenon DEF ConnectionLost
    <2>3. Coming => missed' \/ Coming'
        BY <1>1, <2>1, <2>2, Zenon DEF Coming, server
    <2>. QED
        BY <1>2, <1>3, <2>1, <2>2, <2>3, Zenon DEF ViewInv
<1>7. CASE ConnectionRefused
    <2>1. UNCHANGED <<timer, missed, stream, next>> /\ link = "connecting" /\ link' = "closed"
        BY <1>7 DEF ConnectionRefused, page
    <2>2. Coming => Coming'
        BY <1>1, <1>2, <2>1 DEF Coming, server
    <2>. QED
        BY <1>2, <1>3, <2>1, <2>2 DEF ViewInv
<1>. QED
    BY <1>4, <1>5, <1>6, <1>7

LEMMA ViewStep ==
    ASSUME TypeOK, ViewInv, [Next]_vars
    PROVE  ViewInv'
<1>1. CASE UNCHANGED vars
    BY <1>1 DEF vars, server, wire, page, ViewInv, Coming, Requested, Shown
<1>. QED
    BY <1>1, ViewServer, ViewStream, ViewRequests, ViewWire DEF Next

\* A page at rest shows the current cache unless a broadcast has passed it by
\* (cache_changes_sse, useNetworkData): a lagging stream says so with resync_required,
\* and the debounce timer always ends in a request of its own.
THEOREM UpdatesCorrect == Spec => []NoLostUpdate
<1>1. Init => ViewInv
    BY DEF Init, ViewInv, Requested
<1>2. TypeOK /\ ViewInv => NoLostUpdate
    <2> SUFFICES ASSUME TypeOK, ViewInv, Settled
                 PROVE  missed \/ displayed[network] = version[network]
        BY DEF NoLostUpdate
    <2>1. link = "open" => ~ \E i \in next .. Len(log) : log[i] = network
        <3> SUFFICES ASSUME link = "open"
                     PROVE  next .. Len(log) = {}
            OBVIOUS
        <3>1. Unread = 0
            BY DEF Settled
        <3>2. next \in Nat /\ Len(log) \in Nat
            BY TypeParts DEF WireType, ServerType
        <3>. QED
            BY <3>1, <3>2 DEF Unread
    <2>2. ~Coming
        BY <2>1 DEF Settled, Coming
    <2>3. ~Requested
        BY DEF Settled, Requested
    <2>. QED
        BY <2>2, <2>3 DEF ViewInv, Shown
<1>3. TypeOK /\ ViewInv /\ [Next]_vars => ViewInv'
    BY ViewStep
<1>. QED
    BY <1>1, <1>2, <1>3, TypeCorrect, PTL DEF Spec


-----------------------------------------------------------------------------
(* The page mirrors the caches: LiveView implements Mirror, step by step.  *)

\* An answer on its way is no older than what the page shows of its network, and
\* nothing shown is newer than the cache.
MirrorInv ==
    /\ \A m \in Network : displayed[m] <= version[m]
    /\ request = "answered" => displayed[network] <= answer /\ answer <= version[network]

\* Only two kinds of steps change what is mirrored.
LEMMA MirrorSteps ==
    ASSUME [Next]_vars
    PROVE  \/ UNCHANGED <<version, displayed>>
           \/ ShowAnswer
           \/ \E m \in Network : CacheChanges(m)
BY DEF Next, Broadcast, SelectNetwork, Subscribe, StreamEvent, Answer, ReceiveEvent, Refresh, Retry,
       RequestFails, ConnectionLost, ConnectionRefused, vars, server, page

\* Of these and of all others, only an answer of the server makes a request answered.
LEMMA AnswerSteps ==
    ASSUME [Next]_vars
    PROVE  \/ request' # "answered"
           \/ Answer
           \/ UNCHANGED <<request, answer, network>>
BY DEF Next, CacheChanges, Broadcast, SelectNetwork, Subscribe, StreamEvent, ReceiveEvent, Refresh,
       ShowAnswer, Retry, RequestFails, ConnectionLost, ConnectionRefused, vars, server, page

LEMMA MirrorStep ==
    ASSUME TypeOK, MirrorInv, [Next]_vars
    PROVE  MirrorInv'
<1>1. /\ version \in [Network -> Nat] /\ displayed \in [Network -> Nat]
      /\ network \in Network /\ answer \in Nat
    BY ViewAssumption DEF TypeOK
<1>2. CASE UNCHANGED <<version, displayed>>
    <2>1. CASE Answer
        BY <1>1, <1>2, <2>1 DEF Answer, MirrorInv
    <2>2. CASE request' # "answered" \/ UNCHANGED <<request, answer, network>>
        BY <1>2, <2>2 DEF MirrorInv
    <2>. QED
        BY <2>1, <2>2, AnswerSteps
<1>3. CASE ShowAnswer
    <2>1. /\ displayed' = [displayed EXCEPT ![network] = answer] /\ version' = version
          /\ request' = "none" /\ answer <= version[network]
        BY <1>3 DEF ShowAnswer, MirrorInv, server
    <2>2. ASSUME NEW m \in Network
          PROVE  displayed'[m] <= version'[m]
        <3>1. displayed'[m] = IF m = network THEN answer ELSE displayed[m]
            BY <1>1, <2>1
        <3>. QED
            BY <2>1, <3>1 DEF MirrorInv
    <2>. QED
        BY <2>1, <2>2 DEF MirrorInv
<1>4. ASSUME NEW k \in Network, CacheChanges(k)
      PROVE  MirrorInv'
    <2>1. /\ version' = [version EXCEPT ![k] = version[k] + 1]
          /\ UNCHANGED <<request, answer, displayed, network>>
        BY <1>4 DEF CacheChanges, page
    <2>2. ASSUME NEW m \in Network
          PROVE  version'[m] \in Nat /\ version[m] <= version'[m]
        <3>1. version'[m] = IF m = k THEN version[k] + 1 ELSE version[m]
            BY <1>1, <2>1
        <3>. QED
            BY <1>1, <3>1
    <2>3. ASSUME NEW m \in Network
          PROVE  displayed'[m] <= version'[m]
        BY <1>1, <2>1, <2>2 DEF MirrorInv
    <2>4. request' = "answered" => displayed'[network'] <= answer' /\ answer' <= version'[network']
        BY <1>1, <2>1, <2>2 DEF MirrorInv
    <2>. QED
        BY <2>3, <2>4 DEF MirrorInv
<1>. QED
    BY <1>2, <1>3, <1>4, MirrorSteps

\* Every step of the page and of the server is one of the mirror, or none.
LEMMA StepMirrored ==
    ASSUME TypeOK, MirrorInv, [Next]_vars
    PROVE  [View!Next]_(View!mirrorVars)
<1>1. version \in [Network -> Nat] /\ displayed \in [Network -> Nat] /\ network \in Network /\ answer \in Nat
    BY ViewAssumption DEF TypeOK
<1>2. CASE UNCHANGED <<version, displayed>>
    BY <1>2 DEF View!mirrorVars
<1>3. CASE ShowAnswer
    <2>1. /\ displayed' = [displayed EXCEPT ![network] = answer] /\ version' = version
          /\ displayed[network] <= answer /\ answer <= version[network]
        BY <1>3 DEF ShowAnswer, MirrorInv, server
    <2>2. CASE answer = displayed[network]
        <3>1. displayed' = displayed
            BY <1>1, <2>1, <2>2
        <3>. QED
            BY <2>1, <3>1 DEF View!mirrorVars
    <2>3. CASE answer # displayed[network]
        <3>1. answer \in displayed[network] + 1 .. version[network]
            BY <1>1, <2>1, <2>3
        <3>2. View!Show(network)
            BY <2>1, <3>1 DEF View!Show
        <3>. QED
            BY <1>1, <3>2 DEF View!Next
    <2>. QED
        BY <2>2, <2>3
<1>4. ASSUME NEW m \in Network, CacheChanges(m)
      PROVE  View!Change(m)
    BY <1>4 DEF CacheChanges, View!Change, page
<1>. QED
    BY <1>2, <1>3, <1>4, MirrorSteps DEF View!Next

\* What a page shows of a network is a state the network's cache has been in, and what
\* it shows next is later, whatever becomes of streams, timers, answers and requests and
\* whichever network is selected meanwhile (useNetworkData).
THEOREM ViewImplementsMirror == Spec => ViewRefined
<1>1. Init => MirrorInv
    BY DEF Init, MirrorInv
<1>2. TypeOK /\ MirrorInv /\ [Next]_vars => MirrorInv'
    BY MirrorStep
<1>3. Init => View!Init
    BY DEF Init, View!Init
<1>4. TypeOK /\ MirrorInv /\ [Next]_vars => [View!Next]_(View!mirrorVars)
    BY StepMirrored
<1>. QED
    BY <1>1, <1>2, <1>3, <1>4, TypeCorrect, PTL DEF Spec, ViewRefined, View!Spec

=============================================================================
