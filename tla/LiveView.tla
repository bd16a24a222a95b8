------------------------------ MODULE LiveView ------------------------------
(***************************************************************************)
(* One browser watching one network at a time: the broadcast channel of    *)
(* cache changes and the event stream that reads it (api.rs,               *)
(* cache_changes_sse), and the page that refetches the network's snapshot  *)
(* when an event arrives (useNetworkData.ts).                              *)
(*                                                                         *)
(* The content of the cache is its version.  EventSource and SWR are       *)
(* libraries: the first reconnects by itself, the second keeps what it has *)
(* fetched per network, drops the answer to a request it has superseded    *)
(* and retries a request that failed.                                      *)
(***************************************************************************)
EXTENDS Integers, Sequences

CONSTANTS
    Network,
    Capacity,     \* of the broadcast channel
    StreamLimit,  \* bound: events on the wire before the server waits
    MaxVersion,   \* bound: changes of each network's cache
    MaxFailures,  \* bound: lost connections and failed requests
    MaxSwitches   \* bound: how often another network is selected

ASSUME ViewAssumption ==
    /\ Capacity \in Nat \ {0} /\ StreamLimit \in Nat \ {0}
    /\ MaxVersion \in Nat \ {0} /\ MaxFailures \in Nat /\ MaxSwitches \in Nat

VARIABLES
    version,    \* version[m]: changes of m's cache so far
    unsent,     \* networks changed since their last broadcast
    log,        \* the networks broadcast, in order
    network,    \* the network selected in the page
    link,       \* the event stream: "connecting", "open" or "closed"
    next,       \* the first broadcast the stream has not read
    stream,     \* events on the wire
    timer,      \* the debounce timer runs
    request,    \* the latest snapshot request: "none", "sent", "answered" or "retry"
    answer,     \* the version in its answer
    displayed,  \* displayed[m]: the version the page holds for m
    missed,     \* a broadcast has passed the page by since its last snapshot
    failures, switches

server == <<version, unsent, log>>
wire   == <<link, next, stream>>
page   == <<timer, request, answer, displayed>>
bounds == <<failures, switches>>
vars   == <<server, network, wire, page, missed, bounds>>

Unread == Len(log) - next + 1

Init ==
    /\ version = [m \in Network |-> 1]
    /\ unsent = {} /\ log = <<>>
    /\ network \in Network
    /\ link = "connecting" /\ next = 1 /\ stream = <<>>
    /\ timer = FALSE /\ request = "sent" /\ answer = 0
    /\ displayed = [m \in Network |-> 0]
    /\ missed = FALSE
    /\ failures = 0 /\ switches = 0

-----------------------------------------------------------------------------
(* The server. *)

CacheChanges(m) ==
    /\ version[m] < MaxVersion
    /\ version' = [version EXCEPT ![m] = @ + 1]
    /\ unsent' = unsent \cup {m}
    /\ UNCHANGED <<log, network, wire, page, missed, bounds>>

Broadcast(m) ==
    /\ m \in unsent
    /\ unsent' = unsent \ {m}
    /\ log' = Append(log, m)
    /\ missed' = (missed \/ (m = network /\ link # "open"))
    /\ UNCHANGED <<version, network, wire, page, bounds>>

\* A request for the stream arrives: it reads what is broadcast from now on.
Subscribe ==
    /\ link = "connecting"
    /\ link' = "open" /\ next' = Len(log) + 1 /\ stream' = <<>>
    /\ UNCHANGED <<server, network, page, missed, bounds>>

\* Lagging is passed over in silence.
LagIgnored ==
    /\ next' = Len(log) - Capacity + 1
    /\ UNCHANGED stream

Lagged ==
    /\ next' = Len(log) - Capacity + 1
    /\ stream' = Append(stream, "resync_required")

\* The stream takes the next broadcast, if it is still in the channel.
StreamEvent ==
    /\ link = "open" /\ Unread > 0 /\ Len(stream) < StreamLimit
    /\ IF Unread > Capacity THEN Lagged
       ELSE /\ next' = next + 1
            /\ stream' = IF log[next] = network THEN Append(stream, "cache_changed") ELSE stream
    /\ UNCHANGED <<server, network, link, page, missed, bounds>>

\* data_response
Answer ==
    /\ request = "sent"
    /\ request' = "answered" /\ answer' = version[network]
    /\ missed' = FALSE
    /\ UNCHANGED <<server, network, wire, timer, displayed, bounds>>

-----------------------------------------------------------------------------
(* The page. *)

\* Both kinds of event (re)start the timer.
ReceiveEvent ==
    /\ stream # <<>>
    /\ stream' = Tail(stream)
    /\ timer' = TRUE
    /\ UNCHANGED <<server, network, link, next, request, answer, displayed, missed, bounds>>

\* A request under way is taken to be enough.
RefreshUnlessFetching ==
    /\ timer /\ timer' = FALSE
    /\ request' = IF request = "none" THEN "sent" ELSE request
    /\ answer' = IF request = "none" THEN 0 ELSE answer
    /\ UNCHANGED <<server, network, wire, displayed, missed, bounds>>

Refresh ==
    /\ timer /\ timer' = FALSE
    /\ request' = "sent" /\ answer' = 0
    /\ UNCHANGED <<server, network, wire, displayed, missed, bounds>>

ShowAnswer ==
    /\ request = "answered"
    /\ displayed' = [displayed EXCEPT ![network] = answer]
    /\ request' = "none" /\ answer' = 0
    /\ UNCHANGED <<server, network, wire, timer, missed, bounds>>

Retry ==
    /\ request = "retry"
    /\ request' = "sent"
    /\ UNCHANGED <<server, network, wire, timer, answer, displayed, missed, bounds>>

\* An answer is kept that was meant for the old network.
SelectNetworkAnswerKept(m) ==
    /\ switches < MaxSwitches /\ switches' = switches + 1
    /\ m # network /\ network' = m
    /\ link' = "connecting" /\ stream' = <<>>
    /\ timer' = FALSE
    /\ request' = (IF request = "answered" THEN "answered" ELSE "sent")
    /\ missed' = FALSE
    /\ UNCHANGED <<server, next, answer, displayed, failures>>

\* The effect for the old network is cleaned up and the one for the new one runs.
SelectNetwork(m) ==
    /\ switches < MaxSwitches /\ switches' = switches + 1
    /\ m # network /\ network' = m
    /\ link' = "connecting" /\ stream' = <<>>
    /\ timer' = FALSE
    /\ request' = "sent" /\ answer' = 0
    /\ missed' = FALSE
    /\ UNCHANGED <<server, next, displayed, failures>>

-----------------------------------------------------------------------------
(* Failures. *)

Failure == failures < MaxFailures /\ failures' = failures + 1

RequestFails ==
    /\ request \in {"sent", "answered"} /\ Failure
    /\ request' = "retry" /\ answer' = 0
    /\ UNCHANGED <<server, network, wire, timer, displayed, missed, switches>>

\* What was on the wire or still to be read is lost, and the browser reconnects.
ConnectionLost ==
    /\ link = "open" /\ Failure
    /\ link' = "connecting" /\ stream' = <<>>
    /\ missed' = (missed \/ stream # <<>> \/ \E i \in next .. Len(log) : log[i] = network)
    /\ UNCHANGED <<server, network, next, page, switches>>

\* An answer that is no event stream: the browser gives up.
ConnectionRefused ==
    /\ link = "connecting" /\ Failure
    /\ link' = "closed"
    /\ UNCHANGED <<server, network, next, stream, page, missed, switches>>

Next ==
    \/ \E m \in Network : CacheChanges(m) \/ Broadcast(m) \/ SelectNetwork(m)
    \/ Subscribe \/ StreamEvent \/ Answer
    \/ ReceiveEvent \/ Refresh \/ ShowAnswer \/ Retry
    \/ RequestFails \/ ConnectionLost \/ ConnectionRefused

\* The server finishes each update, serves what is asked and feeds its streams; the
\* browser reconnects, delivers events and answers, and runs timers.
Fairness ==
    /\ \A m \in Network : WF_vars(Broadcast(m))
    /\ WF_vars(Subscribe) /\ WF_vars(StreamEvent) /\ WF_vars(Answer)
    /\ WF_vars(ReceiveEvent) /\ WF_vars(Refresh) /\ WF_vars(ShowAnswer) /\ WF_vars(Retry)

Spec == Init /\ [][Next]_vars /\ Fairness

-----------------------------------------------------------------------------
(* Properties *)

TypeOK ==
    /\ version \in [Network -> 1 .. MaxVersion]
    /\ unsent \subseteq Network
    /\ log \in Seq(Network) /\ next \in 1 .. Len(log) + 1
    /\ network \in Network
    /\ link \in {"connecting", "open", "closed"}
    /\ stream \in Seq({"cache_changed", "resync_required"}) /\ Len(stream) <= StreamLimit
    /\ timer \in BOOLEAN /\ missed \in BOOLEAN
    /\ request \in {"none", "sent", "answered", "retry"} /\ answer \in 0 .. MaxVersion
    /\ displayed \in [Network -> 0 .. MaxVersion]

\* Nothing is under way that would make the page look at the server again.
Settled ==
    /\ ~timer /\ request = "none" /\ stream = <<>>
    /\ network \notin unsent
    /\ link = "open" => Unread = 0

\* A page at rest shows the current cache, unless a broadcast was sent while it had no
\* stream or was lost with one: no change is forgotten between the broadcast channel
\* (which drops messages when the reader is slow), the debounce timer and a request
\* that is already under way when the event arrives.
NoLostUpdate == Settled => missed \/ displayed[network] = version[network]

\* A page that has not missed a broadcast does come to rest at the current cache.
UpdateShown == <>[](missed \/ displayed[network] = version[network])

\* What the page shows of a network is a state the network's cache has been in, and is
\* never followed by an earlier one, although answers, further requests and a change of
\* the network overtake each other (Mirror).
View == INSTANCE Mirror WITH current <- version, shown <- displayed
ViewRefined == View!Spec
=============================================================================
