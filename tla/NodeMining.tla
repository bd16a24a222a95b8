----------------------------- MODULE NodeMining -----------------------------
(***************************************************************************)
(* Requests that mine on one Bitcoin Core node, or are paid by its faucet: *)
(* mine_block and faucet of api.rs, the wallet calls of bitcoin_core.rs    *)
(* and, on a signet, signet_mining.rs with its lock and its external miner *)
(* process.                                                                *)
(*                                                                         *)
(* Every call to the node is one step, "heard" or answered too late; other *)
(* requests, other miners, rewinds and restarts of the node come between.  *)
(* A request whose client has gone is dropped: the call under way is still *)
(* made, the lock is free at once, and a miner process runs on.            *)
(***************************************************************************)
EXTENDS Integers, FiniteSets, Sequences

CONSTANTS
    Request,
    Form,       \* what may be asked: [kind, amount, count, exclude, target]
    Start,      \* how a run starts: [network, funds, faucet, miner, trouble]
    Maturity,   \* a block's reward can be spent under this many blocks (100)
    MaxRefill   \* MAX_FAUCET_REFILL_BLOCKS (200)

ASSUME MiningAssumption ==
    /\ Maturity \in Nat /\ MaxRefill \in Nat /\ MaxRefill > Maturity
    /\ \A s \in Start :
        /\ s.trouble \in Nat /\ s.funds \in Seq({"faucet", "miner", "other"})
        /\ {s.faucet, s.miner} \subseteq {"absent", "closed", "open"}
    /\ \A f \in Form : f.kind \in {"faucet", "mine"} /\ {f.amount, f.count} \subseteq Nat
    /\ "other" \notin Request

VARIABLES
    network,   \* network_type of the node
    wallet,    \* the node's wallets: "absent", "closed" or "open"
    mined,     \* every block mined so far, in that order: [by, to]
    chain,     \* the active chain, by the numbers of its blocks
    spent,     \* rewards spent from the faucet wallet
    form,      \* form[r]: what r asked for
    pc,        \* pc[r]: the call r makes next, or how it ended
    left,      \* blocks r has still to mine
    refilled,  \* mined_blocks of send_faucet_transaction
    before,    \* best_hash_before of mine_one_block
    hashes,    \* mined_blocks of signet_mining::mine_blocks
    queue,     \* SIGNET_MINING_LOCK: its holder, and those who wait
    miner,     \* r's miner process: its state and the block it mines on
    dropped,   \* requests whose client has gone
    trouble,   \* bound: how many calls may yet fail or go unanswered, miners
               \* be faulty, clients go, blocks of others come, and so on
    unheard,   \* requests one call of which failed or was not answered
    paid,      \* payments made for r
    robbed,    \* requests during which others were paid
    crowded,   \* requests during which a block of others joined the chain
    misled,    \* faucet requests that looked at the balance after such a block
    rewound,   \* requests during which the chain was rewound
    restarted  \* requests during which the node restarted

nodeVars == <<network, wallet, mined, chain, spent>>
walkVars == <<left, refilled, before, hashes>>
troubleVars == <<trouble, unheard>>
historyVars == <<paid, robbed, crowded, misled, rewound, restarted>>
vars == <<nodeVars, form, pc, walkVars, queue, miner, dropped, troubleVars, historyVars>>

Calls == {"list", "load", "create", "send", "balance", "address", "generate",
          "before", "spawn", "after"}
Ended == {"refused", "done", "short", "noWallet", "failed", "gone"}

Running(r) == pc[r] \notin Ended \cup {"new"}

Wallet(r) == IF form[r].kind = "faucet" THEN "faucet" ELSE "miner"

Tip == IF chain = <<>> THEN 0 ELSE chain[Len(chain)]

Rewards(blocks) == Cardinality({i \in DOMAIN blocks : mined[blocks[i]].to = "faucet"})

Immature == LET ripe == IF Len(chain) > Maturity THEN Len(chain) - Maturity ELSE 0
            IN  Rewards(SubSeq(chain, ripe + 1, Len(chain)))

Least(m, n) == IF m < n THEN m ELSE n

Funds == Rewards(chain) - Immature - spent

-----------------------------------------------------------------------------
(* The answer to a call of r. An error, or no answer in time, is the end of *)
(* the request; so is being dropped. Either way the lock is released.       *)

\* A queue that r has left, from its head or from between others.
Without(q, r) ==
    IF \E i \in DOMAIN q : q[i] = r
    THEN LET i == CHOOSE i \in DOMAIN q : q[i] = r
         IN  [j \in 1 .. Len(q) - 1 |-> IF j < i THEN q[j] ELSE q[j + 1]]
    ELSE q

\* A bug Goes guards against: the lock is given back on success only.
GoesHoldingLock(r, next) ==
    LET to == IF r \in dropped THEN "gone" ELSE next
    IN  /\ pc' = [pc EXCEPT ![r] = to]
        /\ queue' = IF to = "done" THEN Without(queue, r) ELSE queue
        /\ UNCHANGED <<network, form, dropped>>

Goes(r, next) ==
    LET to == IF r \in dropped THEN "gone" ELSE next
    IN  /\ pc' = [pc EXCEPT ![r] = to]
        /\ queue' = IF to \in Ended THEN Without(queue, r) ELSE queue
        /\ UNCHANGED <<network, form, dropped>>

Answered(r, next) == Goes(r, next) /\ UNCHANGED troubleVars

Trouble == trouble > 0 /\ trouble' = trouble - 1

\* The call fails, or its answer comes too late.
Unanswered(r, next) ==
    /\ Goes(r, next)
    /\ IF r \in dropped THEN UNCHANGED troubleVars
       ELSE Trouble /\ unheard' = unheard \cup {r}

At(r, call) == pc[r] = call

\* The call does not reach the node, or fails there. Only load_wallet may.
CallFails(r) ==
    /\ pc[r] \in Calls
    /\ Unanswered(r, IF At(r, "load") THEN "create" ELSE "failed")
    /\ UNCHANGED <<nodeVars, walkVars, miner, historyVars>>

-----------------------------------------------------------------------------
(* What the handlers, and the dispatch on the network, refuse.              *)

\* supports_controls and supports_mining
Supports(f) == f.target = "miner"

\* mine_new_blocks_with_options
Unsupported(f) == f.kind = "mine" /\ (f.count = 0 \/ (network = "signet" /\ f.exclude))

Refused(f) ==
    \/ ~Supports(f) \/ Unsupported(f)
    \/ f.kind = "faucet" /\ (network # "regtest" \/ f.amount = 0)

Submit(r, f) ==
    /\ At(r, "new")
    /\ form' = [form EXCEPT ![r] = IF Refused(f) THEN @ ELSE f]
    /\ left' = [left EXCEPT ![r] = IF Refused(f) THEN @ ELSE f.count]
    /\ LET locks == ~Refused(f) /\ network = "signet"
       IN  /\ pc' = [pc EXCEPT ![r] = IF Refused(f) THEN "refused"
                                      ELSE IF locks THEN "lock" ELSE "list"]
           /\ queue' = IF locks THEN Append(queue, r) ELSE queue
    /\ UNCHANGED <<nodeVars, refilled, before, hashes, miner, dropped, troubleVars, historyVars>>

\* A bug Locked guards against: the lock is not waited for.
LockedAny(r) == TRUE

Locked(r) == Head(queue) = r

Lock(r) ==
    /\ At(r, "lock") /\ Locked(r)
    /\ pc' = [pc EXCEPT ![r] = "list"]
    /\ UNCHANGED <<nodeVars, form, walkVars, queue, miner, dropped, troubleVars, historyVars>>

-----------------------------------------------------------------------------
(* ensure_wallet_loaded                                                     *)

WalletReady(r) == IF form[r].kind = "faucet" THEN "send" ELSE "address"

\* A bug IfClosed guards against: a wallet that is not open is made anew.
IfClosedCreate == "create"

IfClosed == "load"

ListWallets(r) ==
    /\ At(r, "list")
    /\ Answered(r, IF wallet[Wallet(r)] = "open" THEN WalletReady(r) ELSE IfClosed)
    /\ UNCHANGED <<nodeVars, walkVars, miner, historyVars>>

OpenWallet(r) ==
    /\ wallet' = [wallet EXCEPT ![Wallet(r)] = "open"]
    /\ UNCHANGED <<mined, chain, spent, walkVars, miner, historyVars>>

\* Refused when the wallet is absent or open already; a lost answer counts as that.
LoadWallet(r) ==
    /\ At(r, "load")
    /\ IF wallet[Wallet(r)] = "closed"
       THEN /\ OpenWallet(r)
            /\ Answered(r, WalletReady(r)) \/ Unanswered(r, "create")
       ELSE /\ Answered(r, "create")
            /\ UNCHANGED <<nodeVars, walkVars, miner, historyVars>>

\* Refused when a wallet of that name exists.
CreateWallet(r) ==
    /\ At(r, "create")
    /\ IF wallet[Wallet(r)] = "absent"
       THEN OpenWallet(r) /\ (Answered(r, WalletReady(r)) \/ Unanswered(r, "failed"))
       ELSE /\ Answered(r, "noWallet")
            /\ UNCHANGED <<nodeVars, walkVars, miner, historyVars>>

-----------------------------------------------------------------------------
(* The faucet                                                               *)

Others(r) == {q \in Request \ {r} : Running(q)}

\* A bug PaymentUnanswered guards against: any failed payment is tried again.
PaymentRetried(r) == Unanswered(r, "list")

PaymentUnanswered(r) == Unanswered(r, "failed")

Send(r) ==
    /\ At(r, "send")
    /\ IF wallet["faucet"] = "open" /\ Funds >= form[r].amount
       THEN /\ spent' = spent + form[r].amount
            /\ paid' = [paid EXCEPT ![r] = @ + 1]
            /\ robbed' = robbed \cup Others(r)
            /\ Answered(r, "done") \/ PaymentUnanswered(r)
       ELSE /\ Answered(r, IF wallet["faucet"] = "open" THEN "balance" ELSE "failed")
            /\ UNCHANGED <<spent, paid, robbed>>
    /\ UNCHANGED <<wallet, mined, chain, walkVars, miner, crowded, misled, rewound, restarted>>

\* A bug RefillCount guards against: rewards that only have to ripen are ignored.
RefillCountFull(immature) == Maturity + 1

RefillCount(immature) == IF immature > 0 THEN 1 ELSE Maturity + 1

\* next_faucet_refill_block_count
Balance(r) ==
    /\ At(r, "balance")
    /\ LET count == RefillCount(Immature)
           fits == refilled[r] + count <= MaxRefill
       IN  /\ Answered(r, IF wallet["faucet"] # "open" THEN "failed"
                       ELSE IF fits THEN "address" ELSE "short")
           /\ left' = [left EXCEPT ![r] = IF fits THEN count ELSE 0]
    /\ UNCHANGED <<nodeVars, refilled, before, hashes, miner, historyVars>>

-----------------------------------------------------------------------------
(* Mining on a regtest: generatetoaddress, or generateblock block by block  *)

Address(r) ==
    /\ At(r, "address")
    /\ Answered(r, IF wallet[Wallet(r)] # "open" THEN "failed"
                ELSE IF network = "signet" THEN "before" ELSE "generate")
    /\ UNCHANGED <<nodeVars, walkVars, miner, historyVars>>

\* n blocks join the chain.
Join(n, by, to) ==
    /\ mined' = mined \o [i \in 1 .. n |-> [by |-> by, to |-> to]]
    /\ chain' = chain \o [i \in 1 .. n |-> Len(mined) + i]
    /\ crowded' = crowded \cup {q \in Request \ {by} : Running(q)}
    /\ misled' = misled \cup {q \in Request \ {by} : At(q, "balance")}
    /\ UNCHANGED <<network, wallet, spent, paid, robbed, rewound, restarted>>

Generate(r) ==
    /\ At(r, "generate")
    /\ LET n == IF form[r].kind = "mine" /\ form[r].exclude THEN 1 ELSE left[r]
           more == left[r] - n > 0
       IN  /\ Join(n, r, Wallet(r))
           /\ left' = [left EXCEPT ![r] = @ - n]
           /\ refilled' = [refilled EXCEPT ![r] = IF form[r].kind = "faucet" THEN @ + n ELSE @]
           /\ hashes' = [hashes EXCEPT ![r] =
                            IF form[r].kind = "mine"
                            THEN @ \o [i \in 1 .. n |-> Len(mined) + i] ELSE @]
           /\ \/ Answered(r, IF form[r].kind = "faucet" THEN "list"
                              ELSE IF more THEN "generate" ELSE "done")
              \/ Unanswered(r, "failed")
    /\ UNCHANGED <<before, miner>>

-----------------------------------------------------------------------------
(* Mining on a signet: mine_one_block, block by block, under the lock       *)

BestBefore(r) ==
    /\ At(r, "before")
    /\ before' = [before EXCEPT ![r] = Tip]
    /\ Answered(r, "spawn")
    /\ UNCHANGED <<nodeVars, left, refilled, hashes, miner, historyVars>>

\* next_block_time: the block is made on the tip, and for a time slept until.
Template == Tip

Spawn(r) ==
    /\ At(r, "spawn")
    /\ miner' = [miner EXCEPT ![r] = [state |-> "runs", on |-> Template]]
    /\ Answered(r, "wait")
    /\ UNCHANGED <<nodeVars, walkVars, historyVars>>

MinerIs(r, state) == miner' = [miner EXCEPT ![r].state = state]

\* The process submits its block; one on another tip does not join the chain.
MinerMines(r) ==
    /\ miner[r].state = "runs"
    /\ IF Tip = miner[r].on
       THEN Join(1, r, "miner") /\ MinerIs(r, "ok")
       ELSE MinerIs(r, "bad") /\ UNCHANGED <<nodeVars, historyVars>>
    /\ UNCHANGED <<form, pc, walkVars, queue, dropped, troubleVars>>

\* It fails, mines nothing and does not say so, or never ends.
MinerFails(r) ==
    /\ miner[r].state = "runs" /\ Trouble
    /\ \E state \in {"bad", "ok", "stuck"} : MinerIs(r, state)
    /\ UNCHANGED <<nodeVars, form, pc, walkVars, queue, dropped, unheard, historyVars>>

MinerEnded(r) ==
    /\ At(r, "wait") /\ miner[r].state \in {"ok", "bad"}
    /\ MinerIs(r, "none")
    /\ Answered(r, IF miner[r].state = "ok" THEN "after" ELSE "failed")
    /\ UNCHANGED <<nodeVars, walkVars, historyVars>>

\* A bug Advanced guards against: the best block is taken as mined unseen.
AdvancedAlways(r) == TRUE

Advanced(r) == Tip # before[r]

BestAfter(r) ==
    /\ At(r, "after")
    /\ IF Advanced(r)
       THEN /\ hashes' = [hashes EXCEPT ![r] = Append(@, Tip)]
            /\ left' = [left EXCEPT ![r] = @ - 1]
            /\ Answered(r, IF left[r] > 1 THEN "address" ELSE "done")
       ELSE /\ Answered(r, "failed")
            /\ UNCHANGED <<hashes, left>>
    /\ UNCHANGED <<nodeVars, refilled, before, miner, historyVars>>

-----------------------------------------------------------------------------
(* The world around                                                         *)

\* The client closes the connection, and the request's future is dropped.
Drop(r) ==
    /\ Running(r) /\ r \notin dropped /\ Trouble
    /\ dropped' = dropped \cup {r}
    /\ pc' = [pc EXCEPT ![r] = IF @ \in Calls \ {"spawn"} THEN @ ELSE "gone"]
    /\ queue' = Without(queue, r)
    /\ UNCHANGED <<nodeVars, form, walkVars, miner, unheard, historyVars>>

Event ==
    /\ Trouble
    /\ UNCHANGED <<form, pc, walkVars, queue, miner, dropped, unheard>>

ForeignBlock == Event /\ Join(1, "other", "other")

\* A payment from rewards that are gone is void; the oldest are spent first.
Rewind ==
    /\ Event
    /\ chain # <<>> /\ chain' = SubSeq(chain, 1, Len(chain) - 1)
    /\ spent' = Least(spent, Rewards(chain'))
    /\ rewound' = rewound \cup {r \in Request : Running(r)}
    /\ UNCHANGED <<network, wallet, mined, paid, robbed, crowded, misled, restarted>>

Restart ==
    /\ Event
    /\ wallet' = [w \in DOMAIN wallet |-> IF wallet[w] = "open" THEN "closed" ELSE wallet[w]]
    /\ restarted' = restarted \cup {r \in Request : Running(r)}
    /\ UNCHANGED <<network, mined, chain, spent, paid, robbed, crowded, misled, rewound>>

-----------------------------------------------------------------------------
Init ==
    /\ \E s \in Start :
        /\ network = s.network /\ trouble = s.trouble
        /\ wallet = [faucet |-> s.faucet, miner |-> s.miner]
        /\ mined = [i \in DOMAIN s.funds |-> [by |-> "other", to |-> s.funds[i]]]
    /\ chain = [i \in DOMAIN mined |-> i]
    /\ spent = 0
    /\ form = [r \in Request |-> CHOOSE f \in Form : TRUE]
    /\ pc = [r \in Request |-> "new"]
    /\ left = [r \in Request |-> 0] /\ refilled = [r \in Request |-> 0]
    /\ before = [r \in Request |-> 0] /\ hashes = [r \in Request |-> <<>>]
    /\ queue = <<>>
    /\ miner = [r \in Request |-> [state |-> "none", on |-> 0]]
    /\ dropped = {} /\ unheard = {}
    /\ paid = [r \in Request |-> 0]
    /\ robbed = {} /\ crowded = {} /\ misled = {} /\ rewound = {} /\ restarted = {}

ServerStep(r) ==
    \/ Lock(r) \/ ListWallets(r) \/ LoadWallet(r) \/ CreateWallet(r)
    \/ Send(r) \/ Balance(r) \/ Address(r) \/ Generate(r)
    \/ BestBefore(r) \/ Spawn(r) \/ MinerEnded(r) \/ BestAfter(r)

MinerStep(r) == MinerMines(r) \/ MinerFails(r)

Next ==
    \/ \E r \in Request :
        \/ \E f \in Form : Submit(r, f)
        \/ ServerStep(r) \/ CallFails(r) \/ MinerStep(r) \/ Drop(r)
    \/ ForeignBlock \/ Rewind \/ Restart

\* A call is answered or times out; a miner process ends or is stuck.
Fairness ==
    \A r \in Request : WF_vars(ServerStep(r) \/ CallFails(r)) /\ WF_vars(MinerStep(r))

Spec == Init /\ [][Next]_vars /\ Fairness

-----------------------------------------------------------------------------
(* Properties                                                               *)

\* Nobody is paid twice for one request, although payments are tried again
\* after each refill and an answer may be lost; who is told so is paid.
PaidOnce ==
    \A r \in Request :
        /\ paid[r] <= 1
        /\ pc[r] = "done" /\ form[r].kind = "faucet" => paid[r] = 1

\* The faucet refuses an amount it can refill for within its limit only when
\* others spent meanwhile, the chain was rewound, or a block of others came
\* between the payment it could not make and its look at the balance.
GivesUpForCause ==
    \A r \in Request :
        pc[r] = "short" => \/ form[r].amount > MaxRefill - Maturity
                           \/ r \in robbed \cup rewound \cup misled

\* A request that fails because its wallet exists and cannot be loaded finds
\* it open: another request was faster, and trying again will do.
WalletLostToAnother ==
    [][\A r \in Request :
            pc[r] # "noWallet" /\ pc'[r] = "noWallet" =>
                wallet[Wallet(r)] = "open" \/ r \in restarted \cup unheard]_vars

\* Two miner processes run at a time only when the request that started one
\* was dropped.
OneMiner ==
    \A q, r \in Request :
        q # r /\ {miner[q].state, miner[r].state} \subseteq {"runs", "stuck"} =>
            \E p \in {q, r} : p \in dropped

\* The hashes of a successful answer are as many different blocks as asked
\* for, each mined for the request or, on a signet, one of another miner that
\* came meanwhile; only a rewind under way can make it report an older block.
ReportedAreMined ==
    \A r \in Request :
        pc[r] = "done" /\ form[r].kind = "mine" /\ r \notin rewound =>
            /\ Len(hashes[r]) = form[r].count
            /\ \A i \in DOMAIN hashes[r] :
                /\ hashes[r][i] > IF i = 1 THEN 0 ELSE hashes[r][i - 1]
                /\ mined[hashes[r][i]].by = r \/ (network = "signet" /\ r \in crowded)

HolderStuck == queue # <<>> /\ miner[Head(queue)].state = "stuck"

\* Every request ends, whatever fails, unless the miner process of the lock's
\* holder never ends: then all others wait with it.
EveryRequestEnds ==
    \A r \in Request : (Running(r) ~> pc[r] \in Ended) \/ <>[]HolderStuck
=============================================================================
