-------------------------- MODULE NodeMiningProofs --------------------------
(***************************************************************************)
(* Proof that nobody is paid twice for one request, for every set of       *)
(* requests, every form of request and every bound on what goes wrong.     *)
(*                                                                         *)
(* A payment is made in one step only, and the request ends with it,       *)
(* whether it is answered, not answered in time or dropped.  To know that  *)
(* a payment was made for whoever is told so, one must know that the       *)
(* successful end of a signet's mining is never a faucet request's: those  *)
(* are refused there.                                                      *)
(*                                                                         *)
(* And proof that a request which can neither load nor create its wallet   *)
(* finds it open: whoever comes to create a wallet has seen it absent or   *)
(* open, or its load was not answered; a wallet is never closed but by a   *)
(* restart of the node; and an existing wallet is the only reason for a    *)
(* refusal.                                                                *)
(*                                                                         *)
(* And proof that two miner processes run at a time only when a request    *)
(* that started one was dropped: between lock and release a request is     *)
(* first in the queue, and its process ends before it goes on.             *)
(*                                                                         *)
(* And proof that a refill which is given up was not enough for a cause:   *)
(* the chain holds, beyond what was spent before, a reward for every block *)
(* mined for the request, and at most Maturity of them cannot be spent.    *)
(*                                                                         *)
(* And proof that what mining reports was mined for the request: the       *)
(* chain's blocks are in the order in which they were mined, so that a     *)
(* best block other than the one before is a new one, unless the chain was *)
(* rewound.                                                                *)
(***************************************************************************)
EXTENDS NodeMining, FiniteSetTheorems, SequenceTheorems, TLAPS

SignetCalls == {"before", "spawn", "wait", "after"}

Open == Calls \cup {"wait", "lock"}

\* Where a request may be: what a type invariant says of pc, form and paid.
PayTypeOK ==
    /\ pc \in [Request -> Open \cup Ended \cup {"new"}]
    /\ form = [r \in Request |-> form[r]]
    /\ paid \in [Request -> {0, 1}]

\* Nothing has been paid for a request that has not ended, and a faucet request
\* is under way on a regtest only.
Unpaid ==
    \A r \in Request :
        /\ pc[r] \in Open \cup {"new"} => paid[r] = 0
        /\ pc[r] \in SignetCalls => network = "signet"
        /\ pc[r] \in Open /\ form[r].kind = "faucet" => network = "regtest"
        /\ pc[r] = "done" /\ form[r].kind = "faucet" => paid[r] = 1

PayInv == PayTypeOK /\ Unpaid

-----------------------------------------------------------------------------
\* A request goes on, or ends, without a payment: all steps but a payment.
LEMMA UnpaidStep ==
    ASSUME PayInv, NEW r \in Request, NEW next,
           pc[r] \in Open,
           next \in Open \cup Ended,
           next \in SignetCalls => network = "signet",
           next = "done" => form[r].kind # "faucet",
           pc' = [pc EXCEPT ![r] = next],
           UNCHANGED <<network, form, paid>>
    PROVE  PayInv'
<1>1. PayTypeOK'
    BY DEF PayInv, PayTypeOK
<1>2. ASSUME NEW q \in Request
      PROVE  /\ pc'[q] \in Open \cup {"new"} => paid'[q] = 0
             /\ pc'[q] \in SignetCalls => network' = "signet"
             /\ pc'[q] \in Open /\ form'[q].kind = "faucet" => network' = "regtest"
             /\ pc'[q] = "done" /\ form'[q].kind = "faucet" => paid'[q] = 1
    <2>1. CASE q = r
        <3>1. pc'[q] = next /\ paid[q] = 0
            BY <2>1 DEF PayInv, PayTypeOK, Unpaid
        <3>2. form[q].kind = "faucet" => network = "regtest"
            BY <2>1 DEF PayInv, Unpaid
        <3>. QED
            BY <2>1, <3>1, <3>2 DEF Open, Calls, Ended
    <2>2. CASE q # r
        BY <2>2 DEF PayInv, PayTypeOK, Unpaid
    <2>. QED
        BY <2>1, <2>2
<1>. QED
    BY <1>1, <1>2 DEF PayInv, Unpaid

\* The same for a step whose end is the answer of a call: Goes.
LEMMA UnpaidAnswer ==
    ASSUME PayInv, NEW r \in Request, NEW next,
           pc[r] \in Open,
           next \in Open \cup Ended,
           next \in SignetCalls => network = "signet",
           next = "done" => form[r].kind # "faucet",
           Goes(r, next),
           UNCHANGED paid
    PROVE  PayInv'
<1> DEFINE to == IF r \in dropped THEN "gone" ELSE next
<1>1. pc' = [pc EXCEPT ![r] = to] /\ UNCHANGED <<network, form>>
    BY DEF Goes
<1>2. /\ to \in Open \cup Ended
      /\ to \in SignetCalls => network = "signet"
      /\ to = "done" => form[r].kind # "faucet"
    BY DEF Ended, SignetCalls
<1> HIDE DEF to
<1>. QED
    BY <1>1, <1>2, UnpaidStep

\* A step that no request takes.
LEMMA UnpaidElsewhere ==
    ASSUME PayInv, UNCHANGED <<pc, form, paid, network>>
    PROVE  PayInv'
BY DEF PayInv, PayTypeOK, Unpaid

LEMMA UnpaidSubmit ==
    ASSUME PayInv, NEW r \in Request, NEW f \in Form, Submit(r, f)
    PROVE  PayInv'
<1> DEFINE next == IF Refused(f) THEN "refused"
                   ELSE IF ~Refused(f) /\ network = "signet" THEN "lock" ELSE "list"
<1>1. /\ pc[r] = "new"
      /\ pc' = [pc EXCEPT ![r] = next]
      /\ form' = [form EXCEPT ![r] = IF Refused(f) THEN @ ELSE f]
      /\ UNCHANGED <<network, paid>>
    BY DEF Submit, At, nodeVars, historyVars
<1>2. next \in {"refused", "lock", "list"}
    OBVIOUS
<1>3. next # "refused" /\ f.kind = "faucet" => network = "regtest"
    BY DEF Refused
<1>4. next # "refused" => form'[r] = f
    BY <1>1 DEF PayInv, PayTypeOK
<1> HIDE DEF next
<1>5. PayTypeOK'
    <2>1. pc' \in [Request -> Open \cup Ended \cup {"new"}]
        BY <1>1, <1>2 DEF PayInv, PayTypeOK, Open, Calls, Ended
    <2>2. form' = [q \in Request |-> form'[q]]
        BY <1>1 DEF PayInv, PayTypeOK
    <2>. QED
        BY <1>1, <2>1, <2>2 DEF PayInv, PayTypeOK
<1>6. ASSUME NEW q \in Request
      PROVE  /\ pc'[q] \in Open \cup {"new"} => paid'[q] = 0
             /\ pc'[q] \in SignetCalls => network' = "signet"
             /\ pc'[q] \in Open /\ form'[q].kind = "faucet" => network' = "regtest"
             /\ pc'[q] = "done" /\ form'[q].kind = "faucet" => paid'[q] = 1
    <2>1. CASE q = r
        <3>1. pc'[q] = next /\ paid[q] = 0
            BY <1>1, <2>1 DEF PayInv, PayTypeOK, Unpaid
        <3>. QED
            BY <1>1, <1>2, <1>3, <1>4, <2>1, <3>1 DEF Open, Calls, SignetCalls
    <2>2. CASE q # r
        <3>1. pc'[q] = pc[q] /\ form'[q] = form[q]
            BY <1>1, <2>2 DEF PayInv, PayTypeOK
        <3>. QED
            BY <1>1, <3>1 DEF PayInv, Unpaid
    <2>. QED
        BY <2>1, <2>2
<1>. QED
    BY <1>5, <1>6 DEF PayInv, Unpaid

\* The payment, and what the node answers when it cannot be made.
LEMMA UnpaidSend ==
    ASSUME PayInv, NEW r \in Request, Send(r)
    PROVE  PayInv'
<1>1. pc[r] = "send" /\ pc[r] \in Open
    BY DEF Send, At, Open, Calls
<1>2. CASE UNCHANGED paid /\ \E next \in {"balance", "failed"} : Answered(r, next)
    BY <1>1, <1>2, UnpaidAnswer DEF Answered, Open, Calls, Ended, SignetCalls
<1>3. CASE /\ paid' = [paid EXCEPT ![r] = @ + 1]
           /\ \E next \in {"done", "failed"} : Goes(r, next)
    <2>1. PICK next \in {"done", "failed"} : Goes(r, next)
        BY <1>3
    <2> DEFINE to == IF r \in dropped THEN "gone" ELSE next
    <2>2. pc' = [pc EXCEPT ![r] = to] /\ UNCHANGED <<network, form>>
        BY <2>1 DEF Goes
    <2>3. to \in {"gone", "done", "failed"}
        BY <2>1
    <2> HIDE DEF to
    <2>4. paid[r] = 0 /\ paid' = [paid EXCEPT ![r] = 1]
        <3>1. paid[r] = 0
            BY <1>1 DEF PayInv, Unpaid
        <3>2. paid' = [paid EXCEPT ![r] = paid[r] + 1]
            BY <1>3
        <3>. QED
            BY <3>1, <3>2
    <2>5. PayTypeOK'
        BY <2>2, <2>3, <2>4 DEF PayInv, PayTypeOK, Ended
    <2>6. ASSUME NEW q \in Request
          PROVE  /\ pc'[q] \in Open \cup {"new"} => paid'[q] = 0
                 /\ pc'[q] \in SignetCalls => network' = "signet"
                 /\ pc'[q] \in Open /\ form'[q].kind = "faucet" => network' = "regtest"
                 /\ pc'[q] = "done" /\ form'[q].kind = "faucet" => paid'[q] = 1
        <3>1. CASE q = r
            <4>1. pc'[q] = to /\ paid'[q] = 1
                BY <2>2, <2>4, <3>1 DEF PayInv, PayTypeOK
            <4>. QED
                BY <2>3, <4>1 DEF Open, Calls, SignetCalls
        <3>2. CASE q # r
            BY <2>2, <2>4, <3>2 DEF PayInv, PayTypeOK, Unpaid
        <3>. QED
            BY <3>1, <3>2
    <2>. QED
        BY <2>5, <2>6 DEF PayInv, Unpaid
<1>. QED
    BY <1>2, <1>3 DEF Send, Answered, PaymentUnanswered, Unanswered

-----------------------------------------------------------------------------
\* The steps of one request: each is an answer that leads to some next call, and
\* the calls of a signet's mining follow each other only there.
LEMMA UnpaidServer ==
    ASSUME PayInv, NEW r \in Request, ServerStep(r)
    PROVE  PayInv'
<1> USE DEF At, Answered, nodeVars, walkVars, historyVars
<1>1. CASE Lock(r)
    <2>1. pc[r] = "lock" /\ pc' = [pc EXCEPT ![r] = "list"] /\ UNCHANGED <<network, form, paid>>
        BY <1>1 DEF Lock
    <2>. QED
        BY <2>1, UnpaidStep DEF Open, Calls, SignetCalls
<1>2. CASE ListWallets(r)
    <2>1. PICK next \in {"load", "send", "address"} : Goes(r, next)
        BY <1>2 DEF ListWallets, WalletReady, IfClosed
    <2>. QED
        BY <1>2, <2>1, UnpaidAnswer DEF ListWallets, Open, Calls, SignetCalls
<1>3. CASE LoadWallet(r)
    <2>1. PICK next \in {"create", "send", "address"} : Goes(r, next)
        BY <1>3 DEF LoadWallet, WalletReady, Unanswered
    <2>. QED
        BY <1>3, <2>1, UnpaidAnswer DEF LoadWallet, OpenWallet, Open, Calls, SignetCalls
<1>4. CASE CreateWallet(r)
    <2>1. PICK next \in {"send", "address", "failed", "noWallet"} : Goes(r, next)
        BY <1>4 DEF CreateWallet, WalletReady, Unanswered
    <2>. QED
        BY <1>4, <2>1, UnpaidAnswer DEF CreateWallet, OpenWallet, Open, Calls, Ended, SignetCalls
<1>5. CASE Send(r)
    BY <1>5, UnpaidSend
<1>6. CASE Balance(r)
    <2>1. PICK next \in {"address", "failed", "short"} : Goes(r, next)
        BY <1>6 DEF Balance
    <2>. QED
        BY <1>6, <2>1, UnpaidAnswer DEF Balance, Open, Calls, Ended, SignetCalls
<1>7. CASE Address(r)
    <2>1. PICK next \in {"failed", "generate", "before"} :
              Goes(r, next) /\ (next = "before" => network = "signet")
        BY <1>7 DEF Address
    <2>. QED
        BY <1>7, <2>1, UnpaidAnswer DEF Address, Open, Calls, Ended, SignetCalls
<1>8. CASE Generate(r)
    <2>1. PICK next \in {"failed", "list", "generate", "done"} :
              Goes(r, next) /\ (next = "done" => form[r].kind # "faucet")
        BY <1>8 DEF Generate, Unanswered
    <2>. QED
        BY <1>8, <2>1, UnpaidAnswer DEF Generate, Join, Open, Calls, Ended, SignetCalls
<1>9. CASE BestBefore(r)
    BY <1>9, UnpaidAnswer DEF BestBefore, PayInv, Unpaid, Open, Calls, Ended, SignetCalls
<1>10. CASE Spawn(r)
    BY <1>10, UnpaidAnswer DEF Spawn, PayInv, Unpaid, Open, Calls, Ended, SignetCalls
<1>11. CASE MinerEnded(r)
    <2>1. PICK next \in {"after", "failed"} : Goes(r, next)
        BY <1>11 DEF MinerEnded
    <2>. QED
        BY <1>11, <2>1, UnpaidAnswer DEF MinerEnded, PayInv, Unpaid, Open, Calls, Ended, SignetCalls
<1>12. CASE BestAfter(r)
    <2>1. PICK next \in {"address", "done", "failed"} : Goes(r, next)
        BY <1>12 DEF BestAfter
    <2>2. pc[r] = "after"
        BY <1>12 DEF BestAfter
    <2>3. form[r].kind # "faucet"
        BY <2>2 DEF PayInv, Unpaid, Open, Calls, SignetCalls
    <2>4. UNCHANGED paid
        BY <1>12 DEF BestAfter
    <2>. QED
        BY <2>1, <2>2, <2>3, <2>4, UnpaidAnswer DEF Open, Calls, Ended, SignetCalls
<1>. QED
    BY <1>1, <1>2, <1>3, <1>4, <1>5, <1>6, <1>7, <1>8, <1>9, <1>10, <1>11, <1>12 DEF ServerStep

\* A call that fails, a client that goes.
LEMMA UnpaidTrouble ==
    ASSUME PayInv, NEW r \in Request, CallFails(r) \/ Drop(r)
    PROVE  PayInv'
<1>1. CASE CallFails(r)
    <2>1. PICK next \in {"create", "failed"} : Goes(r, next)
        BY <1>1 DEF CallFails, Unanswered
    <2>2. pc[r] \in Open /\ UNCHANGED paid
        BY <1>1 DEF CallFails, Open, historyVars
    <2>. QED
        BY <2>1, <2>2, UnpaidAnswer DEF Open, Calls, Ended, SignetCalls
<1>2. CASE Drop(r)
    <2>1. /\ Running(r) /\ UNCHANGED <<network, form, paid>>
          /\ pc' = [pc EXCEPT ![r] = IF @ \in Calls \ {"spawn"} THEN @ ELSE "gone"]
        BY <1>2 DEF Drop, nodeVars, historyVars
    <2>2. PICK next : /\ next = pc[r] \/ next = "gone"
                      /\ pc' = [pc EXCEPT ![r] = next]
        BY <2>1
    <2>3. pc[r] \in Open
        BY <2>1 DEF Running, PayInv, PayTypeOK
    <2>4. /\ next \in Open \cup Ended /\ next # "done"
          /\ next \in SignetCalls => network = "signet"
        BY <2>2, <2>3 DEF PayInv, Unpaid, Open, Calls, Ended, SignetCalls
    <2>. QED
        BY <2>1, <2>2, <2>3, <2>4, UnpaidStep
<1>. QED
    BY <1>1, <1>2

\* What happens around a request: miner processes, other miners, the node.
LEMMA UnpaidWorld ==
    ASSUME PayInv,
           (\E r \in Request : MinerStep(r)) \/ ForeignBlock \/ Rewind \/ Restart
    PROVE  PayInv'
<1>1. UNCHANGED <<pc, form, paid, network>>
    BY DEF MinerStep, MinerMines, MinerFails, Join, ForeignBlock, Rewind, Restart, Event,
           nodeVars, historyVars
<1>. QED
    BY <1>1, UnpaidElsewhere

LEMMA UnpaidInit == Init => PayInv
BY DEF Init, PayInv, PayTypeOK, Unpaid, Open, Calls, Ended, SignetCalls

LEMMA UnpaidInductive == PayInv /\ [Next]_vars => PayInv'
<1> SUFFICES ASSUME PayInv, [Next]_vars
             PROVE  PayInv'
    OBVIOUS
<1>1. CASE \E r \in Request, f \in Form : Submit(r, f)
    BY <1>1, UnpaidSubmit
<1>2. CASE \E r \in Request : ServerStep(r)
    BY <1>2, UnpaidServer
<1>3. CASE \E r \in Request : CallFails(r) \/ Drop(r)
    BY <1>3, UnpaidTrouble
<1>4. CASE (\E r \in Request : MinerStep(r)) \/ ForeignBlock \/ Rewind \/ Restart
    BY <1>4, UnpaidWorld
<1>5. CASE UNCHANGED vars
    BY <1>5, UnpaidElsewhere DEF vars, nodeVars, historyVars
<1>. QED
    BY <1>1, <1>2, <1>3, <1>4, <1>5 DEF Next

\* No request is ever paid twice, and one that is told so has been paid
\* (send_faucet_transaction), for any number of requests, failures and lost answers.
THEOREM PaidOnceCorrect == Spec => []PaidOnce
<1>1. PayInv => PaidOnce
    BY DEF PayInv, PayTypeOK, Unpaid, PaidOnce
<1>. QED
    BY UnpaidInit, UnpaidInductive, <1>1, PTL DEF Spec

-----------------------------------------------------------------------------
(* The wallet.                                                              *)


WalletTypeOK == wallet \in [{"faucet", "miner"} -> {"absent", "closed", "open"}]

\* Who is about to create a wallet does not overlook one that could be loaded.
NotClosed ==
    \A r \in Request :
        pc[r] = "create" => wallet[Wallet(r)] # "closed" \/ r \in restarted \cup unheard

WalletInv == PayInv /\ WalletTypeOK /\ NotClosed

\* Wallets are opened or left alone.
OpensAtMost ==
    /\ WalletTypeOK'
    /\ \A w \in {"faucet", "miner"} : wallet'[w] \in {wallet[w], "open"}

-----------------------------------------------------------------------------
LEMMA WalletKinds == \A r \in Request : Wallet(r) \in {"faucet", "miner"}
BY DEF Wallet

\* What an answer of Goes may change.
LEMMA GoesWallet ==
    ASSUME PayInv, NEW r \in Request, NEW next, Goes(r, next)
    PROVE  /\ pc' = [pc EXCEPT ![r] = pc'[r]]
           /\ pc'[r] \in {next, "gone"}
           /\ r \notin dropped => pc'[r] = next
           /\ form' = form
BY DEF Goes, PayInv, PayTypeOK

\* One step of a request keeps the invariant when it opens wallets at most, and does
\* not come to create one that could be loaded.
LEMMA NotClosedStep ==
    ASSUME WalletInv, PayInv', OpensAtMost, NEW r \in Request,
           pc' = [pc EXCEPT ![r] = pc'[r]],
           pc'[r] = "create" =>
               pc[r] = "create" \/ wallet'[Wallet(r)] # "closed" \/ r \in unheard',
           UNCHANGED <<form, restarted>>, unheard \subseteq unheard'
    PROVE  WalletInv'
<1>1. ASSUME NEW q \in Request, pc'[q] = "create"
      PROVE  wallet'[Wallet(q)'] # "closed" \/ q \in restarted' \cup unheard'
    <2>1. Wallet(q)' = Wallet(q) /\ wallet'[Wallet(q)] \in {wallet[Wallet(q)], "open"}
        BY WalletKinds DEF Wallet, OpensAtMost
    <2>2. CASE pc[q] = "create"
        BY <2>1, <2>2 DEF WalletInv, NotClosed
    <2>3. CASE pc[q] # "create"
        <3>1. q = r
            BY <1>1, <2>3 DEF WalletInv, PayInv, PayTypeOK
        <3>. QED
            BY <1>1, <2>1, <2>3, <3>1
    <2>. QED
        BY <2>2, <2>3
<1>. QED
    BY <1>1 DEF WalletInv, NotClosed, OpensAtMost

-----------------------------------------------------------------------------
\* The wallet calls.
LEMMA WalletCalls ==
    ASSUME WalletInv, NEW r \in Request, LoadWallet(r) \/ CreateWallet(r)
    PROVE  /\ OpensAtMost
           /\ pc' = [pc EXCEPT ![r] = pc'[r]]
           /\ pc'[r] = "create" => wallet'[Wallet(r)] # "closed" \/ r \in unheard'
           /\ pc'[r] = "noWallet" => wallet[Wallet(r)] # "absent" /\ pc[r] = "create"
           /\ UNCHANGED <<form, restarted>> /\ unheard \subseteq unheard'
<1>1. OpensAtMost /\ UNCHANGED restarted
    BY WalletKinds DEF LoadWallet, CreateWallet, OpenWallet, nodeVars, historyVars,
                       OpensAtMost, WalletInv, WalletTypeOK
<1>2. PICK next \in {"create", "send", "address", "failed", "noWallet"} :
          /\ Goes(r, next)
          /\ unheard' = unheard \/ unheard' = unheard \cup {r}
          /\ next = "create" => \/ wallet[Wallet(r)] # "closed" /\ wallet' = wallet
                                \/ r \in dropped \cup unheard'
          /\ next = "noWallet" => wallet[Wallet(r)] # "absent" /\ pc[r] = "create"
    <2>1. CASE LoadWallet(r)
        <3>1. CASE wallet[Wallet(r)] = "closed"
            <4>1. CASE Answered(r, WalletReady(r))
                BY <4>1 DEF Answered, WalletReady, troubleVars
            <4>2. CASE Unanswered(r, "create")
                BY <4>2 DEF Unanswered, troubleVars
            <4>. QED
                BY <2>1, <3>1, <4>1, <4>2 DEF LoadWallet
        <3>2. CASE wallet[Wallet(r)] # "closed"
            BY <2>1, <3>2 DEF LoadWallet, Answered, troubleVars, nodeVars
        <3>. QED
            BY <3>1, <3>2
    <2>2. CASE CreateWallet(r)
        <3>1. CASE wallet[Wallet(r)] = "absent"
            <4>1. CASE Answered(r, WalletReady(r))
                BY <4>1 DEF Answered, WalletReady, troubleVars
            <4>2. CASE Unanswered(r, "failed")
                BY <4>2 DEF Unanswered, troubleVars
            <4>. QED
                BY <2>2, <3>1, <4>1, <4>2 DEF CreateWallet
        <3>2. CASE wallet[Wallet(r)] # "absent"
            BY <2>2, <3>2 DEF CreateWallet, Answered, troubleVars, At
        <3>. QED
            BY <3>1, <3>2
    <2>. QED
        BY <2>1, <2>2
<1>3. /\ pc' = [pc EXCEPT ![r] = pc'[r]]
      /\ pc'[r] \in {next, "gone"}
      /\ r \notin dropped => pc'[r] = next
      /\ form' = form
    BY <1>2, GoesWallet DEF WalletInv
<1>4. r \in dropped => pc'[r] = "gone"
    BY <1>2 DEF Goes, WalletInv, PayInv, PayTypeOK
<1>. QED
    BY <1>1, <1>2, <1>3, <1>4

\* All other calls leave the wallets as they are and lead elsewhere.
LEMMA OtherCalls ==
    ASSUME WalletInv, NEW r \in Request,
           ServerStep(r), ~LoadWallet(r), ~CreateWallet(r)
    PROVE  /\ UNCHANGED <<wallet, restarted, form>>
           /\ pc' = [pc EXCEPT ![r] = pc'[r]]
           /\ pc'[r] \notin {"create", "noWallet"}
           /\ unheard \subseteq unheard'
<1> DEFINE Leads == \E next \in {"list", "load", "send", "address", "failed", "done", "balance",
                                 "short", "generate", "before", "spawn", "wait", "after"} :
                        Goes(r, next)
<1> USE DEF Answered, Unanswered, At, nodeVars, walkVars, historyVars, troubleVars
<1>1. UNCHANGED <<wallet, restarted>>
    BY DEF ServerStep, Lock, ListWallets, Send, Balance, Address, Generate, Join, BestBefore,
           Spawn, MinerEnded, BestAfter, PaymentUnanswered
<1>2. unheard \subseteq unheard'
    BY DEF ServerStep, Lock, ListWallets, Send, Balance, Address, Generate, BestBefore,
           Spawn, MinerEnded, BestAfter, PaymentUnanswered
<1>3. CASE Lock(r)
    BY <1>1, <1>2, <1>3 DEF Lock, WalletInv, PayInv, PayTypeOK
<1>4. CASE ~Lock(r)
    <2>1. Leads
        <3>1. CASE ListWallets(r)
            BY <3>1 DEF ListWallets, WalletReady, IfClosed
        <3>2. CASE Send(r)
            BY <3>2 DEF Send, PaymentUnanswered
        <3>3. CASE Balance(r) \/ Address(r)
            BY <3>3 DEF Balance, Address
        <3>4. CASE Generate(r)
            BY <3>4 DEF Generate
        <3>5. CASE BestBefore(r) \/ Spawn(r)
            BY <3>5 DEF BestBefore, Spawn
        <3>6. CASE MinerEnded(r) \/ BestAfter(r)
            BY <3>6 DEF MinerEnded, BestAfter
        <3>. QED
            BY <1>4, <3>1, <3>2, <3>3, <3>4, <3>5, <3>6 DEF ServerStep
    <2>. QED
        BY <1>1, <1>2, <2>1, GoesWallet DEF WalletInv
<1>. QED
    BY <1>3, <1>4

\* A call that fails, a client that goes.
LEMMA TroubleCalls ==
    ASSUME WalletInv, NEW r \in Request, CallFails(r) \/ Drop(r)
    PROVE  /\ UNCHANGED <<wallet, restarted, form>>
           /\ pc' = [pc EXCEPT ![r] = pc'[r]]
           /\ pc'[r] = "create" => pc[r] = "create" \/ r \in unheard'
           /\ pc[r] # "noWallet" => pc'[r] # "noWallet"
           /\ unheard \subseteq unheard'
<1>1. CASE CallFails(r)
    <2>1. PICK next \in {"create", "failed"} :
              /\ Goes(r, next)
              /\ IF r \in dropped THEN unheard' = unheard ELSE unheard' = unheard \cup {r}
        BY <1>1 DEF CallFails, Unanswered, troubleVars
    <2>2. UNCHANGED <<wallet, restarted>>
        BY <1>1 DEF CallFails, nodeVars, historyVars
    <2>3. r \in dropped => pc'[r] = "gone"
        BY <2>1 DEF Goes, WalletInv, PayInv, PayTypeOK
    <2>. QED
        BY <2>1, <2>2, <2>3, GoesWallet DEF WalletInv
<1>2. CASE Drop(r)
    <2>1. pc' = [pc EXCEPT ![r] = IF pc[r] \in Calls \ {"spawn"} THEN pc[r] ELSE "gone"]
        BY <1>2 DEF Drop
    <2>2. pc'[r] \in {pc[r], "gone"} /\ pc' = [pc EXCEPT ![r] = pc'[r]]
        BY <2>1 DEF WalletInv, PayInv, PayTypeOK
    <2>. QED
        BY <1>2, <2>2 DEF Drop, nodeVars, historyVars
<1>. QED
    BY <1>1, <1>2

-----------------------------------------------------------------------------
LEMMA WalletServer ==
    ASSUME WalletInv, NEW r \in Request, ServerStep(r)
    PROVE  WalletInv'
<1>1. PayInv'
    BY UnpaidServer DEF WalletInv
<1>2. CASE LoadWallet(r) \/ CreateWallet(r)
    BY <1>1, <1>2, WalletCalls, NotClosedStep
<1>3. CASE ~LoadWallet(r) /\ ~CreateWallet(r)
    <2>1. OpensAtMost
        BY <1>3, OtherCalls DEF OpensAtMost, WalletInv, WalletTypeOK
    <2>. QED
        BY <1>1, <1>3, <2>1, OtherCalls, NotClosedStep
<1>. QED
    BY <1>2, <1>3

LEMMA WalletTrouble ==
    ASSUME WalletInv, NEW r \in Request, CallFails(r) \/ Drop(r)
    PROVE  WalletInv'
<1>1. PayInv'
    BY UnpaidTrouble DEF WalletInv
<1>2. OpensAtMost
    BY TroubleCalls DEF OpensAtMost, WalletInv, WalletTypeOK
<1>. QED
    BY <1>1, <1>2, TroubleCalls, NotClosedStep

LEMMA WalletSubmit ==
    ASSUME WalletInv, NEW r \in Request, NEW f \in Form, Submit(r, f)
    PROVE  WalletInv'
<1>1. PayInv'
    BY UnpaidSubmit DEF WalletInv
<1>2. /\ \A q \in Request \ {r} : pc'[q] = pc[q] /\ form'[q] = form[q]
      /\ pc'[r] \in {"refused", "lock", "list"}
      /\ UNCHANGED <<wallet, restarted, unheard>>
    BY DEF Submit, nodeVars, historyVars, troubleVars, WalletInv, PayInv, PayTypeOK
<1>3. ASSUME NEW q \in Request, pc'[q] = "create"
      PROVE  wallet'[Wallet(q)'] # "closed" \/ q \in restarted' \cup unheard'
    <2>1. q # r /\ pc[q] = "create" /\ form'[q] = form[q]
        BY <1>2, <1>3
    <2>2. Wallet(q)' = Wallet(q)
        BY <2>1 DEF Wallet
    <2>. QED
        BY <1>2, <2>1, <2>2 DEF WalletInv, NotClosed
<1>. QED
    BY <1>1, <1>2, <1>3 DEF WalletInv, WalletTypeOK, NotClosed

\* A restart closes wallets, and is remembered for every request under way.
LEMMA WalletRestart ==
    ASSUME WalletInv, Restart
    PROVE  WalletInv'
<1>1. PayInv'
    BY UnpaidWorld DEF WalletInv
<1>2. WalletTypeOK'
    BY DEF Restart, WalletInv, WalletTypeOK
<1>3. /\ UNCHANGED <<pc, form, unheard>>
      /\ restarted' = restarted \cup {r \in Request : Running(r)}
    BY DEF Restart, Event
<1>4. NotClosed'
    BY <1>3 DEF NotClosed, Running, Ended
<1>. QED
    BY <1>1, <1>2, <1>4 DEF WalletInv

LEMMA WalletWorld ==
    ASSUME WalletInv, (\E r \in Request : MinerStep(r)) \/ ForeignBlock \/ Rewind
    PROVE  WalletInv'
<1>1. PayInv'
    BY UnpaidWorld DEF WalletInv
<1>2. UNCHANGED <<pc, form, wallet, restarted, unheard>>
    BY DEF MinerStep, MinerMines, MinerFails, Join, ForeignBlock, Rewind, Event,
           nodeVars, historyVars, troubleVars, Trouble
<1>. QED
    BY <1>1, <1>2 DEF WalletInv, WalletTypeOK, NotClosed, Wallet

LEMMA WalletInit == Init => WalletInv
<1> SUFFICES ASSUME Init
             PROVE  WalletInv
    OBVIOUS
<1>1. WalletTypeOK
    BY MiningAssumption DEF Init, WalletTypeOK
<1>2. NotClosed
    BY DEF Init, NotClosed
<1>. QED
    BY <1>1, <1>2, UnpaidInit DEF WalletInv

LEMMA WalletInductive == WalletInv /\ [Next]_vars => WalletInv'
<1> SUFFICES ASSUME WalletInv, [Next]_vars
             PROVE  WalletInv'
    OBVIOUS
<1>1. CASE \E r \in Request, f \in Form : Submit(r, f)
    BY <1>1, WalletSubmit
<1>2. CASE \E r \in Request : ServerStep(r)
    BY <1>2, WalletServer
<1>3. CASE \E r \in Request : CallFails(r) \/ Drop(r)
    BY <1>3, WalletTrouble
<1>4. CASE (\E r \in Request : MinerStep(r)) \/ ForeignBlock \/ Rewind
    BY <1>4, WalletWorld
<1>5. CASE Restart
    BY <1>5, WalletRestart
<1>6. CASE UNCHANGED vars
    BY <1>6, UnpaidElsewhere DEF vars, nodeVars, historyVars, troubleVars,
       WalletInv, WalletTypeOK, NotClosed, Wallet
<1>. QED
    BY <1>1, <1>2, <1>3, <1>4, <1>5, <1>6 DEF Next

-----------------------------------------------------------------------------
\* Only the refused creation of a wallet ends a request so.
LEMMA NoWalletStep ==
    ASSUME WalletInv, [Next]_vars, NEW r \in Request,
           pc[r] # "noWallet", pc'[r] = "noWallet"
    PROVE  wallet[Wallet(r)] # "absent" /\ pc[r] = "create"
<1>0. pc \in [Request -> Open \cup Ended \cup {"new"}]
    BY DEF WalletInv, PayInv, PayTypeOK
<1>1. CASE \E q \in Request, f \in Form : Submit(q, f)
    <2>1. PICK q \in Request, f \in Form : Submit(q, f)
        BY <1>1
    <2>2. \E next \in {"refused", "lock", "list"} : pc' = [pc EXCEPT ![q] = next]
        BY <2>1 DEF Submit
    <2>. QED
        BY <1>0, <2>2
<1>2. CASE \E q \in Request : ServerStep(q)
    <2>1. PICK q \in Request : ServerStep(q)
        BY <1>2
    <2>2. /\ pc' = [pc EXCEPT ![q] = pc'[q]]
          /\ pc'[q] = "noWallet" => wallet[Wallet(q)] # "absent" /\ pc[q] = "create"
        BY <2>1, WalletCalls, OtherCalls
    <2>. QED
        BY <1>0, <2>2
<1>3. CASE \E q \in Request : CallFails(q) \/ Drop(q)
    <2>1. PICK q \in Request : CallFails(q) \/ Drop(q)
        BY <1>3
    <2>2. /\ pc' = [pc EXCEPT ![q] = pc'[q]]
          /\ pc[q] # "noWallet" => pc'[q] # "noWallet"
        BY <2>1, TroubleCalls
    <2>. QED
        BY <1>0, <2>2
<1>4. CASE (\E q \in Request : MinerStep(q)) \/ ForeignBlock \/ Rewind \/ Restart
    BY <1>4 DEF MinerStep, MinerMines, MinerFails, ForeignBlock, Rewind, Restart, Event
<1>5. CASE UNCHANGED vars
    BY <1>5 DEF vars
<1>. QED
    BY <1>1, <1>2, <1>3, <1>4, <1>5 DEF Next

\* Whoever can neither load nor create its wallet finds it open (ensure_wallet_loaded),
\* unless the node restarted during its request or did not answer it in time.
THEOREM WalletLostCorrect == Spec => WalletLostToAnother
<1>1. ASSUME WalletInv, [Next]_vars
      PROVE  [\A r \in Request :
                 pc[r] # "noWallet" /\ pc'[r] = "noWallet" =>
                     wallet[Wallet(r)] = "open" \/ r \in restarted \cup unheard]_vars
    <2>1. ASSUME NEW r \in Request, pc[r] # "noWallet", pc'[r] = "noWallet"
          PROVE  wallet[Wallet(r)] = "open" \/ r \in restarted \cup unheard
        <3>1. wallet[Wallet(r)] # "absent" /\ pc[r] = "create"
            BY <1>1, <2>1, NoWalletStep
        <3>2. wallet[Wallet(r)] \in {"absent", "closed", "open"}
            BY <1>1, WalletKinds DEF WalletInv, WalletTypeOK
        <3>. QED
            BY <1>1, <3>1, <3>2 DEF WalletInv, NotClosed
    <2>. QED
        BY <2>1
<1>. QED
    BY <1>1, WalletInit, WalletInductive, PTL DEF Spec, WalletLostToAnother

-----------------------------------------------------------------------------
(* The lock of signet mining.                                               *)

\* The queue holds whoever waits for the lock or has it, each once.
QueueTypeOK ==
    /\ queue \in Seq(Request)
    /\ \A i, j \in 1 .. Len(queue) : queue[i] = queue[j] => i = j
    /\ \A i \in 1 .. Len(queue) : pc[queue[i]] \in Open

MinerTypeOK == miner = [r \in Request |-> [state |-> miner[r].state, on |-> miner[r].on]]

\* Under the lock a request is first, unless its client has gone; and a process
\* runs for a request that waits for it, unless its client has gone.
Exclusive ==
    \A r \in Request \ dropped :
        /\ network = "signet" /\ pc[r] \in Open =>
              \E i \in 1 .. Len(queue) : queue[i] = r /\ (pc[r] # "lock" => i = 1)
        /\ miner[r].state \in {"runs", "stuck"} => pc[r] = "wait"

\* A dropped request makes at most the call it has begun.
DroppedEnds == \A r \in dropped : pc[r] \in (Calls \ {"spawn"}) \cup Ended

LockInv == PayInv /\ QueueTypeOK /\ MinerTypeOK /\ Exclusive /\ DroppedEnds

-----------------------------------------------------------------------------
\* Who leaves a queue that holds nobody twice is out of it, the others keep their
\* order, and the first stays first.
LEMMA WithoutOne ==
    ASSUME NEW q \in Seq(Request), NEW r \in Request,
           \A i, j \in 1 .. Len(q) : q[i] = q[j] => i = j
    PROVE  /\ Without(q, r) \in Seq(Request)
           /\ \A i, j \in 1 .. Len(Without(q, r)) : Without(q, r)[i] = Without(q, r)[j] => i = j
           /\ \A i \in 1 .. Len(Without(q, r)) :
                  Without(q, r)[i] # r /\ \E k \in 1 .. Len(q) : Without(q, r)[i] = q[k]
           /\ \A k \in 1 .. Len(q) : q[k] # r =>
                  \E i \in 1 .. Len(Without(q, r)) : Without(q, r)[i] = q[k] /\ (k = 1 => i = 1)
<1>1. CASE \E i \in DOMAIN q : q[i] = r
    <2> DEFINE at == CHOOSE i \in DOMAIN q : q[i] = r
               w == [j \in 1 .. Len(q) - 1 |-> IF j < at THEN q[j] ELSE q[j + 1]]
    <2>1. at \in 1 .. Len(q) /\ q[at] = r
        BY <1>1
    <2>2. Without(q, r) = w
        BY <1>1 DEF Without
    <2> HIDE DEF at
    <2>3. Len(q) \in Nat /\ Len(q) - 1 \in Nat
        BY <2>1
    <2>4. w \in Seq(Request) /\ Len(w) = Len(q) - 1
        BY <2>1, <2>3
    <2>5. \A j \in 1 .. Len(w) : w[j] = IF j < at THEN q[j] ELSE q[j + 1]
        BY <2>4
    <2> HIDE DEF w
    <2>6. \A i, j \in 1 .. Len(w) : w[i] = w[j] => i = j
        BY <2>1, <2>3, <2>4, <2>5
    <2>7. \A i \in 1 .. Len(w) : w[i] # r /\ \E k \in 1 .. Len(q) : w[i] = q[k]
        BY <2>1, <2>3, <2>4, <2>5
    <2>8. ASSUME NEW k \in 1 .. Len(q), q[k] # r
          PROVE  \E i \in 1 .. Len(w) : w[i] = q[k] /\ (k = 1 => i = 1)
        <3>1. CASE k < at
            BY <2>1, <2>3, <2>4, <2>5, <2>8, <3>1
        <3>2. CASE k > at
            <4>1. k - 1 \in 1 .. Len(w) /\ w[k - 1] = q[k]
                BY <2>1, <2>3, <2>4, <2>5, <3>2
            <4>. QED
                BY <2>1, <3>2, <4>1
        <3>. QED
            BY <2>1, <2>8, <3>1, <3>2
    <2>. QED
        BY <2>2, <2>4, <2>6, <2>7, <2>8
<1>2. CASE ~\E i \in DOMAIN q : q[i] = r
    <2>1. Without(q, r) = q
        BY <1>2 DEF Without
    <2>2. \A i \in 1 .. Len(q) : q[i] # r
        BY <1>2
    <2>. QED
        BY <2>1, <2>2
<1>. QED
    BY <1>1, <1>2

-----------------------------------------------------------------------------
\* The answer of a call, or the end of a process, under the lock or after a drop.
LEMMA LockAnswer ==
    ASSUME LockInv, PayInv', NEW r \in Request, NEW next,
           pc[r] \in Open \ {"lock"}, next \in Open \cup Ended, Goes(r, next),
           MinerTypeOK', \A q \in Request \ {r} : miner'[q] = miner[q],
           r \notin dropped /\ miner'[r].state \in {"runs", "stuck"} => next = "wait"
    PROVE  LockInv'
<1> DEFINE to == IF r \in dropped THEN "gone" ELSE next
<1>1. /\ pc' = [pc EXCEPT ![r] = to]
      /\ queue' = IF to \in Ended THEN Without(queue, r) ELSE queue
      /\ UNCHANGED <<network, dropped>>
    BY DEF Goes
<1>2. to \in Open \cup Ended /\ (r \in dropped => to = "gone") /\ (r \notin dropped => to = next)
    BY DEF Ended
<1> HIDE DEF to
<1>3. pc'[r] = to /\ \A q \in Request \ {r} : pc'[q] = pc[q]
    BY <1>1 DEF LockInv, PayInv, PayTypeOK
<1>4. CASE to \in Ended
    <2>1. queue' = Without(queue, r)
        BY <1>1, <1>4
    <2>2. /\ queue' \in Seq(Request)
          /\ \A i, j \in 1 .. Len(queue') : queue'[i] = queue'[j] => i = j
          /\ \A i \in 1 .. Len(queue') :
                 queue'[i] # r /\ \E k \in 1 .. Len(queue) : queue'[i] = queue[k]
          /\ \A k \in 1 .. Len(queue) : queue[k] # r =>
                 \E i \in 1 .. Len(queue') : queue'[i] = queue[k] /\ (k = 1 => i = 1)
        <3>1. /\ queue \in Seq(Request)
              /\ \A i, j \in 1 .. Len(queue) : queue[i] = queue[j] => i = j
            BY DEF LockInv, QueueTypeOK
        <3> DEFINE rest == Without(queue, r)
        <3>2. /\ rest \in Seq(Request)
              /\ \A i, j \in 1 .. Len(rest) : rest[i] = rest[j] => i = j
              /\ \A i \in 1 .. Len(rest) : rest[i] # r /\ \E k \in 1 .. Len(queue) : rest[i] = queue[k]
              /\ \A k \in 1 .. Len(queue) : queue[k] # r =>
                     \E i \in 1 .. Len(rest) : rest[i] = queue[k] /\ (k = 1 => i = 1)
            BY <3>1, WithoutOne
        <3>3. queue' = rest
            BY <2>1
        <3> HIDE DEF rest
        <3>. QED
            BY <3>2, <3>3
    <2>3. QueueTypeOK'
        <3>1. ASSUME NEW i \in 1 .. Len(queue')
              PROVE  pc'[queue'[i]] \in Open
            <4>1. PICK k \in 1 .. Len(queue) : queue'[i] = queue[k] /\ queue'[i] # r
                BY <2>2
            <4>2. queue[k] \in Request
                BY DEF LockInv, QueueTypeOK
            <4>. QED
                BY <1>3, <4>1, <4>2 DEF LockInv, QueueTypeOK
        <3>. QED
            BY <2>2, <3>1 DEF QueueTypeOK
    <2>4. Exclusive'
        <3>1. ASSUME NEW q \in Request \ dropped', q # r
              PROVE  /\ network' = "signet" /\ pc'[q] \in Open =>
                           \E i \in 1 .. Len(queue') : queue'[i] = q /\ (pc'[q] # "lock" => i = 1)
                     /\ miner'[q].state \in {"runs", "stuck"} => pc'[q] = "wait"
            BY <1>1, <1>3, <2>2, <3>1 DEF LockInv, Exclusive
        <3>2. ASSUME r \notin dropped'
              PROVE  /\ pc'[r] \notin Open
                     /\ miner'[r].state \notin {"runs", "stuck"}
            BY <1>1, <1>2, <1>3, <1>4, <3>2 DEF Open, Calls, Ended
        <3>. QED
            BY <3>1, <3>2 DEF Exclusive
    <2>. QED
        BY <1>1, <1>3, <1>4, <2>3, <2>4 DEF LockInv, DroppedEnds
<1>5. CASE to \notin Ended
    <2>1. queue' = queue /\ r \notin dropped /\ to \in Open /\ to = next
        BY <1>1, <1>2, <1>5 DEF Ended
    <2>2. QueueTypeOK'
        BY <1>3, <2>1 DEF LockInv, QueueTypeOK
    <2>3. Exclusive'
        <3>1. ASSUME NEW q \in Request \ dropped', q # r
              PROVE  /\ network' = "signet" /\ pc'[q] \in Open =>
                           \E i \in 1 .. Len(queue') : queue'[i] = q /\ (pc'[q] # "lock" => i = 1)
                     /\ miner'[q].state \in {"runs", "stuck"} => pc'[q] = "wait"
            BY <1>1, <1>3, <2>1, <3>1 DEF LockInv, Exclusive
        <3>2. /\ network' = "signet" => \E i \in 1 .. Len(queue') : queue'[i] = r /\ i = 1
              /\ miner'[r].state \in {"runs", "stuck"} => pc'[r] = "wait"
            BY <1>1, <1>3, <2>1 DEF LockInv, Exclusive
        <3>. QED
            BY <3>1, <3>2 DEF Exclusive
    <2>. QED
        BY <1>1, <1>3, <2>1, <2>2, <2>3 DEF LockInv, DroppedEnds
<1>. QED
    BY <1>4, <1>5

\* Whoever makes a call has no process.
LEMMA NoProcess ==
    ASSUME LockInv, NEW r \in Request, pc[r] \in Calls, UNCHANGED miner
    PROVE  /\ MinerTypeOK' /\ \A q \in Request \ {r} : miner'[q] = miner[q]
           /\ r \notin dropped => miner'[r].state \notin {"runs", "stuck"}
           /\ pc[r] \in Open \ {"lock"}
BY DEF LockInv, MinerTypeOK, Exclusive, Open, Calls

\* The lock is taken by the first in the queue.
LEMMA LockTaken ==
    ASSUME LockInv, NEW r \in Request, Lock(r)
    PROVE  LockInv'
<1>1. /\ pc[r] = "lock" /\ Head(queue) = r /\ pc' = [pc EXCEPT ![r] = "list"]
      /\ UNCHANGED <<queue, miner, network, dropped>>
    BY DEF Lock, Locked, At, nodeVars
<1>2. PayInv' /\ pc'[r] = "list" /\ \A q \in Request \ {r} : pc'[q] = pc[q]
    BY <1>1, UnpaidServer DEF ServerStep, LockInv, PayInv, PayTypeOK
<1>3. r \notin dropped
    BY <1>1 DEF LockInv, DroppedEnds, Calls, Ended
<1>4. QueueTypeOK'
    BY <1>1, <1>2 DEF LockInv, QueueTypeOK, Open, Calls
<1>5. Exclusive'
    <2>1. ASSUME NEW q \in Request \ dropped, q # r
          PROVE  /\ network' = "signet" /\ pc'[q] \in Open =>
                       \E i \in 1 .. Len(queue') : queue'[i] = q /\ (pc'[q] # "lock" => i = 1)
                 /\ miner'[q].state \in {"runs", "stuck"} => pc'[q] = "wait"
        BY <1>1, <1>2, <2>1 DEF LockInv, Exclusive
    <2>2. network = "signet" => queue # <<>> /\ queue[1] = r
        <3>1. network = "signet" => \E i \in 1 .. Len(queue) : queue[i] = r
            BY <1>1, <1>3 DEF LockInv, Exclusive, Open
        <3>. QED
            BY <1>1, <3>1 DEF LockInv, QueueTypeOK
    <2>3. miner'[r].state \notin {"runs", "stuck"}
        BY <1>1, <1>3 DEF LockInv, Exclusive
    <2>4. network' = "signet" => \E i \in 1 .. Len(queue') : queue'[i] = r /\ i = 1
        BY <1>1, <2>2 DEF LockInv, QueueTypeOK
    <2>. QED
        BY <1>1, <2>1, <2>3, <2>4 DEF Exclusive
<1>. QED
    BY <1>1, <1>2, <1>3, <1>4, <1>5 DEF LockInv, DroppedEnds, MinerTypeOK

LEMMA LockServer ==
    ASSUME LockInv, NEW r \in Request, ServerStep(r)
    PROVE  LockInv'
<1> USE DEF At, Answered, Unanswered
<1>1. PayInv'
    BY UnpaidServer DEF LockInv
<1>2. CASE Lock(r)
    BY <1>2, LockTaken
<1>3. CASE ListWallets(r) \/ Address(r)
    <2>1. \E next \in Open \cup Ended : Goes(r, next)
        BY <1>3 DEF ListWallets, Address, WalletReady, IfClosed, Open, Calls, Ended
    <2>2. pc[r] \in Calls /\ UNCHANGED miner
        BY <1>3 DEF ListWallets, Address, Calls
    <2>. QED
        BY <1>1, <2>1, <2>2, NoProcess, LockAnswer
<1>4. CASE LoadWallet(r) \/ CreateWallet(r)
    <2>1. \E next \in Open \cup Ended : Goes(r, next)
        BY <1>4 DEF LoadWallet, CreateWallet, WalletReady, Open, Calls, Ended
    <2>2. pc[r] \in Calls /\ UNCHANGED miner
        BY <1>4 DEF LoadWallet, CreateWallet, OpenWallet, Calls
    <2>. QED
        BY <1>1, <2>1, <2>2, NoProcess, LockAnswer
<1>5. CASE Send(r) \/ Balance(r) \/ Generate(r)
    <2>1. \E next \in Open \cup Ended : Goes(r, next)
        BY <1>5 DEF Send, PaymentUnanswered, Balance, Generate, Open, Calls, Ended
    <2>2. pc[r] \in Calls /\ UNCHANGED miner
        BY <1>5 DEF Send, Balance, Generate, Calls
    <2>. QED
        BY <1>1, <2>1, <2>2, NoProcess, LockAnswer
<1>6. CASE BestBefore(r) \/ BestAfter(r)
    <2>1. \E next \in Open \cup Ended : Goes(r, next)
        BY <1>6 DEF BestBefore, BestAfter, Open, Calls, Ended
    <2>2. pc[r] \in Calls /\ UNCHANGED miner
        BY <1>6 DEF BestBefore, BestAfter, Calls
    <2>. QED
        BY <1>1, <2>1, <2>2, NoProcess, LockAnswer
<1>7. CASE Spawn(r)
    <2>1. /\ pc[r] = "spawn" /\ Goes(r, "wait")
          /\ miner' = [miner EXCEPT ![r] = [state |-> "runs", on |-> Template]]
        BY <1>7 DEF Spawn
    <2>2. MinerTypeOK' /\ \A q \in Request \ {r} : miner'[q] = miner[q]
        BY <2>1 DEF LockInv, MinerTypeOK
    <2>. QED
        BY <1>1, <2>1, <2>2, LockAnswer DEF Open, Calls
<1>8. CASE MinerEnded(r)
    <2>1. /\ pc[r] = "wait" /\ \E next \in {"after", "failed"} : Goes(r, next)
          /\ miner' = [miner EXCEPT ![r].state = "none"]
        BY <1>8 DEF MinerEnded, MinerIs
    <2>2. /\ MinerTypeOK' /\ miner'[r].state = "none"
          /\ \A q \in Request \ {r} : miner'[q] = miner[q]
        BY <2>1 DEF LockInv, MinerTypeOK
    <2>. QED
        BY <1>1, <2>1, <2>2, LockAnswer DEF Open, Calls, Ended
<1>. QED
    BY <1>2, <1>3, <1>4, <1>5, <1>6, <1>7, <1>8 DEF ServerStep

\* Who asks for the lock joins the queue at its end.
LEMMA LockSubmit ==
    ASSUME LockInv, NEW r \in Request, NEW f \in Form, Submit(r, f)
    PROVE  LockInv'
<1>1. PayInv'
    BY UnpaidSubmit DEF LockInv
<1> DEFINE locks == ~Refused(f) /\ network = "signet"
<1>2. /\ pc[r] = "new" /\ UNCHANGED <<network, miner, dropped>>
      /\ pc' = [pc EXCEPT ![r] = IF Refused(f) THEN "refused" ELSE IF locks THEN "lock" ELSE "list"]
      /\ queue' = IF locks THEN Append(queue, r) ELSE queue
    BY DEF Submit, At, nodeVars
<1>3. /\ pc'[r] \in {"refused", "lock", "list"} /\ \A q \in Request \ {r} : pc'[q] = pc[q]
      /\ locks => pc'[r] = "lock"
      /\ ~locks => pc'[r] # "lock"
      /\ ~locks /\ network = "signet" => pc'[r] = "refused"
    BY <1>2 DEF LockInv, PayInv, PayTypeOK
<1>4. r \notin dropped
    BY <1>2 DEF LockInv, DroppedEnds, Calls, Ended
<1>5. /\ queue \in Seq(Request)
      /\ \A i, j \in 1 .. Len(queue) : queue[i] = queue[j] => i = j
      /\ \A i \in 1 .. Len(queue) : pc[queue[i]] \in Open /\ queue[i] # r /\ queue[i] \in Request
    BY <1>2 DEF LockInv, QueueTypeOK, Open, Calls
<1>6. /\ queue' \in Seq(Request)
      /\ \A i \in 1 .. Len(queue) : i \in 1 .. Len(queue') /\ queue'[i] = queue[i]
      /\ \A i \in 1 .. Len(queue') : i \in 1 .. Len(queue) \/ (locks /\ queue'[i] = r)
      /\ \A i, j \in 1 .. Len(queue') : queue'[i] = queue'[j] => i = j
      /\ locks => Len(queue') \in 1 .. Len(queue') /\ queue'[Len(queue')] = r
    BY <1>2, <1>5
<1> HIDE DEF locks
<1>7. QueueTypeOK'
    BY <1>3, <1>5, <1>6 DEF QueueTypeOK, Open
<1>8. Exclusive'
    <2>1. ASSUME NEW q \in Request \ dropped', q # r
          PROVE  /\ network' = "signet" /\ pc'[q] \in Open =>
                       \E i \in 1 .. Len(queue') : queue'[i] = q /\ (pc'[q] # "lock" => i = 1)
                 /\ miner'[q].state \in {"runs", "stuck"} => pc'[q] = "wait"
        BY <1>2, <1>3, <1>6, <2>1 DEF LockInv, Exclusive
    <2>2. miner'[r].state \notin {"runs", "stuck"}
        BY <1>2, <1>4 DEF LockInv, Exclusive
    <2>3. network' = "signet" /\ pc'[r] \in Open =>
              \E i \in 1 .. Len(queue') : queue'[i] = r /\ (pc'[r] # "lock" => i = 1)
        BY <1>2, <1>3, <1>6 DEF Open, Calls
    <2>. QED
        BY <2>1, <2>2, <2>3 DEF Exclusive
<1>. QED
    BY <1>1, <1>2, <1>3, <1>4, <1>7, <1>8 DEF LockInv, DroppedEnds, MinerTypeOK

\* A dropped request gives the lock back at once, whatever its call or process does.
LEMMA LockDrop ==
    ASSUME LockInv, NEW r \in Request, Drop(r)
    PROVE  LockInv'
<1>1. PayInv'
    BY UnpaidTrouble DEF LockInv
<1>2. /\ Running(r) /\ dropped' = dropped \cup {r} /\ queue' = Without(queue, r)
      /\ pc' = [pc EXCEPT ![r] = IF pc[r] \in Calls \ {"spawn"} THEN pc[r] ELSE "gone"]
      /\ UNCHANGED <<network, miner>>
    BY DEF Drop, nodeVars
<1>3. /\ pc'[r] \in (Calls \ {"spawn"}) \cup Ended /\ \A q \in Request \ {r} : pc'[q] = pc[q]
    BY <1>2 DEF LockInv, PayInv, PayTypeOK, Ended
<1>4. /\ queue \in Seq(Request)
      /\ \A i, j \in 1 .. Len(queue) : queue[i] = queue[j] => i = j
      /\ \A i \in 1 .. Len(queue) : pc[queue[i]] \in Open /\ queue[i] \in Request
    BY DEF LockInv, QueueTypeOK
<1> DEFINE rest == Without(queue, r)
<1>5. /\ rest \in Seq(Request)
      /\ \A i, j \in 1 .. Len(rest) : rest[i] = rest[j] => i = j
      /\ \A i \in 1 .. Len(rest) : rest[i] # r /\ \E k \in 1 .. Len(queue) : rest[i] = queue[k]
      /\ \A k \in 1 .. Len(queue) : queue[k] # r =>
             \E i \in 1 .. Len(rest) : rest[i] = queue[k] /\ (k = 1 => i = 1)
    BY <1>4, WithoutOne
<1>6. queue' = rest
    BY <1>2
<1> HIDE DEF rest
<1>7. QueueTypeOK'
    <2>1. ASSUME NEW i \in 1 .. Len(rest)
          PROVE  pc'[rest[i]] \in Open
        BY <1>3, <1>4, <1>5
    <2>. QED
        BY <1>5, <1>6, <2>1 DEF QueueTypeOK
<1>8. Exclusive'
    <2>1. ASSUME NEW q \in Request \ dropped'
          PROVE  /\ network' = "signet" /\ pc'[q] \in Open =>
                       \E i \in 1 .. Len(queue') : queue'[i] = q /\ (pc'[q] # "lock" => i = 1)
                 /\ miner'[q].state \in {"runs", "stuck"} => pc'[q] = "wait"
        BY <1>2, <1>3, <1>5, <1>6, <2>1 DEF LockInv, Exclusive
    <2>. QED
        BY <2>1 DEF Exclusive
<1>. QED
    BY <1>1, <1>2, <1>3, <1>7, <1>8 DEF LockInv, DroppedEnds, MinerTypeOK

LEMMA LockCallFails ==
    ASSUME LockInv, NEW r \in Request, CallFails(r)
    PROVE  LockInv'
<1>1. PayInv'
    BY UnpaidTrouble DEF LockInv
<1>2. \E next \in Open \cup Ended : Goes(r, next)
    BY DEF CallFails, Unanswered, Open, Calls, Ended
<1>3. pc[r] \in Calls /\ UNCHANGED miner
    BY DEF CallFails
<1>. QED
    BY <1>1, <1>2, <1>3, NoProcess, LockAnswer

\* A process mines, fails or hangs on: it was running before.
LEMMA LockWorld ==
    ASSUME LockInv, (\E r \in Request : MinerStep(r)) \/ ForeignBlock \/ Rewind \/ Restart
    PROVE  LockInv'
<1>1. PayInv'
    BY UnpaidWorld DEF LockInv
<1>2. UNCHANGED <<pc, queue, dropped, network>>
    BY DEF MinerStep, MinerMines, MinerFails, Join, ForeignBlock, Rewind, Restart, Event, nodeVars
<1>3. /\ MinerTypeOK'
      /\ \A q \in Request : miner'[q].state \in {"runs", "stuck"} => miner[q].state \in {"runs", "stuck"}
    <2>1. CASE \E r \in Request : MinerStep(r)
        <3>1. PICK r \in Request, state \in {"ok", "bad", "stuck"} :
                  miner[r].state = "runs" /\ miner' = [miner EXCEPT ![r].state = state]
            BY <2>1 DEF MinerStep, MinerMines, MinerFails, MinerIs
        <3>. QED
            BY <3>1 DEF LockInv, MinerTypeOK
    <2>2. CASE ForeignBlock \/ Rewind \/ Restart
        BY <2>2 DEF ForeignBlock, Rewind, Restart, Event, LockInv, MinerTypeOK
    <2>. QED
        BY <2>1, <2>2
<1>. QED
    BY <1>1, <1>2, <1>3 DEF LockInv, QueueTypeOK, Exclusive, DroppedEnds

LEMMA LockInit == Init => LockInv
<1> SUFFICES ASSUME Init
             PROVE  LockInv
    OBVIOUS
<1>1. QueueTypeOK /\ Exclusive
    BY DEF Init, QueueTypeOK, Exclusive, Open, Calls
<1>2. MinerTypeOK /\ DroppedEnds
    BY DEF Init, MinerTypeOK, DroppedEnds
<1>. QED
    BY <1>1, <1>2, UnpaidInit DEF LockInv

LEMMA LockInductive == LockInv /\ [Next]_vars => LockInv'
<1> SUFFICES ASSUME LockInv, [Next]_vars
             PROVE  LockInv'
    OBVIOUS
<1>1. CASE \E r \in Request, f \in Form : Submit(r, f)
    BY <1>1, LockSubmit
<1>2. CASE \E r \in Request : ServerStep(r)
    BY <1>2, LockServer
<1>3. CASE \E r \in Request : CallFails(r)
    BY <1>3, LockCallFails
<1>4. CASE \E r \in Request : Drop(r)
    BY <1>4, LockDrop
<1>5. CASE (\E r \in Request : MinerStep(r)) \/ ForeignBlock \/ Rewind \/ Restart
    BY <1>5, LockWorld
<1>6. CASE UNCHANGED vars
    BY <1>6, UnpaidElsewhere DEF vars, nodeVars, historyVars,
       LockInv, QueueTypeOK, MinerTypeOK, Exclusive, DroppedEnds
<1>. QED
    BY <1>1, <1>2, <1>3, <1>4, <1>5, <1>6 DEF Next

\* Two miner processes run at a time only when a request that started one was dropped
\* (SIGNET_MINING_LOCK), for any number of requests and failures.
THEOREM OneMinerCorrect == Spec => []OneMiner
<1>1. LockInv => OneMiner
    <2> SUFFICES ASSUME LockInv, NEW q \in Request, NEW r \in Request, q # r,
                        {miner[q].state, miner[r].state} \subseteq {"runs", "stuck"},
                        q \notin dropped, r \notin dropped
                 PROVE  FALSE
        BY DEF OneMiner
    <2>1. pc[q] = "wait" /\ pc[r] = "wait"
        BY DEF LockInv, Exclusive
    <2>2. network = "signet"
        BY <2>1 DEF LockInv, PayInv, Unpaid, SignetCalls
    <2>3. queue[1] = q /\ queue[1] = r
        BY <2>1, <2>2 DEF LockInv, Exclusive, Open
    <2>. QED
        BY <2>3
<1>. QED
    BY <1>1, LockInit, LockInductive, PTL DEF Spec

-----------------------------------------------------------------------------
(* The chain and its rewards.                                               *)

Payee == {"faucet", "miner", "other"}

Mined == [by : Request \cup {"other"}, to : Payee]

\* The chain's blocks are mined ones, in the order in which they were mined.
ChainOK ==
    /\ mined \in Seq(Mined) /\ chain \in Seq(1 .. Len(mined))
    /\ \A i, j \in DOMAIN chain : i < j => chain[i] < chain[j]

LEMMA TipHighest ==
    ASSUME ChainOK
    PROVE  /\ Tip \in 0 .. Len(mined)
           /\ \A i \in DOMAIN chain : chain[i] \in 1 .. Len(mined) /\ chain[i] <= Tip
           /\ Tip > 0 => \E i \in DOMAIN chain : chain[i] = Tip
<1>1. Len(mined) \in Nat /\ Len(chain) \in Nat /\ DOMAIN chain = 1 .. Len(chain)
    BY DEF ChainOK
<1>2. \A i \in DOMAIN chain : chain[i] \in 1 .. Len(mined)
    BY <1>1 DEF ChainOK
<1>3. CASE chain = <<>>
    BY <1>1, <1>3 DEF Tip
<1>4. CASE chain # <<>>
    <2>1. Len(chain) \in DOMAIN chain /\ Tip = chain[Len(chain)]
        BY <1>1, <1>4, EmptySeq DEF Tip, ChainOK
    <2>2. ASSUME NEW i \in DOMAIN chain PROVE chain[i] <= Tip
        <3>1. CASE i = Len(chain)
            BY <1>1, <1>2, <2>1, <3>1
        <3>2. CASE i # Len(chain)
            BY <1>1, <1>2, <2>1, <3>2 DEF ChainOK
        <3>. QED
            BY <3>1, <3>2
    <2>. QED
        BY <1>1, <1>2, <2>1, <2>2
<1>. QED
    BY <1>3, <1>4

\* The blocks of a chain that reward the faucet.
Paying(blocks, ledger) == {i \in DOMAIN blocks : ledger[blocks[i]].to = "faucet"}

LEMMA RewardsCount ==
    ASSUME NEW blocks \in Seq(Nat)
    PROVE  /\ IsFiniteSet(Paying(blocks, mined))
           /\ Rewards(blocks) = Cardinality(Paying(blocks, mined))
           /\ Rewards(blocks) \in 0 .. Len(blocks)
<1>1. DOMAIN blocks = 1 .. Len(blocks) /\ Len(blocks) \in Nat
    OBVIOUS
<1>2. IsFiniteSet(1 .. Len(blocks)) /\ Cardinality(1 .. Len(blocks)) = Len(blocks)
    <2>1. /\ IsFiniteSet(1 .. Len(blocks))
          /\ Cardinality(1 .. Len(blocks)) = IF 1 > Len(blocks) THEN 0 ELSE Len(blocks) - 1 + 1
        BY <1>1, FS_Interval
    <2>. QED
        BY <1>1, <2>1
<1>3. Paying(blocks, mined) \in SUBSET (1 .. Len(blocks))
    BY <1>1 DEF Paying
<1>4. /\ IsFiniteSet(Paying(blocks, mined))
      /\ Cardinality(Paying(blocks, mined)) <= Len(blocks)
    BY <1>2, <1>3, FS_Subset
<1>5. Cardinality(Paying(blocks, mined)) \in Nat
    BY <1>4, FS_CardinalityType
<1>6. Rewards(blocks) = Cardinality(Paying(blocks, mined))
    BY DEF Rewards, Paying
<1>. QED
    BY <1>1, <1>4, <1>5, <1>6

\* No more rewards are immature than blocks have to be on top of one.
LEMMA ImmatureAtMost ==
    ASSUME ChainOK
    PROVE  Immature \in 0 .. Maturity
<1> DEFINE ripe == IF Len(chain) > Maturity THEN Len(chain) - Maturity ELSE 0
           top == SubSeq(chain, ripe + 1, Len(chain))
<1>1. Len(mined) \in Nat /\ Len(chain) \in Nat /\ chain \in Seq(Nat) /\ Maturity \in Nat
    BY MiningAssumption DEF ChainOK
<1>2. ripe \in Nat /\ Len(chain) - ripe <= Maturity /\ ripe <= Len(chain)
    BY <1>1
<1>3. Immature = Rewards(top)
    BY DEF Immature
<1> HIDE DEF ripe
<1>4. top \in Seq(Nat) /\ Len(top) = Len(chain) - ripe
    BY <1>1, <1>2, SubSeqProperties
<1> HIDE DEF top
<1>5. Rewards(top) \in 0 .. Len(top)
    BY <1>4, RewardsCount
<1>. QED
    BY <1>1, <1>2, <1>3, <1>4, <1>5
LEMMA Retyped ==
    ASSUME NEW S, NEW T, NEW s \in Seq(S), \A i \in DOMAIN s : s[i] \in T
    PROVE  s \in Seq(T)
OBVIOUS

LEMMA Concatenated ==
    ASSUME NEW S, NEW s \in Seq(S), NEW t \in Seq(S)
    PROVE  /\ s \o t \in Seq(S) /\ Len(s \o t) = Len(s) + Len(t)
           /\ DOMAIN (s \o t) = 1 .. (Len(s) + Len(t))
           /\ \A i \in 1 .. Len(s) : (s \o t)[i] = s[i]
           /\ \A i \in 1 .. Len(t) : (s \o t)[Len(s) + i] = t[i]
<1>1. s \o t \in Seq(S) /\ Len(s \o t) = Len(s) + Len(t)
    BY ConcatProperties
<1>2. DOMAIN (s \o t) = 1 .. (Len(s) + Len(t))
    BY <1>1
<1>3. \A i \in 1 .. Len(s) : (s \o t)[i] = s[i]
    OBVIOUS
<1>4. \A i \in 1 .. Len(t) : (s \o t)[Len(s) + i] = t[i]
    OBVIOUS
<1>. QED
    BY <1>1, <1>2, <1>3, <1>4

\* n blocks that join go on top, in the order they were mined, and bring n rewards
\* when they are to.
LEMMA Joined ==
    ASSUME ChainOK, NEW n \in Nat, NEW by \in Request \cup {"other"}, NEW to \in Payee,
           Join(n, by, to)
    PROVE  /\ ChainOK'
           /\ Len(mined') = Len(mined) + n
           /\ \A i \in 1 .. Len(mined) : mined'[i] = mined[i]
           /\ \A i \in 1 .. n : mined'[Len(mined) + i].by = by
           /\ \A i \in DOMAIN chain' : \/ i \in DOMAIN chain /\ chain'[i] = chain[i]
                                       \/ mined'[chain'[i]].by = by
           /\ Tip' = IF n = 0 THEN Tip ELSE Len(mined) + n
           /\ Rewards(chain)' = Rewards(chain) + (IF to = "faucet" THEN n ELSE 0)
<1> DEFINE more == [i \in 1 .. n |-> [by |-> by, to |-> to]]
           top == [i \in 1 .. n |-> Len(mined) + i]
<1>1. /\ Len(mined) \in Nat /\ Len(chain) \in Nat
      /\ DOMAIN chain = 1 .. Len(chain) /\ DOMAIN mined = 1 .. Len(mined)
      /\ \A i \in DOMAIN chain : chain[i] \in 1 .. Len(mined)
    BY DEF ChainOK
<1>2. more \in Seq(Mined) /\ Len(more) = n /\ top \in Seq(Nat) /\ Len(top) = n
    <2>1. [by |-> by, to |-> to] \in Mined
        BY DEF Mined
    <2>. QED
        BY <1>1, <2>1
<1>3. mined' = mined \o more /\ chain' = chain \o top
    BY DEF Join
<1>4. \A i \in 1 .. n : more[i] = [by |-> by, to |-> to] /\ top[i] = Len(mined) + i
    OBVIOUS
<1> HIDE DEF more, top
<1>5. /\ mined' \in Seq(Mined) /\ Len(mined') = Len(mined) + n
      /\ \A i \in 1 .. Len(mined) : mined'[i] = mined[i]
      /\ \A i \in 1 .. n : mined'[Len(mined) + i] = [by |-> by, to |-> to]
    <2>1. mined \in Seq(Mined)
        BY DEF ChainOK
    <2>2. more \in Seq(Mined)
        BY <1>2
    <2>3. /\ mined \o more \in Seq(Mined) /\ Len(mined \o more) = Len(mined) + Len(more)
          /\ \A i \in 1 .. Len(mined) : (mined \o more)[i] = mined[i]
          /\ \A i \in 1 .. Len(more) : (mined \o more)[Len(mined) + i] = more[i]
        BY <2>1, <2>2, Concatenated
    <2>. QED
        BY <1>2, <1>3, <1>4, <2>3
<1>6. /\ chain' \in Seq(Nat)
      /\ Len(chain') = Len(chain) + n /\ DOMAIN chain' = 1 .. (Len(chain) + n)
      /\ \A i \in 1 .. Len(chain) : chain'[i] = chain[i]
      /\ \A i \in 1 .. n : chain'[Len(chain) + i] = Len(mined) + i
    <2>1. chain \in Seq(Nat)
        BY <1>1 DEF ChainOK
    <2>2. top \in Seq(Nat)
        BY <1>2
    <2>3. /\ chain \o top \in Seq(Nat) /\ Len(chain \o top) = Len(chain) + Len(top)
          /\ DOMAIN (chain \o top) = 1 .. (Len(chain) + Len(top))
          /\ \A i \in 1 .. Len(chain) : (chain \o top)[i] = chain[i]
          /\ \A i \in 1 .. Len(top) : (chain \o top)[Len(chain) + i] = top[i]
        BY <2>1, <2>2, Concatenated
    <2>. QED
        BY <1>2, <1>3, <1>4, <2>3
<1>7. \A i \in 1 .. (Len(chain) + n) : i \in 1 .. Len(chain) \/ i - Len(chain) \in 1 .. n
    BY <1>1
<1>8. \A i \in DOMAIN chain' : /\ chain'[i] \in 1 .. Len(mined')
                               /\ \/ i \in DOMAIN chain /\ chain'[i] = chain[i]
                                  \/ mined'[chain'[i]].by = by
    <2> SUFFICES ASSUME NEW i \in DOMAIN chain'
                 PROVE  /\ chain'[i] \in 1 .. Len(mined')
                        /\ \/ i \in DOMAIN chain /\ chain'[i] = chain[i]
                           \/ mined'[chain'[i]].by = by
        OBVIOUS
    <2>1. CASE i \in 1 .. Len(chain)
        <3>1. chain'[i] = chain[i] /\ chain[i] \in 1 .. Len(mined) /\ i \in DOMAIN chain
            BY <1>1, <1>6, <2>1
        <3>2. chain'[i] \in 1 .. Len(mined')
            BY <1>1, <1>5, <3>1
        <3>. QED
            BY <3>1, <3>2
    <2>2. CASE i - Len(chain) \in 1 .. n
        <3>1. chain'[Len(chain) + (i - Len(chain))] = Len(mined) + (i - Len(chain))
            BY <1>6, <2>2
        <3>2. chain'[i] = Len(mined) + (i - Len(chain))
            BY <1>1, <1>6, <3>1
        <3>3. mined'[Len(mined) + (i - Len(chain))] = [by |-> by, to |-> to]
            BY <1>5, <2>2
        <3>4. mined'[chain'[i]].by = by
            BY <3>2, <3>3
        <3>5. chain'[i] \in 1 .. Len(mined')
            BY <1>1, <1>5, <2>2, <3>2
        <3>. QED
            BY <3>4, <3>5
    <2>. QED
        BY <1>6, <1>7, <2>1, <2>2
<1>9. ChainOK'
    <2>1. chain' \in Seq(1 .. Len(mined'))
        <3>1. \A i \in DOMAIN chain' : chain'[i] \in 1 .. Len(mined')
            BY <1>8
        <3>. QED
            BY <1>6, <3>1, Retyped
    <2>2. ASSUME NEW i \in DOMAIN chain', NEW j \in DOMAIN chain', i < j
          PROVE  chain'[i] < chain'[j]
        <3>1. CASE j \in 1 .. Len(chain)
            <4>1. i \in 1 .. Len(chain)
                BY <1>1, <1>6, <2>2, <3>1
            <4>2. chain'[i] = chain[i] /\ chain'[j] = chain[j]
                BY <1>6, <3>1, <4>1
            <4>3. chain[i] < chain[j]
                BY <1>1, <2>2, <3>1, <4>1 DEF ChainOK
            <4>. QED
                BY <4>2, <4>3
        <3>2. CASE j - Len(chain) \in 1 .. n
            <4>1. chain'[Len(chain) + (j - Len(chain))] = Len(mined) + (j - Len(chain))
                BY <1>6, <3>2
            <4>2. chain'[j] = Len(mined) + (j - Len(chain))
                BY <1>1, <1>6, <4>1
            <4>3. CASE i \in 1 .. Len(chain)
                BY <1>1, <1>6, <3>2, <4>2, <4>3
            <4>4. CASE i - Len(chain) \in 1 .. n
                <5>1. chain'[Len(chain) + (i - Len(chain))] = Len(mined) + (i - Len(chain))
                    BY <1>6, <4>4
                <5>2. chain'[i] = Len(mined) + (i - Len(chain))
                    BY <1>1, <1>6, <5>1
                <5>. QED
                    BY <1>1, <1>6, <2>2, <4>2, <5>2
            <4>. QED
                BY <1>6, <1>7, <4>3, <4>4
        <3>. QED
            BY <1>6, <1>7, <3>1, <3>2
    <2>. QED
        BY <1>5, <2>1, <2>2 DEF ChainOK
<1>10. Tip' = IF n = 0 THEN Tip ELSE Len(mined) + n
    <2>1. CASE n = 0
        <3>1. DOMAIN chain' = DOMAIN chain
            BY <1>1, <1>6, <2>1
        <3>2. chain' = [i \in DOMAIN chain' |-> chain'[i]] /\ chain = [i \in DOMAIN chain |-> chain[i]]
            BY <1>6 DEF ChainOK
        <3>4. chain' = chain
            BY <1>1, <1>6, <3>1, <3>2
        <3>. QED
            BY <2>1, <3>4 DEF Tip
    <2>2. CASE n # 0
        <3>1. Len(chain') = Len(chain) + n /\ chain'[Len(chain) + n] = Len(mined) + n
            BY <1>1, <1>6, <2>2
        <3>2. chain' # <<>>
            BY <1>1, <2>2, <3>1
        <3>. QED
            BY <2>2, <3>1, <3>2 DEF Tip
    <2>. QED
        BY <2>1, <2>2
<1>11. Rewards(chain)' = Rewards(chain) + (IF to = "faucet" THEN n ELSE 0)
    <2> DEFINE old == Paying(chain, mined)
               new == IF to = "faucet" THEN (Len(chain) + 1) .. (Len(chain) + n) ELSE {}
    <2>1. IsFiniteSet(old) /\ Rewards(chain) = Cardinality(old) /\ Rewards(chain) \in Nat
        <3>1. chain \in Seq(Nat)
            BY <1>1 DEF ChainOK
        <3>. QED
            BY <1>1, <3>1, RewardsCount
    <2>2. Rewards(chain)' = Cardinality(Paying(chain', mined'))
        BY DEF Rewards, Paying
    <2>3. IsFiniteSet(new) /\ Cardinality(new) = IF to = "faucet" THEN n ELSE 0
        <3>1. /\ IsFiniteSet((Len(chain) + 1) .. (Len(chain) + n))
              /\ Cardinality((Len(chain) + 1) .. (Len(chain) + n)) =
                     IF Len(chain) + 1 > Len(chain) + n THEN 0
                     ELSE (Len(chain) + n) - (Len(chain) + 1) + 1
            <4>1. Len(chain) + 1 \in Int /\ Len(chain) + n \in Int
                BY <1>1
            <4>. QED
                BY <4>1, FS_Interval
        <3>2. IsFiniteSet({}) /\ Cardinality({}) = 0
            BY FS_EmptySet
        <3>. QED
            BY <1>1, <3>1, <3>2
    <2>4. old \subseteq 1 .. Len(chain)
        BY <1>1 DEF Paying
    <2>5. Paying(chain', mined') = old \cup new
        <3>1. ASSUME NEW i \in 1 .. (Len(chain) + n)
              PROVE  mined'[chain'[i]].to = "faucet" <=> i \in old \cup new
            <4>1. CASE i \in 1 .. Len(chain)
                <5>1. mined'[chain'[i]] = mined[chain[i]]
                    BY <1>1, <1>5, <1>6, <4>1
                <5>2. i \notin new
                    BY <1>1, <4>1
                <5>. QED
                    BY <1>1, <4>1, <5>1, <5>2 DEF Paying
            <4>2. CASE i - Len(chain) \in 1 .. n
                <5>1. chain'[Len(chain) + (i - Len(chain))] = Len(mined) + (i - Len(chain))
                    BY <1>6, <4>2
                <5>2. chain'[i] = Len(mined) + (i - Len(chain))
                    BY <1>1, <5>1
                <5>3. mined'[chain'[i]].to = to
                    <6>1. mined'[Len(mined) + (i - Len(chain))] = [by |-> by, to |-> to]
                        BY <1>5, <4>2
                    <6>. QED
                        BY <5>2, <6>1
                <5>4. i \notin old /\ i \in (Len(chain) + 1) .. (Len(chain) + n)
                    BY <1>1, <2>4, <4>2
                <5>. QED
                    BY <5>3, <5>4
            <4>. QED
                BY <1>7, <4>1, <4>2
        <3>2. old \cup new \subseteq 1 .. (Len(chain) + n)
            BY <1>1, <2>4
        <3>. QED
            BY <1>6, <3>1, <3>2 DEF Paying
    <2>6. old \cap new = {}
        BY <1>1, <2>4
    <2> HIDE DEF old, new
    <2>7. Cardinality(old \cup new) = Cardinality(old) + Cardinality(new)
        <3>1. Cardinality(old \cup new) = Cardinality(old) + Cardinality(new) - Cardinality(old \cap new)
            BY <2>1, <2>3, FS_Union
        <3>2. Cardinality(old \cap new) = 0
            BY <2>6, FS_EmptySet
        <3>3. Cardinality(old) \in Nat /\ Cardinality(new) \in Nat
            BY <2>1, <2>3
        <3>. QED
            BY <3>1, <3>2, <3>3
    <2>. QED
        BY <2>1, <2>2, <2>3, <2>5, <2>7
<1>12. \A i \in 1 .. n : mined'[Len(mined) + i].by = by
    <2> SUFFICES ASSUME NEW i \in 1 .. n PROVE mined'[Len(mined) + i].by = by
        OBVIOUS
    <2>1. mined'[Len(mined) + i] = [by |-> by, to |-> to]
        BY <1>5
    <2>. QED
        BY <2>1
<1>. QED
    BY <1>5, <1>8, <1>9, <1>10, <1>11, <1>12

LEMMA RewoundChain ==
    ASSUME ChainOK, Rewind
    PROVE  /\ ChainOK' /\ mined' = mined
           /\ \A i \in DOMAIN chain' : i \in DOMAIN chain /\ chain'[i] = chain[i]
           /\ Rewards(chain)' \in Nat
           /\ spent' = Least(spent, Rewards(chain)')
<1>1. /\ mined' = mined /\ chain # <<>> /\ chain' = SubSeq(chain, 1, Len(chain) - 1)
      /\ spent' = Least(spent, Rewards(chain'))
    BY DEF Rewind
<1>2. Len(mined) \in Nat /\ Len(chain) \in Nat /\ DOMAIN chain = 1 .. Len(chain)
    BY DEF ChainOK
<1>3. \A i \in 1 .. Len(chain) - 1 : chain[i] \in 1 .. Len(mined)
    BY <1>2 DEF ChainOK
<1>4. /\ chain' \in Seq(1 .. Len(mined))
      /\ Len(chain') = IF 1 <= Len(chain) - 1 THEN Len(chain) - 1 ELSE 0
      /\ \A i \in 1 .. Len(chain) - 1 : chain'[i] = chain[i]
    <2>1. Len(chain) - 1 \in Int
        BY <1>2
    <2>2. /\ SubSeq(chain, 1, Len(chain) - 1) \in Seq(1 .. Len(mined))
          /\ Len(SubSeq(chain, 1, Len(chain) - 1)) =
                 IF 1 <= Len(chain) - 1 THEN (Len(chain) - 1) - 1 + 1 ELSE 0
          /\ \A i \in 1 .. (Len(chain) - 1) - 1 + 1 :
                 SubSeq(chain, 1, Len(chain) - 1)[i] = chain[1 + i - 1]
        BY <1>3, <2>1, SubSeqProperties
    <2>. QED
        BY <1>1, <1>2, <2>2
<1>5. \A i \in DOMAIN chain' : i \in DOMAIN chain /\ chain'[i] = chain[i]
    <2>1. Len(chain') \in Nat /\ DOMAIN chain' = 1 .. Len(chain')
        BY <1>4, LenProperties
    <2>2. \A i \in 1 .. Len(chain') : i \in 1 .. Len(chain) - 1
        <3>1. CASE 1 <= Len(chain) - 1
            BY <1>2, <1>4, <3>1
        <3>2. CASE ~(1 <= Len(chain) - 1)
            BY <1>4, <3>2
        <3>. QED
            BY <3>1, <3>2
    <2>3. \A i \in 1 .. Len(chain) - 1 : i \in 1 .. Len(chain)
        BY <1>2
    <2>4. \A i \in 1 .. Len(chain) - 1 : chain'[i] = chain[i]
        BY <1>4
    <2>. QED
        BY <1>2, <2>1, <2>2, <2>3, <2>4
<1>6. ChainOK'
    BY <1>1, <1>4, <1>5 DEF ChainOK
<1>7. Rewards(chain)' = Rewards(chain')
    BY <1>1 DEF Rewards
<1>8. Rewards(chain') \in Nat
    <2>1. chain' \in Seq(Nat)
        <3>1. chain' \in Seq(1 .. Len(mined))
            BY <1>4
        <3>. QED
            BY <3>1
    <2>2. Len(chain') \in Nat
        BY <2>1, LenProperties
    <2>. QED
        BY <2>1, <2>2, RewardsCount
<1>. QED
    BY <1>1, <1>5, <1>6, <1>7, <1>8

-----------------------------------------------------------------------------
(* What a request has still to do.                                          *)

MiningTypeOK ==
    /\ ChainOK /\ spent \in Nat
    /\ left \in [Request -> Nat] /\ refilled \in [Request -> Nat]
    /\ before \in [Request -> Nat] /\ hashes \in [Request -> Seq(Nat)]

\* Of the blocks asked for, those that were not mined are left.
Work(r) ==
    /\ pc[r] \notin {"new", "refused"} => form[r] \in Form
    /\ pc[r] \in {"send", "balance"} => form[r].kind = "faucet"
    /\ pc[r] = "new" => hashes[r] = <<>> /\ refilled[r] = 0
    /\ pc[r] \in Open /\ form[r].kind = "mine" =>
           left[r] > 0 /\ left[r] + Len(hashes[r]) = form[r].count
    /\ pc[r] = "done" /\ form[r].kind = "mine" => Len(hashes[r]) = form[r].count

MiningInv == PayInv /\ MiningTypeOK /\ \A r \in Request : Work(r)

\* A request that goes on without a block, a payment or a look at the balance.
Walks(r, to) ==
    /\ pc[r] \in Open /\ to \in (Open \cup Ended) \ {"refused"}
    /\ to \in {"balance", "short", "done"} => to = pc[r]
    /\ to \in {"spawn", "wait", "after"} => pc[r] \in {"spawn", "wait", "after"}
    /\ to = "send" => form[r].kind = "faucet"
    /\ pc' = [pc EXCEPT ![r] = to]
    /\ UNCHANGED <<network, mined, chain, spent, form, walkVars>>
    /\ UNCHANGED <<robbed, crowded, misled, rewound>>

LEMMA MayGoTo ==
    ASSUME PayInv, NEW r \in Request, NEW next, Goes(r, next)
    PROVE  /\ \E to \in {next, "gone"} : pc' = [pc EXCEPT ![r] = to]
           /\ UNCHANGED <<network, form>>
BY DEF Goes

LEMMA WalkSteps ==
    ASSUME MiningInv, NEW r \in Request,
           \/ Lock(r) \/ ListWallets(r) \/ LoadWallet(r) \/ CreateWallet(r) \/ Address(r)
           \/ Spawn(r) \/ MinerEnded(r) \/ CallFails(r) \/ Drop(r)
    PROVE  \E to : Walks(r, to)
<1> USE DEF At, Answered, nodeVars, walkVars, historyVars
<1>0. PayInv /\ (pc[r] \in {"send", "balance"} => form[r].kind = "faucet")
    BY DEF MiningInv, Work
<1>1. ASSUME NEW next \in {"list", "load", "create", "address", "before", "generate", "failed", "noWallet"},
             Goes(r, next), pc[r] \in Open,
             UNCHANGED <<mined, chain, spent, walkVars, robbed, crowded, misled, rewound>>
      PROVE  \E to : Walks(r, to)
    <2>1. PICK to \in {next, "gone"} : pc' = [pc EXCEPT ![r] = to] /\ UNCHANGED <<network, form>>
        BY <1>0, <1>1, MayGoTo
    <2>2. Walks(r, to)
        BY <1>1, <2>1 DEF Walks, Open, Calls, Ended
    <2>. QED
        BY <2>2
<1>2. ASSUME Goes(r, WalletReady(r)), pc[r] \in Open,
             UNCHANGED <<mined, chain, spent, walkVars, robbed, crowded, misled, rewound>>
      PROVE  \E to : Walks(r, to)
    <2>1. PICK to \in {WalletReady(r), "gone"} : pc' = [pc EXCEPT ![r] = to] /\ UNCHANGED <<network, form>>
        BY <1>0, <1>2, MayGoTo
    <2>2. WalletReady(r) \in {"address", "send"} /\ (WalletReady(r) = "send" => form[r].kind = "faucet")
        BY DEF WalletReady
    <2>3. Walks(r, to)
        BY <1>2, <2>1, <2>2 DEF Walks, Open, Calls, Ended
    <2>. QED
        BY <2>3
<1>3. CASE Lock(r)
    <2>1. Walks(r, "list")
        BY <1>3 DEF Lock, Walks, Open, Calls
    <2>. QED
        BY <2>1
<1>4. CASE ListWallets(r)
    <2>1. pc[r] \in Open /\ UNCHANGED <<mined, chain, spent, walkVars, robbed, crowded, misled, rewound>>
        BY <1>4 DEF ListWallets, Open, Calls
    <2>2. Goes(r, WalletReady(r)) \/ Goes(r, "load")
        BY <1>4 DEF ListWallets, IfClosed
    <2>. QED
        BY <1>1, <1>2, <2>1, <2>2
<1>5. CASE LoadWallet(r)
    <2>1. pc[r] \in Open /\ UNCHANGED <<mined, chain, spent, walkVars, robbed, crowded, misled, rewound>>
        BY <1>5 DEF LoadWallet, OpenWallet, Open, Calls
    <2>2. Goes(r, WalletReady(r)) \/ Goes(r, "create")
        BY <1>5 DEF LoadWallet, Unanswered
    <2>. QED
        BY <1>1, <1>2, <2>1, <2>2
<1>6. CASE CreateWallet(r)
    <2>1. pc[r] \in Open /\ UNCHANGED <<mined, chain, spent, walkVars, robbed, crowded, misled, rewound>>
        BY <1>6 DEF CreateWallet, OpenWallet, Open, Calls
    <2>2. Goes(r, WalletReady(r)) \/ Goes(r, "failed") \/ Goes(r, "noWallet")
        BY <1>6 DEF CreateWallet, Unanswered
    <2>. QED
        BY <1>1, <1>2, <2>1, <2>2
<1>7. CASE Address(r)
    <2>1. pc[r] \in Open /\ UNCHANGED <<mined, chain, spent, walkVars, robbed, crowded, misled, rewound>>
        BY <1>7 DEF Address, Open, Calls
    <2>2. Goes(r, "failed") \/ Goes(r, "before") \/ Goes(r, "generate")
        BY <1>7 DEF Address
    <2>. QED
        BY <1>1, <2>1, <2>2
<1>8. CASE Spawn(r)
    <2>1. PICK to \in {"wait", "gone"} : pc' = [pc EXCEPT ![r] = to] /\ UNCHANGED <<network, form>>
        BY <1>0, <1>8, MayGoTo DEF Spawn
    <2>2. Walks(r, to)
        BY <1>8, <2>1 DEF Spawn, Walks, Open, Calls, Ended
    <2>. QED
        BY <2>2
<1>9. CASE MinerEnded(r)
    <2>1. Goes(r, "after") \/ Goes(r, "failed")
        BY <1>9 DEF MinerEnded
    <2>2. PICK to \in {"after", "failed", "gone"} :
              pc' = [pc EXCEPT ![r] = to] /\ UNCHANGED <<network, form>>
        BY <1>0, <2>1, MayGoTo
    <2>3. Walks(r, to)
        BY <1>9, <2>2 DEF MinerEnded, Walks, Open, Calls, Ended
    <2>. QED
        BY <2>3
<1>10. CASE CallFails(r)
    <2>1. pc[r] \in Open /\ UNCHANGED <<mined, chain, spent, walkVars, robbed, crowded, misled, rewound>>
        BY <1>10 DEF CallFails, Open
    <2>2. Goes(r, "failed") \/ Goes(r, "create")
        BY <1>10 DEF CallFails, Unanswered
    <2>. QED
        BY <1>1, <2>1, <2>2
<1>11. CASE Drop(r)
    <2>1. PICK to : /\ to = pc[r] \/ to = "gone"
                    /\ pc' = [pc EXCEPT ![r] = to]
        BY <1>11 DEF Drop
    <2>2. pc[r] \in Open
        BY <1>0, <1>11 DEF Drop, Running, PayInv, PayTypeOK
    <2>3. Walks(r, to)
        BY <1>0, <1>11, <2>1, <2>2 DEF Drop, Walks, Open, Calls, Ended
    <2>. QED
        BY <2>3
<1>. QED
    BY <1>3, <1>4, <1>5, <1>6, <1>7, <1>8, <1>9, <1>10, <1>11
-----------------------------------------------------------------------------
\* Who is asked to mine knows how many blocks are left, and has at least one to mine.
LEMMA MiningWalk ==
    ASSUME MiningInv, PayInv', NEW r \in Request, NEW to, Walks(r, to)
    PROVE  MiningInv'
<1>1. /\ UNCHANGED <<network, mined, chain, spent, form, left, refilled, before, hashes>>
      /\ \A q \in Request : pc'[q] = IF q = r THEN to ELSE pc[q]
    BY DEF Walks, walkVars, MiningInv, PayInv, PayTypeOK
<1>2. MiningTypeOK'
    BY <1>1 DEF MiningInv, MiningTypeOK, ChainOK
<1>3. ASSUME NEW q \in Request PROVE Work(q)'
    <2>1. CASE q # r
        BY <1>1, <2>1 DEF MiningInv, Work
    <2>2. CASE q = r
        <3>1. Work(q) /\ pc'[q] = to
            BY <1>1, <2>2 DEF MiningInv
        <3>. QED
            BY <1>1, <2>2, <3>1 DEF Walks, Work, Open, Calls, Ended
    <2>. QED
        BY <2>1, <2>2
<1>. QED
    BY <1>2, <1>3 DEF MiningInv

\* A step of r that changes what it has left, or what it has mined.
LEMMA MiningStep ==
    ASSUME MiningInv, PayInv', NEW r \in Request,
           pc' = [pc EXCEPT ![r] = pc'[r]],
           \A q \in Request \ {r} : form'[q] = form[q],
           MiningTypeOK', Work(r)',
           \A q \in Request \ {r} : refilled'[q] = refilled[q],
           \A q \in Request \ {r} : left'[q] = left[q] /\ hashes'[q] = hashes[q]
    PROVE  MiningInv'
<1>1. ASSUME NEW q \in Request \ {r} PROVE Work(q)'
    <2>1. pc'[q] = pc[q]
        BY DEF MiningInv, PayInv, PayTypeOK
    <2>. QED
        BY <2>1 DEF MiningInv, Work
<1>. QED
    BY <1>1 DEF MiningInv

LEMMA MiningElsewhere ==
    ASSUME MiningInv, PayInv', MiningTypeOK', UNCHANGED <<pc, form, walkVars>>
    PROVE  MiningInv'
<1>1. ASSUME NEW q \in Request PROVE Work(q)'
    BY DEF MiningInv, Work, walkVars
<1>. QED
    BY <1>1 DEF MiningInv

LEMMA FormKinds ==
    ASSUME NEW f \in Form
    PROVE  f.kind \in {"faucet", "mine"} /\ f.amount \in Nat /\ f.count \in Nat
BY MiningAssumption

LEMMA MiningSubmit ==
    ASSUME MiningInv, PayInv', NEW r \in Request, NEW f \in Form, Submit(r, f)
    PROVE  MiningInv'
<1> DEFINE next == IF Refused(f) THEN "refused"
                   ELSE IF ~Refused(f) /\ network = "signet" THEN "lock" ELSE "list"
           given == IF Refused(f) THEN form[r] ELSE f
           count == IF Refused(f) THEN left[r] ELSE f.count
<1>1. /\ pc[r] = "new" /\ pc' = [pc EXCEPT ![r] = next]
      /\ form' = [form EXCEPT ![r] = given]
      /\ left' = [left EXCEPT ![r] = count]
      /\ UNCHANGED <<network, mined, chain, spent, refilled, before, hashes>>
    BY DEF Submit, At, nodeVars
<1>2. /\ next = "refused" \/ (next \in {"lock", "list"} /\ given = f /\ count = f.count)
      /\ next # "refused" /\ f.kind = "mine" => f.count # 0
    BY DEF Refused, Unsupported
<1>3. count \in Nat
    BY FormKinds DEF MiningInv, MiningTypeOK
<1> HIDE DEF next, given, count
<1>4. MiningTypeOK'
    BY <1>1, <1>3 DEF MiningInv, MiningTypeOK, ChainOK
<1>5. pc'[r] = next /\ form'[r] = given /\ left'[r] = count
    BY <1>1 DEF MiningInv, PayInv, PayTypeOK, MiningTypeOK
<1>6. hashes'[r] = <<>> /\ refilled'[r] = 0
    BY <1>1 DEF MiningInv, Work
<1>7. Work(r)'
    <2>1. CASE next = "refused"
        BY <1>5, <2>1 DEF Work, Open, Calls
    <2>2. CASE next # "refused"
        <3>1. f.count \in Nat /\ Len(hashes'[r]) = 0
            BY <1>6, FormKinds
        <3>. QED
            BY <1>2, <1>5, <2>2, <3>1 DEF Work, Open, Calls
    <2>. QED
        BY <2>1, <2>2
<1>8. /\ \A q \in Request \ {r} : form'[q] = form[q]
      /\ \A q \in Request \ {r} : left'[q] = left[q]
    BY <1>1 DEF MiningInv, PayInv, PayTypeOK, MiningTypeOK
<1>9. pc' = [pc EXCEPT ![r] = pc'[r]]
    BY <1>1, <1>5
<1>10. \A q \in Request \ {r} : refilled'[q] = refilled[q] /\ hashes'[q] = hashes[q]
    BY <1>1
<1>. QED
    BY <1>4, <1>7, <1>8, <1>9, <1>10, MiningStep

\* A faucet request on its way, without a block.
LEMMA MiningSend ==
    ASSUME MiningInv, PayInv', NEW r \in Request, Send(r)
    PROVE  MiningInv'
<1>1. PICK next \in {"done", "failed", "balance"} : Goes(r, next)
    BY DEF Send, Answered, PaymentUnanswered, Unanswered
<1>2. PICK to \in {next, "gone"} : pc' = [pc EXCEPT ![r] = to] /\ UNCHANGED <<network, form>>
    BY <1>1, MayGoTo DEF MiningInv
<1>3. pc[r] = "send" /\ UNCHANGED <<mined, chain, left, refilled, before, hashes>>
    BY DEF Send, At, walkVars
<1>4. form[r].kind = "faucet" /\ form[r] \in Form /\ pc'[r] = to
    BY <1>2, <1>3 DEF MiningInv, Work, PayInv, PayTypeOK
<1>5. spent' \in Nat
    <2>1. spent' = spent \/ spent' = spent + form[r].amount
        BY DEF Send
    <2>. QED
        BY <1>4, <2>1, FormKinds DEF MiningInv, MiningTypeOK
<1>6. MiningTypeOK'
    BY <1>3, <1>5 DEF MiningInv, MiningTypeOK, ChainOK
<1>7. Work(r)'
    BY <1>2, <1>4 DEF Work, Open, Calls
<1>8. pc' = [pc EXCEPT ![r] = pc'[r]]
    BY <1>2, <1>4
<1>. QED
    BY <1>2, <1>3, <1>6, <1>7, <1>8, MiningStep

LEMMA MiningBalance ==
    ASSUME MiningInv, PayInv', NEW r \in Request, Balance(r)
    PROVE  MiningInv'
<1>1. PICK next \in {"address", "failed", "short"} : Goes(r, next)
    BY DEF Balance, Answered
<1>2. PICK to \in {next, "gone"} : pc' = [pc EXCEPT ![r] = to] /\ UNCHANGED <<network, form>>
    BY <1>1, MayGoTo DEF MiningInv
<1>3. PICK count \in Nat : left' = [left EXCEPT ![r] = count]
    <2>1. RefillCount(Immature) \in Nat
        BY MiningAssumption DEF RefillCount
    <2>. QED
        BY <2>1 DEF Balance
<1>4. pc[r] = "balance" /\ UNCHANGED <<mined, chain, spent, refilled, before, hashes>>
    BY DEF Balance, At, nodeVars
<1>5. form[r].kind = "faucet" /\ form[r] \in Form /\ pc'[r] = to
    BY <1>2, <1>4 DEF MiningInv, Work, PayInv, PayTypeOK
<1>6. MiningTypeOK'
    BY <1>3, <1>4 DEF MiningInv, MiningTypeOK, ChainOK
<1>7. Work(r)'
    BY <1>2, <1>5 DEF Work, Open, Calls
<1>8. pc' = [pc EXCEPT ![r] = pc'[r]]
    BY <1>2, <1>5
<1>9. \A q \in Request \ {r} : left'[q] = left[q]
    BY <1>3 DEF MiningInv, MiningTypeOK
<1>. QED
    BY <1>2, <1>4, <1>6, <1>7, <1>8, <1>9, MiningStep

-----------------------------------------------------------------------------
(* Steps that mine.                                                         *)

\* The block hashes of the answer of n blocks.
Fresh(n) == [i \in 1 .. n |-> Len(mined) + i]

LEMMA FreshHashes ==
    ASSUME ChainOK, NEW n \in Nat
    PROVE  /\ Fresh(n) \in Seq(Nat) /\ Len(Fresh(n)) = n
           /\ \A i \in 1 .. n : Fresh(n)[i] = Len(mined) + i
<1>1. Len(mined) \in Nat
    BY DEF ChainOK
<1>. QED
    BY <1>1 DEF Fresh

\* generatetoaddress and generateblock mine n blocks, all that are left or one of them.
LEMMA GenerateEffect ==
    ASSUME MiningInv, NEW r \in Request, Generate(r)
    PROVE  \E n \in Nat, to \in {"list", "generate", "done", "failed", "gone"} :
               /\ n <= left[r] /\ (form[r].kind = "mine" => n > 0)
               /\ form[r] \in Form /\ pc[r] = "generate"
               /\ Join(n, r, Wallet(r))
               /\ left' = [left EXCEPT ![r] = left[r] - n]
               /\ refilled' = [refilled EXCEPT ![r] = IF form[r].kind = "faucet" THEN refilled[r] + n ELSE refilled[r]]
               /\ hashes' = [hashes EXCEPT ![r] = IF form[r].kind = "mine" THEN hashes[r] \o Fresh(n) ELSE hashes[r]]
               /\ before' = before
               /\ pc' = [pc EXCEPT ![r] = to] /\ UNCHANGED <<network, form>>
               /\ to = "generate" => form[r].kind # "faucet" /\ left[r] - n > 0
               /\ to = "list" => form[r].kind = "faucet"
               /\ to = "done" => form[r].kind # "faucet" /\ ~(left[r] - n > 0)
<1> DEFINE n == IF form[r].kind = "mine" /\ form[r].exclude THEN 1 ELSE left[r]
           next == IF form[r].kind = "faucet" THEN "list"
                   ELSE IF left[r] - n > 0 THEN "generate" ELSE "done"
<1>1. /\ pc[r] = "generate" /\ form[r] \in Form /\ left[r] \in Nat
      /\ form[r].kind = "mine" => left[r] > 0
    BY DEF Generate, At, MiningInv, MiningTypeOK, Work, Open, Calls
<1>2. n \in Nat /\ n <= left[r] /\ (form[r].kind = "mine" => n > 0)
    BY <1>1
<1>3. /\ Join(n, r, Wallet(r)) /\ before' = before
      /\ left' = [left EXCEPT ![r] = left[r] - n]
      /\ refilled' = [refilled EXCEPT ![r] = IF form[r].kind = "faucet" THEN refilled[r] + n ELSE refilled[r]]
      /\ hashes' = [hashes EXCEPT ![r] = IF form[r].kind = "mine" THEN hashes[r] \o Fresh(n) ELSE hashes[r]]
    BY DEF Generate, Fresh
<1>4. Goes(r, next) \/ Goes(r, "failed")
    BY DEF Generate, Answered, Unanswered
<1>5. next \in {"list", "generate", "done"} /\ (next = "list" <=> form[r].kind = "faucet")
      /\ (next = "generate" => left[r] - n > 0) /\ (next = "done" => ~(left[r] - n > 0))
    OBVIOUS
<1> HIDE DEF n, next
<1>6. PICK to \in {next, "failed", "gone"} : pc' = [pc EXCEPT ![r] = to] /\ UNCHANGED <<network, form>>
    BY <1>4, MayGoTo DEF MiningInv
<1>7. /\ to \in {"list", "generate", "done", "failed", "gone"}
      /\ to = "generate" => form[r].kind # "faucet" /\ left[r] - n > 0
      /\ to = "list" => form[r].kind = "faucet"
      /\ to = "done" => form[r].kind # "faucet" /\ ~(left[r] - n > 0)
    BY <1>5, <1>6
<1>. QED
    BY <1>1, <1>2, <1>3, <1>6, <1>7

LEMMA MiningGenerate ==
    ASSUME MiningInv, PayInv', NEW r \in Request, Generate(r)
    PROVE  MiningInv'
<1>1. PICK n \in Nat, to \in {"list", "generate", "done", "failed", "gone"} :
               /\ n <= left[r] /\ (form[r].kind = "mine" => n > 0)
               /\ form[r] \in Form /\ pc[r] = "generate"
               /\ Join(n, r, Wallet(r))
               /\ left' = [left EXCEPT ![r] = left[r] - n]
               /\ refilled' = [refilled EXCEPT ![r] = IF form[r].kind = "faucet" THEN refilled[r] + n ELSE refilled[r]]
               /\ hashes' = [hashes EXCEPT ![r] = IF form[r].kind = "mine" THEN hashes[r] \o Fresh(n) ELSE hashes[r]]
               /\ before' = before
               /\ pc' = [pc EXCEPT ![r] = to] /\ UNCHANGED <<network, form>>
               /\ to = "generate" => form[r].kind # "faucet" /\ left[r] - n > 0
               /\ to = "list" => form[r].kind = "faucet"
               /\ to = "done" => form[r].kind # "faucet" /\ ~(left[r] - n > 0)
    BY GenerateEffect
<1>2. /\ ChainOK /\ left[r] \in Nat /\ refilled[r] \in Nat /\ hashes[r] \in Seq(Nat)
      /\ left \in [Request -> Nat] /\ refilled \in [Request -> Nat] /\ hashes \in [Request -> Seq(Nat)]
    BY DEF MiningInv, MiningTypeOK
<1>3. Fresh(n) \in Seq(Nat) /\ Len(Fresh(n)) = n
    BY <1>2, FreshHashes
<1>4. PICK h \in Seq(Nat) :
          /\ hashes' = [hashes EXCEPT ![r] = h]
          /\ form[r].kind = "mine" => Len(h) = Len(hashes[r]) + n
    <2>1. hashes[r] \o Fresh(n) \in Seq(Nat) /\ Len(hashes[r] \o Fresh(n)) = Len(hashes[r]) + n
        BY <1>2, <1>3
    <2>2. CASE form[r].kind = "mine"
        BY <1>1, <2>1, <2>2
    <2>3. CASE form[r].kind # "mine"
        BY <1>1, <1>2, <2>3
    <2>. QED
        BY <2>2, <2>3
<1>5. /\ left' \in [Request -> Nat] /\ left'[r] = left[r] - n
      /\ \A q \in Request \ {r} : left'[q] = left[q]
    BY <1>1, <1>2
<1>6. /\ refilled' \in [Request -> Nat]
      /\ \A q \in Request \ {r} : refilled'[q] = refilled[q]
    <2>1. PICK k \in Nat : refilled' = [refilled EXCEPT ![r] = k]
        <3>1. CASE form[r].kind = "faucet"
            <4>1. refilled' = [refilled EXCEPT ![r] = refilled[r] + n] /\ refilled[r] + n \in Nat
                BY <1>1, <1>2, <3>1
            <4>. QED
                BY <4>1
        <3>2. CASE form[r].kind # "faucet"
            <4>1. refilled' = [refilled EXCEPT ![r] = refilled[r]]
                BY <1>1, <3>2
            <4>. QED
                BY <1>2, <4>1
        <3>. QED
            BY <3>1, <3>2
    <2>. QED
        BY <1>2, <2>1
<1>7. /\ hashes' \in [Request -> Seq(Nat)] /\ hashes'[r] = h
      /\ \A q \in Request \ {r} : hashes'[q] = hashes[q]
    BY <1>2, <1>4
<1>8. ChainOK'
    <2>1. Wallet(r) \in Payee
        BY DEF Wallet, Payee
    <2>. QED
        BY <1>1, <1>2, <2>1, Joined
<1>9. MiningTypeOK'
    <2>1. spent' = spent
        BY <1>1 DEF Join
    <2>. QED
        BY <1>1, <1>5, <1>6, <1>7, <1>8, <2>1 DEF MiningInv, MiningTypeOK
<1>10. pc'[r] = to /\ pc' = [pc EXCEPT ![r] = pc'[r]]
    BY <1>1 DEF MiningInv, PayInv, PayTypeOK
<1>11. Work(r)'
    <2>1. form[r].kind \in {"faucet", "mine"} /\ form[r].count \in Nat /\ Len(hashes[r]) \in Nat
        BY <1>1, <1>2, FormKinds
    <2>2. form[r].kind = "mine" => left[r] + Len(hashes[r]) = form[r].count
        BY <1>1 DEF MiningInv, Work, Open, Calls
    <2>3. to \notin {"new", "send", "balance", "refused"}
        BY <1>1
    <2>4. form[r].kind = "mine" /\ to \in Open => left[r] - n > 0
        BY <1>1 DEF Open, Calls
    <2>5. form[r].kind = "mine" => Len(h) = Len(hashes[r]) + n
        BY <1>4
    <2>6. form[r].kind = "mine" /\ to \in Open =>
              left'[r] > 0 /\ left'[r] + Len(hashes'[r]) = form[r].count
        BY <1>2, <1>5, <1>7, <2>1, <2>2, <2>4, <2>5
    <2>7. form[r].kind = "mine" /\ to = "done" => Len(hashes'[r]) = form[r].count
        <3>1. ASSUME form[r].kind = "mine", to = "done"
              PROVE  Len(hashes'[r]) = form[r].count
            <4>1. left[r] = n
                BY <1>1, <1>2, <3>1
            <4>2. hashes'[r] = h /\ Len(h) = Len(hashes[r]) + n
                BY <1>7, <2>5, <3>1
            <4>3. left[r] + Len(hashes[r]) = form[r].count
                BY <2>2, <3>1
            <4>. QED
                BY <2>1, <4>1, <4>2, <4>3
        <3>. QED
            BY <3>1
    <2>. QED
        BY <1>1, <1>10, <2>3, <2>6, <2>7 DEF Work
<1>. QED
    BY <1>1, <1>5, <1>6, <1>7, <1>9, <1>10, <1>11, MiningStep

\* Who looks at the best block mines on a signet, and does not refill the faucet.
LEMMA MineForms ==
    ASSUME MiningInv, NEW r \in Request, pc[r] \in SignetCalls
    PROVE  form[r] \in Form /\ form[r].kind = "mine" /\ network = "signet" /\ pc[r] \in Open
<1>1. form[r] \in Form /\ network = "signet" /\ pc[r] \in Open
    BY DEF MiningInv, Work, PayInv, Unpaid, SignetCalls, Open, Calls
<1>2. form[r].kind # "faucet"
    BY <1>1 DEF MiningInv, PayInv, Unpaid
<1>. QED
    BY <1>1, <1>2, FormKinds

LEMMA MiningBefore ==
    ASSUME MiningInv, PayInv', NEW r \in Request, BestBefore(r)
    PROVE  MiningInv'
<1>1. pc[r] = "before" /\ before' = [before EXCEPT ![r] = Tip]
      /\ UNCHANGED <<mined, chain, spent, left, refilled, hashes>>
    BY DEF BestBefore, At, nodeVars
<1>2. PICK to \in {"spawn", "gone"} : pc' = [pc EXCEPT ![r] = to] /\ UNCHANGED <<network, form>>
    BY MayGoTo DEF BestBefore, Answered, MiningInv
<1>3. Tip \in Nat
    BY TipHighest DEF MiningInv, MiningTypeOK, ChainOK
<1>4. MiningTypeOK'
    BY <1>1, <1>3 DEF MiningInv, MiningTypeOK, ChainOK
<1>5. pc'[r] = to /\ pc' = [pc EXCEPT ![r] = pc'[r]]
    BY <1>2 DEF MiningInv, PayInv, PayTypeOK
<1>6. Work(r)'
    BY <1>1, <1>2, <1>5 DEF MiningInv, Work, Open, Calls
<1>. QED
    BY <1>1, <1>2, <1>4, <1>5, <1>6, MiningStep

LEMMA MiningAfter ==
    ASSUME MiningInv, PayInv', NEW r \in Request, BestAfter(r), Advanced(r)
    PROVE  MiningInv'
<1>1. /\ pc[r] = "after"
      /\ hashes' = [hashes EXCEPT ![r] = Append(hashes[r], Tip)]
      /\ left' = [left EXCEPT ![r] = left[r] - 1]
      /\ UNCHANGED <<mined, chain, spent, refilled, before>>
    BY DEF BestAfter, At, nodeVars
<1>2. PICK next \in {"address", "done"} :
          Goes(r, next) /\ (next = "address" <=> left[r] > 1)
    BY DEF BestAfter, Answered
<1>3. PICK to \in {next, "gone"} : pc' = [pc EXCEPT ![r] = to] /\ UNCHANGED <<network, form>>
    BY <1>2, MayGoTo DEF MiningInv
<1>4. form[r] \in Form /\ form[r].kind = "mine" /\ pc[r] \in Open
    BY <1>1, MineForms DEF SignetCalls
<1>5. /\ left[r] \in Nat /\ left[r] > 0 /\ hashes[r] \in Seq(Nat)
      /\ left[r] + Len(hashes[r]) = form[r].count /\ form[r].count \in Nat
    BY <1>4, FormKinds DEF MiningInv, MiningTypeOK, Work
<1>6. Tip \in Nat
    BY TipHighest DEF MiningInv, MiningTypeOK, ChainOK
<1>7. Append(hashes[r], Tip) \in Seq(Nat) /\ Len(Append(hashes[r], Tip)) = Len(hashes[r]) + 1
    BY <1>5, <1>6
<1>8. MiningTypeOK'
    <2>1. left \in [Request -> Nat] /\ hashes \in [Request -> Seq(Nat)]
        BY DEF MiningInv, MiningTypeOK
    <2>2. left' \in [Request -> Nat]
        BY <2>1, <1>1, <1>5
    <2>3. hashes' \in [Request -> Seq(Nat)]
        BY <2>1, <1>1, <1>7
    <2>4. ChainOK' /\ spent' \in Nat /\ refilled' \in [Request -> Nat] /\ before' \in [Request -> Nat]
        BY <1>1 DEF MiningInv, MiningTypeOK, ChainOK
    <2>5. QED
        BY <2>2, <2>3, <2>4 DEF MiningTypeOK
<1>9. /\ pc'[r] = to /\ pc' = [pc EXCEPT ![r] = pc'[r]]
      /\ left'[r] = left[r] - 1 /\ Len(hashes'[r]) = Len(hashes[r]) + 1
      /\ \A q \in Request \ {r} : left'[q] = left[q] /\ hashes'[q] = hashes[q]
    BY <1>1, <1>3, <1>7 DEF MiningInv, MiningTypeOK, PayInv, PayTypeOK
<1>10. Work(r)'
    <2>1. to \in {"address", "done", "gone"} /\ (to = "address" => left[r] > 1) /\ (to = "done" => ~(left[r] > 1))
        BY <1>2, <1>3
    <2>2. Len(hashes[r]) \in Nat
        BY <1>5
    <2>3. to = "address" => left'[r] > 0 /\ left'[r] + Len(hashes'[r]) = form[r].count
        <3>1. ASSUME to = "address" PROVE left'[r] > 0
            BY <1>5, <1>9, <2>1, <3>1
        <3>2. left'[r] + Len(hashes'[r]) = form[r].count
            <4>1. PICK l \in Nat, k \in Nat : l = left[r] /\ k = Len(hashes[r])
                BY <1>5, <2>2
            <4>2. l + k = form[r].count
                BY <1>5, <4>1
            <4>3. left'[r] = l - 1 /\ Len(hashes'[r]) = k + 1
                BY <1>9, <4>1
            <4>. QED
                BY <4>2, <4>3
        <3>. QED
            BY <3>1, <3>2
    <2>4. to = "done" => Len(hashes'[r]) = form[r].count
        BY <1>5, <1>9, <2>1, <2>2
    <2>. QED
        BY <1>3, <1>4, <1>9, <2>1, <2>3, <2>4 DEF Work, Open, Calls
<1>. QED
    BY <1>1, <1>3, <1>8, <1>9, <1>10, MiningStep

\* A block of a miner process or of others, a rewind, and what leaves chain, requests
\* and what they have left alone.
LEMMA MinerJoins ==
    ASSUME NEW r \in Request, MinerMines(r), Tip = miner[r].on
    PROVE  Join(1, r, "miner") /\ miner[r].state = "runs" /\ UNCHANGED <<form, pc, walkVars>>
BY DEF MinerMines

StillElsewhere ==
    /\ UNCHANGED <<network, mined, chain, spent, form, pc, walkVars>>
    /\ UNCHANGED <<robbed, crowded, misled, rewound>>

\* What a step may be, for what a request has to do, is paid for and reports.
LEMMA Steps ==
    ASSUME MiningInv, Next
    PROVE  \/ \E r \in Request, f \in Form : Submit(r, f)
           \/ \E r \in Request : \E to : Walks(r, to)
           \/ \E r \in Request : Send(r) \/ Balance(r) \/ Generate(r) \/ BestBefore(r)
           \/ \E r \in Request : BestAfter(r) /\ Advanced(r)
           \/ \E r \in Request : MinerMines(r) /\ Tip = miner[r].on
           \/ ForeignBlock \/ Rewind \/ StillElsewhere
<1>1. CASE \E r \in Request : ServerStep(r)
    <2>1. PICK r \in Request : ServerStep(r)
        BY <1>1
    <2>2. CASE BestAfter(r) /\ ~Advanced(r)
        <3>1. Goes(r, "failed") /\ pc[r] = "after"
              /\ UNCHANGED <<mined, chain, spent, walkVars, robbed, crowded, misled, rewound>>
            BY <2>2 DEF BestAfter, At, Answered, nodeVars, walkVars, historyVars
        <3>2. PICK to \in {"failed", "gone"} : pc' = [pc EXCEPT ![r] = to] /\ UNCHANGED <<network, form>>
            BY <3>1, MayGoTo DEF MiningInv
        <3>3. Walks(r, to)
            BY <3>1, <3>2 DEF Walks, Open, Calls, Ended
        <3>. QED
            BY <3>3
    <2>. QED
        BY <2>1, <2>2, WalkSteps DEF ServerStep
<1>2. CASE \E r \in Request : CallFails(r) \/ Drop(r)
    BY <1>2, WalkSteps
<1>3. CASE \E r \in Request : MinerStep(r)
    <2>1. PICK r \in Request : MinerMines(r) \/ MinerFails(r)
        BY <1>3 DEF MinerStep
    <2>2. CASE MinerFails(r)
        BY <2>2 DEF MinerFails, StillElsewhere, nodeVars, historyVars
    <2>3. CASE MinerMines(r) /\ Tip # miner[r].on
        BY <2>3 DEF MinerMines, StillElsewhere, nodeVars, historyVars
    <2>. QED
        BY <2>1, <2>2, <2>3
<1>4. CASE Restart
    BY <1>4 DEF Restart, Event, StillElsewhere
<1>. QED
    BY <1>1, <1>2, <1>3, <1>4 DEF Next

LEMMA MiningInductive == MiningInv /\ [Next]_vars => MiningInv'
<1> SUFFICES ASSUME MiningInv, [Next]_vars
             PROVE  MiningInv'
    OBVIOUS
<1>0. PayInv'
    BY UnpaidInductive DEF MiningInv
<1>1. CASE \E r \in Request, f \in Form : Submit(r, f)
    BY <1>0, <1>1, MiningSubmit
<1>2. CASE \E r \in Request : \E to : Walks(r, to)
    BY <1>0, <1>2, MiningWalk
<1>3. CASE \E r \in Request : Send(r) \/ Balance(r) \/ Generate(r) \/ BestBefore(r)
    BY <1>0, <1>3, MiningSend, MiningBalance, MiningGenerate, MiningBefore
<1>4. CASE \E r \in Request : BestAfter(r) /\ Advanced(r)
    BY <1>0, <1>4, MiningAfter
<1>5. ASSUME NEW by \in Request \cup {"other"}, NEW to \in Payee, Join(1, by, to),
             UNCHANGED <<form, pc, walkVars>>
      PROVE  MiningInv'
    <2>1. ChainOK'
        BY <1>5, Joined DEF MiningInv, MiningTypeOK
    <2>2. MiningTypeOK'
        BY <1>5, <2>1 DEF MiningInv, MiningTypeOK, Join, walkVars
    <2>. QED
        BY <1>0, <1>5, <2>2, MiningElsewhere
<1>6. CASE \E r \in Request : MinerMines(r) /\ Tip = miner[r].on
    BY <1>5, <1>6, MinerJoins DEF Payee
<1>7. CASE ForeignBlock
    BY <1>5, <1>7 DEF ForeignBlock, Event, Payee
<1>8. CASE Rewind
    <2>1. ChainOK' /\ Rewards(chain)' \in Nat /\ spent' = Least(spent, Rewards(chain)')
        BY <1>8, RewoundChain DEF MiningInv, MiningTypeOK
    <2>2. spent' \in Nat
        BY <2>1 DEF Least, MiningInv, MiningTypeOK
    <2>3. UNCHANGED <<form, pc, walkVars>>
        BY <1>8 DEF Rewind, Event
    <2>4. MiningTypeOK'
        BY <2>1, <2>2, <2>3 DEF MiningInv, MiningTypeOK, walkVars
    <2>. QED
        BY <1>0, <2>3, <2>4, MiningElsewhere
<1>9. CASE StillElsewhere
    <2>1. MiningTypeOK'
        BY <1>9 DEF StillElsewhere, MiningInv, MiningTypeOK, ChainOK, walkVars
    <2>. QED
        BY <1>0, <1>9, <2>1, MiningElsewhere DEF StillElsewhere
<1>10. CASE UNCHANGED vars
    BY <1>9, <1>10 DEF vars, nodeVars, historyVars, StillElsewhere
<1>. QED
    BY <1>1, <1>2, <1>3, <1>4, <1>6, <1>7, <1>8, <1>9, <1>10, Steps

LEMMA MiningInit == Init => MiningInv
<1> SUFFICES ASSUME Init PROVE MiningInv
    OBVIOUS
<1>1. PayInv
    BY UnpaidInit
<1>2. PICK s \in Start : mined = [i \in DOMAIN s.funds |-> [by |-> "other", to |-> s.funds[i]]]
    BY DEF Init
<1>3. s.funds \in Seq(Payee)
    BY MiningAssumption DEF Payee
<1>4. /\ mined \in Seq(Mined) /\ Len(mined) = Len(s.funds) /\ Len(mined) \in Nat
    <2>1. DOMAIN s.funds = 1 .. Len(s.funds) /\ Len(s.funds) \in Nat
        BY <1>3
    <2>2. \A i \in 1 .. Len(s.funds) : [by |-> "other", to |-> s.funds[i]] \in Mined
        BY <1>3, <2>1 DEF Mined
    <2>3. mined \in [1 .. Len(s.funds) -> Mined]
        BY <1>2, <2>1, <2>2
    <2>. QED
        BY <2>1, <2>3
<1>5. ChainOK
    <2>1. chain = [i \in 1 .. Len(mined) |-> i]
        BY <1>4 DEF Init
    <2>. QED
        BY <1>4, <2>1 DEF ChainOK
<1>6. MiningTypeOK
    BY <1>5 DEF Init, MiningTypeOK
<1>7. \A r \in Request : Work(r)
    BY DEF Init, Work, Open, Calls
<1>. QED
    BY <1>1, <1>6, <1>7 DEF MiningInv

-----------------------------------------------------------------------------
(* The refill of the faucet.                                                *)

\* Miner processes are a signet's only.
MinersInv ==
    /\ miner \in [Request -> [state : {"none", "runs", "ok", "bad", "stuck"}, on : Nat]]
    /\ \A r \in Request : miner[r].state = "runs" => network = "signet"

LEMMA MinersInductive == MiningInv /\ MinersInv /\ [Next]_vars => MinersInv'
<1> SUFFICES ASSUME MiningInv, MinersInv, [Next]_vars
             PROVE  MinersInv'
    OBVIOUS
<1>1. CASE UNCHANGED miner /\ UNCHANGED network
    BY <1>1 DEF MinersInv
<1>2. ASSUME NEW r \in Request, NEW m \in [state : {"none", "runs", "ok", "bad", "stuck"}, on : Nat],
             miner' = [miner EXCEPT ![r] = m], m.state = "runs" => network = "signet",
             UNCHANGED network
      PROVE  MinersInv'
    BY <1>2 DEF MinersInv
<1>3. CASE \E r \in Request : Spawn(r)
    <2>1. PICK r \in Request : Spawn(r)
        BY <1>3
    <2>2. /\ miner' = [miner EXCEPT ![r] = [state |-> "runs", on |-> Tip]]
          /\ pc[r] = "spawn" /\ UNCHANGED network
        BY <2>1 DEF Spawn, Template, At, nodeVars
    <2>3. Tip \in Nat /\ network = "signet"
        BY <2>2, TipHighest, MineForms DEF MiningInv, MiningTypeOK, ChainOK, SignetCalls
    <2>4. [state |-> "runs", on |-> Tip] \in [state : {"none", "runs", "ok", "bad", "stuck"}, on : Nat]
        BY <2>3
    <2>. QED
        BY <1>2, <2>2, <2>3, <2>4
<1>4. ASSUME NEW r \in Request, NEW s \in {"none", "ok", "bad", "stuck"}, MinerIs(r, s),
             UNCHANGED network
      PROVE  MinersInv'
    <2>1. miner[r] \in [state : {"none", "runs", "ok", "bad", "stuck"}, on : Nat]
        BY DEF MinersInv
    <2>2. /\ miner' = [miner EXCEPT ![r] = [miner[r] EXCEPT !.state = s]]
          /\ [miner[r] EXCEPT !.state = s] \in [state : {"none", "runs", "ok", "bad", "stuck"}, on : Nat]
          /\ [miner[r] EXCEPT !.state = s].state = s
        BY <1>4, <2>1 DEF MinerIs
    <2>. QED
        BY <1>2, <1>4, <2>2
<1>5. CASE \E r \in Request : MinerMines(r)
    BY <1>4, <1>5 DEF MinerMines, Join, nodeVars
<1>6. CASE \E r \in Request : MinerFails(r)
    BY <1>4, <1>6 DEF MinerFails, nodeVars
<1>7. CASE \E r \in Request : MinerEnded(r)
    BY <1>4, <1>7 DEF MinerEnded, nodeVars
<1>8. ASSUME NEW r \in Request,
             \/ Lock(r) \/ ListWallets(r) \/ LoadWallet(r) \/ CreateWallet(r)
             \/ Send(r) \/ Balance(r) \/ Address(r) \/ Generate(r)
             \/ BestBefore(r) \/ BestAfter(r) \/ CallFails(r) \/ Drop(r)
             \/ \E f \in Form : Submit(r, f)
      PROVE  UNCHANGED miner /\ UNCHANGED network
    <2>1. UNCHANGED miner
        BY <1>8 DEF Lock, ListWallets, LoadWallet, CreateWallet, OpenWallet, Send, Balance, Address,
                    Generate, BestBefore, BestAfter, CallFails, Drop, Submit
    <2>2. UNCHANGED network
        BY <1>8 DEF Lock, ListWallets, LoadWallet, CreateWallet, Send, Balance, Address,
                    Generate, BestBefore, BestAfter, CallFails, Drop, Submit,
                    Answered, Unanswered, PaymentUnanswered, Goes, nodeVars, Join
    <2>. QED
        BY <2>1, <2>2
<1>9. CASE ForeignBlock \/ Rewind \/ Restart \/ UNCHANGED vars
    BY <1>1, <1>9 DEF ForeignBlock, Rewind, Restart, Event, Join, vars, nodeVars
<1>. QED
    BY <1>1, <1>3, <1>5, <1>6, <1>7, <1>8, <1>9 DEF Next, ServerStep, MinerStep

-----------------------------------------------------------------------------
\* No more is spent than the chain rewards; who asked the faucet has added to that what
\* it mined, unless others spent it or a rewind took it.
Backed(r) ==
    Running(r) /\ form[r].kind = "faucet" /\ r \notin robbed \cup rewound =>
        spent + refilled[r] <= Rewards(chain)

\* Who looks at the balance has found too little, and nobody has added to it.
Lacking(r) ==
    pc[r] = "balance" /\ r \notin robbed \cup rewound \cup misled => Funds < form[r].amount

GivenUp(r) ==
    pc[r] = "short" => \/ form[r].amount > MaxRefill - Maturity
                       \/ r \in robbed \cup rewound \cup misled

RefillInv ==
    /\ spent <= Rewards(chain)
    /\ \A r \in Request : Backed(r) /\ Lacking(r) /\ GivenUp(r)

LEMMA ChainRewards ==
    ASSUME MiningInv
    PROVE  /\ spent \in Nat /\ Rewards(chain) \in Nat /\ Immature \in 0 .. Maturity
           /\ Maturity \in Nat /\ MaxRefill \in Nat
           /\ refilled \in [Request -> Nat]
<1>1. chain \in Seq(Nat) /\ Len(chain) \in Nat
    BY DEF MiningInv, MiningTypeOK, ChainOK
<1>2. Rewards(chain) \in Nat
    BY <1>1, RewardsCount
<1>. QED
    BY <1>2, ImmatureAtMost, MiningAssumption DEF MiningInv, MiningTypeOK

LEMMA RunningIsOpen ==
    ASSUME PayInv, NEW r \in Request
    PROVE  Running(r) <=> pc[r] \in Open
BY DEF Running, PayInv, PayTypeOK, Open, Calls, Ended

\* A step that leaves the chain, what is spent of it and what was refilled alone, and
\* neither comes to look at the balance nor gives up.
LEMMA RefillStill ==
    ASSUME MiningInv, RefillInv, NEW r \in Request, NEW to,
           pc[r] \in Open, to \in {"balance", "short"} => to = pc[r],
           pc' = [pc EXCEPT ![r] = to],
           UNCHANGED <<mined, chain, spent, form, refilled, robbed, rewound, misled>>
    PROVE  RefillInv'
<1>1. /\ Rewards(chain)' = Rewards(chain) /\ Funds' = Funds
      /\ UNCHANGED <<mined, chain, spent, form, refilled, robbed, rewound, misled>>
    BY DEF Rewards, Funds, Immature
<1>2. ASSUME NEW q \in Request
      PROVE  (Backed(q) /\ Lacking(q) /\ GivenUp(q))'
    <2>1. Backed(q) /\ Lacking(q) /\ GivenUp(q)
        BY DEF RefillInv
    <2>2. pc'[q] = IF q = r THEN to ELSE pc[q]
        BY DEF MiningInv, PayInv, PayTypeOK
    <2>3. Running(q)' => Running(q)
        BY <2>2 DEF Running, Open, Calls, Ended
    <2>4. pc'[q] \in {"balance", "short"} => pc'[q] = pc[q]
        BY <2>2
    <2>. QED
        BY <1>1, <2>1, <2>3, <2>4 DEF Backed, Lacking, GivenUp
<1>. QED
    BY <1>1, <1>2 DEF RefillInv

LEMMA RefillSubmit ==
    ASSUME MiningInv, RefillInv, NEW r \in Request, NEW f \in Form, Submit(r, f)
    PROVE  RefillInv'
<1>1. PICK to \in {"refused", "lock", "list"} : pc' = [pc EXCEPT ![r] = to]
    BY DEF Submit
<1>2. /\ pc[r] = "new" /\ UNCHANGED <<mined, chain, spent, refilled, robbed, rewound, misled>>
      /\ \E g : form' = [form EXCEPT ![r] = g]
    BY DEF Submit, At, nodeVars, historyVars
<1>3. Rewards(chain)' = Rewards(chain) /\ Funds' = Funds
    BY <1>2 DEF Rewards, Funds, Immature
<1>4. ASSUME NEW q \in Request
      PROVE  (Backed(q) /\ Lacking(q) /\ GivenUp(q))'
    <2>1. Backed(q) /\ Lacking(q) /\ GivenUp(q)
        BY DEF RefillInv
    <2>2. CASE q = r
        <3>1. pc'[q] = to
            BY <1>1, <2>2 DEF MiningInv, PayInv, PayTypeOK
        <3>2. refilled'[q] = 0
            BY <1>2, <2>2 DEF MiningInv, Work
        <3>3. spent' + refilled'[q] <= Rewards(chain)'
            BY <1>2, <1>3, <3>2, ChainRewards DEF RefillInv
        <3>. QED
            BY <1>1, <3>1, <3>3 DEF Backed, Lacking, GivenUp
    <2>3. CASE q # r
        <3>1. pc'[q] = pc[q] /\ form'[q] = form[q]
            BY <1>1, <1>2, <2>3 DEF MiningInv, PayInv, PayTypeOK
        <3>. QED
            BY <1>2, <1>3, <2>1, <3>1 DEF Backed, Lacking, GivenUp, Running
    <2>. QED
        BY <2>2, <2>3
<1>. QED
    BY <1>2, <1>3, <1>4 DEF RefillInv

\* A payment takes from the rewards that are ripe; all others who are under way know.
LEMMA RefillPaid ==
    ASSUME MiningInv, RefillInv, NEW r \in Request, Send(r),
           wallet["faucet"] = "open", Funds >= form[r].amount
    PROVE  RefillInv'
<1>1. /\ spent' = spent + form[r].amount /\ robbed' = robbed \cup Others(r)
      /\ pc[r] = "send" /\ UNCHANGED <<mined, chain, refilled, rewound, misled>>
    BY DEF Send, At, walkVars
<1>2. PICK next \in {"done", "failed"} : Goes(r, next)
    BY DEF Send, Answered, PaymentUnanswered, Unanswered
<1>3. PICK to \in {next, "gone"} : pc' = [pc EXCEPT ![r] = to] /\ UNCHANGED <<network, form>>
    BY <1>2, MayGoTo DEF MiningInv
<1>4. form[r].amount \in Nat
    BY <1>1, FormKinds DEF MiningInv, Work
<1>5. Rewards(chain)' = Rewards(chain)
    BY <1>1 DEF Rewards
<1>6. spent' <= Rewards(chain)'
    BY <1>1, <1>4, <1>5, ChainRewards DEF Funds
<1>7. ASSUME NEW q \in Request
      PROVE  (Backed(q) /\ Lacking(q) /\ GivenUp(q))'
    <2>1. GivenUp(q)
        BY DEF RefillInv
    <2>2. pc'[q] = IF q = r THEN to ELSE pc[q]
        BY <1>3 DEF MiningInv, PayInv, PayTypeOK
    <2>3. CASE q = r
        BY <1>3, <2>2, <2>3 DEF Backed, Lacking, GivenUp, Running, Ended
    <2>4. CASE q # r /\ Running(q)
        <3>1. q \in robbed'
            BY <1>1, <2>4 DEF Others
        <3>. QED
            BY <3>1 DEF Backed, Lacking, GivenUp
    <2>5. CASE q # r /\ ~Running(q)
        <3>1. ~Running(q)' /\ pc'[q] # "balance"
            BY <2>2, <2>5 DEF Running, Ended
        <3>2. GivenUp(q)'
            BY <1>1, <1>3, <2>1, <2>2, <2>5 DEF GivenUp
        <3>. QED
            BY <3>1, <3>2 DEF Backed, Lacking
    <2>. QED
        BY <2>3, <2>4, <2>5
<1>. QED
    BY <1>6, <1>7 DEF RefillInv

LEMMA RefillUnpaid ==
    ASSUME MiningInv, RefillInv, NEW r \in Request, Send(r),
           ~(wallet["faucet"] = "open" /\ Funds >= form[r].amount)
    PROVE  RefillInv'
<1>1. /\ pc[r] = "send"
      /\ UNCHANGED <<spent, mined, chain, refilled, robbed, rewound, misled>>
      /\ Goes(r, IF wallet["faucet"] = "open" THEN "balance" ELSE "failed")
    BY DEF Send, At, walkVars, Answered
<1>2. CASE wallet["faucet"] # "open"
    <2>1. PICK to \in {"failed", "gone"} : pc' = [pc EXCEPT ![r] = to] /\ UNCHANGED <<network, form>>
        BY <1>1, <1>2, MayGoTo DEF MiningInv
    <2>. QED
        BY <1>1, <2>1, RefillStill DEF Open, Calls
<1>3. CASE wallet["faucet"] = "open"
    <2>1. PICK to \in {"balance", "gone"} : pc' = [pc EXCEPT ![r] = to] /\ UNCHANGED <<network, form>>
        BY <1>1, <1>3, MayGoTo DEF MiningInv
    <2>2. /\ Rewards(chain)' = Rewards(chain) /\ Funds' = Funds
          /\ UNCHANGED <<mined, chain, spent, form, refilled, robbed, rewound, misled>>
        BY <1>1, <2>1 DEF Rewards, Funds, Immature
    <2>3. Funds < form[r].amount
        <3>1. form[r].amount \in Nat
            BY <1>1, FormKinds DEF MiningInv, Work
        <3>2. Funds \in Int
            BY ChainRewards DEF Funds
        <3>. QED
            BY <1>3, <3>1, <3>2
    <2>4. ASSUME NEW q \in Request
          PROVE  (Backed(q) /\ Lacking(q) /\ GivenUp(q))'
        <3>1. Backed(q) /\ Lacking(q) /\ GivenUp(q)
            BY DEF RefillInv
        <3>2. pc'[q] = IF q = r THEN to ELSE pc[q]
            BY <2>1 DEF MiningInv, PayInv, PayTypeOK
        <3>3. Running(q)' => Running(q)
            BY <1>1, <3>2 DEF Running, Ended
        <3>4. Backed(q)' /\ GivenUp(q)'
            BY <2>1, <2>2, <3>1, <3>2, <3>3 DEF Backed, GivenUp
        <3>5. Lacking(q)'
            BY <2>2, <2>3, <3>1, <3>2 DEF Lacking
        <3>. QED
            BY <3>4, <3>5
    <2>. QED
        BY <2>2, <2>4 DEF RefillInv
<1>. QED
    BY <1>2, <1>3

\* A refill that does not fit any more was asked to reach too much: what was mined for
\* this request is in the wallet, but for the rewards that still have to ripen.
LEMMA RefillBalance ==
    ASSUME MiningInv, RefillInv, NEW r \in Request, Balance(r)
    PROVE  RefillInv'
<1>1. /\ pc[r] = "balance"
      /\ UNCHANGED <<mined, chain, spent, refilled, robbed, rewound, misled>>
    BY DEF Balance, At, nodeVars, historyVars
<1>2. PICK next \in {"address", "failed", "short"} :
          /\ Goes(r, next)
          /\ next = "short" => ~(refilled[r] + RefillCount(Immature) <= MaxRefill)
    BY DEF Balance, Answered
<1>3. PICK to \in {next, "gone"} : pc' = [pc EXCEPT ![r] = to] /\ UNCHANGED <<network, form>>
    BY <1>2, MayGoTo DEF MiningInv
<1>4. form[r] \in Form /\ form[r].kind = "faucet" /\ form[r].amount \in Nat
    BY <1>1, FormKinds DEF MiningInv, Work
<1>5. /\ Rewards(chain)' = Rewards(chain) /\ Funds' = Funds
    BY <1>1 DEF Rewards, Funds, Immature
<1>6. ASSUME next = "short", r \notin robbed \cup rewound \cup misled
      PROVE  form[r].amount > MaxRefill - Maturity
    <2>1. Running(r)
        BY <1>1 DEF Running, Ended
    <2>2. spent + refilled[r] <= Rewards(chain) /\ Funds < form[r].amount
        BY <1>1, <1>4, <1>6, <2>1 DEF RefillInv, Backed, Lacking
    <2>3. ~(refilled[r] + RefillCount(Immature) <= MaxRefill)
        BY <1>2, <1>6
    <2>4. refilled[r] \in Nat
        BY ChainRewards
    <2>5. CASE Immature > 0
        BY <1>4, <2>2, <2>3, <2>4, <2>5, ChainRewards DEF RefillCount, Funds
    <2>6. CASE ~(Immature > 0)
        BY <1>4, <2>2, <2>3, <2>4, <2>6, ChainRewards DEF RefillCount, Funds
    <2>. QED
        BY <2>5, <2>6
<1>7. ASSUME NEW q \in Request
      PROVE  (Backed(q) /\ Lacking(q) /\ GivenUp(q))'
    <2>1. Backed(q) /\ Lacking(q) /\ GivenUp(q)
        BY DEF RefillInv
    <2>2. pc'[q] = IF q = r THEN to ELSE pc[q]
        BY <1>3 DEF MiningInv, PayInv, PayTypeOK
    <2>3. Running(q)' => Running(q)
        BY <1>1, <2>2 DEF Running, Ended
    <2>4. Backed(q)' /\ Lacking(q)'
        BY <1>1, <1>3, <1>5, <2>1, <2>2, <2>3 DEF Backed, Lacking
    <2>5. GivenUp(q)'
        BY <1>1, <1>2, <1>3, <1>6, <2>1, <2>2 DEF GivenUp
    <2>. QED
        BY <2>4, <2>5
<1>. QED
    BY <1>1, <1>5, <1>7 DEF RefillInv
\* What is mined for the faucet is what it has more; who is looking at the balance at
\* that moment is misled.
LEMMA RefillGenerate ==
    ASSUME MiningInv, MiningInv', RefillInv, NEW r \in Request, Generate(r)
    PROVE  RefillInv'
<1>1. PICK n \in Nat, to \in {"list", "generate", "done", "failed", "gone"} :
               /\ form[r] \in Form /\ pc[r] = "generate"
               /\ Join(n, r, Wallet(r))
               /\ refilled' = [refilled EXCEPT ![r] = IF form[r].kind = "faucet" THEN refilled[r] + n ELSE refilled[r]]
               /\ pc' = [pc EXCEPT ![r] = to] /\ UNCHANGED <<network, form>>
    BY GenerateEffect
<1>2. /\ UNCHANGED <<spent, robbed, rewound>>
      /\ misled' = misled \cup {q \in Request \ {r} : pc[q] = "balance"}
    BY <1>1 DEF Join, At
<1>3. Rewards(chain)' = Rewards(chain) + (IF form[r].kind = "faucet" THEN n ELSE 0)
    <2>1. Wallet(r) \in Payee /\ (Wallet(r) = "faucet" <=> form[r].kind = "faucet")
        BY DEF Wallet, Payee
    <2>2. ChainOK
        BY DEF MiningInv, MiningTypeOK
    <2>3. Rewards(chain)' = Rewards(chain) + (IF Wallet(r) = "faucet" THEN n ELSE 0)
        BY <1>1, <2>1, <2>2, Joined
    <2>. QED
        BY <2>1, <2>3
<1>4. /\ Rewards(chain)' >= Rewards(chain)
      /\ form[r].kind = "faucet" => Rewards(chain)' = Rewards(chain) + n
      /\ Rewards(chain)' \in Nat
    BY <1>3, ChainRewards
<1>5. ASSUME NEW q \in Request
      PROVE  (Backed(q) /\ Lacking(q) /\ GivenUp(q))'
    <2>1. Backed(q) /\ Lacking(q) /\ GivenUp(q) /\ refilled[q] \in Nat
        BY ChainRewards DEF RefillInv
    <2>2. pc'[q] = IF q = r THEN to ELSE pc[q]
        BY <1>1 DEF MiningInv, PayInv, PayTypeOK
    <2>3. Running(q)' => Running(q)
        BY <1>1, <2>2 DEF Running, Ended
    <2>4. Lacking(q)' /\ GivenUp(q)'
        BY <1>1, <1>2, <2>1, <2>2 DEF Lacking, GivenUp
    <2>5. Backed(q)'
        <3>1. CASE q = r
            <4>1. form[r].kind = "faucet" => refilled'[r] = refilled[r] + n
                BY <1>1, ChainRewards
            <4>. QED
                BY <1>1, <1>2, <1>4, <2>1, <2>3, <3>1, <4>1, ChainRewards DEF Backed
        <3>2. CASE q # r
            <4>1. refilled'[q] = refilled[q]
                BY <1>1, <3>2, ChainRewards
            <4>. QED
                BY <1>1, <1>2, <1>4, <2>1, <2>3, <4>1, ChainRewards DEF Backed
        <3>. QED
            BY <3>1, <3>2
    <2>. QED
        BY <2>4, <2>5
<1>6. (spent <= Rewards(chain))'
    BY <1>2, <1>4, ChainRewards DEF RefillInv
<1>. QED
    BY <1>5, <1>6 DEF RefillInv

\* A block of a miner process or of others.
LEMMA RefillJoin ==
    ASSUME MiningInv, RefillInv, NEW by \in Request \cup {"other"}, NEW to \in Payee,
           Join(1, by, to), UNCHANGED <<form, pc, walkVars>>,
           by \in Request => pc[by] # "balance"
    PROVE  RefillInv'
<1>1. /\ UNCHANGED <<spent, robbed, rewound, refilled, form, pc>>
      /\ \A q \in Request : pc[q] = "balance" => q \in misled'
      /\ misled \subseteq misled'
    BY DEF Join, At, walkVars
<1>2. Rewards(chain)' >= Rewards(chain) /\ Rewards(chain)' \in Nat
    <2>1. Rewards(chain)' = Rewards(chain) + (IF to = "faucet" THEN 1 ELSE 0)
        BY Joined DEF MiningInv, MiningTypeOK
    <2>. QED
        BY <2>1, ChainRewards
<1>3. ASSUME NEW q \in Request
      PROVE  (Backed(q) /\ Lacking(q) /\ GivenUp(q))'
    <2>1. Backed(q) /\ Lacking(q) /\ GivenUp(q) /\ refilled[q] \in Nat
        BY ChainRewards DEF RefillInv
    <2>2. Lacking(q)' /\ GivenUp(q)'
        BY <1>1, <2>1 DEF Lacking, GivenUp
    <2>3. Backed(q)'
        BY <1>1, <1>2, <2>1, ChainRewards DEF Backed, Running
    <2>. QED
        BY <2>2, <2>3
<1>4. (spent <= Rewards(chain))'
    BY <1>1, <1>2, ChainRewards DEF RefillInv
<1>. QED
    BY <1>3, <1>4 DEF RefillInv

\* A rewind leaves no more spent than there is; all who are under way know.
LEMMA RefillRewind ==
    ASSUME MiningInv, RefillInv, Rewind
    PROVE  RefillInv'
<1>1. /\ UNCHANGED <<form, pc, robbed, misled>>
      /\ rewound' = rewound \cup {q \in Request : Running(q)}
    BY DEF Rewind, Event
<1>2. Rewards(chain)' \in Nat /\ spent' = Least(spent, Rewards(chain)')
    BY RewoundChain DEF MiningInv, MiningTypeOK
<1>3. (spent <= Rewards(chain))'
    BY <1>2, ChainRewards DEF Least
<1>4. ASSUME NEW q \in Request
      PROVE  (Backed(q) /\ Lacking(q) /\ GivenUp(q))'
    <2>1. GivenUp(q)'
        BY <1>1 DEF RefillInv, GivenUp
    <2>2. Running(q)' => q \in rewound'
        BY <1>1 DEF Running
    <2>3. pc'[q] = "balance" => Running(q)'
        BY <1>1 DEF Running, Ended
    <2>. QED
        BY <2>1, <2>2, <2>3 DEF Backed, Lacking
<1>. QED
    BY <1>3, <1>4 DEF RefillInv

LEMMA RefillElsewhere ==
    ASSUME RefillInv,
           UNCHANGED <<mined, chain, spent, form, pc, refilled, robbed, rewound, misled>>
    PROVE  RefillInv'
<1>1. Rewards(chain)' = Rewards(chain) /\ Funds' = Funds
    BY DEF Rewards, Funds, Immature
<1>2. ASSUME NEW q \in Request
      PROVE  (Backed(q) /\ Lacking(q) /\ GivenUp(q))'
    BY <1>1 DEF RefillInv, Backed, Lacking, GivenUp, Running
<1>. QED
    BY <1>1, <1>2 DEF RefillInv

LEMMA RefillInductive ==
    MiningInv /\ MiningInv' /\ MinersInv /\ RefillInv /\ [Next]_vars => RefillInv'
<1> SUFFICES ASSUME MiningInv, MiningInv', MinersInv, RefillInv, [Next]_vars
             PROVE  RefillInv'
    OBVIOUS
<1>1. CASE \E r \in Request, f \in Form : Submit(r, f)
    BY <1>1, RefillSubmit
<1>2. CASE \E r \in Request : \E to : Walks(r, to)
    <2>. PICK r \in Request : \E to : Walks(r, to)
        BY <1>2
    <2>1. PICK to : Walks(r, to)
        OBVIOUS
    <2>2. /\ pc[r] \in Open /\ (to \in {"balance", "short"} => to = pc[r])
          /\ pc' = [pc EXCEPT ![r] = to]
          /\ UNCHANGED <<mined, chain, spent, form, refilled, robbed, rewound, misled>>
        BY <2>1 DEF Walks, walkVars
    <2>. QED
        BY <2>2, RefillStill
<1>3. CASE \E r \in Request : Send(r)
    BY <1>3, RefillPaid, RefillUnpaid
<1>4. CASE \E r \in Request : Balance(r)
    BY <1>4, RefillBalance
<1>5. CASE \E r \in Request : Generate(r)
    BY <1>5, RefillGenerate
<1>6. CASE \E r \in Request : BestBefore(r)
    <2>1. PICK r \in Request : BestBefore(r)
        BY <1>6
    <2>2. /\ pc[r] = "before"
          /\ UNCHANGED <<mined, chain, spent, refilled, robbed, rewound, misled>>
        BY <2>1 DEF BestBefore, At, nodeVars, historyVars
    <2>3. PICK to \in {"spawn", "gone"} : pc' = [pc EXCEPT ![r] = to] /\ UNCHANGED <<network, form>>
        BY <2>1, MayGoTo DEF BestBefore, Answered, MiningInv
    <2>. QED
        BY <2>2, <2>3, RefillStill DEF Open, Calls
<1>7. CASE \E r \in Request : BestAfter(r) /\ Advanced(r)
    <2>1. PICK r \in Request : BestAfter(r) /\ Advanced(r)
        BY <1>7
    <2>2. /\ pc[r] = "after"
          /\ UNCHANGED <<mined, chain, spent, refilled, robbed, rewound, misled>>
        BY <2>1 DEF BestAfter, At, nodeVars, historyVars
    <2>3. Goes(r, "address") \/ Goes(r, "done")
        BY <2>1 DEF BestAfter, Answered
    <2>4. PICK to \in {"address", "done", "gone"} :
              pc' = [pc EXCEPT ![r] = to] /\ UNCHANGED <<network, form>>
        BY <2>3, MayGoTo DEF MiningInv
    <2>. QED
        BY <2>2, <2>4, RefillStill DEF Open, Calls
<1>8. CASE \E r \in Request : MinerMines(r) /\ Tip = miner[r].on
    <2>1. PICK r \in Request : MinerMines(r) /\ Tip = miner[r].on
        BY <1>8
    <2>2. Join(1, r, "miner") /\ miner[r].state = "runs" /\ UNCHANGED <<form, pc, walkVars>>
        BY <2>1, MinerJoins
    <2>3. pc[r] # "balance"
        <3>1. network = "signet"
            BY <2>2 DEF MinersInv
        <3>2. pc[r] = "balance" => form[r].kind = "faucet" /\ pc[r] \in Open
            BY DEF MiningInv, Work, Open, Calls
        <3>. QED
            BY <3>1, <3>2 DEF MiningInv, PayInv, Unpaid
    <2>. QED
        BY <2>2, <2>3, RefillJoin DEF Payee
<1>9. CASE ForeignBlock
    BY <1>9, RefillJoin, MiningAssumption DEF ForeignBlock, Event, Payee
<1>10. CASE Rewind
    BY <1>10, RefillRewind
<1>11. CASE StillElsewhere
    BY <1>11, RefillElsewhere DEF StillElsewhere, walkVars
<1>12. CASE UNCHANGED vars
    BY <1>12, RefillElsewhere DEF vars, nodeVars, walkVars, historyVars
<1>. QED
    BY <1>1, <1>2, <1>3, <1>4, <1>5, <1>6, <1>7, <1>8, <1>9, <1>10, <1>11, <1>12, Steps

\* The faucet refuses an amount within its limit for cause only
\* (next_faucet_refill_block_count): others spent meanwhile, the chain was rewound, or a
\* block of others came between the payment that failed and the look at the balance.
THEOREM GivesUpCorrect == Spec => []GivesUpForCause
<1>1. Init => MinersInv /\ RefillInv
    <2> SUFFICES ASSUME Init PROVE MinersInv /\ RefillInv
        OBVIOUS
    <2>1. MinersInv
        BY DEF Init, MinersInv
    <2>2. Rewards(chain) \in Nat /\ spent = 0
        BY MiningInit, ChainRewards DEF Init
    <2>3. \A r \in Request : pc[r] = "new"
        BY DEF Init
    <2>. QED
        BY <2>1, <2>2, <2>3 DEF RefillInv, Backed, Lacking, GivenUp, Running
<1>2. RefillInv => GivesUpForCause
    BY DEF RefillInv, GivenUp, GivesUpForCause
<1>. QED
    BY <1>1, <1>2, MiningInit, MiningInductive, MinersInductive, RefillInductive, PTL DEF Spec

-----------------------------------------------------------------------------
(* What mining reports.                                                     *)

\* A block r reports is its own, or one that came meanwhile, above those before it.
Genuine(r, i) ==
    /\ hashes[r][i] > IF i = 1 THEN 0 ELSE hashes[r][i - 1]
    /\ mined[hashes[r][i]].by = r \/ (network = "signet" /\ r \in crowded)

\* Above the best block r has seen there are only blocks mined for r, unless others came.
Watched(r) ==
    /\ before[r] <= Tip /\ \A i \in DOMAIN hashes[r] : hashes[r][i] <= before[r]
    /\ \/ r \in crowded
       \/ \A i \in DOMAIN chain : chain[i] > before[r] => mined[chain[i]].by = r

Watching == {"spawn", "wait", "after"}

Reported(r) ==
    /\ \A i \in DOMAIN hashes[r] : hashes[r][i] \in 0 .. Len(mined)
    /\ r \notin rewound => \A i \in DOMAIN hashes[r] : Genuine(r, i)
    /\ r \notin rewound /\ Running(r) => \A i \in DOMAIN hashes[r] : hashes[r][i] <= Tip
    /\ r \notin rewound /\ pc[r] \in Watching => Watched(r)

ReportInv == \A r \in Request : Reported(r)

LEMMA ReportStill ==
    ASSUME ReportInv,
           UNCHANGED <<network, mined, chain, hashes, before, crowded, rewound>>,
           \A q \in Request : /\ Running(q)' => Running(q)
                              /\ pc'[q] \in Watching => pc[q] \in Watching
    PROVE  ReportInv'
<1>1. Tip' = Tip
    BY DEF Tip
<1>2. ASSUME NEW q \in Request PROVE Reported(q)'
    <2>1. Watched(q)' <=> Watched(q)
        BY <1>1 DEF Watched
    <2>2. \A i \in DOMAIN hashes[q] : Genuine(q, i)' <=> Genuine(q, i)
        BY DEF Genuine
    <2>. QED
        BY <1>1, <2>1, <2>2 DEF ReportInv, Reported
<1>. QED
    BY <1>2 DEF ReportInv

\* Blocks that join leave what a request has reported true.
LEMMA ReportKept ==
    ASSUME MiningInv, NEW n \in Nat, NEW by \in Request \cup {"other"}, NEW to \in Payee,
           Join(n, by, to), NEW q \in Request, Reported(q),
           hashes'[q] = hashes[q], before'[q] = before[q],
           Running(q)' => Running(q),
           pc'[q] \in Watching => pc[q] \in Watching
    PROVE  Reported(q)'
<1>1. ChainOK /\ Len(mined) \in Nat /\ hashes[q] \in Seq(Nat) /\ before[q] \in Nat
    BY DEF MiningInv, MiningTypeOK, ChainOK
<1>2. /\ Len(mined') = Len(mined) + n
      /\ \A i \in 1 .. Len(mined) : mined'[i] = mined[i]
      /\ \A i \in DOMAIN chain' : \/ i \in DOMAIN chain /\ chain'[i] = chain[i]
                                  \/ mined'[chain'[i]].by = by
      /\ Tip' = IF n = 0 THEN Tip ELSE Len(mined) + n
    BY <1>1, Joined
<1>3. /\ network' = network /\ rewound' = rewound
      /\ crowded' = crowded \cup {p \in Request \ {by} : Running(p)}
    BY DEF Join
<1>4. Tip \in 0 .. Len(mined) /\ Tip' \in Nat /\ Tip <= Tip'
    BY <1>1, <1>2, TipHighest
<1>5. \A i \in DOMAIN hashes[q] : hashes[q][i] \in Nat
    BY <1>1
<1>6. \A i \in DOMAIN hashes'[q] : hashes'[q][i] \in 0 .. Len(mined')
    BY <1>1, <1>2, <1>5 DEF Reported
<1>7. ASSUME q \notin rewound', NEW i \in DOMAIN hashes'[q]
      PROVE  Genuine(q, i)'
    <2>1. Genuine(q, i)
        BY <1>3, <1>7 DEF Reported
    <2>2. hashes[q][i] \in 1 .. Len(mined)
        <3>1. hashes[q][i] > 0
            <4>1. CASE i = 1
                BY <2>1, <4>1 DEF Genuine
            <4>2. CASE i # 1
                <5>1. i - 1 \in DOMAIN hashes[q]
                    BY <1>1, <1>7, <4>2
                <5>. QED
                    BY <1>5, <1>7, <2>1, <4>2, <5>1 DEF Genuine
            <4>. QED
                BY <4>1, <4>2
        <3>. QED
            BY <1>1, <1>7, <3>1 DEF Reported
    <2>3. mined'[hashes'[q][i]] = mined[hashes[q][i]]
        BY <1>2, <2>2
    <2>4. hashes'[q][i] > IF i = 1 THEN 0 ELSE hashes'[q][i - 1]
        BY <2>1 DEF Genuine
    <2>5. mined'[hashes'[q][i]].by = q \/ (network' = "signet" /\ q \in crowded')
        BY <1>3, <2>1, <2>3 DEF Genuine
    <2>. QED
        BY <2>4, <2>5 DEF Genuine
<1>8. ASSUME q \notin rewound', Running(q)', NEW i \in DOMAIN hashes'[q]
      PROVE  hashes'[q][i] <= Tip'
    <2>1. hashes[q][i] <= Tip
        BY <1>3, <1>8 DEF Reported
    <2>. QED
        BY <1>4, <1>5, <1>8, <2>1
<1>9. ASSUME q \notin rewound', pc'[q] \in Watching
      PROVE  Watched(q)'
    <2>1. Watched(q) /\ pc[q] \in Watching
        BY <1>3, <1>9 DEF Reported
    <2>2. before'[q] <= Tip'
        BY <1>1, <1>4, <2>1 DEF Watched
    <2>3. \A i \in DOMAIN hashes'[q] : hashes'[q][i] <= before'[q]
        BY <2>1 DEF Watched
    <2>4. CASE q \in crowded'
        BY <2>2, <2>3, <2>4 DEF Watched
    <2>5. CASE q \notin crowded'
        <3>1. by = q /\ q \notin crowded
            BY <1>3, <2>1, <2>5 DEF Running, Watching, Ended
        <3>2. ASSUME NEW i \in DOMAIN chain', chain'[i] > before'[q]
              PROVE  mined'[chain'[i]].by = q
            <4>1. CASE i \in DOMAIN chain /\ chain'[i] = chain[i]
                <5>1. chain[i] \in 1 .. Len(mined)
                    BY <1>1, <4>1, TipHighest
                <5>2. mined[chain[i]].by = q
                    BY <2>1, <3>1, <3>2, <4>1 DEF Watched
                <5>. QED
                    BY <1>2, <4>1, <5>1, <5>2
            <4>. QED
                BY <1>2, <3>1, <4>1
        <3>. QED
            BY <2>2, <2>3, <3>2 DEF Watched
    <2>. QED
        BY <2>4, <2>5
<1>. QED
    BY <1>6, <1>7, <1>8, <1>9 DEF Reported

\* The hashes of an answer of generatetoaddress are those of the blocks just mined.
LEMMA ReportGenerate ==
    ASSUME MiningInv, ReportInv, NEW r \in Request, Generate(r)
    PROVE  ReportInv'
<1>1. PICK n \in Nat, to \in {"list", "generate", "done", "failed", "gone"} :
               /\ (form[r].kind = "mine" => n > 0)
               /\ pc[r] = "generate" /\ Join(n, r, Wallet(r))
               /\ hashes' = [hashes EXCEPT ![r] = IF form[r].kind = "mine" THEN hashes[r] \o Fresh(n) ELSE hashes[r]]
               /\ before' = before /\ pc' = [pc EXCEPT ![r] = to]
    BY GenerateEffect
<1>2. Wallet(r) \in Payee
    BY DEF Wallet, Payee
<1>3. /\ ChainOK /\ hashes \in [Request -> Seq(Nat)]
      /\ hashes[r] \in Seq(Nat) /\ Len(mined) \in Nat
    BY DEF MiningInv, MiningTypeOK, ChainOK
<1>4. \A q \in Request : pc'[q] = IF q = r THEN to ELSE pc[q]
    BY <1>1 DEF MiningInv, PayInv, PayTypeOK
<1>5. \A q \in Request : /\ Running(q)' => Running(q)
                         /\ pc'[q] \in Watching => pc[q] \in Watching
    BY <1>1, <1>4 DEF Running, Watching, Ended
<1>6. ASSUME NEW q \in Request, hashes'[q] = hashes[q]
      PROVE  Reported(q)'
    BY <1>1, <1>2, <1>5, <1>6, ReportKept DEF ReportInv
<1>7. ASSUME form[r].kind = "mine" PROVE Reported(r)'
    <2> DEFINE h == hashes[r]
    <2>1. /\ Fresh(n) \in Seq(Nat) /\ Len(Fresh(n)) = n
          /\ \A i \in 1 .. n : Fresh(n)[i] = Len(mined) + i
        BY <1>3, FreshHashes
    <2>2. /\ Len(mined') = Len(mined) + n
          /\ \A i \in 1 .. Len(mined) : mined'[i] = mined[i]
          /\ \A i \in 1 .. n : mined'[Len(mined) + i].by = r
          /\ Tip' = Len(mined) + n
        <3>1. /\ Len(mined') = Len(mined) + n
              /\ \A i \in 1 .. Len(mined) : mined'[i] = mined[i]
              /\ \A i \in 1 .. n : mined'[Len(mined) + i].by = r
              /\ Tip' = IF n = 0 THEN Tip ELSE Len(mined) + n
            BY <1>1, <1>2, <1>3, Joined
        <3>2. n # 0
            BY <1>1, <1>7
        <3>. QED
            BY <3>1, <3>2
    <2>3. hashes'[r] = h \o Fresh(n)
        BY <1>1, <1>3, <1>7
    <2>4. /\ DOMAIN hashes'[r] = 1 .. (Len(h) + n) /\ Len(h) \in Nat
          /\ \A i \in 1 .. Len(h) : hashes'[r][i] = h[i]
          /\ \A i \in 1 .. n : hashes'[r][Len(h) + i] = Len(mined) + i
        <3>1. /\ DOMAIN (h \o Fresh(n)) = 1 .. (Len(h) + Len(Fresh(n)))
              /\ \A i \in 1 .. Len(h) : (h \o Fresh(n))[i] = h[i]
              /\ \A i \in 1 .. Len(Fresh(n)) : (h \o Fresh(n))[Len(h) + i] = Fresh(n)[i]
            <4>1. h \in Seq(Nat)
                BY <1>3
            <4>2. Fresh(n) \in Seq(Nat)
                BY <2>1
            <4>. HIDE DEF h
            <4>. QED
                BY <4>1, <4>2, Concatenated
        <3>. QED
            BY <1>3, <2>1, <2>3, <3>1
    <2>5. \A i \in 1 .. Len(h) : h[i] \in 0 .. Len(mined)
        <3>1. DOMAIN h = 1 .. Len(h)
            BY <1>3
        <3>. QED
            BY <3>1 DEF ReportInv, Reported
    <2>6. ASSUME NEW i \in DOMAIN hashes'[r]
          PROVE  i \in 1 .. Len(h) \/ \E k \in 1 .. n : i = Len(h) + k
        <3>1. i \in 1 .. (Len(h) + n)
            BY <2>4
        <3>2. i \in 1 .. Len(h) \/ (i - Len(h) \in 1 .. n /\ i = Len(h) + (i - Len(h)))
            BY <2>4, <3>1
        <3>. QED
            BY <3>2
    <2>7. ASSUME NEW i \in DOMAIN hashes'[r]
          PROVE  hashes'[r][i] \in 0 .. Len(mined') /\ hashes'[r][i] <= Tip'
        <3>1. CASE i \in 1 .. Len(h)
            <4>1. hashes'[r][i] = h[i] /\ h[i] \in 0 .. Len(mined)
                BY <2>4, <2>5, <3>1
            <4>2. \A b \in 0 .. Len(mined) : b \in 0 .. Len(mined') /\ b <= Tip'
                BY <1>3, <2>2
            <4>. QED
                BY <4>1, <4>2
        <3>2. ASSUME NEW k \in 1 .. n, i = Len(h) + k
              PROVE  hashes'[r][i] \in 0 .. Len(mined') /\ hashes'[r][i] <= Tip'
            <4>1. hashes'[r][i] = Len(mined) + k
                BY <2>4, <3>2
            <4>2. Len(mined) + k \in 0 .. (Len(mined) + n) /\ Len(mined) + k <= Len(mined) + n
                BY <1>3
            <4>. QED
                BY <2>2, <4>1, <4>2
        <3>. QED
            BY <2>6, <3>1, <3>2
    <2>8. ASSUME r \notin rewound', NEW i \in DOMAIN hashes'[r]
          PROVE  Genuine(r, i)'
        <3>0. /\ network' = network /\ rewound' = rewound /\ crowded \subseteq crowded'
            BY <1>1 DEF Join
        <3>1. CASE i \in 1 .. Len(h)
            <4>1. Genuine(r, i)
                BY <1>3, <2>8, <3>0, <3>1 DEF ReportInv, Reported
            <4>2. h[i] \in 1 .. Len(mined) /\ (i # 1 => hashes'[r][i - 1] = h[i - 1])
                <5>1. CASE i = 1
                    BY <1>3, <2>5, <3>1, <4>1, <5>1 DEF Genuine
                <5>2. CASE i # 1
                    <6>1. i - 1 \in 1 .. Len(h)
                        BY <2>4, <3>1, <5>2
                    <6>2. hashes'[r][i - 1] = h[i - 1] /\ h[i - 1] \in 0 .. Len(mined)
                        BY <2>4, <2>5, <6>1
                    <6>3. h[i] > h[i - 1]
                        BY <4>1, <5>2 DEF Genuine
                    <6>. QED
                        BY <1>3, <2>5, <3>1, <6>2, <6>3
                <5>. QED
                    BY <5>1, <5>2
            <4>3. hashes'[r][i] = h[i] /\ mined'[h[i]] = mined[h[i]]
                BY <2>2, <2>4, <3>1, <4>2
            <4>4. hashes'[r][i] > IF i = 1 THEN 0 ELSE hashes'[r][i - 1]
                BY <4>1, <4>2, <4>3 DEF Genuine
            <4>5. mined'[hashes'[r][i]].by = r \/ (network' = "signet" /\ r \in crowded')
                BY <3>0, <4>1, <4>3 DEF Genuine
            <4>. QED
                BY <4>4, <4>5 DEF Genuine
        <3>2. ASSUME NEW k \in 1 .. n, i = Len(h) + k
              PROVE  Genuine(r, i)'
            <4>1. hashes'[r][i] = Len(mined) + k /\ mined'[Len(mined) + k].by = r
                BY <2>2, <2>4, <3>2
            <4>2. ASSUME i # 1 PROVE Len(mined) + k > hashes'[r][i - 1]
                <5>1. CASE k = 1
                    <6>1. i - 1 \in 1 .. Len(h)
                        BY <2>4, <3>2, <4>2, <5>1
                    <6>2. hashes'[r][i - 1] \in 0 .. Len(mined)
                        BY <2>4, <2>5, <6>1
                    <6>. QED
                        BY <1>3, <5>1, <6>2
                <5>2. CASE k # 1
                    <6>1. k - 1 \in 1 .. n /\ i - 1 = Len(h) + (k - 1)
                        BY <2>4, <3>2, <5>2
                    <6>2. hashes'[r][i - 1] = Len(mined) + (k - 1)
                        BY <2>4, <6>1
                    <6>. QED
                        BY <1>3, <6>2
                <5>. QED
                    BY <5>1, <5>2
            <4>3. Len(mined) + k > 0
                BY <1>3
            <4>. QED
                BY <4>1, <4>2, <4>3 DEF Genuine
        <3>. QED
            BY <2>6, <3>1, <3>2
    <2>9. pc'[r] \notin Watching
        BY <1>4 DEF Watching
    <2>. QED
        BY <2>7, <2>8, <2>9 DEF Reported
<1>8. ASSUME NEW q \in Request PROVE Reported(q)'
    <2>1. CASE q = r /\ form[r].kind = "mine"
        BY <1>7, <2>1
    <2>2. CASE ~(q = r /\ form[r].kind = "mine")
        <3>1. hashes'[q] = hashes[q]
            BY <1>1, <1>3, <2>2
        <3>. QED
            BY <1>6, <3>1
    <2>. QED
        BY <2>1, <2>2
<1>. QED
    BY <1>8 DEF ReportInv
\* mine_one_block remembers the best block before the miner process runs.
LEMMA ReportBefore ==
    ASSUME MiningInv, ReportInv, NEW r \in Request, BestBefore(r)
    PROVE  ReportInv'
<1>1. /\ pc[r] = "before" /\ before' = [before EXCEPT ![r] = Tip]
      /\ UNCHANGED <<mined, chain, hashes, crowded, rewound>>
    BY DEF BestBefore, At, nodeVars, historyVars
<1>2. PICK to \in {"spawn", "gone"} : pc' = [pc EXCEPT ![r] = to] /\ UNCHANGED <<network, form>>
    BY MayGoTo DEF BestBefore, Answered, MiningInv
<1>3. Tip' = Tip /\ Tip \in Nat /\ \A i \in DOMAIN chain : chain[i] \in Nat /\ chain[i] <= Tip
    BY <1>1, TipHighest DEF Tip, MiningInv, MiningTypeOK, ChainOK
<1>4. \A q \in Request : pc'[q] = IF q = r THEN to ELSE pc[q]
    BY <1>2 DEF MiningInv, PayInv, PayTypeOK
<1>5. \A q \in Request : before'[q] = IF q = r THEN Tip ELSE before[q]
    BY <1>1 DEF MiningInv, MiningTypeOK
<1>6. ASSUME NEW q \in Request PROVE Reported(q)'
    <2>1. Reported(q)
        BY DEF ReportInv
    <2>2. \A i \in DOMAIN hashes[q] : Genuine(q, i)' <=> Genuine(q, i)
        BY <1>1, <1>2 DEF Genuine
    <2>3. Running(q)' => Running(q)
        BY <1>1, <1>4 DEF Running, Ended
    <2>4. ASSUME q \notin rewound', pc'[q] \in Watching PROVE Watched(q)'
        <3>1. CASE q = r
            <4>1. Running(q)
                BY <1>1, <3>1 DEF Running, Ended
            <4>2. \A i \in DOMAIN hashes[q] : hashes[q][i] <= Tip
                BY <1>1, <2>1, <2>4, <4>1 DEF Reported
            <4>3. \A i \in DOMAIN chain : ~(chain[i] > Tip)
                BY <1>3
            <4>. QED
                BY <1>1, <1>3, <1>5, <3>1, <4>2, <4>3 DEF Watched
        <3>2. CASE q # r
            <4>1. Watched(q) /\ before'[q] = before[q]
                BY <1>1, <1>4, <1>5, <2>1, <2>4, <3>2 DEF Reported
            <4>. QED
                BY <1>1, <1>3, <4>1 DEF Watched
        <3>. QED
            BY <3>1, <3>2
    <2>. QED
        BY <1>1, <1>3, <2>1, <2>2, <2>3, <2>4 DEF Reported
<1>. QED
    BY <1>6 DEF ReportInv

\* A best block other than the one before is reported: it is above all reported before.
LEMMA ReportAfter ==
    ASSUME MiningInv, ReportInv, NEW r \in Request, BestAfter(r), Advanced(r)
    PROVE  ReportInv'
<1>1. /\ pc[r] = "after" /\ Tip # before[r]
      /\ hashes' = [hashes EXCEPT ![r] = Append(hashes[r], Tip)]
      /\ UNCHANGED <<mined, chain, before, crowded, rewound>>
    BY DEF BestAfter, Advanced, At, nodeVars, historyVars
<1>2. Goes(r, "address") \/ Goes(r, "done")
    BY DEF BestAfter, Answered
<1>3. PICK to \in {"address", "done", "gone"} :
          pc' = [pc EXCEPT ![r] = to] /\ UNCHANGED <<network, form>>
    BY <1>2, MayGoTo DEF MiningInv
<1>4. /\ Tip' = Tip /\ Tip \in 0 .. Len(mined) /\ Len(mined) \in Nat
      /\ Tip > 0 => \E i \in DOMAIN chain : chain[i] = Tip
    BY <1>1, TipHighest DEF Tip, MiningInv, MiningTypeOK, ChainOK
<1>5. /\ hashes \in [Request -> Seq(Nat)] /\ hashes[r] \in Seq(Nat) /\ before[r] \in Nat
      /\ Len(hashes[r]) \in Nat
    BY DEF MiningInv, MiningTypeOK
<1>6. \A q \in Request : pc'[q] = IF q = r THEN to ELSE pc[q]
    BY <1>3 DEF MiningInv, PayInv, PayTypeOK
<1>7. Reported(r)'
    <2> DEFINE h == hashes[r]
               last == Len(h) + 1
    <2>1. hashes'[r] = Append(h, Tip)
        BY <1>1, <1>5
    <2>2. /\ DOMAIN hashes'[r] = 1 .. last /\ hashes'[r][last] = Tip
          /\ \A i \in 1 .. Len(h) : hashes'[r][i] = h[i]
          /\ DOMAIN h = 1 .. Len(h)
        BY <1>4, <1>5, <2>1, AppendProperties
    <2>3. Reported(r)
        BY DEF ReportInv
    <2>4. \A i \in DOMAIN hashes'[r] : i \in 1 .. Len(h) \/ i = last
        BY <1>5, <2>2
    <2>5. \A i \in DOMAIN hashes'[r] : hashes'[r][i] \in 0 .. Len(mined')
        BY <1>1, <1>4, <2>2, <2>3, <2>4 DEF Reported
    <2>6. pc'[r] \notin Watching
        BY <1>6 DEF Watching
    <2>7. ASSUME r \notin rewound PROVE Watched(r) /\ Tip > before[r] /\ Tip > 0
        <3>1. Watched(r)
            BY <1>1, <2>3, <2>7 DEF Reported, Watching
        <3>. QED
            BY <1>1, <1>4, <1>5, <3>1 DEF Watched
    <2>8. ASSUME r \notin rewound', NEW i \in DOMAIN hashes'[r]
          PROVE  hashes'[r][i] <= Tip'
        <3>1. CASE i = last
            BY <1>4, <2>2, <3>1
        <3>2. CASE i \in 1 .. Len(h)
            <4>1. h[i] <= before[r] /\ Tip > before[r] /\ h[i] \in Nat
                BY <1>1, <1>5, <2>2, <2>7, <2>8, <3>2 DEF Watched
            <4>. QED
                BY <1>4, <1>5, <2>2, <3>2, <4>1
        <3>. QED
            BY <2>4, <3>1, <3>2
    <2>9. ASSUME r \notin rewound', NEW i \in DOMAIN hashes'[r]
          PROVE  Genuine(r, i)'
        <3>0. r \notin rewound
            BY <1>1, <2>9
        <3>1. CASE i \in 1 .. Len(h)
            <4>1. Genuine(r, i)
                BY <2>2, <2>3, <3>0, <3>1 DEF Reported
            <4>2. i # 1 => i - 1 \in 1 .. Len(h)
                BY <1>5, <3>1
            <4>3. hashes'[r][i] = h[i] /\ (i # 1 => hashes'[r][i - 1] = h[i - 1])
                BY <2>2, <3>1, <4>2
            <4>. QED
                BY <1>1, <1>3, <4>1, <4>3 DEF Genuine
        <3>2. CASE i = last
            <4>1. PICK k \in DOMAIN chain : chain[k] = Tip
                BY <1>4, <2>7, <3>0
            <4>2. network = "signet"
                BY <1>1, MineForms DEF SignetCalls
            <4>3. r \in crowded \/ mined[Tip].by = r
                BY <2>7, <3>0, <4>1 DEF Watched
            <4>4. ASSUME last # 1 PROVE Tip > hashes'[r][last - 1]
                <5>1. last - 1 \in 1 .. Len(h)
                    BY <1>5, <4>4
                <5>2. hashes'[r][last - 1] = h[last - 1] /\ last - 1 \in DOMAIN h
                    BY <2>2, <5>1
                <5>3. h[last - 1] <= before[r] /\ h[last - 1] \in Nat
                    BY <1>5, <2>7, <3>0, <5>2 DEF Watched
                <5>. QED
                    BY <1>4, <1>5, <2>7, <3>0, <5>2, <5>3
            <4>5. hashes'[r][i] > IF i = 1 THEN 0 ELSE hashes'[r][i - 1]
                BY <2>2, <2>7, <3>0, <3>2, <4>4
            <4>6. mined'[hashes'[r][i]].by = r \/ (network' = "signet" /\ r \in crowded')
                BY <1>1, <1>3, <2>2, <3>2, <4>2, <4>3
            <4>. QED
                BY <4>5, <4>6 DEF Genuine
        <3>. QED
            BY <2>4, <3>1, <3>2
    <2>. QED
        BY <2>5, <2>6, <2>8, <2>9 DEF Reported
<1>8. ASSUME NEW q \in Request, q # r PROVE Reported(q)'
    <2>1. Reported(q) /\ hashes'[q] = hashes[q] /\ pc'[q] = pc[q]
        BY <1>1, <1>5, <1>6, <1>8 DEF ReportInv
    <2>2. Watched(q)' <=> Watched(q)
        BY <1>1, <1>4, <2>1 DEF Watched
    <2>3. \A i \in DOMAIN hashes[q] : Genuine(q, i)' <=> Genuine(q, i)
        BY <1>1, <1>3, <2>1 DEF Genuine
    <2>4. Running(q)' <=> Running(q)
        BY <2>1 DEF Running
    <2>. QED
        BY <1>1, <1>4, <2>1, <2>2, <2>3, <2>4 DEF Reported
<1>. QED
    BY <1>7, <1>8 DEF ReportInv

\* Who is under way at a rewind may report an older block; all others have reported.
LEMMA ReportRewind ==
    ASSUME MiningInv, ReportInv, Rewind
    PROVE  ReportInv'
<1>1. /\ UNCHANGED <<network, mined, pc, hashes, before, crowded>>
      /\ rewound' = rewound \cup {q \in Request : Running(q)}
    BY DEF Rewind, Event, walkVars
<1>2. ASSUME NEW q \in Request PROVE Reported(q)'
    <2>1. Reported(q)
        BY DEF ReportInv
    <2>2. \A i \in DOMAIN hashes[q] : Genuine(q, i)' <=> Genuine(q, i)
        BY <1>1 DEF Genuine
    <2>3. Running(q)' \/ pc'[q] \in Watching => q \in rewound'
        BY <1>1 DEF Running, Watching, Ended
    <2>. QED
        BY <1>1, <2>1, <2>2, <2>3 DEF Reported
<1>. QED
    BY <1>2 DEF ReportInv

LEMMA ReportSubmit ==
    ASSUME MiningInv, ReportInv, NEW r \in Request, NEW f \in Form, Submit(r, f)
    PROVE  ReportInv'
<1>1. PICK to \in {"refused", "lock", "list"} : pc' = [pc EXCEPT ![r] = to]
    BY DEF Submit
<1>2. /\ pc[r] = "new"
      /\ UNCHANGED <<network, mined, chain, hashes, before, crowded, rewound>>
    BY DEF Submit, At, nodeVars, historyVars
<1>3. \A q \in Request : pc'[q] = IF q = r THEN to ELSE pc[q]
    BY <1>1 DEF MiningInv, PayInv, PayTypeOK
<1>4. ASSUME NEW q \in Request PROVE Reported(q)'
    <2>1. CASE q = r
        <3>1. hashes'[q] = <<>> /\ pc'[q] \notin Watching
            BY <1>1, <1>2, <1>3, <2>1 DEF MiningInv, Work, Watching
        <3>. QED
            BY <3>1 DEF Reported
    <2>2. CASE q # r
        <3>1. Reported(q) /\ pc'[q] = pc[q] /\ Tip' = Tip
            BY <1>2, <1>3, <2>2 DEF ReportInv, Tip
        <3>2. Watched(q)' <=> Watched(q)
            BY <1>2, <3>1 DEF Watched
        <3>3. \A i \in DOMAIN hashes[q] : Genuine(q, i)' <=> Genuine(q, i)
            BY <1>2 DEF Genuine
        <3>4. Running(q)' <=> Running(q)
            BY <3>1 DEF Running
        <3>. QED
            BY <1>2, <3>1, <3>2, <3>3, <3>4 DEF Reported
    <2>. QED
        BY <2>1, <2>2
<1>. QED
    BY <1>4 DEF ReportInv

LEMMA ReportInductive == MiningInv /\ ReportInv /\ [Next]_vars => ReportInv'
<1> SUFFICES ASSUME MiningInv, ReportInv, [Next]_vars
             PROVE  ReportInv'
    OBVIOUS
<1>1. CASE \E r \in Request, f \in Form : Submit(r, f)
    BY <1>1, ReportSubmit
<1>2. ASSUME NEW r \in Request, pc[r] \in Open, NEW to, pc' = [pc EXCEPT ![r] = to],
             to \in Watching => pc[r] \in Watching,
             UNCHANGED <<network, mined, chain, hashes, before, crowded, rewound>>
      PROVE  ReportInv'
    <2>1. \A q \in Request : pc'[q] = IF q = r THEN to ELSE pc[q]
        BY <1>2 DEF MiningInv, PayInv, PayTypeOK
    <2>2. Running(r)
        BY <1>2, RunningIsOpen DEF MiningInv
    <2>3. \A q \in Request : /\ Running(q)' => Running(q)
                             /\ pc'[q] \in Watching => pc[q] \in Watching
        BY <1>2, <2>1, <2>2 DEF Running
    <2>. QED
        BY <1>2, <2>3, ReportStill
<1>3. CASE \E r \in Request : \E to : Walks(r, to)
    BY <1>2, <1>3 DEF Walks, walkVars, Watching
<1>4. CASE \E r \in Request : Send(r) \/ Balance(r)
    <2>1. PICK r \in Request : Send(r) \/ Balance(r)
        BY <1>4
    <2>2. /\ pc[r] \in Open
          /\ UNCHANGED <<mined, chain, hashes, before, crowded, rewound>>
        BY <2>1 DEF Send, Balance, At, walkVars, nodeVars, historyVars, Open, Calls
    <2>3. PICK next \in {"done", "failed", "balance", "address", "short"} : Goes(r, next)
        BY <2>1 DEF Send, Balance, Answered, PaymentUnanswered, Unanswered
    <2>4. PICK to \in {next, "gone"} : pc' = [pc EXCEPT ![r] = to] /\ UNCHANGED <<network, form>>
        BY <2>3, MayGoTo DEF MiningInv
    <2>. QED
        BY <1>2, <2>2, <2>4 DEF Watching
<1>5. CASE \E r \in Request : Generate(r)
    BY <1>5, ReportGenerate
<1>6. CASE \E r \in Request : BestBefore(r)
    BY <1>6, ReportBefore
<1>7. CASE \E r \in Request : BestAfter(r) /\ Advanced(r)
    BY <1>7, ReportAfter
<1>8. ASSUME NEW by \in Request \cup {"other"}, NEW to \in Payee, Join(1, by, to),
             UNCHANGED <<form, pc, walkVars>>
      PROVE  ReportInv'
    <2>1. ASSUME NEW q \in Request PROVE Reported(q)'
        <3>1. /\ hashes'[q] = hashes[q] /\ before'[q] = before[q]
              /\ Running(q)' => Running(q)
              /\ pc'[q] \in Watching => pc[q] \in Watching
            BY <1>8 DEF walkVars, Running
        <3>2. Reported(q)
            BY DEF ReportInv
        <3>. QED
            BY <1>8, <3>1, <3>2, ReportKept
    <2>. QED
        BY <2>1 DEF ReportInv
<1>9. CASE \E r \in Request : MinerMines(r) /\ Tip = miner[r].on
    BY <1>8, <1>9, MinerJoins DEF Payee
<1>10. CASE ForeignBlock
    BY <1>8, <1>10 DEF ForeignBlock, Event, Payee
<1>11. CASE Rewind
    BY <1>11, ReportRewind
<1>12. CASE StillElsewhere
    BY <1>12, ReportStill DEF StillElsewhere, walkVars, Running
<1>13. CASE UNCHANGED vars
    BY <1>13, ReportStill DEF vars, nodeVars, walkVars, historyVars, Running
<1>. QED
    BY <1>1, <1>3, <1>4, <1>5, <1>6, <1>7, <1>9, <1>10, <1>11, <1>12, <1>13, Steps

\* The hashes of a successful answer are as many different blocks as asked for
\* (mine_blocks, mine_one_block), each mined for the request or, on a signet, one of
\* another miner that came meanwhile, but for a rewind under way.
THEOREM ReportsCorrect == Spec => []ReportedAreMined
<1>1. Init => ReportInv
    BY DEF Init, ReportInv, Reported, Watching, Running
<1>2. MiningInv /\ ReportInv => ReportedAreMined
    BY DEF MiningInv, Work, ReportInv, Reported, Genuine, ReportedAreMined
<1>. QED
    BY <1>1, <1>2, MiningInit, MiningInductive, ReportInductive, PTL DEF Spec
=============================================================================
