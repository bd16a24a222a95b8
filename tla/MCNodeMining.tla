---------------------------- MODULE MCNodeMining ----------------------------
\* A regtest and a signet. The faucet of the regtest starts with no reward,
\* or with some that can still not be spent.
EXTENDS NodeMining

Pay(amount) == [kind |-> "faucet", amount |-> amount, count |-> 0, exclude |-> FALSE, target |-> "miner"]

MineOf(count, exclude) ==
    [kind |-> "mine", amount |-> 0, count |-> count, exclude |-> exclude, target |-> "miner"]

Forms == {Pay(2), Pay(3), MineOf(2, FALSE), MineOf(2, TRUE),
          [Pay(2) EXCEPT !.target = "other"]}

Starts == {
    [network |-> "regtest", funds |-> <<>>, faucet |-> "absent", miner |-> "absent",
     trouble |-> 1],
    [network |-> "regtest", funds |-> <<"faucet">>, faucet |-> "closed", miner |-> "open",
     trouble |-> 1],
    [network |-> "signet", funds |-> <<"other">>, faucet |-> "absent", miner |-> "absent",
     trouble |-> 2]}
=============================================================================
