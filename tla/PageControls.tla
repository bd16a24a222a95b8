---------------------------- MODULE PageControls ----------------------------
(***************************************************************************)
(* The nodes of one network, Home, under the reorg workflows of some pages *)
(* and the auto-mine loop of another: a block mined for the loop may come  *)
(* between any two steps of a workflow.                                    *)
(***************************************************************************)
EXTENDS ReorgWorkflow, AutoMine

CONSTANT Home

ASSUME HomeAssumption == Home \in Network /\ Miner[Home] \subseteq Node

vars == <<chainVars, flowVars, autoVars>>

Init == ChainInit /\ WorkflowInit /\ AutoMineInit /\ selected = Home

\* mine_block for a request of the loop; another network's nodes are not modelled.
Mine(r) ==
    /\ Answered(r, "ok")
    /\ IF r.network = Home THEN OthersMine(r.node) ELSE UNCHANGED <<chainVars, flowVars>>

\* It fails, before or after the block.
MineFails(r) ==
    /\ Failure
    /\ Answered(r, "failed")
    /\ UNCHANGED <<chainVars, flow, actions, historyVars>>

MineUnanswered(r) ==
    /\ r.network = Home /\ failures < MaxFailures
    /\ Answered(r, "failed")
    /\ MineBlock(r.node)
    /\ failures' = failures + 1
    /\ disturbed' = disturbed \cup {p \in Page : Running(p)}
    /\ UNCHANGED <<flow, actions, stranded, abandoned>>

Next ==
    \/ WorkflowNext /\ UNCHANGED autoVars
    \/ PageNext /\ UNCHANGED <<chainVars, flowVars>>
    \/ UserNext /\ Act /\ UNCHANGED <<chainVars, flow, failures, historyVars>>
    \/ \E r \in requests : Mine(r) \/ MineFails(r) \/ MineUnanswered(r)

\* The server answers, and a page goes on when it is answered.
Fairness ==
    \A p \in Page : WF_vars((PageStep(p) \/ ServerStep(p)) /\ UNCHANGED autoVars)

Spec == Init /\ [][Next]_vars /\ Fairness
=============================================================================
