----------------------------- MODULE MCRollout -----------------------------
(***************************************************************************)
(* Rollout for TLC: what the containers may call for and the effective     *)
(* configurations of the runs.                                             *)
(***************************************************************************)
EXTENDS Rollout, TLC

CONSTANTS h1, h2, w1, w2

\* The containers of a workload, not ready, with no or with one agent.
NotReady == [ready |-> FALSE, hash |-> none, optional |-> FALSE]
Agent(h) == [ready |-> TRUE, hash |-> h, optional |-> FALSE]

MCOneAgent == {Agent(h1)}
MCAllDesires == {NotReady, Agent(h1), Agent(h2), [ready |-> TRUE, hash |-> h2, optional |-> TRUE]}

MCSymmetry == Permutations({w1, w2})

Conf(auto, rollback, limit) ==
    [automaticRolloutDisabled |-> ~auto, rollbackDisabled |-> ~rollback,
     maxConcurrentRollouts |-> limit]

MCConf == Conf(TRUE, TRUE, 1)
MCConfs == {MCConf}
MCChangingConfs == {MCConf, Conf(TRUE, FALSE, 1), Conf(FALSE, FALSE, 0)}
=============================================================================
