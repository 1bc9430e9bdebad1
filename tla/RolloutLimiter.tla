--------------------------- MODULE RolloutLimiter ---------------------------
(***************************************************************************)
(* What the concurrency limiter promises to the cluster, whatever the      *)
(* controllers that share it do.  There are Limit slots.  A rollout starts *)
(* on a slot, and a slot is free as soon as it is given back, also when    *)
(* the rollout it was for goes on: such a rollout is early.  Rollout       *)
(* implements this specification with a set of in-flight workloads that    *)
(* reconciles of several controllers fill and empty.                       *)
(***************************************************************************)
EXTENDS Integers, FiniteSets

CONSTANTS Workloads, Limit

VARIABLES
    held,      \* workloads that hold a slot
    rolling,   \* workloads that are being rolled out and started on a slot
    early      \* those of them whose slot was given back since

vars == <<held, rolling, early>>

Init == held = {} /\ rolling = {} /\ early = {}

\* A slot is taken, or kept.  The restart it is for may fail.
Admit(w) ==
    /\ w \in held \/ Cardinality(held) < Limit
    /\ held' = held \cup {w}
    /\ \/ UNCHANGED <<rolling, early>>
       \/ rolling' = rolling \cup {w} /\ early' = early \ {w}

\* The slot is given back, and nothing else happens to the workload.
Release(w) ==
    /\ held' = held \ {w}
    /\ early' = early \cup ({w} \cap rolling)
    /\ UNCHANGED rolling

\* The cluster has replaced the pods, the workload is gone, or a restart without a
\* slot has taken the place of the rollout.
Finish(w) ==
    /\ rolling' = rolling \ {w}
    /\ early' = early \ {w}
    /\ UNCHANGED held

\* A rollback or an un-instrumentation gives the slot back and takes the place of
\* the rollout.
TakeOver(w) ==
    /\ held' = held \ {w}
    /\ rolling' = rolling \ {w}
    /\ early' = early \ {w}

\* The instrumentor restarts with an empty limiter.
Restart ==
    /\ held' = {}
    /\ early' = rolling
    /\ UNCHANGED rolling

Next ==
    \/ \E w \in Workloads : Admit(w) \/ Release(w) \/ Finish(w) \/ TakeOver(w)
    \/ Restart

Spec == Init /\ [][Next]_vars

-----------------------------------------------------------------------------
(* Properties *)

\* Every rollout that started on a slot and has not lost it holds one of those that
\* maxConcurrentRollouts allows.
RollingHoldSlots == rolling \ early \subseteq held /\ Cardinality(held) <= Limit

\* So no more than maxConcurrentRollouts workloads are rolled out at once, not
\* counting those whose slot was given back early.
WithinLimit == Cardinality(rolling \ early) <= Limit
=============================================================================
