---------------------- MODULE MCSourceInstrumentation ----------------------
(***************************************************************************)
(* SourceInstrumentation for TLC: the Sources of a namespace.              *)
(***************************************************************************)
EXTENDS SourceInstrumentation, TLC

CONSTANTS w1, w2

\* One Source for w1, two with patterns that match it too, one for the namespace.
MCKind == [s \in Sources |->
    ("s1" :> "workload" @@ "s2" :> "regex" @@ "s3" :> "namespace" @@ "s4" :> "regex")[s]]
MCMatches == [s \in Sources |->
    ("s1" :> {w1} @@ "s2" :> {w1} @@ "s3" :> Workloads @@ "s4" :> Workloads)[s]]
=============================================================================
