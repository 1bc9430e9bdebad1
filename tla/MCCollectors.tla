---------------------------- MODULE MCCollectors ----------------------------
(* Instances of Collectors for TLC. *)
EXTENDS Collectors

CONSTANTS plain, spans

MCConfs == {plain, spans}
MCSpanMetrics == {spans}

\* Metrics with and without the default settings.
MCMetrics == {"metrics", "span metrics", "agent metrics"}
MCDestDemands == {{}, {"traces"}, {"metrics"}, MCMetrics, MCMetrics \cup {"traces"}}

\* Two node group and two node collector controllers, which race; one for the cluster group
\* and one for the gateway, whose results the node collectors follow whatever they are.  The
\* others repeat the same reconciles.
MCControllers ==
    {"clustergroup-config", "nodegroup-ics", "nodegroup-clustergroup", "gateway-destinations",
     "node-groups", "node-configmap"}

=============================================================================
