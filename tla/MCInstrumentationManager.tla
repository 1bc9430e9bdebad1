---------------------- MODULE MCInstrumentationManager ----------------------
(***************************************************************************)
(* Instances of InstrumentationManager for TLC: two workloads, each a pod  *)
(* with one container.                                                     *)
(***************************************************************************)
EXTENDS InstrumentationManager

CONSTANTS p1, p2, cg1, cg2, pg1, pg2, pod1, pod2, c1, c2, obi

\* Three programs of the first workload: one whose distro has a factory, one
\* whose distro has none, and one whose language is not the container's, so
\* that Distribution returns an error.  The second workload has one program.
MCProcessDetails == {"java", "plain", "sh", "python"}
MCSoloDetails    == {"java"}
MCConfigGroup    == [pd \in ProcessDetails |-> IF pd = "python" THEN cg2 ELSE cg1]
MCProcessGroup   == [pd \in ProcessDetails |-> IF pd = "python" THEN pg2 ELSE pg1]
MCPodOf          == [pd \in ProcessDetails |-> IF pd = "python" THEN pod2 ELSE pod1]
MCDistribution   == [pd \in ProcessDetails |-> IF pd = "sh" THEN nil ELSE pd]
MCDistros        == {"java", "plain", "python"}
MCFactories      == {"java", "python"}
MCSoloFactories  == {"java"}

\* The first pid may be used again by the other workload; the second is always
\* a process of that one.
MCCandidates == [p \in Pids |-> IF p = p1 THEN MCProcessDetails ELSE {"python"}]

MCSoloCandidates == [p \in Pids |-> MCSoloDetails]
=============================================================================
