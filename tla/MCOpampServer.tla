--------------------------- MODULE MCOpampServer ---------------------------
(***************************************************************************)
(* OpampServer for TLC: the identities agents may have.                    *)
(***************************************************************************)
EXTENDS OpampServer, TLC

CONSTANTS w1, w2, c1, c2, a1, a2, x1, x2, g1, g2

Identity(w, ns, container, pod, pid) ==
    [workload |-> w, namespace |-> ns, container |-> container,
     process |-> [pod |-> pod, pid |-> pid]]

\* Two processes, in two containers of one pod.
MCOnePod == {Identity(w1, "ns1", c1, "pod1", 1), Identity(w1, "ns1", c2, "pod1", 2)}

\* One process, whose program may be replaced.
MCOneProcess == {Identity(w1, "ns1", c1, "pod1", 1)}

\* Pods with the same name in two namespaces.
MCTwoNamespaces == {Identity(w1, "ns1", c1, "pod1", 1), Identity(w2, "ns2", c1, "pod1", 1)}

MCSymmetry == Permutations({a1, a2}) \cup Permutations({g1, g2})
=============================================================================
