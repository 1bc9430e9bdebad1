--------------------------- MODULE MCProfileCache ---------------------------
(***************************************************************************)
(* ProfileCache for TLC: small limits, and edits that lower and raise them.*)
(***************************************************************************)
EXTENDS ProfileCache

CONSTANTS k1, k2, c1, e1, e2, m1, m2

Limit(slotCount, bytes, ttl) ==
    [f \in Fields |-> CASE f = "maxSlots" -> slotCount [] f = "slotMaxBytes" -> bytes
                        [] f = "ttlSeconds" -> ttl]

MCDefaultLimits == Limit(3, 2, 1)

MCHelmLimits == Limit(2, 0, 0)
MCLocalLimits == Limit(0, 0, 0)

\* The number of slots is lowered, taken back, and raised with a smaller budget.
MCEdits ==
    {[supplied |-> {"maxSlots"}, ui |-> Limit(1, 0, 0)],
     [supplied |-> {"maxSlots"}, ui |-> Limit(0, 0, 0)],
     [supplied |-> {"maxSlots", "slotMaxBytes"}, ui |-> Limit(2, 1, 0)]}
=============================================================================
