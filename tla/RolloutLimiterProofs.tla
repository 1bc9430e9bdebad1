------------------------ MODULE RolloutLimiterProofs ------------------------
(***************************************************************************)
(* The limiter's specification keeps the rollouts that have a slot within  *)
(* the limit, for every set of workloads and every limit.                  *)
(***************************************************************************)
EXTENDS RolloutLimiter, FiniteSetTheorems, TLAPS

\* The slots can be counted.
Slots == IsFiniteSet(held) /\ RollingHoldSlots

\* A slot taken below the limit, or kept, is within it.
LEMMA AdmitKeepsSlots ==
    ASSUME Limit \in Nat, Slots, NEW w \in Workloads, Admit(w)
    PROVE  Slots'
<1>1. IsFiniteSet(held) /\ Cardinality(held) \in Nat
  BY FS_CardinalityType DEF Slots
<1>2. IsFiniteSet(held') /\ rolling' \ early' \subseteq held'
  BY <1>1, FS_AddElement DEF Slots, Admit, RollingHoldSlots
<1>3. Cardinality(held') <= Limit
  <2>1. CASE w \in held
    <3>1. held' = held
      BY <2>1 DEF Admit
    <3> QED
      BY <3>1 DEF Slots, RollingHoldSlots
  <2>2. CASE w \notin held
    <3>1. Cardinality(held \cup {w}) = Cardinality(held) + 1
      BY <1>1, <2>2, FS_AddElement
    <3> QED
      BY <1>1, <2>2, <3>1 DEF Admit
  <2> QED
    BY <2>1, <2>2
<1> QED
  BY <1>2, <1>3 DEF Slots, RollingHoldSlots

\* A slot that is given back leaves the others.
LEMMA ReleaseKeepsSlots ==
    ASSUME Limit \in Nat, Slots, NEW w \in Workloads, held' = held \ {w},
           rolling' \ early' \subseteq (rolling \ early) \ {w}
    PROVE  Slots'
<1>1. IsFiniteSet(held) /\ Cardinality(held) \in Nat
  BY FS_CardinalityType DEF Slots
<1>2. /\ IsFiniteSet(held \ {w})
      /\ Cardinality(held \ {w}) = IF w \in held THEN Cardinality(held) - 1 ELSE Cardinality(held)
  BY <1>1, FS_RemoveElement
<1> QED
  BY <1>1, <1>2 DEF Slots, RollingHoldSlots

\* The slots of rollout_concurrency_limiter.go bound the rollouts they are for: in
\* every behaviour of the limiter at most Limit workloads whose slot was not given
\* back are rolled out at once, each on a slot of its own.
LEMMA LimitCorrect ==
    ASSUME Limit \in Nat
    PROVE  Spec => [](RollingHoldSlots /\ WithinLimit)
<1>1. Init => Slots
  BY FS_EmptySet DEF Init, Slots, RollingHoldSlots
<1>2. Slots /\ [Next]_vars => Slots'
  <2> SUFFICES ASSUME Slots, [Next]_vars PROVE Slots'
    OBVIOUS
  <2>1. ASSUME NEW w \in Workloads, Admit(w) PROVE Slots'
    BY <2>1, AdmitKeepsSlots
  <2>2. ASSUME NEW w \in Workloads, Finish(w) PROVE Slots'
    BY <2>2 DEF Slots, RollingHoldSlots, Finish
  <2>3. ASSUME NEW w \in Workloads, Release(w) PROVE Slots'
    BY <2>3, ReleaseKeepsSlots DEF Release
  <2>4. ASSUME NEW w \in Workloads, TakeOver(w) PROVE Slots'
    BY <2>4, ReleaseKeepsSlots DEF TakeOver
  <2>5. CASE Restart
    BY <2>5, FS_EmptySet DEF Restart, Slots, RollingHoldSlots
  <2>6. CASE UNCHANGED vars
    BY <2>6 DEF Slots, RollingHoldSlots, vars
  <2> QED
    BY <2>1, <2>2, <2>3, <2>4, <2>5, <2>6 DEF Next
<1>3. Slots => RollingHoldSlots /\ WithinLimit
  <2> SUFFICES ASSUME Slots PROVE WithinLimit
    BY DEF Slots
  <2>1. /\ Cardinality(rolling \ early) <= Cardinality(held)
        /\ IsFiniteSet(rolling \ early)
    BY FS_Subset DEF Slots, RollingHoldSlots
  <2>2. Cardinality(held) \in Nat /\ Cardinality(rolling \ early) \in Nat
    BY <2>1, FS_CardinalityType DEF Slots
  <2> QED
    BY <2>1, <2>2 DEF Slots, RollingHoldSlots, WithinLimit
<1> QED
  BY <1>1, <1>2, <1>3, PTL DEF Spec
=============================================================================
