---------------------------- MODULE PolicyProofs ----------------------------
(* Facts about the replenishment rule, for every position. *)
EXTENDS Policy, TLAPS

\* The rule both ways: an order is required of a position if and only if the
\* product is ranged, its stock figure is sane, and what was sold exceeds what is
\* on hand by more than six; a gap of exactly six, a product that is not ranged and
\* a negative figure never order, and nothing else keeps an order back
\* (policy.assess).
THEOREM OrderRequiredIffGap ==
    ASSUME NEW p \in StockPosition
    PROVE  Assess(p) = "order_required" <=>
              /\ p.on_hand \in Nat
              /\ p.sold - p.on_hand > 6
<1>1. p.on_hand \in Int \cup {NotRanged} /\ p.sold \in Int
  BY DEF StockPosition
<1>2. ASSUME Assess(p) = "order_required"
      PROVE  p.on_hand \in Nat /\ p.sold - p.on_hand > 6
  <2>1. p.on_hand # NotRanged /\ p.on_hand >= 0 /\ ExceedsThreshold(GapOf(p))
    BY <1>1, <1>2 DEF Assess
  <2> QED
    BY <1>1, <2>1 DEF ExceedsThreshold, REPLENISHMENT_GAP_THRESHOLD_UNITS, GapOf,
       ComputeGapUnits
<1>3. ASSUME p.on_hand \in Nat, p.sold - p.on_hand > 6
      PROVE  Assess(p) = "order_required"
  <2>1. p.on_hand # NotRanged /\ p.on_hand >= 0
    BY <1>3, NotRangedAssumption
  <2>2. ExceedsThreshold(GapOf(p))
    BY <1>3 DEF ExceedsThreshold, REPLENISHMENT_GAP_THRESHOLD_UNITS, GapOf,
       ComputeGapUnits
  <2> QED
    BY <2>1, <2>2 DEF Assess
<1> QED
  BY <1>2, <1>3

\* What is ordered is the gap, so more than six units.
THEOREM OrderIsTheGap ==
    ASSUME NEW p \in StockPosition, Assess(p) = "order_required"
    PROVE  /\ OrderQuantity(p) = p.sold - p.on_hand
           /\ OrderQuantity(p) \in Nat
           /\ OrderQuantity(p) > 6
<1>1. OrderQuantity(p) = p.sold - p.on_hand
  BY DEF OrderQuantity, OrderQuantityUnitsForGap, GapOf, ComputeGapUnits
<1>2. p.on_hand \in Nat /\ p.sold \in Int /\ p.sold - p.on_hand > 6
  BY OrderRequiredIffGap DEF StockPosition
<1> QED
  BY <1>1, <1>2

\* Whatever was measured, assess() comes to one of four conclusions.
LEMMA AssessRange ==
    ASSUME NEW p \in StockPosition
    PROVE  Assess(p) \in {"not_stocked", "stock_record_error", "order_required",
                          "no_order_required"}
  BY DEF Assess

\* Two decisions share a deduplication key only when the store, the product, the
\* quantity and the trading date are all the same: a gap that has grown, and the
\* same gap tomorrow, are new orders (replenishment_idempotency_key).
THEOREM KeysAreInjective ==
    ASSUME NEW i, NEW q, NEW d, NEW j, NEW r, NEW e,
           ReplenishmentIdempotencyKey(i, q, d) = ReplenishmentIdempotencyKey(j, r, e)
    PROVE  i = j /\ q = r /\ d = e
  BY DEF ReplenishmentIdempotencyKey
=============================================================================
