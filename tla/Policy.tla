------------------------------- MODULE Policy -------------------------------
(***************************************************************************)
(* Korral's replenishment rule, as domain/policy.py applies it, and the    *)
(* deduplication key service.py derives from a decision.  Everything here  *)
(* is a pure operator: the modules that have state extend this one.        *)
(* A definition marked Variant is a fault the checks are tried against; no *)
(* specification uses it.                                                  *)
(***************************************************************************)
EXTENDS Integers

CONSTANT NotRanged   \* `None` on hand: the product is not ranged at the store

ASSUME NotRangedAssumption == NotRanged \notin Int

\* One measured position, reduced to the two figures the rule looks at.
StockPosition == [on_hand : Int \cup {NotRanged}, sold : Int]

REPLENISHMENT_GAP_THRESHOLD_UNITS == 6

ComputeGapUnits(onHand, sold) == sold - onHand

\* Variant: the boundary admitted.
ExceedsThreshold_Inclusive(gap) == gap >= REPLENISHMENT_GAP_THRESHOLD_UNITS

\* "Exceeds" is strict: a gap of exactly six raises no order.
ExceedsThreshold(gap) == gap > REPLENISHMENT_GAP_THRESHOLD_UNITS

OrderQuantityUnitsForGap(gap) == gap

GapOf(p) == ComputeGapUnits(p.on_hand, p.sold)

\* What assess() concludes; "stock_record_error" stands for the UpstreamError
\* it raises on a negative quantity on hand.
Assess(p) ==
    CASE p.on_hand = NotRanged -> "not_stocked"
      [] p.on_hand # NotRanged /\ p.on_hand < 0 -> "stock_record_error"
      [] p.on_hand # NotRanged /\ p.on_hand >= 0 /\ ExceedsThreshold(GapOf(p))
            -> "order_required"
      [] OTHER -> "no_order_required"

\* Variant: the difference taken the wrong way round.
OrderQuantity_Inverted(p) == ComputeGapUnits(p.sold, p.on_hand)

\* ReplenishmentDecision.order_quantity_units of a position that needs one.
OrderQuantity(p) == OrderQuantityUnitsForGap(GapOf(p))

\* Variant: a key that leaves the quantity out.
Key_NoQuantity(item, quantity, orderingDate) ==
    [item |-> item, qty |-> 0, date |-> orderingDate]

\* replenishment_idempotency_key: the readable string is injective in the
\* store, the product, the quantity and the date, so a record stands for it.
\* An item is a store and a product together.
ReplenishmentIdempotencyKey(item, quantity, orderingDate) ==
    [item |-> item, qty |-> quantity, date |-> orderingDate]
=============================================================================
