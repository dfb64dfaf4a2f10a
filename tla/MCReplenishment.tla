--------------------------- MODULE MCReplenishment ---------------------------
(* Small instances of Replenishment for TLC. *)
EXTENDS ReplenishmentInvariant, TLC

\* Not ranged; a stock record error; a gap of exactly six; gaps of seven and eight.
AllReadings ==
    { [on_hand |-> NotRanged, sold |-> 9],
      [on_hand |-> -1, sold |-> 9],
      [on_hand |-> 2, sold |-> 8],
      [on_hand |-> 2, sold |-> 9],
      [on_hand |-> 1, sold |-> 9] }

\* A position that does not change, so a caller that repeats itself means a replay.
OneReading == { [on_hand |-> 2, sold |-> 9] }

\* Two gaps that need an order, of different quantities.
OrderReadings ==
    { [on_hand |-> 2, sold |-> 9],
      [on_hand |-> 1, sold |-> 9] }

AllFaults == {"unanswered", "rejected", "unusable", "audit", "log", "crash"}

CallSymmetry == Permutations(Calls)
=============================================================================
