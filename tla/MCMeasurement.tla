---------------------------- MODULE MCMeasurement ----------------------------
(* A small instance of Measurement for TLC. *)
EXTENDS MeasurementInvariant, TLC

\* A gap of exactly six, which a sale turns into eight; and an unranged product.
TwoPositions ==
    { [on_hand |-> 2, sold |-> 8],
      [on_hand |-> NotRanged, sold |-> 8] }

MeasurementSymmetry == Permutations(Calls) \cup Permutations(Keys)
=============================================================================
