------------------------- MODULE MeasurementInvariant -------------------------
(* The inductive invariant of Measurement. *)
EXTENDS Measurement

\* The provider never loses a value, and a call gets past its preflight with one.
HeldInv ==
    \A c \in Calls :
        pc[c] \in {"signing", "waiting", "comparing", "logging"} => held # NoKey

\* What a read knows of the key it is signed with, while nothing went astray.
KeyKnown(c) ==
    /\ Served \in accepted
    /\ pc[c] \in {"signing", "logging"} /\ attempt[c] = 2 => turns[c] > 0
    /\ pc[c] = "waiting" /\ attempt[c] = 1 => turns[c] > 0 \/ key[c] = Served
    /\ pc[c] = "waiting" /\ attempt[c] = 2 =>
          turns[c] > 0 /\ (turns[c] = 1 => key[c] = Served)
    /\ pc[c] = "comparing" /\ attempt[c] = 1 =>
          turns[c] > 0 /\ (turns[c] = 1 => key[c] # Served)
    /\ pc[c] = "comparing" /\ attempt[c] = 2 => turns[c] > 1

KeyInv ==
    \A c \in Calls :
        (pc[c] # "idle" /\ outcome[c] = "none" /\ ~astray[c]) => KeyKnown(c)

\* Only a read is compared, and a call comes to something once.
StageInv ==
    \A c \in Calls :
        /\ pc[c] = "comparing" => request[c] # "order"
        /\ pc[c] \notin {"logging", "ended"} => outcome[c] = "none"

\* Without a delivery stock only falls and sales only rise.
FigureInv ==
    \A c \in Calls : (pc[c] # "idle" /\ outcome[c] = "none" /\ ~restocked[c]) =>
        /\ request[c] \in {"pos", "order"} =>
              \/ onHand = NotRanged /\ inventory[c] = NotRanged
              \/ onHand # NotRanged /\ inventory[c] # NotRanged /\ onHand <= inventory[c]
        /\ request[c] = "order" =>
              onHand # NotRanged /\ inventory[c] # NotRanged /\ units[c] <= sold

IInv ==
    /\ TypeOK
    /\ HeldInv
    /\ KeyInv
    /\ StageInv
    /\ FigureInv
    /\ OneRotationIsAbsorbed
=============================================================================
