-------------------------- MODULE MeasurementProofs --------------------------
(***************************************************************************)
(* What the client's one retry and the measurement's three moments are     *)
(* worth, for any calls, keys, positions and deliveries, and with no bound *)
(* on how often keys or stock change.                                      *)
(***************************************************************************)
EXTENDS MeasurementInvariant, PolicyProofs

USE KeysAssumption, NotRangedAssumption

\* Resolving a key, or none, does not change what is served next.
LEMMA ServedStays ==
    ASSUME mount' = mount, held' = Served \/ held' = held
    PROVE  Served' = Served
  BY DEF Served

\* What is served is a key, once one is held.
LEMMA ServedType ==
    ASSUME TypeOK
    PROVE  Served \in Keys \cup {NoKey} /\ (held # NoKey => Served # NoKey)
  BY DEF TypeOK, Served


\* The turn of a request, whatever the state of the keys at that moment.
LEMMA TurnTypes ==
    ASSUME TypeOK, NEW c \in Calls, NEW to, NEW r \in Reads \cup {"order"}, Turn(c, to, r)
    PROVE  /\ pc' = [pc EXCEPT ![c] = to]
           /\ request' = [request EXCEPT ![c] = r]
           /\ attempt' = [attempt EXCEPT ![c] = 1]
           /\ turns' = [turns EXCEPT ![c] = 0]
           /\ outcome' = outcome
           /\ astray' \in [Calls -> BOOLEAN]
           /\ \A d \in Calls : astray'[d] <=> IF d = c THEN Astray ELSE astray[d]
<1> DEFINE b == Astray
<1>1. b \in BOOLEAN
  BY DEF Astray
<1>2. astray' = [astray EXCEPT ![c] = b]
  BY DEF Turn
<1>3. astray \in [Calls -> BOOLEAN]
  BY DEF TypeOK
<1>4. /\ astray' \in [Calls -> BOOLEAN]
      /\ \A d \in Calls : astray'[d] = IF d = c THEN b ELSE astray[d]
  <2> HIDE DEF b
  <2> QED
    BY <1>1, <1>2, <1>3
<1> QED
  BY <1>4 DEF Turn, Goto

\* A change of the keys is counted if it changes what is served.
LEMMA WatchedKey ==
    ASSUME TypeOK, KeyInv, Watch
    PROVE  KeyInv'
<1> SUFFICES ASSUME NEW c \in Calls, pc'[c] # "idle", outcome'[c] = "none", ~astray'[c]
             PROVE  KeyKnown(c)'
  BY DEF KeyInv
<1>1. pc' = pc /\ attempt' = attempt /\ key' = key /\ outcome' = outcome
  BY DEF Watch
<1>2. ~astray[c] /\ Served' \in accepted'
  BY <1>1 DEF Watch, Astray
<1>3. turns'[c] = IF Served' # Served THEN turns[c] + 1 ELSE turns[c]
  BY <1>1 DEF Watch
<1>4. turns[c] \in Nat /\ attempt[c] \in 1..2
  BY DEF TypeOK
<1>5. KeyKnown(c)
  BY <1>1, <1>2 DEF KeyInv
<1>6. CASE Served' = Served
  BY <1>1, <1>2, <1>3, <1>5, <1>6 DEF KeyKnown
<1>7. CASE Served' # Served
  BY <1>1, <1>2, <1>3, <1>4, <1>5, <1>7 DEF KeyKnown
<1> QED
  BY <1>6, <1>7

\* What the last figure leads to: an order, of a product that is ranged, or an end.
LEMMA ReadPosMove ==
    ASSUME TypeOK, NEW c \in Calls, ReadPos(c)
    PROVE  /\ pc[c] = "waiting" /\ request[c] = "pos"
           /\ units' = [units EXCEPT ![c] = sold]
           /\ UNCHANGED <<environment, held, key, inventory, restocked>>
           /\ \/ inventory[c] # NotRanged /\ Turn(c, "logging", "order")
              \/ \E a \in {"not_stocked", "stock_record_error", "no_order_required"} :
                    End(c, "logging", a)
<1> DEFINE p == [on_hand |-> inventory[c], sold |-> sold]
<1>1. p \in StockPosition
  BY DEF StockPosition, TypeOK
<1>2. Assess(p) = "order_required" => inventory[c] # NotRanged
  BY DEF Assess
<1> HIDE DEF p
<1>3. Assess(p) # "order_required" =>
         Assess(p) \in {"not_stocked", "stock_record_error", "no_order_required"}
  BY <1>1, AssessRange
<1>4. \/ Assess(p) = "order_required" /\ Turn(c, "logging", "order")
      \/ Assess(p) # "order_required" /\ End(c, "logging", Assess(p))
  BY DEF ReadPos, p
<1>5. /\ pc[c] = "waiting" /\ request[c] = "pos"
      /\ units' = [units EXCEPT ![c] = sold]
      /\ UNCHANGED <<environment, held, key, inventory, restocked>>
  BY DEF ReadPos, Authorised
<1> QED
  BY <1>2, <1>3, <1>4, <1>5

\* Types: a second attempt is the last, and only a read has one.
LEMMA TypeStep ==
    ASSUME TypeOK, StageInv, [Next]_vars
    PROVE  TypeOK'
<1> USE DEF TypeOK, Places, Outcomes, Reads, environment, keys, shop, history
<1>1. ASSUME NEW c \in Calls, Begin(c) PROVE TypeOK'
  <2>1. CASE Served = NoKey /\ End(c, "ended", "store_credential_missing")
    BY <1>1, <2>1, ServedType DEF Begin, End, Goto
  <2>2. CASE Served # NoKey /\ Turn(c, "signing", "store")
    <3>1. /\ held' = Served
          /\ restocked' = [restocked EXCEPT ![c] = FALSE]
          /\ UNCHANGED <<environment, key, inventory, units>>
      BY <1>1 DEF Begin
    <3>2. /\ pc' = [pc EXCEPT ![c] = "signing"]
          /\ request' = [request EXCEPT ![c] = "store"]
          /\ attempt' = [attempt EXCEPT ![c] = 1]
          /\ turns' = [turns EXCEPT ![c] = 0]
          /\ astray' \in [Calls -> BOOLEAN]
          /\ UNCHANGED outcome
      BY <2>2, TurnTypes
    <3> QED
      BY <3>1, <3>2, ServedType
  <2> QED
    BY <1>1, <2>1, <2>2 DEF Begin
<1>2. ASSUME NEW c \in Calls, Sign(c) PROVE TypeOK'
  BY <1>2, ServedType DEF Sign, Goto
<1>3. ASSUME NEW c \in Calls, RetryRead(c) PROVE TypeOK'
  BY <1>3, ServedType DEF RetryRead, StageInv, Goto
<1>4. ASSUME NEW c \in Calls, RejectRead(c) PROVE TypeOK'
  BY <1>4, ServedType DEF RejectRead, End, Goto
<1>5. ASSUME NEW c \in Calls, LogRequest(c) PROVE TypeOK'
  BY <1>5, ServedType DEF LogRequest, Goto
<1>6. ASSUME NEW c \in Calls, ReplayRecorded(c) PROVE TypeOK'
  BY <1>6 DEF ReplayRecorded, End, Goto
<1>7. ASSUME NEW c \in Calls, Unanswered(c) PROVE TypeOK'
  BY <1>7 DEF Unanswered, End, Goto
<1>8. ASSUME NEW c \in Calls, Unauthorised(c) PROVE TypeOK'
  BY <1>8 DEF Unauthorised, End, Goto
<1>9. ASSUME NEW c \in Calls, ReadStore(c) PROVE TypeOK'
  <2>1. /\ pc[c] = "waiting" /\ Turn(c, "logging", "sku")
        /\ UNCHANGED <<environment, held, key, inventory, units, restocked>>
    BY <1>9 DEF ReadStore, Authorised
  <2> QED
    BY <2>1, TurnTypes
<1>10. ASSUME NEW c \in Calls, ReadSku(c) PROVE TypeOK'
  <2>1. /\ pc[c] = "waiting" /\ Turn(c, "logging", "inventory")
        /\ UNCHANGED <<environment, held, key, inventory, units, restocked>>
    BY <1>10 DEF ReadSku, Authorised
  <2> QED
    BY <2>1, TurnTypes
<1>11. ASSUME NEW c \in Calls, ReadInventory(c) PROVE TypeOK'
  <2>1. Turn(c, "logging", "pos")
    BY <1>11 DEF ReadInventory
  <2>2. /\ pc' = [pc EXCEPT ![c] = "logging"]
        /\ request' = [request EXCEPT ![c] = "pos"]
        /\ attempt' = [attempt EXCEPT ![c] = 1]
        /\ turns' = [turns EXCEPT ![c] = 0]
        /\ astray' \in [Calls -> BOOLEAN]
        /\ UNCHANGED outcome
    BY <2>1, TurnTypes
  <2>3. /\ inventory' = [inventory EXCEPT ![c] = onHand]
        /\ UNCHANGED <<environment, held, key, units, restocked>>
    BY <1>11 DEF ReadInventory
  <2> QED
    BY <2>2, <2>3
<1>12. ASSUME NEW c \in Calls, ReadPos(c) PROVE TypeOK'
  <2>1. /\ pc[c] = "waiting" /\ request[c] = "pos"
        /\ units' = [units EXCEPT ![c] = sold]
        /\ UNCHANGED <<environment, held, key, inventory, restocked>>
    BY <1>12, ReadPosMove DEF environment
  <2>2. CASE inventory[c] # NotRanged /\ Turn(c, "logging", "order")
    BY <1>12, <2>1, <2>2, TurnTypes
  <2>3. ASSUME NEW a \in {"not_stocked", "stock_record_error", "no_order_required"},
               End(c, "logging", a)
        PROVE  TypeOK'
    BY <2>1, <2>3 DEF End, Goto
  <2> QED
    BY <1>12, <2>2, <2>3, ReadPosMove
<1>13. ASSUME NEW c \in Calls, AcceptOrder(c) PROVE TypeOK'
  BY <1>13 DEF AcceptOrder, Authorised, End, Goto
<1>14. ASSUME NEW k \in Keys, Publish(k) PROVE TypeOK'
  BY <1>14 DEF Publish, Watch, Happen
<1>15. ASSUME NEW k \in Keys, Issue(k) PROVE TypeOK'
  BY <1>15 DEF Issue, Watch, Happen
<1>16. ASSUME NEW k \in Keys, Revoke(k) PROVE TypeOK'
  BY <1>16 DEF Revoke, Watch, Happen
<1>17. CASE Hide
  BY <1>17 DEF Hide, Watch, Happen
<1>18. CASE Sell
  BY <1>18 DEF Sell, Move, Happen
<1>19. ASSUME NEW n \in Deliveries, Deliver(n) PROVE TypeOK'
  BY <1>19, DeliveriesAssumption DEF Deliver, Move, Happen
<1>20. CASE UNCHANGED vars
  BY <1>20 DEF vars
<1> QED
  BY <1>1, <1>2, <1>3, <1>4, <1>5, <1>6, <1>7, <1>8, <1>9, <1>10, <1>11, <1>12,
     <1>13, <1>14, <1>15, <1>16, <1>17, <1>18, <1>19, <1>20 DEF Next, Work,
     Environment, Finished

\* A value held is replaced, never dropped.
LEMMA HeldStep ==
    ASSUME TypeOK, HeldInv, [Next]_vars
    PROVE  HeldInv'
<1> USE DEF HeldInv, TypeOK, environment, keys, shop, history
<1>1. ASSUME NEW c \in Calls, Begin(c) PROVE HeldInv'
  BY <1>1, ServedType DEF Begin, End, Turn, Goto
<1>2. ASSUME NEW c \in Calls, Sign(c) PROVE HeldInv'
  BY <1>2, ServedType DEF Sign, Goto
<1>3. ASSUME NEW c \in Calls, RetryRead(c) PROVE HeldInv'
  BY <1>3, ServedType DEF RetryRead, Goto
<1>4. ASSUME NEW c \in Calls, RejectRead(c) PROVE HeldInv'
  BY <1>4, ServedType DEF RejectRead, End, Goto
<1>5. ASSUME NEW c \in Calls, LogRequest(c) PROVE HeldInv'
  BY <1>5, ServedType DEF LogRequest, Goto
<1>6. ASSUME NEW c \in Calls, ReplayRecorded(c) PROVE HeldInv'
  BY <1>6 DEF ReplayRecorded, End, Goto
<1>7. ASSUME NEW c \in Calls, Unanswered(c) PROVE HeldInv'
  BY <1>7 DEF Unanswered, End, Goto
<1>8. ASSUME NEW c \in Calls, Unauthorised(c) PROVE HeldInv'
  BY <1>8 DEF Unauthorised, End, Goto
<1>9. ASSUME NEW c \in Calls, ReadStore(c) PROVE HeldInv'
  BY <1>9 DEF ReadStore, Authorised, Turn, Goto
<1>10. ASSUME NEW c \in Calls, ReadSku(c) PROVE HeldInv'
  BY <1>10 DEF ReadSku, Authorised, Turn, Goto
<1>11. ASSUME NEW c \in Calls, ReadInventory(c) PROVE HeldInv'
  BY <1>11 DEF ReadInventory, Authorised, Turn, Goto
<1>12. ASSUME NEW c \in Calls, ReadPos(c) PROVE HeldInv'
  BY <1>12 DEF ReadPos, Authorised, Turn, End, Goto
<1>13. ASSUME NEW c \in Calls, AcceptOrder(c) PROVE HeldInv'
  BY <1>13 DEF AcceptOrder, Authorised, End, Goto
<1>14. ASSUME NEW k \in Keys, Publish(k) PROVE HeldInv'
  BY <1>14 DEF Publish, Watch, Happen
<1>15. ASSUME NEW k \in Keys, Issue(k) PROVE HeldInv'
  BY <1>15 DEF Issue, Watch, Happen
<1>16. ASSUME NEW k \in Keys, Revoke(k) PROVE HeldInv'
  BY <1>16 DEF Revoke, Watch, Happen
<1>17. CASE Hide
  BY <1>17 DEF Hide, Watch, Happen
<1>18. CASE Sell
  BY <1>18 DEF Sell, Move, Happen
<1>19. ASSUME NEW n \in Deliveries, Deliver(n) PROVE HeldInv'
  BY <1>19 DEF Deliver, Move, Happen
<1>20. CASE UNCHANGED vars
  BY <1>20 DEF vars
<1> QED
  BY <1>1, <1>2, <1>3, <1>4, <1>5, <1>6, <1>7, <1>8, <1>9, <1>10, <1>11, <1>12,
     <1>13, <1>14, <1>15, <1>16, <1>17, <1>18, <1>19, <1>20 DEF Next, Work,
     Environment, Finished

\* A refused write is not compared, and a call ends once.
LEMMA StageStep ==
    ASSUME TypeOK, StageInv, [Next]_vars
    PROVE  StageInv'
<1> USE DEF StageInv, TypeOK, environment, keys, shop, history
<1>1. ASSUME NEW c \in Calls, Begin(c) PROVE StageInv'
  BY <1>1 DEF Begin, End, Turn, Goto
<1>2. ASSUME NEW c \in Calls, Sign(c) PROVE StageInv'
  BY <1>2 DEF Sign, Goto
<1>3. ASSUME NEW c \in Calls, RetryRead(c) PROVE StageInv'
  BY <1>3 DEF RetryRead, Goto
<1>4. ASSUME NEW c \in Calls, RejectRead(c) PROVE StageInv'
  BY <1>4 DEF RejectRead, End, Goto
<1>5. ASSUME NEW c \in Calls, LogRequest(c) PROVE StageInv'
  BY <1>5 DEF LogRequest, Goto
<1>6. ASSUME NEW c \in Calls, ReplayRecorded(c) PROVE StageInv'
  BY <1>6 DEF ReplayRecorded, End, Goto
<1>7. ASSUME NEW c \in Calls, Unanswered(c) PROVE StageInv'
  BY <1>7 DEF Unanswered, End, Goto
<1>8. ASSUME NEW c \in Calls, Unauthorised(c) PROVE StageInv'
  BY <1>8 DEF Unauthorised, End, Goto
<1>9. ASSUME NEW c \in Calls, ReadStore(c) PROVE StageInv'
  BY <1>9 DEF ReadStore, Authorised, Turn, Goto
<1>10. ASSUME NEW c \in Calls, ReadSku(c) PROVE StageInv'
  BY <1>10 DEF ReadSku, Authorised, Turn, Goto
<1>11. ASSUME NEW c \in Calls, ReadInventory(c) PROVE StageInv'
  BY <1>11 DEF ReadInventory, Authorised, Turn, Goto
<1>12. ASSUME NEW c \in Calls, ReadPos(c) PROVE StageInv'
  BY <1>12 DEF ReadPos, Authorised, Turn, End, Goto
<1>13. ASSUME NEW c \in Calls, AcceptOrder(c) PROVE StageInv'
  BY <1>13 DEF AcceptOrder, Authorised, End, Goto
<1>14. ASSUME NEW k \in Keys, Publish(k) PROVE StageInv'
  BY <1>14 DEF Publish, Watch, Happen
<1>15. ASSUME NEW k \in Keys, Issue(k) PROVE StageInv'
  BY <1>15 DEF Issue, Watch, Happen
<1>16. ASSUME NEW k \in Keys, Revoke(k) PROVE StageInv'
  BY <1>16 DEF Revoke, Watch, Happen
<1>17. CASE Hide
  BY <1>17 DEF Hide, Watch, Happen
<1>18. CASE Sell
  BY <1>18 DEF Sell, Move, Happen
<1>19. ASSUME NEW n \in Deliveries, Deliver(n) PROVE StageInv'
  BY <1>19 DEF Deliver, Move, Happen
<1>20. CASE UNCHANGED vars
  BY <1>20 DEF vars
<1> QED
  BY <1>1, <1>2, <1>3, <1>4, <1>5, <1>6, <1>7, <1>8, <1>9, <1>10, <1>11, <1>12,
     <1>13, <1>14, <1>15, <1>16, <1>17, <1>18, <1>19, <1>20 DEF Next, Work,
     Environment, Finished

\* One change of the served key explains a refusal; the retry has the new one.
LEMMA KeyStep ==
    ASSUME TypeOK, KeyInv, [Next]_vars
    PROVE  KeyInv'
<1> USE DEF KeyInv, KeyKnown, TypeOK, Astray, Reads, environment, keys, shop,
     history
<1>1. ASSUME NEW c \in Calls, Begin(c) PROVE KeyInv'
  BY <1>1, ServedStays, TurnTypes DEF Begin, End, Goto
<1>2. ASSUME NEW c \in Calls, Sign(c) PROVE KeyInv'
  BY <1>2, ServedStays DEF Sign, Goto
<1>3. ASSUME NEW c \in Calls, RetryRead(c) PROVE KeyInv'
  BY <1>3, ServedStays DEF Rotated, RetryRead, Goto
<1>4. ASSUME NEW c \in Calls, RejectRead(c) PROVE KeyInv'
  BY <1>4, ServedStays DEF Rotated, RejectRead, End, Goto
<1>5. ASSUME NEW c \in Calls, LogRequest(c) PROVE KeyInv'
  BY <1>5, ServedStays DEF LogRequest, Goto
<1>6. ASSUME NEW c \in Calls, ReplayRecorded(c) PROVE KeyInv'
  BY <1>6, ServedStays DEF ReplayRecorded, End, Goto
<1>7. ASSUME NEW c \in Calls, Unanswered(c) PROVE KeyInv'
  BY <1>7, ServedStays DEF Unanswered, End, Goto
<1>8. ASSUME NEW c \in Calls, Unauthorised(c) PROVE KeyInv'
  BY <1>8, ServedStays DEF Unauthorised, End, Goto
<1>9. ASSUME NEW c \in Calls, ReadStore(c) PROVE KeyInv'
  BY <1>9, ServedStays, TurnTypes DEF ReadStore, Authorised, Goto
<1>10. ASSUME NEW c \in Calls, ReadSku(c) PROVE KeyInv'
  BY <1>10, ServedStays, TurnTypes DEF ReadSku, Authorised, Goto
<1>11. ASSUME NEW c \in Calls, ReadInventory(c) PROVE KeyInv'
  BY <1>11, ServedStays, TurnTypes DEF ReadInventory, Authorised, Goto
<1>12. ASSUME NEW c \in Calls, ReadPos(c) PROVE KeyInv'
  <2>1. /\ pc[c] = "waiting" /\ request[c] = "pos"
        /\ units' = [units EXCEPT ![c] = sold]
        /\ UNCHANGED <<environment, held, key, inventory, restocked>>
    BY <1>12, ReadPosMove DEF environment
  <2>2. CASE inventory[c] # NotRanged /\ Turn(c, "logging", "order")
    BY <1>12, <2>1, <2>2, TurnTypes, ServedStays
  <2>3. ASSUME NEW a \in {"not_stocked", "stock_record_error", "no_order_required"},
               End(c, "logging", a)
        PROVE  KeyInv'
    BY <2>1, <2>3, ServedStays DEF End, Goto
  <2> QED
    BY <1>12, <2>2, <2>3, ReadPosMove
<1>13. ASSUME NEW c \in Calls, AcceptOrder(c) PROVE KeyInv'
  BY <1>13, ServedStays DEF AcceptOrder, Authorised, End, Goto
<1>14. ASSUME NEW k \in Keys, Publish(k) PROVE KeyInv'
  BY <1>14, WatchedKey DEF Publish
<1>15. ASSUME NEW k \in Keys, Issue(k) PROVE KeyInv'
  BY <1>15, WatchedKey DEF Issue
<1>16. ASSUME NEW k \in Keys, Revoke(k) PROVE KeyInv'
  BY <1>16, WatchedKey DEF Revoke
<1>17. CASE Hide
  BY <1>17, WatchedKey DEF Hide
<1>18. CASE Sell
  BY <1>18, ServedStays DEF Sell, Move, Happen
<1>19. ASSUME NEW n \in Deliveries, Deliver(n) PROVE KeyInv'
  BY <1>19, ServedStays DEF Deliver, Move, Happen
<1>20. CASE UNCHANGED vars
  BY <1>20, ServedStays DEF vars
<1> QED
  BY <1>1, <1>2, <1>3, <1>4, <1>5, <1>6, <1>7, <1>8, <1>9, <1>10, <1>11, <1>12,
     <1>13, <1>14, <1>15, <1>16, <1>17, <1>18, <1>19, <1>20 DEF Next, Work,
     Environment, Finished

\* Stock falls and sales rise, until a delivery.
LEMMA FigureStep ==
    ASSUME TypeOK, FigureInv, [Next]_vars
    PROVE  FigureInv'
<1> USE DEF FigureInv, TypeOK, environment, keys, shop, history
<1>1. ASSUME NEW c \in Calls, Begin(c) PROVE FigureInv'
  BY <1>1 DEF Begin, End, Turn, Goto
<1>2. ASSUME NEW c \in Calls, Sign(c) PROVE FigureInv'
  BY <1>2 DEF Sign, Goto
<1>3. ASSUME NEW c \in Calls, RetryRead(c) PROVE FigureInv'
  BY <1>3 DEF RetryRead, Goto
<1>4. ASSUME NEW c \in Calls, RejectRead(c) PROVE FigureInv'
  BY <1>4 DEF RejectRead, End, Goto
<1>5. ASSUME NEW c \in Calls, LogRequest(c) PROVE FigureInv'
  BY <1>5 DEF LogRequest, Goto
<1>6. ASSUME NEW c \in Calls, ReplayRecorded(c) PROVE FigureInv'
  BY <1>6 DEF ReplayRecorded, End, Goto
<1>7. ASSUME NEW c \in Calls, Unanswered(c) PROVE FigureInv'
  BY <1>7 DEF Unanswered, End, Goto
<1>8. ASSUME NEW c \in Calls, Unauthorised(c) PROVE FigureInv'
  BY <1>8 DEF Unauthorised, End, Goto
<1>9. ASSUME NEW c \in Calls, ReadStore(c) PROVE FigureInv'
  BY <1>9 DEF ReadStore, Authorised, Turn, Goto
<1>10. ASSUME NEW c \in Calls, ReadSku(c) PROVE FigureInv'
  BY <1>10 DEF ReadSku, Authorised, Turn, Goto
<1>11. ASSUME NEW c \in Calls, ReadInventory(c) PROVE FigureInv'
  BY <1>11 DEF ReadInventory, Authorised, Turn, Goto
<1>12. ASSUME NEW c \in Calls, ReadPos(c) PROVE FigureInv'
  <2>1. /\ pc[c] = "waiting" /\ request[c] = "pos"
        /\ units' = [units EXCEPT ![c] = sold]
        /\ UNCHANGED <<environment, held, key, inventory, restocked>>
    BY <1>12, ReadPosMove DEF environment
  <2>2. CASE inventory[c] # NotRanged /\ Turn(c, "logging", "order")
    BY <1>12, <2>1, <2>2, TurnTypes
  <2>3. ASSUME NEW a \in {"not_stocked", "stock_record_error", "no_order_required"},
               End(c, "logging", a)
        PROVE  FigureInv'
    BY <2>1, <2>3 DEF End, Goto
  <2> QED
    BY <1>12, <2>2, <2>3, ReadPosMove
<1>13. ASSUME NEW c \in Calls, AcceptOrder(c) PROVE FigureInv'
  BY <1>13 DEF AcceptOrder, Authorised, End, Goto
<1>14. ASSUME NEW k \in Keys, Publish(k) PROVE FigureInv'
  BY <1>14 DEF Publish, Watch, Happen
<1>15. ASSUME NEW k \in Keys, Issue(k) PROVE FigureInv'
  BY <1>15 DEF Issue, Watch, Happen
<1>16. ASSUME NEW k \in Keys, Revoke(k) PROVE FigureInv'
  BY <1>16 DEF Revoke, Watch, Happen
<1>17. CASE Hide
  BY <1>17 DEF Hide, Watch, Happen
<1>18. CASE Sell
  BY <1>18 DEF Sell, Move, Happen
<1>19. ASSUME NEW n \in Deliveries, Deliver(n) PROVE FigureInv'
  BY <1>19 DEF Deliver, Move, Happen
<1>20. CASE UNCHANGED vars
  BY <1>20 DEF vars
<1> QED
  BY <1>1, <1>2, <1>3, <1>4, <1>5, <1>6, <1>7, <1>8, <1>9, <1>10, <1>11, <1>12,
     <1>13, <1>14, <1>15, <1>16, <1>17, <1>18, <1>19, <1>20 DEF Next, Work,
     Environment, Finished

\* Only the second of two refusals, or an unexplained one, is reported.
LEMMA AbsorbStep ==
    ASSUME TypeOK, KeyInv, StageInv, OneRotationIsAbsorbed, [Next]_vars
    PROVE  OneRotationIsAbsorbed'
<1> USE DEF OneRotationIsAbsorbed, TypeOK, StageInv, Reads, environment, keys, shop,
     history
<1>1. ASSUME NEW c \in Calls, Begin(c) PROVE OneRotationIsAbsorbed'
  BY <1>1, TurnTypes DEF Begin, End, Goto
<1>2. ASSUME NEW c \in Calls, Sign(c) PROVE OneRotationIsAbsorbed'
  BY <1>2 DEF Sign, Goto
<1>3. ASSUME NEW c \in Calls, RetryRead(c) PROVE OneRotationIsAbsorbed'
  BY <1>3 DEF RetryRead, Goto
<1>4. ASSUME NEW c \in Calls, RejectRead(c) PROVE OneRotationIsAbsorbed'
  BY <1>4, ServedStays DEF KeyInv, KeyKnown, Rotated, RejectRead, End, Goto
<1>5. ASSUME NEW c \in Calls, LogRequest(c) PROVE OneRotationIsAbsorbed'
  BY <1>5 DEF LogRequest, Goto
<1>6. ASSUME NEW c \in Calls, ReplayRecorded(c) PROVE OneRotationIsAbsorbed'
  BY <1>6 DEF ReplayRecorded, End, Goto
<1>7. ASSUME NEW c \in Calls, Unanswered(c) PROVE OneRotationIsAbsorbed'
  BY <1>7 DEF Unanswered, End, Goto
<1>8. ASSUME NEW c \in Calls, Unauthorised(c) PROVE OneRotationIsAbsorbed'
  BY <1>8 DEF Unauthorised, End, Goto
<1>9. ASSUME NEW c \in Calls, ReadStore(c) PROVE OneRotationIsAbsorbed'
  BY <1>9, TurnTypes DEF ReadStore, Authorised, Goto
<1>10. ASSUME NEW c \in Calls, ReadSku(c) PROVE OneRotationIsAbsorbed'
  BY <1>10, TurnTypes DEF ReadSku, Authorised, Goto
<1>11. ASSUME NEW c \in Calls, ReadInventory(c) PROVE OneRotationIsAbsorbed'
  BY <1>11, TurnTypes DEF ReadInventory, Authorised, Goto
<1>12. ASSUME NEW c \in Calls, ReadPos(c) PROVE OneRotationIsAbsorbed'
  <2>1. /\ pc[c] = "waiting" /\ request[c] = "pos"
        /\ units' = [units EXCEPT ![c] = sold]
        /\ UNCHANGED <<environment, held, key, inventory, restocked>>
    BY <1>12, ReadPosMove DEF environment
  <2>2. CASE inventory[c] # NotRanged /\ Turn(c, "logging", "order")
    BY <1>12, <2>1, <2>2, TurnTypes
  <2>3. ASSUME NEW a \in {"not_stocked", "stock_record_error", "no_order_required"},
               End(c, "logging", a)
        PROVE  OneRotationIsAbsorbed'
    BY <2>1, <2>3 DEF End, Goto
  <2> QED
    BY <1>12, <2>2, <2>3, ReadPosMove
<1>13. ASSUME NEW c \in Calls, AcceptOrder(c) PROVE OneRotationIsAbsorbed'
  BY <1>13 DEF AcceptOrder, Authorised, End, Goto
<1>14. ASSUME NEW k \in Keys, Publish(k) PROVE OneRotationIsAbsorbed'
  BY <1>14 DEF Publish, Watch, Happen
<1>15. ASSUME NEW k \in Keys, Issue(k) PROVE OneRotationIsAbsorbed'
  BY <1>15 DEF Issue, Watch, Happen
<1>16. ASSUME NEW k \in Keys, Revoke(k) PROVE OneRotationIsAbsorbed'
  BY <1>16 DEF Revoke, Watch, Happen
<1>17. CASE Hide
  BY <1>17 DEF Hide, Watch, Happen
<1>18. CASE Sell
  BY <1>18 DEF Sell, Move, Happen
<1>19. ASSUME NEW n \in Deliveries, Deliver(n) PROVE OneRotationIsAbsorbed'
  BY <1>19 DEF Deliver, Move, Happen
<1>20. CASE UNCHANGED vars
  BY <1>20 DEF vars
<1> QED
  BY <1>1, <1>2, <1>3, <1>4, <1>5, <1>6, <1>7, <1>8, <1>9, <1>10, <1>11, <1>12,
     <1>13, <1>14, <1>15, <1>16, <1>17, <1>18, <1>19, <1>20 DEF Next, Work,
     Environment, Finished

-----------------------------------------------------------------------------
(* Theorems *)

\* Before any call the invariant holds.
LEMMA InitIInv == Init => IInv
<1> SUFFICES ASSUME Init PROVE IInv
  OBVIOUS
<1> USE DEF Init
<1>1. TypeOK
  BY PositionsAssumption DEF TypeOK, Places, Outcomes, Reads
<1>2. HeldInv /\ KeyInv /\ StageInv /\ FigureInv /\ OneRotationIsAbsorbed
  BY DEF HeldInv, KeyInv, KeyKnown, StageInv, FigureInv, OneRotationIsAbsorbed
<1> QED
  BY <1>1, <1>2 DEF IInv

\* The strengthened invariant holds of every behaviour.
THEOREM Invariance == Spec => []IInv
<1>1. Init => IInv
  BY InitIInv
<1>2. IInv /\ [Next]_vars => IInv'
  BY TypeStep, HeldStep, StageStep, KeyStep, FigureStep, AbsorbStep DEF IInv
<1> QED
  BY <1>1, <1>2, PTL DEF Spec

\* Types; no request is tried three times, and no write twice.
THEOREM TypeCorrectness == Spec => []TypeOK
<1>1. IInv => TypeOK
  BY DEF IInv
<1> QED
  BY <1>1, Invariance, PTL

\* A key that is rotated once during a read never surfaces as a revoked one.
THEOREM RotationIsAbsorbed == Spec => []OneRotationIsAbsorbed
<1>1. IInv => OneRotationIsAbsorbed
  BY DEF IInv
<1> QED
  BY <1>1, Invariance, PTL

\* Figures read at different moments do not add up to an order that is too large.
THEOREM NoOrderAboveTheGap == Spec => []NeverMoreThanTheGap
<1>1. ASSUME IInv PROVE NeverMoreThanTheGap
  <2> SUFFICES ASSUME NEW c \in Calls, request[c] = "order",
                      pc[c] \in {"signing", "waiting"}, ~restocked[c]
               PROVE  OrderQuantity(Position(c)) <= ComputeGapUnits(onHand, sold)
    BY DEF NeverMoreThanTheGap
  <2>1. OrderQuantity(Position(c)) = units[c] - inventory[c]
    BY DEF OrderQuantity, OrderQuantityUnitsForGap, GapOf, ComputeGapUnits, Position
  <2>2. onHand \in Nat /\ inventory[c] \in Nat /\ onHand <= inventory[c]
    BY <1>1 DEF IInv, StageInv, FigureInv, TypeOK
  <2>3. units[c] \in Nat /\ sold \in Nat /\ units[c] <= sold
    BY <1>1 DEF IInv, StageInv, FigureInv, TypeOK
  <2> QED
    BY <2>1, <2>2, <2>3 DEF ComputeGapUnits
<1> QED
  BY <1>1, Invariance, PTL
=============================================================================
