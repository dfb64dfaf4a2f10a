------------------------ MODULE ReplenishmentProofs ------------------------
(***************************************************************************)
(* The invariant of Replenishment, proved for every set of calls, items,   *)
(* readings and faults, and the properties that follow from it.            *)
(*                                                                         *)
(* First what a step keeps (the frame lemmas), then one lemma for each     *)
(* conjunct of the invariant, then the theorems.                           *)
(***************************************************************************)
EXTENDS ReplenishmentInvariant, PolicyProofs

-----------------------------------------------------------------------------
(* Frames *)

\* A step that is not an acceptance leaves the order book alone.
BookKept ==
    /\ orders' = orders
    /\ reply' = reply
    /\ \A c \in Calls : wire[c] = "answered" => wire'[c] = "answered"

\* What any step keeps of a call, and which steps start a write, an outcome or an
\* answer.
CallKept(c) ==
    /\ pc[c] \in Ended => pc'[c] = pc[c]
    /\ pc[c] # "idle" => epoch'[c] = epoch[c]
    /\ pc'[c] = "posting" => pc[c] = "posting" \/ PostOrder(c)
    /\ outcome[c] # "none" => outcome'[c] = outcome[c] /\ response'[c] = response[c]
    /\ outcome'[c] = "created" => outcome[c] = "created" \/ RecordCreated(c)
    /\ outcome'[c] = "duplicate" => outcome[c] = "duplicate" \/ ReplayRecorded(c)
    /\ outcome'[c] # "none" =>
          outcome[c] # "none" \/ RecordCreated(c) \/ pc[c] \in {"measuring", "locking"}
    /\ wire'[c] # "none" => wire[c] # "none" \/ PostOrder(c)
    /\ pc'[c] \in {"returned", "refused"} => pc'[c] = pc[c] \/ RecordAudit(c)

\* A call's key is settled once it has measured.
KeyKept(c) ==
    /\ args'[c] = args[c]
    /\ pc[c] # "measuring" => reading'[c] = reading[c] /\ date'[c] = date[c]
    /\ reading'[c] # reading[c] => reading'[c] \in Readings

\* The quantity and the key of a call past the policy gate have their types.
LEMMA KeyTyped ==
    ASSUME TypeOK, NEW c \in Calls, Assess(reading[c]) = "order_required"
    PROVE  Quantity(c) \in Nat /\ KeyOf(c) \in Key
<1>1. reading[c] \in StockPosition
  BY DEF TypeOK
<1>2. Quantity(c) \in Nat
  BY <1>1, OrderIsTheGap DEF Quantity
<1> QED
  BY <1>2 DEF KeyOf, ReplenishmentIdempotencyKey, Key, Item, TypeOK

\* A call moves to one place, whichever of its two ends a step leaves open.
LEMMA ReadFailsMove ==
    ASSUME NEW c \in Calls, ReadFails(c)
    PROVE  /\ pc[c] = "measuring"
           /\ \E to \in {"failed", "raised"} : pc' = [pc EXCEPT ![c] = to]
           /\ UNCHANGED <<locals, store, storelink, audit, world>>
BY DEF ReadFails, Goto

LEMMA OrderUnconfirmedMove ==
    ASSUME NEW c \in Calls, OrderUnconfirmed(c)
    PROVE  /\ pc[c] = "posting" /\ lock' = NoCall
           /\ \E to \in {"failed", "raised"} : pc' = [pc EXCEPT ![c] = to]
           /\ UNCHANGED <<locals, results, storelink, audit, world>>
BY DEF OrderUnconfirmed, Goto

LEMMA RecordAuditMove ==
    ASSUME NEW c \in Calls, RecordAudit(c)
    PROVE  /\ pc[c] = "auditing"
           /\ \E to \in {"refused", "returned", "raised"} :
                 /\ pc' = [pc EXCEPT ![c] = to]
                 /\ to = "refused" => outcome[c] = "refused"
                 /\ to = "returned" => outcome[c] # "refused"
           /\ UNCHANGED <<locals, store, storelink, world>>
BY DEF RecordAudit, Goto

\* Outcomes are final, an ended call stays ended, and only one kind of step
\* starts a write, a "created" or a "duplicate".
LEMMA CallFrame ==
    ASSUME TypeOK, OutcomeInv, [Next]_vars
    PROVE  \A d \in Calls : CallKept(d)
<1> USE DEF CallKept, TypeOK, OutcomeInv, Active, Ended, Goto, locals, store,
     storelink, world
<1>1. ASSUME NEW c \in Calls, Begin(c) PROVE \A d \in Calls : CallKept(d)
  BY <1>1 DEF Begin
<1>2. ASSUME NEW c \in Calls, ReadFails(c) PROVE \A d \in Calls : CallKept(d)
  BY <1>2 DEF ReadFails
<1>3. ASSUME NEW c \in Calls, NEW p \in Readings, StockRecordError(c, p)
      PROVE  \A d \in Calls : CallKept(d)
  BY <1>3 DEF StockRecordError
<1>4. ASSUME NEW c \in Calls, NEW p \in Readings, CheckStockPosition(c, p)
      PROVE  \A d \in Calls : CallKept(d)
  BY <1>4, AssessRange, ReadingsAssumption DEF CheckStockPosition
<1>5. ASSUME NEW c \in Calls, NEW p \in Readings, RefuseOrder(c, p)
      PROVE  \A d \in Calls : CallKept(d)
  BY <1>5 DEF RefuseOrder
<1>6. ASSUME NEW c \in Calls, NEW p \in Readings, RequireOrder(c, p)
      PROVE  \A d \in Calls : CallKept(d)
  BY <1>6 DEF RequireOrder
<1>7. ASSUME NEW c \in Calls, NEW id \in DOMAIN orders, GetReplenishmentOrderStatus(c, id)
      PROVE  \A d \in Calls : CallKept(d)
  BY <1>7 DEF GetReplenishmentOrderStatus
<1>8. ASSUME NEW c \in Calls, ReplayRecorded(c) PROVE \A d \in Calls : CallKept(d)
  BY <1>8 DEF ReplayRecorded
<1>9. ASSUME NEW c \in Calls, PostOrder(c) PROVE \A d \in Calls : CallKept(d)
  BY <1>9 DEF PostOrder
<1>10. ASSUME NEW c \in Calls, RecordCreated(c) PROVE \A d \in Calls : CallKept(d)
  <2>1. /\ pc[c] = "posting" /\ pc' = [pc EXCEPT ![c] = "auditing"]
        /\ outcome' = [outcome EXCEPT ![c] = "created"]
        /\ response' = [response EXCEPT ![c] = reply[c]]
        /\ UNCHANGED <<epoch, wire>>
    BY <1>10 DEF RecordCreated
  <2> QED
    BY <1>10, <2>1
<1>11. ASSUME NEW c \in Calls, OrderUnconfirmed(c) PROVE \A d \in Calls : CallKept(d)
  BY <1>11 DEF OrderUnconfirmed
<1>12. ASSUME NEW c \in Calls, AnswerUnusable(c) PROVE \A d \in Calls : CallKept(d)
  BY <1>12 DEF AnswerUnusable
<1>13. ASSUME NEW c \in Calls, RecordAudit(c) PROVE \A d \in Calls : CallKept(d)
  <2>1. PICK to \in {"refused", "returned", "raised"} :
           /\ pc[c] = "auditing" /\ pc' = [pc EXCEPT ![c] = to]
           /\ to = "refused" => outcome[c] = "refused"
           /\ to = "returned" => outcome[c] # "refused"
           /\ UNCHANGED <<locals, store, storelink, world>>
    BY <1>13, RecordAuditMove
  <2> QED
    BY <1>13, <2>1
<1>14. ASSUME NEW c \in Calls, AuditFails(c) PROVE \A d \in Calls : CallKept(d)
  BY <1>14 DEF AuditFails
<1>15. ASSUME NEW c \in Calls, AcceptOrder(c) PROVE \A d \in Calls : CallKept(d)
  BY <1>15 DEF AcceptOrder
<1>16. ASSUME NEW c \in Calls, RejectOrder(c) PROVE \A d \in Calls : CallKept(d)
  BY <1>16 DEF RejectOrder
<1>17. CASE Midnight
  BY <1>17 DEF Midnight
<1>18. CASE Restart
  BY <1>18 DEF Restart
<1>19. CASE UNCHANGED vars
  BY <1>19 DEF vars
<1> QED
  BY <1>1, <1>2, <1>3, <1>4, <1>5, <1>6, <1>7, <1>8, <1>9, <1>10, <1>11, <1>12, <1>13,
     <1>14, <1>15, <1>16, <1>17, <1>18, <1>19 DEF Next, Work, Measure, Finished

\* Only a call that is measuring changes its reading or its date.
LEMMA KeyFrame ==
    ASSUME TypeOK, [Next]_vars
    PROVE  \A d \in Calls : KeyKept(d)
<1> USE DEF KeyKept, TypeOK, Goto, locals, store, storelink, world
<1>1. ASSUME NEW c \in Calls, Begin(c) PROVE \A d \in Calls : KeyKept(d)
  BY <1>1 DEF Begin
<1>2. ASSUME NEW c \in Calls, ReadFails(c) PROVE \A d \in Calls : KeyKept(d)
  BY <1>2 DEF ReadFails
<1>3. ASSUME NEW c \in Calls, NEW p \in Readings, StockRecordError(c, p)
      PROVE  \A d \in Calls : KeyKept(d)
  BY <1>3 DEF StockRecordError
<1>4. ASSUME NEW c \in Calls, NEW p \in Readings, CheckStockPosition(c, p)
      PROVE  \A d \in Calls : KeyKept(d)
  BY <1>4 DEF CheckStockPosition
<1>5. ASSUME NEW c \in Calls, NEW p \in Readings, RefuseOrder(c, p)
      PROVE  \A d \in Calls : KeyKept(d)
  BY <1>5 DEF RefuseOrder
<1>6. ASSUME NEW c \in Calls, NEW p \in Readings, RequireOrder(c, p)
      PROVE  \A d \in Calls : KeyKept(d)
  BY <1>6 DEF RequireOrder
<1>7. ASSUME NEW c \in Calls, NEW id \in DOMAIN orders, GetReplenishmentOrderStatus(c, id)
      PROVE  \A d \in Calls : KeyKept(d)
  BY <1>7 DEF GetReplenishmentOrderStatus
<1>8. ASSUME NEW c \in Calls, ReplayRecorded(c) PROVE \A d \in Calls : KeyKept(d)
  BY <1>8 DEF ReplayRecorded
<1>9. ASSUME NEW c \in Calls, PostOrder(c) PROVE \A d \in Calls : KeyKept(d)
  BY <1>9 DEF PostOrder
<1>10. ASSUME NEW c \in Calls, RecordCreated(c) PROVE \A d \in Calls : KeyKept(d)
  BY <1>10 DEF RecordCreated
<1>11. ASSUME NEW c \in Calls, OrderUnconfirmed(c) PROVE \A d \in Calls : KeyKept(d)
  BY <1>11 DEF OrderUnconfirmed
<1>12. ASSUME NEW c \in Calls, AnswerUnusable(c) PROVE \A d \in Calls : KeyKept(d)
  BY <1>12 DEF AnswerUnusable
<1>13. ASSUME NEW c \in Calls, RecordAudit(c) PROVE \A d \in Calls : KeyKept(d)
  BY <1>13 DEF RecordAudit
<1>14. ASSUME NEW c \in Calls, AuditFails(c) PROVE \A d \in Calls : KeyKept(d)
  BY <1>14 DEF AuditFails
<1>15. ASSUME NEW c \in Calls, AcceptOrder(c) PROVE \A d \in Calls : KeyKept(d)
  BY <1>15 DEF AcceptOrder
<1>16. ASSUME NEW c \in Calls, RejectOrder(c) PROVE \A d \in Calls : KeyKept(d)
  BY <1>16 DEF RejectOrder
<1>17. CASE Midnight
  BY <1>17 DEF Midnight
<1>18. CASE Restart
  BY <1>18 DEF Restart
<1>19. CASE UNCHANGED vars
  BY <1>19 DEF vars
<1> QED
  BY <1>1, <1>2, <1>3, <1>4, <1>5, <1>6, <1>7, <1>8, <1>9, <1>10, <1>11, <1>12, <1>13,
     <1>14, <1>15, <1>16, <1>17, <1>18, <1>19 DEF Next, Work, Measure, Finished

\* The idempotency store changes only when an answer is recorded or the process
\* restarts.
LEMMA StoreFrame ==
    ASSUME TypeOK, [Next]_vars
    PROVE  \/ boot' = boot /\ results' = results
           \/ \E d \in Calls : RecordCreated(d)
           \/ Restart
<1> USE DEF Goto, locals, store, storelink, world
<1>1. ASSUME NEW c \in Calls, Begin(c)
      PROVE  boot' = boot /\ results' = results
  BY <1>1 DEF Begin
<1>2. ASSUME NEW c \in Calls, ReadFails(c)
      PROVE  boot' = boot /\ results' = results
  BY <1>2 DEF ReadFails
<1>3. ASSUME NEW c \in Calls, NEW p \in Readings, StockRecordError(c, p)
      PROVE  boot' = boot /\ results' = results
  BY <1>3 DEF StockRecordError
<1>4. ASSUME NEW c \in Calls, NEW p \in Readings, CheckStockPosition(c, p)
      PROVE  boot' = boot /\ results' = results
  BY <1>4 DEF CheckStockPosition
<1>5. ASSUME NEW c \in Calls, NEW p \in Readings, RefuseOrder(c, p)
      PROVE  boot' = boot /\ results' = results
  BY <1>5 DEF RefuseOrder
<1>6. ASSUME NEW c \in Calls, NEW p \in Readings, RequireOrder(c, p)
      PROVE  boot' = boot /\ results' = results
  BY <1>6 DEF RequireOrder
<1>7. ASSUME NEW c \in Calls, NEW id \in DOMAIN orders, GetReplenishmentOrderStatus(c, id)
      PROVE  boot' = boot /\ results' = results
  BY <1>7 DEF GetReplenishmentOrderStatus
<1>8. ASSUME NEW c \in Calls, ReplayRecorded(c)
      PROVE  boot' = boot /\ results' = results
  BY <1>8 DEF ReplayRecorded
<1>9. ASSUME NEW c \in Calls, PostOrder(c)
      PROVE  boot' = boot /\ results' = results
  BY <1>9 DEF PostOrder
<1>10. ASSUME NEW c \in Calls, RecordCreated(c) PROVE \E d \in Calls : RecordCreated(d)
  BY <1>10
<1>11. ASSUME NEW c \in Calls, OrderUnconfirmed(c)
      PROVE  boot' = boot /\ results' = results
  BY <1>11 DEF OrderUnconfirmed
<1>12. ASSUME NEW c \in Calls, AnswerUnusable(c)
      PROVE  boot' = boot /\ results' = results
  BY <1>12 DEF AnswerUnusable
<1>13. ASSUME NEW c \in Calls, RecordAudit(c)
      PROVE  boot' = boot /\ results' = results
  BY <1>13 DEF RecordAudit
<1>14. ASSUME NEW c \in Calls, AuditFails(c)
      PROVE  boot' = boot /\ results' = results
  BY <1>14 DEF AuditFails
<1>15. ASSUME NEW c \in Calls, AcceptOrder(c)
      PROVE  boot' = boot /\ results' = results
  BY <1>15 DEF AcceptOrder
<1>16. ASSUME NEW c \in Calls, RejectOrder(c)
      PROVE  boot' = boot /\ results' = results
  BY <1>16 DEF RejectOrder
<1>17. CASE Midnight
  BY <1>17 DEF Midnight
<1>18. CASE UNCHANGED vars
  BY <1>18 DEF vars
<1> QED
  BY <1>1, <1>2, <1>3, <1>4, <1>5, <1>6, <1>7, <1>8, <1>9, <1>10, <1>11, <1>12, <1>13,
     <1>14, <1>15, <1>16, <1>17, <1>18 DEF Next, Work, Measure, Finished

\* Only StoreLink's acceptance changes the order book.
LEMMA BookFrame ==
    ASSUME TypeOK, GateInv, [Next]_vars
    PROVE  BookKept \/ (\E d \in Calls : AcceptOrder(d))
<1> USE DEF BookKept, TypeOK, GateInv, Goto, locals, store, storelink, world
<1>1. ASSUME NEW c \in Calls, Begin(c) PROVE BookKept \/ (\E d \in Calls : AcceptOrder(d))
  BY <1>1 DEF Begin
<1>2. ASSUME NEW c \in Calls, ReadFails(c)
      PROVE  BookKept \/ (\E d \in Calls : AcceptOrder(d))
  BY <1>2 DEF ReadFails
<1>3. ASSUME NEW c \in Calls, NEW p \in Readings, StockRecordError(c, p)
      PROVE  BookKept \/ (\E d \in Calls : AcceptOrder(d))
  BY <1>3 DEF StockRecordError
<1>4. ASSUME NEW c \in Calls, NEW p \in Readings, CheckStockPosition(c, p)
      PROVE  BookKept \/ (\E d \in Calls : AcceptOrder(d))
  BY <1>4 DEF CheckStockPosition
<1>5. ASSUME NEW c \in Calls, NEW p \in Readings, RefuseOrder(c, p)
      PROVE  BookKept \/ (\E d \in Calls : AcceptOrder(d))
  BY <1>5 DEF RefuseOrder
<1>6. ASSUME NEW c \in Calls, NEW p \in Readings, RequireOrder(c, p)
      PROVE  BookKept \/ (\E d \in Calls : AcceptOrder(d))
  BY <1>6 DEF RequireOrder
<1>7. ASSUME NEW c \in Calls, NEW id \in DOMAIN orders, GetReplenishmentOrderStatus(c, id)
      PROVE  BookKept \/ (\E d \in Calls : AcceptOrder(d))
  BY <1>7 DEF GetReplenishmentOrderStatus
<1>8. ASSUME NEW c \in Calls, ReplayRecorded(c)
      PROVE  BookKept \/ (\E d \in Calls : AcceptOrder(d))
  BY <1>8 DEF ReplayRecorded
<1>9. ASSUME NEW c \in Calls, PostOrder(c)
      PROVE  BookKept \/ (\E d \in Calls : AcceptOrder(d))
  BY <1>9 DEF PostOrder
<1>10. ASSUME NEW c \in Calls, RecordCreated(c)
      PROVE  BookKept \/ (\E d \in Calls : AcceptOrder(d))
  BY <1>10 DEF RecordCreated
<1>11. ASSUME NEW c \in Calls, OrderUnconfirmed(c)
      PROVE  BookKept \/ (\E d \in Calls : AcceptOrder(d))
  BY <1>11 DEF OrderUnconfirmed
<1>12. ASSUME NEW c \in Calls, AnswerUnusable(c)
      PROVE  BookKept \/ (\E d \in Calls : AcceptOrder(d))
  BY <1>12 DEF AnswerUnusable
<1>13. ASSUME NEW c \in Calls, RecordAudit(c)
      PROVE  BookKept \/ (\E d \in Calls : AcceptOrder(d))
  BY <1>13 DEF RecordAudit
<1>14. ASSUME NEW c \in Calls, AuditFails(c)
      PROVE  BookKept \/ (\E d \in Calls : AcceptOrder(d))
  BY <1>14 DEF AuditFails
<1>15. ASSUME NEW c \in Calls, AcceptOrder(c)
      PROVE  BookKept \/ (\E d \in Calls : AcceptOrder(d))
  BY <1>15
<1>16. ASSUME NEW c \in Calls, RejectOrder(c)
      PROVE  BookKept \/ (\E d \in Calls : AcceptOrder(d))
  BY <1>16 DEF RejectOrder
<1>17. CASE Midnight
  BY <1>17 DEF Midnight
<1>18. CASE Restart
  BY <1>18 DEF Restart
<1>19. CASE UNCHANGED vars
  BY <1>19 DEF vars
<1> QED
  BY <1>1, <1>2, <1>3, <1>4, <1>5, <1>6, <1>7, <1>8, <1>9, <1>10, <1>11, <1>12, <1>13,
     <1>14, <1>15, <1>16, <1>17, <1>18, <1>19 DEF Next, Work, Measure, Finished

\* Only RecordAudit writes to the trail.
LEMMA TrailFrame ==
    ASSUME TypeOK, [Next]_vars
    PROVE  audit' = audit \/ (\E d \in Calls : RecordAudit(d))
<1> USE DEF Goto, locals, store, storelink, world
<1>1. ASSUME NEW c \in Calls, Begin(c)
      PROVE  audit' = audit \/ (\E d \in Calls : RecordAudit(d))
  BY <1>1 DEF Begin
<1>2. ASSUME NEW c \in Calls, ReadFails(c)
      PROVE  audit' = audit \/ (\E d \in Calls : RecordAudit(d))
  BY <1>2 DEF ReadFails
<1>3. ASSUME NEW c \in Calls, NEW p \in Readings, StockRecordError(c, p)
      PROVE  audit' = audit \/ (\E d \in Calls : RecordAudit(d))
  BY <1>3 DEF StockRecordError
<1>4. ASSUME NEW c \in Calls, NEW p \in Readings, CheckStockPosition(c, p)
      PROVE  audit' = audit \/ (\E d \in Calls : RecordAudit(d))
  BY <1>4 DEF CheckStockPosition
<1>5. ASSUME NEW c \in Calls, NEW p \in Readings, RefuseOrder(c, p)
      PROVE  audit' = audit \/ (\E d \in Calls : RecordAudit(d))
  BY <1>5 DEF RefuseOrder
<1>6. ASSUME NEW c \in Calls, NEW p \in Readings, RequireOrder(c, p)
      PROVE  audit' = audit \/ (\E d \in Calls : RecordAudit(d))
  BY <1>6 DEF RequireOrder
<1>7. ASSUME NEW c \in Calls, NEW id \in DOMAIN orders, GetReplenishmentOrderStatus(c, id)
      PROVE  audit' = audit \/ (\E d \in Calls : RecordAudit(d))
  BY <1>7 DEF GetReplenishmentOrderStatus
<1>8. ASSUME NEW c \in Calls, ReplayRecorded(c)
      PROVE  audit' = audit \/ (\E d \in Calls : RecordAudit(d))
  BY <1>8 DEF ReplayRecorded
<1>9. ASSUME NEW c \in Calls, PostOrder(c)
      PROVE  audit' = audit \/ (\E d \in Calls : RecordAudit(d))
  BY <1>9 DEF PostOrder
<1>10. ASSUME NEW c \in Calls, RecordCreated(c)
      PROVE  audit' = audit \/ (\E d \in Calls : RecordAudit(d))
  BY <1>10 DEF RecordCreated
<1>11. ASSUME NEW c \in Calls, OrderUnconfirmed(c)
      PROVE  audit' = audit \/ (\E d \in Calls : RecordAudit(d))
  BY <1>11 DEF OrderUnconfirmed
<1>12. ASSUME NEW c \in Calls, AnswerUnusable(c)
      PROVE  audit' = audit \/ (\E d \in Calls : RecordAudit(d))
  BY <1>12 DEF AnswerUnusable
<1>13. ASSUME NEW c \in Calls, RecordAudit(c)
      PROVE  audit' = audit \/ (\E d \in Calls : RecordAudit(d))
  BY <1>13
<1>14. ASSUME NEW c \in Calls, AuditFails(c)
      PROVE  audit' = audit \/ (\E d \in Calls : RecordAudit(d))
  BY <1>14 DEF AuditFails
<1>15. ASSUME NEW c \in Calls, AcceptOrder(c)
      PROVE  audit' = audit \/ (\E d \in Calls : RecordAudit(d))
  BY <1>15 DEF AcceptOrder
<1>16. ASSUME NEW c \in Calls, RejectOrder(c)
      PROVE  audit' = audit \/ (\E d \in Calls : RecordAudit(d))
  BY <1>16 DEF RejectOrder
<1>17. CASE Midnight
  BY <1>17 DEF Midnight
<1>18. CASE Restart
  BY <1>18 DEF Restart
<1>19. CASE UNCHANGED vars
  BY <1>19 DEF vars
<1> QED
  BY <1>1, <1>2, <1>3, <1>4, <1>5, <1>6, <1>7, <1>8, <1>9, <1>10, <1>11, <1>12, <1>13,
     <1>14, <1>15, <1>16, <1>17, <1>18, <1>19 DEF Next, Work, Measure, Finished

\* The order book only grows, and an answered call keeps its order.
LEMMA BookGrows ==
    ASSUME TypeOK, GateInv, BookInv, [Next]_vars
    PROVE  /\ \A i \in DOMAIN orders : i \in DOMAIN orders' /\ orders'[i] = orders[i]
           /\ \A c \in Calls : reply[c] # 0 => reply'[c] = reply[c]
<1>1. CASE BookKept
  BY <1>1 DEF BookKept
<1>2. ASSUME NEW c \in Calls, AcceptOrder(c)
      PROVE  /\ \A i \in DOMAIN orders : i \in DOMAIN orders' /\ orders'[i] = orders[i]
             /\ \A d \in Calls : reply[d] # 0 => reply'[d] = reply[d]
  <2>1. orders \in Seq(Order) /\ reply \in [Calls -> Nat]
    BY DEF TypeOK
  <2>2. reply[c] = 0
    BY <1>2 DEF AcceptOrder, BookInv
  <2> QED
    BY <1>2, <2>1, <2>2 DEF AcceptOrder
<1> QED
  BY <1>1, <1>2, BookFrame

\* The call behind an order keeps its key.
LEMMA BookedKeys ==
    ASSUME TypeOK, GateInv, BookInv, [Next]_vars
    PROVE  \A i \in DOMAIN orders :
              /\ orders[i].by \in Calls
              /\ orders'[i].by = orders[i].by
              /\ KeyOf(orders[i].by)' = KeyOf(orders[i].by)
<1> SUFFICES ASSUME NEW i \in DOMAIN orders
             PROVE  /\ orders[i].by \in Calls
                    /\ orders'[i].by = orders[i].by
                    /\ KeyOf(orders[i].by)' = KeyOf(orders[i].by)
  OBVIOUS
<1>1. orders[i] \in Order
  BY DEF TypeOK
<1>2. orders[i].by \in Calls /\ wire[orders[i].by] = "answered"
  BY <1>1 DEF BookInv, Order
<1>3. orders'[i] = orders[i]
  BY BookGrows
<1> QED
  BY <1>2, <1>3, KeyFrame DEF KeyKept, GateInv, KeyOf, Item, Quantity

-----------------------------------------------------------------------------
(* One lemma for each conjunct *)

\* Types: the key recorded and the order accepted are typed by the policy gate.
LEMMA TypeStep ==
    ASSUME TypeOK, GateInv, OutcomeInv, [Next]_vars
    PROVE  TypeOK'
<1> USE DEF TypeOK, Places, Active, Ended, Outcomes, Goto, locals, store, storelink,
     world
<1>1. ASSUME NEW c \in Calls, Begin(c) PROVE TypeOK'
  BY <1>1 DEF Begin
<1>2. ASSUME NEW c \in Calls, ReadFails(c) PROVE TypeOK'
  BY <1>2 DEF ReadFails
<1>3. ASSUME NEW c \in Calls, NEW p \in Readings, StockRecordError(c, p) PROVE TypeOK'
  BY <1>3 DEF StockRecordError
<1>4. ASSUME NEW c \in Calls, NEW p \in Readings, CheckStockPosition(c, p) PROVE TypeOK'
  <2> DEFINE a == Assess(p)
  <2>1. p \in StockPosition
    BY ReadingsAssumption
  <2>2. a \in Outcomes
    <3>1. a # "stock_record_error"
      BY <1>4 DEF CheckStockPosition
    <3> QED
      BY <2>1, <3>1, AssessRange
  <2>3. /\ reading' = [reading EXCEPT ![c] = p]
        /\ outcome' = [outcome EXCEPT ![c] = a]
        /\ pc' = [pc EXCEPT ![c] = "auditing"]
        /\ UNCHANGED <<args, date, response, epoch, store, storelink, audit, world>>
    BY <1>4 DEF CheckStockPosition
  <2> HIDE DEF a
  <2> QED
    BY <2>1, <2>2, <2>3
<1>5. ASSUME NEW c \in Calls, NEW p \in Readings, RefuseOrder(c, p) PROVE TypeOK'
  BY <1>5, CallsAssumption, ReadingsAssumption, BoundsAssumption DEF RefuseOrder
<1>6. ASSUME NEW c \in Calls, NEW p \in Readings, RequireOrder(c, p) PROVE TypeOK'
  BY <1>6, CallsAssumption, ReadingsAssumption, BoundsAssumption DEF RequireOrder
<1>7. ASSUME NEW c \in Calls, NEW id \in DOMAIN orders, GetReplenishmentOrderStatus(c, id)
      PROVE  TypeOK'
  <2>1. id \in Nat
    OBVIOUS
  <2> QED
    BY <1>7, <2>1 DEF GetReplenishmentOrderStatus
<1>8. ASSUME NEW c \in Calls, ReplayRecorded(c) PROVE TypeOK'
  BY <1>8 DEF ReplayRecorded
<1>9. ASSUME NEW c \in Calls, PostOrder(c) PROVE TypeOK'
  BY <1>9 DEF PostOrder
<1>10. ASSUME NEW c \in Calls, RecordCreated(c) PROVE TypeOK'
  <2>1. KeyOf(c) \in Key
    BY <1>10, KeyTyped DEF RecordCreated, GateInv
  <2> QED
    BY <1>10, <2>1 DEF RecordCreated
<1>11. ASSUME NEW c \in Calls, OrderUnconfirmed(c) PROVE TypeOK'
  BY <1>11 DEF OrderUnconfirmed
<1>12. ASSUME NEW c \in Calls, AnswerUnusable(c) PROVE TypeOK'
  BY <1>12 DEF AnswerUnusable
<1>13. ASSUME NEW c \in Calls, RecordAudit(c) PROVE TypeOK'
  <2>1. AuditLine(c) \in Line
    BY <1>13 DEF RecordAudit, OutcomeInv, AuditLine, Line
  <2>2. audit' \in Seq(Line)
    BY <1>13, <2>1 DEF RecordAudit
  <2>3. pc' \in [Calls -> Places]
    BY <1>13 DEF RecordAudit, Places, Ended
  <2> QED
    BY <1>13, <2>2, <2>3 DEF RecordAudit
<1>14. ASSUME NEW c \in Calls, AuditFails(c) PROVE TypeOK'
  BY <1>14 DEF AuditFails
<1>15. ASSUME NEW c \in Calls, AcceptOrder(c) PROVE TypeOK'
  <2>1. Quantity(c) \in Nat
    BY <1>15, KeyTyped DEF AcceptOrder, GateInv
  <2>2. [item |-> Item(c), qty |-> Quantity(c), by |-> c] \in Order
    BY <2>1 DEF Order, Item
  <2> QED
    BY <1>15, <2>2 DEF AcceptOrder
<1>16. ASSUME NEW c \in Calls, RejectOrder(c) PROVE TypeOK'
  BY <1>16 DEF RejectOrder
<1>17. CASE Midnight
  BY <1>17, CallsAssumption, ReadingsAssumption, BoundsAssumption DEF Midnight
<1>18. CASE Restart
  BY <1>18, CallsAssumption, ReadingsAssumption, BoundsAssumption DEF Restart
<1>19. CASE UNCHANGED vars
  BY <1>19 DEF vars
<1> QED
  BY <1>1, <1>2, <1>3, <1>4, <1>5, <1>6, <1>7, <1>8, <1>9, <1>10, <1>11, <1>12, <1>13,
     <1>14, <1>15, <1>16, <1>17, <1>18, <1>19 DEF Next, Work, Measure, Finished

\* The lock and the position of its holder change together.
LEMMA LockStep ==
    ASSUME TypeOK, LockInv, [Next]_vars
    PROVE  LockInv'
<1> USE DEF LockInv, TypeOK, Active, Goto, locals, store, storelink, world
<1>1. ASSUME NEW c \in Calls, Begin(c) PROVE LockInv'
  BY <1>1 DEF Begin
<1>2. ASSUME NEW c \in Calls, ReadFails(c) PROVE LockInv'
  <2>1. PICK to \in {"failed", "raised"} :
           /\ pc[c] = "measuring" /\ pc' = [pc EXCEPT ![c] = to]
           /\ UNCHANGED <<locals, store, storelink, audit, world>>
    BY <1>2, ReadFailsMove
  <2> QED
    BY <1>2, <2>1
<1>3. ASSUME NEW c \in Calls, NEW p \in Readings, StockRecordError(c, p) PROVE LockInv'
  BY <1>3 DEF StockRecordError
<1>4. ASSUME NEW c \in Calls, NEW p \in Readings, CheckStockPosition(c, p) PROVE LockInv'
  BY <1>4 DEF CheckStockPosition
<1>5. ASSUME NEW c \in Calls, NEW p \in Readings, RefuseOrder(c, p) PROVE LockInv'
  BY <1>5 DEF RefuseOrder
<1>6. ASSUME NEW c \in Calls, NEW p \in Readings, RequireOrder(c, p) PROVE LockInv'
  BY <1>6 DEF RequireOrder
<1>7. ASSUME NEW c \in Calls, NEW id \in DOMAIN orders, GetReplenishmentOrderStatus(c, id)
      PROVE  LockInv'
  BY <1>7 DEF GetReplenishmentOrderStatus
<1>8. ASSUME NEW c \in Calls, ReplayRecorded(c) PROVE LockInv'
  BY <1>8 DEF ReplayRecorded
<1>9. ASSUME NEW c \in Calls, PostOrder(c) PROVE LockInv'
  BY <1>9, CallsAssumption DEF PostOrder
<1>10. ASSUME NEW c \in Calls, RecordCreated(c) PROVE LockInv'
  BY <1>10, CallsAssumption DEF RecordCreated
<1>11. ASSUME NEW c \in Calls, OrderUnconfirmed(c) PROVE LockInv'
  BY <1>11, CallsAssumption DEF OrderUnconfirmed
<1>12. ASSUME NEW c \in Calls, AnswerUnusable(c) PROVE LockInv'
  BY <1>12, CallsAssumption DEF AnswerUnusable
<1>13. ASSUME NEW c \in Calls, RecordAudit(c) PROVE LockInv'
  <2>1. PICK to \in {"refused", "returned", "raised"} :
           /\ pc[c] = "auditing" /\ pc' = [pc EXCEPT ![c] = to]
           /\ to = "refused" => outcome[c] = "refused"
           /\ to = "returned" => outcome[c] # "refused"
           /\ UNCHANGED <<locals, store, storelink, world>>
    BY <1>13, RecordAuditMove
  <2> QED
    BY <1>13, <2>1
<1>14. ASSUME NEW c \in Calls, AuditFails(c) PROVE LockInv'
  BY <1>14 DEF AuditFails
<1>15. ASSUME NEW c \in Calls, AcceptOrder(c) PROVE LockInv'
  BY <1>15 DEF AcceptOrder
<1>16. ASSUME NEW c \in Calls, RejectOrder(c) PROVE LockInv'
  BY <1>16 DEF RejectOrder
<1>17. CASE Midnight
  BY <1>17 DEF Midnight
<1>18. CASE Restart
  BY <1>18, CallsAssumption DEF Restart
<1>19. CASE UNCHANGED vars
  BY <1>19 DEF vars
<1> QED
  BY <1>1, <1>2, <1>3, <1>4, <1>5, <1>6, <1>7, <1>8, <1>9, <1>10, <1>11, <1>12, <1>13,
     <1>14, <1>15, <1>16, <1>17, <1>18, <1>19 DEF Next, Work, Measure, Finished

\* A restart leaves no call under way.
LEMMA EpochStep ==
    ASSUME TypeOK, EpochInv, [Next]_vars
    PROVE  EpochInv'
<1> USE DEF EpochInv, TypeOK, Active, Goto, locals, store, storelink, world
<1>1. ASSUME NEW c \in Calls, Begin(c) PROVE EpochInv'
  BY <1>1 DEF Begin
<1>2. ASSUME NEW c \in Calls, ReadFails(c) PROVE EpochInv'
  BY <1>2 DEF ReadFails
<1>3. ASSUME NEW c \in Calls, NEW p \in Readings, StockRecordError(c, p) PROVE EpochInv'
  BY <1>3 DEF StockRecordError
<1>4. ASSUME NEW c \in Calls, NEW p \in Readings, CheckStockPosition(c, p) PROVE EpochInv'
  BY <1>4 DEF CheckStockPosition
<1>5. ASSUME NEW c \in Calls, NEW p \in Readings, RefuseOrder(c, p) PROVE EpochInv'
  BY <1>5 DEF RefuseOrder
<1>6. ASSUME NEW c \in Calls, NEW p \in Readings, RequireOrder(c, p) PROVE EpochInv'
  BY <1>6 DEF RequireOrder
<1>7. ASSUME NEW c \in Calls, NEW id \in DOMAIN orders, GetReplenishmentOrderStatus(c, id)
      PROVE  EpochInv'
  BY <1>7 DEF GetReplenishmentOrderStatus
<1>8. ASSUME NEW c \in Calls, ReplayRecorded(c) PROVE EpochInv'
  BY <1>8 DEF ReplayRecorded
<1>9. ASSUME NEW c \in Calls, PostOrder(c) PROVE EpochInv'
  BY <1>9 DEF PostOrder
<1>10. ASSUME NEW c \in Calls, RecordCreated(c) PROVE EpochInv'
  BY <1>10 DEF RecordCreated
<1>11. ASSUME NEW c \in Calls, OrderUnconfirmed(c) PROVE EpochInv'
  BY <1>11 DEF OrderUnconfirmed
<1>12. ASSUME NEW c \in Calls, AnswerUnusable(c) PROVE EpochInv'
  BY <1>12 DEF AnswerUnusable
<1>13. ASSUME NEW c \in Calls, RecordAudit(c) PROVE EpochInv'
  BY <1>13 DEF RecordAudit
<1>14. ASSUME NEW c \in Calls, AuditFails(c) PROVE EpochInv'
  BY <1>14 DEF AuditFails
<1>15. ASSUME NEW c \in Calls, AcceptOrder(c) PROVE EpochInv'
  BY <1>15 DEF AcceptOrder
<1>16. ASSUME NEW c \in Calls, RejectOrder(c) PROVE EpochInv'
  BY <1>16 DEF RejectOrder
<1>17. CASE Midnight
  BY <1>17 DEF Midnight
<1>18. CASE Restart
  BY <1>18, BoundsAssumption DEF Restart, Ended
<1>19. CASE UNCHANGED vars
  BY <1>19 DEF vars
<1> QED
  BY <1>1, <1>2, <1>3, <1>4, <1>5, <1>6, <1>7, <1>8, <1>9, <1>10, <1>11, <1>12, <1>13,
     <1>14, <1>15, <1>16, <1>17, <1>18, <1>19 DEF Next, Work, Measure, Finished

\* Nothing is posted before the policy gate.
LEMMA GateStep ==
    ASSUME TypeOK, GateInv, [Next]_vars
    PROVE  GateInv'
<1> USE DEF GateInv, TypeOK, Tool, Active, Goto, locals, store, storelink, world
<1>1. ASSUME NEW c \in Calls, Begin(c) PROVE GateInv'
  BY <1>1 DEF Begin
<1>2. ASSUME NEW c \in Calls, ReadFails(c) PROVE GateInv'
  <2>1. PICK to \in {"failed", "raised"} :
           /\ pc[c] = "measuring" /\ pc' = [pc EXCEPT ![c] = to]
           /\ UNCHANGED <<locals, store, storelink, audit, world>>
    BY <1>2, ReadFailsMove
  <2> QED
    BY <1>2, <2>1
<1>3. ASSUME NEW c \in Calls, NEW p \in Readings, StockRecordError(c, p) PROVE GateInv'
  BY <1>3 DEF StockRecordError
<1>4. ASSUME NEW c \in Calls, NEW p \in Readings, CheckStockPosition(c, p) PROVE GateInv'
  BY <1>4 DEF CheckStockPosition
<1>5. ASSUME NEW c \in Calls, NEW p \in Readings, RefuseOrder(c, p) PROVE GateInv'
  BY <1>5 DEF RefuseOrder
<1>6. ASSUME NEW c \in Calls, NEW p \in Readings, RequireOrder(c, p) PROVE GateInv'
  BY <1>6 DEF RequireOrder
<1>7. ASSUME NEW c \in Calls, NEW id \in DOMAIN orders, GetReplenishmentOrderStatus(c, id)
      PROVE  GateInv'
  BY <1>7 DEF GetReplenishmentOrderStatus
<1>8. ASSUME NEW c \in Calls, ReplayRecorded(c) PROVE GateInv'
  BY <1>8 DEF ReplayRecorded
<1>9. ASSUME NEW c \in Calls, PostOrder(c) PROVE GateInv'
  BY <1>9 DEF PostOrder
<1>10. ASSUME NEW c \in Calls, RecordCreated(c) PROVE GateInv'
  BY <1>10 DEF RecordCreated
<1>11. ASSUME NEW c \in Calls, OrderUnconfirmed(c) PROVE GateInv'
  <2>1. PICK to \in {"failed", "raised"} :
           /\ pc[c] = "posting" /\ pc' = [pc EXCEPT ![c] = to]
           /\ lock' = NoCall
           /\ UNCHANGED <<locals, results, storelink, audit, world>>
    BY <1>11, OrderUnconfirmedMove
  <2> QED
    BY <1>11, <2>1
<1>12. ASSUME NEW c \in Calls, AnswerUnusable(c) PROVE GateInv'
  BY <1>12 DEF AnswerUnusable
<1>13. ASSUME NEW c \in Calls, RecordAudit(c) PROVE GateInv'
  <2>1. PICK to \in {"refused", "returned", "raised"} :
           /\ pc[c] = "auditing" /\ pc' = [pc EXCEPT ![c] = to]
           /\ to = "refused" => outcome[c] = "refused"
           /\ to = "returned" => outcome[c] # "refused"
           /\ UNCHANGED <<locals, store, storelink, world>>
    BY <1>13, RecordAuditMove
  <2> QED
    BY <1>13, <2>1
<1>14. ASSUME NEW c \in Calls, AuditFails(c) PROVE GateInv'
  BY <1>14 DEF AuditFails
<1>15. ASSUME NEW c \in Calls, AcceptOrder(c) PROVE GateInv'
  BY <1>15 DEF AcceptOrder
<1>16. ASSUME NEW c \in Calls, RejectOrder(c) PROVE GateInv'
  BY <1>16 DEF RejectOrder
<1>17. CASE Midnight
  BY <1>17 DEF Midnight
<1>18. CASE Restart
  BY <1>18 DEF Restart
<1>19. CASE UNCHANGED vars
  BY <1>19 DEF vars
<1> QED
  BY <1>1, <1>2, <1>3, <1>4, <1>5, <1>6, <1>7, <1>8, <1>9, <1>10, <1>11, <1>12, <1>13,
     <1>14, <1>15, <1>16, <1>17, <1>18, <1>19 DEF Next, Work, Measure, Finished

\* Orders and replies are written together, once for each call.
LEMMA BookStep ==
    ASSUME TypeOK, GateInv, BookInv, [Next]_vars
    PROVE  BookInv'
<1> USE DEF Item, Quantity
<1>1. ASSUME NEW i \in DOMAIN orders
      PROVE  /\ orders[i].by \in Calls
             /\ args'[orders[i].by] = args[orders[i].by]
             /\ reading'[orders[i].by] = reading[orders[i].by]
  <2>1. orders[i] \in Order
    BY DEF TypeOK
  <2>2. orders[i].by \in Calls /\ wire[orders[i].by] = "answered"
    BY <2>1 DEF BookInv, Order
  <2> QED
    BY <2>2, KeyFrame DEF KeyKept, GateInv
<1>2. CASE BookKept
  BY <1>1, <1>2 DEF BookKept, BookInv
<1>3. ASSUME NEW c \in Calls, AcceptOrder(c)
      PROVE  BookInv'
  <2> DEFINE n == Len(orders) + 1
             o == [item |-> Item(c), qty |-> Quantity(c), by |-> c]
  <2>1. orders \in Seq(Order) /\ reply \in [Calls -> Nat]
        /\ wire \in [Calls -> {"none", "sent", "answered"}]
    BY DEF TypeOK
  <2>2. o \in Order
    <3>1. Quantity(c) \in Nat
      BY <1>3, KeyTyped DEF AcceptOrder, GateInv
    <3> QED
      BY <3>1 DEF Order, TypeOK
  <2>3. /\ DOMAIN orders' = 1..n
        /\ DOMAIN orders = 1..Len(orders)
        /\ \A i \in DOMAIN orders : orders'[i] = orders[i]
        /\ orders'[n] = o
    BY <1>3, <2>1, <2>2 DEF AcceptOrder
  <2>4. args' = args /\ reading' = reading
    BY <1>3 DEF AcceptOrder, locals
  <2>5. /\ wire' = [wire EXCEPT ![c] = "answered"]
        /\ reply' = [reply EXCEPT ![c] = n]
        /\ wire[c] = "sent"
    BY <1>3 DEF AcceptOrder
  <2>6. \A i \in DOMAIN orders : orders[i].by # c /\ orders[i].by \in Calls
    BY <1>1, <2>5 DEF BookInv
  <2>7. ASSUME NEW i \in DOMAIN orders'
        PROVE  /\ wire'[orders'[i].by] = "answered"
               /\ reply'[orders'[i].by] = i
               /\ orders'[i].item = args'[orders'[i].by].item
               /\ orders'[i].qty = OrderQuantity(reading'[orders'[i].by])
    <3>1. CASE i = n
      BY <3>1, <2>1, <2>3, <2>4, <2>5
    <3>2. CASE i \in DOMAIN orders
      BY <3>2, <2>1, <2>3, <2>4, <2>5, <2>6 DEF BookInv
    <3> QED
      BY <3>1, <3>2, <2>1, <2>3
  <2>8. ASSUME NEW d \in Calls, reply'[d] # 0
        PROVE  reply'[d] \in DOMAIN orders' /\ orders'[reply'[d]].by = d
    BY <2>1, <2>3, <2>5, <2>8 DEF BookInv
  <2> QED
    BY <2>7, <2>8 DEF BookInv
<1> QED
  BY <1>2, <1>3, BookFrame

\* A request StoreLink has not answered has no order.
LEMMA NoOrderYet ==
    ASSUME BookInv, NEW c \in Calls, wire[c] = "sent"
    PROVE  reply[c] = 0
<1> SUFFICES ASSUME reply[c] # 0 PROVE FALSE
  OBVIOUS
<1>1. reply[c] \in DOMAIN orders /\ orders[reply[c]].by = c
  BY DEF BookInv
<1>2. wire[c] = "answered"
  BY <1>1 DEF BookInv
<1> QED
  BY <1>2

\* A call that is told "created" holds the order StoreLink answered it with.
LEMMA OutcomeStep ==
    ASSUME TypeOK, GateInv, BookInv, OutcomeInv, [Next]_vars
    PROVE  OutcomeInv'
<1> USE DEF OutcomeInv, GateInv, TypeOK, Active, Ended, Goto, locals, store,
     storelink, world
<1>1. ASSUME NEW c \in Calls, Begin(c) PROVE OutcomeInv'
  BY <1>1 DEF Begin
<1>2. ASSUME NEW c \in Calls, ReadFails(c) PROVE OutcomeInv'
  <2>1. PICK to \in {"failed", "raised"} :
           /\ pc[c] = "measuring" /\ pc' = [pc EXCEPT ![c] = to]
           /\ UNCHANGED <<locals, store, storelink, audit, world>>
    BY <1>2, ReadFailsMove
  <2> QED
    BY <1>2, <2>1
<1>3. ASSUME NEW c \in Calls, NEW p \in Readings, StockRecordError(c, p) PROVE OutcomeInv'
  BY <1>3 DEF StockRecordError
<1>4. ASSUME NEW c \in Calls, NEW p \in Readings, CheckStockPosition(c, p) PROVE OutcomeInv'
  BY <1>4, AssessRange, ReadingsAssumption DEF CheckStockPosition
<1>5. ASSUME NEW c \in Calls, NEW p \in Readings, RefuseOrder(c, p) PROVE OutcomeInv'
  BY <1>5 DEF RefuseOrder
<1>6. ASSUME NEW c \in Calls, NEW p \in Readings, RequireOrder(c, p) PROVE OutcomeInv'
  BY <1>6 DEF RequireOrder
<1>7. ASSUME NEW c \in Calls, NEW id \in DOMAIN orders, GetReplenishmentOrderStatus(c, id)
      PROVE  OutcomeInv'
  BY <1>7 DEF GetReplenishmentOrderStatus
<1>8. ASSUME NEW c \in Calls, ReplayRecorded(c) PROVE OutcomeInv'
  BY <1>8 DEF ReplayRecorded
<1>9. ASSUME NEW c \in Calls, PostOrder(c) PROVE OutcomeInv'
  BY <1>9 DEF PostOrder
<1>10. ASSUME NEW c \in Calls, RecordCreated(c) PROVE OutcomeInv'
  BY <1>10 DEF RecordCreated
<1>11. ASSUME NEW c \in Calls, OrderUnconfirmed(c) PROVE OutcomeInv'
  <2>1. PICK to \in {"failed", "raised"} :
           /\ pc[c] = "posting" /\ pc' = [pc EXCEPT ![c] = to]
           /\ lock' = NoCall
           /\ UNCHANGED <<locals, results, storelink, audit, world>>
    BY <1>11, OrderUnconfirmedMove
  <2> QED
    BY <1>11, <2>1
<1>12. ASSUME NEW c \in Calls, AnswerUnusable(c) PROVE OutcomeInv'
  BY <1>12 DEF AnswerUnusable
<1>13. ASSUME NEW c \in Calls, RecordAudit(c) PROVE OutcomeInv'
  <2>1. PICK to \in {"refused", "returned", "raised"} :
           /\ pc[c] = "auditing" /\ pc' = [pc EXCEPT ![c] = to]
           /\ to = "refused" => outcome[c] = "refused"
           /\ to = "returned" => outcome[c] # "refused"
           /\ UNCHANGED <<locals, store, storelink, world>>
    BY <1>13, RecordAuditMove
  <2> QED
    BY <1>13, <2>1
<1>14. ASSUME NEW c \in Calls, AuditFails(c) PROVE OutcomeInv'
  BY <1>14 DEF AuditFails
<1>15. ASSUME NEW c \in Calls, AcceptOrder(c) PROVE OutcomeInv'
  <2>1. wire[c] = "sent"
    BY <1>15 DEF AcceptOrder
  <2>2. outcome[c] # "created"
    BY <2>1, NoOrderYet
  <2> QED
    BY <1>15, <2>2 DEF AcceptOrder
<1>16. ASSUME NEW c \in Calls, RejectOrder(c) PROVE OutcomeInv'
  BY <1>16 DEF RejectOrder
<1>17. CASE Midnight
  BY <1>17 DEF Midnight
<1>18. CASE Restart
  BY <1>18 DEF Restart
<1>19. CASE UNCHANGED vars
  BY <1>19 DEF vars
<1> QED
  BY <1>1, <1>2, <1>3, <1>4, <1>5, <1>6, <1>7, <1>8, <1>9, <1>10, <1>11, <1>12, <1>13,
     <1>14, <1>15, <1>16, <1>17, <1>18, <1>19 DEF Next, Work, Measure, Finished

\* A replay is answered from the store, whose orders have the key asked for.
LEMMA ReplayStep ==
    ASSUME TypeOK, GateInv, BookInv, OutcomeInv, StoreInv, ReplayInv, [Next]_vars
    PROVE  ReplayInv'
<1> USE DEF KeyOf, Item, Quantity
<1> SUFFICES ASSUME NEW c \in Calls, outcome'[c] = "duplicate"
             PROVE  response'[c] \in DOMAIN orders' /\ KeyOf(orders[response[c]].by)' = KeyOf(c)'
  BY DEF ReplayInv
<1>1. CASE outcome[c] = "duplicate"
  <2>1. pc[c] \in {"auditing"} \cup Ended
    BY <1>1 DEF OutcomeInv
  <2>2. response'[c] = response[c] /\ KeyOf(c)' = KeyOf(c)
    BY <1>1, <2>1, CallFrame, KeyFrame DEF CallKept, KeyKept, Ended
  <2> QED
    BY <1>1, <2>2, BookedKeys, BookGrows DEF ReplayInv
<1>2. CASE ReplayRecorded(c)
  <2>1. /\ KeyOf(c) \in DOMAIN results
        /\ response'[c] = results[KeyOf(c)]
        /\ KeyOf(c)' = KeyOf(c)
    BY <1>2 DEF ReplayRecorded, TypeOK
  <2> QED
    BY <2>1, BookedKeys, BookGrows DEF StoreInv
<1> QED
  BY <1>1, <1>2, CallFrame DEF CallKept

\* The lock held across the write keeps the key of that write out of the store.
LEMMA StoreStep ==
    ASSUME TypeOK, LockInv, EpochInv, GateInv, BookInv, OutcomeInv, StoreInv, [Next]_vars
    PROVE  StoreInv'
<1> USE DEF KeyOf, Item, Quantity
<1>1. ASSUME NEW c \in Calls, RecordCreated(c)
      PROVE  StoreInv'
  <2> DEFINE k == KeyOf(c)
  <2>1. /\ pc[c] = "posting"
        /\ reply[c] # 0
        /\ results' = [l \in DOMAIN results \cup {k} |-> IF l = k THEN reply[c] ELSE results[l]]
        /\ orders' = orders /\ reply' = reply /\ args' = args
        /\ reading' = reading /\ date' = date /\ epoch' = epoch /\ boot' = boot
        /\ pc' = [pc EXCEPT ![c] = "auditing"]
        /\ outcome' = [outcome EXCEPT ![c] = "created"]
    BY <1>1 DEF RecordCreated, Goto, locals, storelink, world, TypeOK
  <2>2. reply[c] \in DOMAIN orders /\ orders[reply[c]].by = c
    BY <2>1 DEF BookInv
  <2>3. k \notin DOMAIN results
    BY <2>1 DEF StoreInv
  <2>4. ASSUME NEW l \in DOMAIN results'
        PROVE  results'[l] \in DOMAIN orders /\ KeyOf(orders[results'[l]].by) = l
    BY <2>1, <2>2 DEF StoreInv
  <2>5. ASSUME NEW d \in Calls, outcome'[d] = "created", epoch[d] = boot
        PROVE  KeyOf(d) \in DOMAIN results' /\ results'[KeyOf(d)] = reply[d]
    BY <2>1, <2>3, <2>5 DEF StoreInv, TypeOK
  <2>6. ASSUME NEW d \in Calls, pc'[d] = "posting"
        PROVE  FALSE
    BY <2>1, <2>6 DEF LockInv, TypeOK
  <2> QED
    BY <2>1, <2>4, <2>5, <2>6 DEF StoreInv
<1>2. CASE Restart
  <2>1. /\ results' = [k \in {} |-> 0]
        /\ boot' = boot + 1
        /\ epoch' = epoch
        /\ \A c \in Calls : pc'[c] # "posting"
    BY <1>2 DEF Restart, locals, Active, TypeOK
  <2>2. \A c \in Calls : epoch'[c] # boot'
    BY <2>1, BoundsAssumption DEF EpochInv, TypeOK
  <2> QED
    BY <2>1, <2>2 DEF StoreInv
<1>3. CASE /\ boot' = boot /\ results' = results
           /\ \A d \in Calls : ~RecordCreated(d)
  <2>1. ASSUME NEW k \in DOMAIN results
        PROVE  results[k] \in DOMAIN orders' /\ KeyOf(orders[results[k]].by)' = k
    BY <1>3, BookedKeys, BookGrows DEF StoreInv
  <2>2. ASSUME NEW c \in Calls, outcome'[c] = "created", epoch'[c] = boot
        PROVE  KeyOf(c)' \in DOMAIN results /\ results[KeyOf(c)'] = reply'[c]
    <3>1. outcome[c] = "created"
      BY <1>3, <2>2, CallFrame DEF CallKept
    <3>2. pc[c] \in {"auditing"} \cup Ended /\ reply[c] # 0
      BY <3>1 DEF OutcomeInv
    <3>3. epoch[c] = boot /\ KeyOf(c)' = KeyOf(c) /\ reply'[c] = reply[c]
      BY <2>2, <3>2, CallFrame, KeyFrame, BookGrows DEF CallKept, KeyKept, Ended
    <3> QED
      BY <3>1, <3>3 DEF StoreInv
  <2>3. ASSUME NEW c \in Calls, pc'[c] = "posting"
        PROVE  KeyOf(c)' \notin DOMAIN results
    <3>1. KeyOf(c) \notin DOMAIN results /\ pc[c] # "measuring"
      BY <2>3, CallFrame DEF CallKept, PostOrder, StoreInv
    <3> QED
      BY <3>1, KeyFrame DEF KeyKept
  <2> QED
    BY <1>3, <2>1, <2>2, <2>3 DEF StoreInv
<1> QED
  BY <1>1, <1>2, <1>3, StoreFrame

\* A second confirmation under a key would need the key to be absent.
LEMMA ConfirmedStep ==
    ASSUME TypeOK, EpochInv, OutcomeInv, StoreInv, ConfirmedInv, [Next]_vars
    PROVE  ConfirmedInv'
<1> USE DEF KeyOf, Item, Quantity
<1>1. ASSUME NEW c \in Calls, outcome[c] = "created"
      PROVE  outcome'[c] = "created" /\ KeyOf(c)' = KeyOf(c) /\ epoch'[c] = epoch[c]
  <2>1. pc[c] \in {"auditing"} \cup Ended
    BY <1>1 DEF OutcomeInv
  <2> QED
    BY <1>1, <2>1, CallFrame, KeyFrame DEF CallKept, KeyKept, Ended
<1>2. ASSUME NEW c \in Calls, NEW d \in Calls, RecordCreated(c), outcome[d] = "created"
      PROVE  ~(KeyOf(c)' = KeyOf(d)' /\ epoch'[c] = epoch'[d])
  <2>1. KeyOf(c) \notin DOMAIN results /\ epoch[c] = boot
    BY <1>2 DEF RecordCreated, StoreInv, EpochInv, Active
  <2>2. epoch[d] = boot => KeyOf(d) \in DOMAIN results
    BY <1>2 DEF StoreInv
  <2>3. KeyOf(c)' = KeyOf(c) /\ epoch' = epoch
    BY <1>2 DEF RecordCreated
  <2> QED
    BY <1>1, <1>2, <2>1, <2>2, <2>3
<1>3. ASSUME NEW c \in Calls, NEW d \in Calls, RecordCreated(c), RecordCreated(d)
      PROVE  c = d
  BY <1>3 DEF RecordCreated, Goto, TypeOK
<1>4. \A c \in Calls : outcome'[c] = "created" => outcome[c] = "created" \/ RecordCreated(c)
  BY CallFrame DEF CallKept
<1> SUFFICES ASSUME NEW c \in Calls, NEW d \in Calls,
                    outcome'[c] = "created", outcome'[d] = "created",
                    KeyOf(c)' = KeyOf(d)', epoch'[c] = epoch'[d]
             PROVE  c = d
  BY DEF ConfirmedInv
<1>5. CASE outcome[c] = "created" /\ outcome[d] = "created"
  BY <1>1, <1>5 DEF ConfirmedInv
<1>6. CASE RecordCreated(c) /\ RecordCreated(d)
  BY <1>3, <1>6
<1>7. CASE RecordCreated(c) /\ outcome[d] = "created"
  BY <1>2, <1>7
<1>8. CASE outcome[c] = "created" /\ RecordCreated(d)
  BY <1>2, <1>8
<1> QED
  BY <1>4, <1>5, <1>6, <1>7, <1>8

\* A line is appended as its call ends, and an ended call changes no more.
LEMMA TrailStep ==
    ASSUME TypeOK, OutcomeInv, TrailInv, [Next]_vars
    PROVE  TrailInv'
<1>1. ASSUME NEW i \in DOMAIN audit
      PROVE  LET c == audit[i].by
             IN  /\ c \in Calls
                 /\ pc'[c] = pc[c]
                 /\ audit[i] = [by |-> c, outcome |-> outcome'[c], order |-> response'[c]]
  <2> DEFINE c == audit[i].by
  <2>1. audit[i] \in Line
    BY DEF TypeOK
  <2>2. c \in Calls /\ audit[i].outcome # "none"
    BY <2>1 DEF Line, Outcomes
  <2>3. audit[i] = AuditLine(c) /\ pc[c] \in Ended
    BY DEF TrailInv, Ended
  <2> QED
    BY <2>2, <2>3, CallFrame DEF CallKept, AuditLine
<1>2. CASE audit' = audit
  BY <1>1, <1>2 DEF TrailInv, AuditLine
<1>3. ASSUME NEW c \in Calls, RecordAudit(c)
      PROVE  TrailInv'
  <2> DEFINE n == Len(audit) + 1
  <2>1. audit \in Seq(Line) /\ pc \in [Calls -> Places]
    BY DEF TypeOK
  <2>2. AuditLine(c) \in Line
    BY <1>3 DEF RecordAudit, OutcomeInv, AuditLine, Line, TypeOK
  <2>3. /\ DOMAIN audit' = 1..n
        /\ DOMAIN audit = 1..Len(audit)
        /\ \A i \in DOMAIN audit : audit'[i] = audit[i]
        /\ audit'[n] = AuditLine(c)
    BY <1>3, <2>1, <2>2 DEF RecordAudit
  <2>4. /\ pc[c] = "auditing"
        /\ pc'[c] \in {"returned", "refused", "raised"}
        /\ AuditLine(c) = [by |-> c, outcome |-> outcome'[c], order |-> response'[c]]
    BY <1>3, <2>1 DEF RecordAudit, Goto, AuditLine, locals
  <2>5. \A i \in DOMAIN audit : audit[i].by # c
    BY <2>4 DEF TrailInv
  <2>6. ASSUME NEW i \in DOMAIN audit'
        PROVE  /\ audit'[i] = [by |-> audit'[i].by, outcome |-> outcome'[audit'[i].by],
                               order |-> response'[audit'[i].by]]
               /\ pc'[audit'[i].by] \in {"returned", "refused", "raised"}
    <3>1. CASE i = n
      BY <3>1, <2>3, <2>4
    <3>2. CASE i \in DOMAIN audit
      BY <3>2, <1>1, <2>3 DEF TrailInv
    <3> QED
      BY <3>1, <3>2, <2>1, <2>3
  <2>7. ASSUME NEW i \in DOMAIN audit', NEW j \in DOMAIN audit', audit'[i].by = audit'[j].by
        PROVE  i = j
    <3>1. audit'[n].by = c
      BY <2>3 DEF AuditLine
    <3> QED
      BY <2>1, <2>3, <2>5, <2>7, <3>1 DEF TrailInv
  <2> QED
    BY <2>6, <2>7 DEF TrailInv, AuditLine
<1> QED
  BY <1>2, <1>3, TrailFrame

\* A position is stored as it was read.
LEMMA ReadingStep ==
    ASSUME TypeOK, ReadingInv, [Next]_vars
    PROVE  ReadingInv'
  BY KeyFrame DEF ReadingInv, KeyKept

\* A refusal, a replay and a position are settled before anything is posted, and
\* what is posted is answered from StoreLink's reply.
LEMMA AnswerStep ==
    ASSUME TypeOK, GateInv, OutcomeInv, AnswerInv, [Next]_vars
    PROVE  AnswerInv'
<1> SUFFICES ASSUME NEW c \in Calls
             PROVE  /\ pc'[c] = "returned" => outcome'[c] \notin {"none", "refused"}
                    /\ pc'[c] = "refused" => outcome'[c] = "refused"
                    /\ wire'[c] # "none" => outcome'[c] \in {"none", "created"}
  BY DEF AnswerInv
<1>1. CallKept(c)
  BY CallFrame
<1>2. ASSUME pc'[c] \in {"returned", "refused"}
      PROVE  pc'[c] = IF outcome'[c] = "refused" THEN "refused" ELSE "returned"
  <2>1. CASE pc'[c] = pc[c]
    BY <1>1, <1>2, <2>1 DEF CallKept, AnswerInv
  <2>2. CASE RecordAudit(c)
    BY <1>2, <2>2 DEF RecordAudit, Goto, locals, TypeOK
  <2> QED
    BY <1>1, <1>2, <2>1, <2>2 DEF CallKept
<1>3. ASSUME pc'[c] \in {"returned", "refused"}
      PROVE  outcome'[c] # "none"
  <2>1. CASE pc'[c] = pc[c]
    <3>1. outcome[c] # "none"
      BY <1>3, <2>1 DEF AnswerInv
    <3> QED
      BY <1>1, <3>1 DEF CallKept
  <2>2. CASE RecordAudit(c)
    <3>1. outcome[c] # "none" /\ outcome' = outcome
      BY <2>2 DEF RecordAudit, locals, OutcomeInv
    <3> QED
      BY <3>1
  <2> QED
    BY <1>1, <1>3, <2>1, <2>2 DEF CallKept
<1>4. ASSUME wire'[c] # "none"
      PROVE  outcome'[c] \in {"none", "created"}
  <2>1. CASE PostOrder(c)
    BY <2>1 DEF PostOrder, locals, OutcomeInv, Ended
  <2>2. CASE wire[c] # "none"
    <3>1. outcome[c] \in {"none", "created"} /\ pc[c] \notin {"measuring", "locking"}
      BY <2>2 DEF AnswerInv, GateInv
    <3>2. CASE RecordCreated(c)
      BY <3>2 DEF RecordCreated, TypeOK
    <3> QED
      BY <1>1, <3>1, <3>2 DEF CallKept
  <2> QED
    BY <1>1, <1>4, <2>1, <2>2 DEF CallKept
<1> QED
  BY <1>2, <1>3, <1>4

\* The store forgets nothing while the process lives.
LEMMA ReplayHeldStep ==
    ASSUME TypeOK, EpochInv, GateInv, OutcomeInv, StoreInv, ReplayHeldInv, [Next]_vars
    PROVE  ReplayHeldInv'
<1> USE DEF KeyOf, Item, Quantity
<1> SUFFICES ASSUME NEW c \in Calls, outcome'[c] = "duplicate", epoch'[c] = boot'
             PROVE  KeyOf(c)' \in DOMAIN results' /\ results'[KeyOf(c)'] = response'[c]
  BY DEF ReplayHeldInv
<1>1. CASE ReplayRecorded(c)
  BY <1>1 DEF ReplayRecorded, store, TypeOK
<1>2. CASE outcome[c] = "duplicate"
  <2>1. pc[c] \in {"auditing"} \cup Ended
    BY <1>2 DEF OutcomeInv
  <2>2. KeyOf(c)' = KeyOf(c) /\ response'[c] = response[c] /\ epoch'[c] = epoch[c]
    BY <1>2, <2>1, CallFrame, KeyFrame DEF CallKept, KeyKept, Ended
  <2>3. epoch[c] \in Nat /\ boot \in Nat /\ epoch[c] <= boot
    BY BoundsAssumption DEF EpochInv, TypeOK
  <2>4. ~Restart
    BY <2>2, <2>3 DEF Restart
  <2>5. epoch[c] = boot
    BY <2>2, <2>4, StoreFrame DEF RecordCreated, world
  <2>6. KeyOf(c) \in DOMAIN results /\ results[KeyOf(c)] = response[c]
    BY <1>2, <2>5 DEF ReplayHeldInv
  <2>7. ASSUME NEW d \in Calls, RecordCreated(d)
        PROVE  KeyOf(c) \in DOMAIN results' /\ results'[KeyOf(c)] = results[KeyOf(c)]
    <3>1. KeyOf(d) \notin DOMAIN results
      BY <2>7 DEF RecordCreated, StoreInv
    <3> QED
      BY <2>6, <2>7, <3>1 DEF RecordCreated
  <2> QED
    BY <2>2, <2>4, <2>6, <2>7, StoreFrame
<1> QED
  BY <1>1, <1>2, CallFrame DEF CallKept

\* Calls answered by the current process are answered from its store, and those
\* of an earlier one are over.
LEMMA AgreeStep ==
    ASSUME TypeOK, EpochInv, OutcomeInv, CallersAgree, [Next]_vars,
           OutcomeInv', StoreInv', ReplayHeldInv'
    PROVE  CallersAgree'
<1> USE DEF KeyOf, Item, Quantity
<1> DEFINE Confirmed == {"created", "duplicate"}
<1>1. ASSUME NEW c \in Calls, outcome'[c] \in Confirmed, epoch'[c] = boot'
      PROVE  results'[KeyOf(c)'] = response'[c]
  BY <1>1 DEF StoreInv, ReplayHeldInv, OutcomeInv
<1>2. ASSUME NEW c \in Calls, outcome'[c] \in Confirmed, epoch'[c] # boot'
      PROVE  /\ outcome[c] = outcome'[c] /\ response[c] = response'[c]
             /\ KeyOf(c) = KeyOf(c)' /\ epoch[c] = epoch'[c]
  <2>1. ~RecordCreated(c) /\ ~ReplayRecorded(c)
    BY <1>2 DEF RecordCreated, ReplayRecorded, EpochInv, Active, world
  <2>2. outcome[c] \in Confirmed
    BY <1>2, <2>1, CallFrame DEF CallKept
  <2>3. pc[c] \in {"auditing"} \cup Ended
    BY <2>2 DEF OutcomeInv
  <2> QED
    BY <2>2, <2>3, CallFrame, KeyFrame DEF CallKept, KeyKept, Ended
<1> SUFFICES ASSUME NEW c \in Calls, NEW d \in Calls,
                    outcome'[c] \in Confirmed, outcome'[d] \in Confirmed,
                    KeyOf(c)' = KeyOf(d)', epoch'[c] = epoch'[d]
             PROVE  response'[c] = response'[d]
  BY DEF CallersAgree
<1>3. CASE epoch'[c] = boot'
  BY <1>1, <1>3
<1>4. CASE epoch'[c] # boot'
  BY <1>2, <1>4 DEF CallersAgree
<1> QED
  BY <1>3, <1>4

\* The record is written in the step that answers the caller.
LEMMA AuditedStep ==
    ASSUME TypeOK, OutcomeInv, AnswerInv, ResultsAreAudited, [Next]_vars
    PROVE  ResultsAreAudited'
<1> SUFFICES ASSUME NEW c \in Calls, pc'[c] \in {"returned", "refused"}
             PROVE  \E i \in DOMAIN audit' : audit'[i] = AuditLine(c)'
  BY DEF ResultsAreAudited
<1>1. audit \in Seq(Line)
  BY DEF TypeOK
<1>2. ASSUME NEW d \in Calls, RecordAudit(d)
      PROVE  /\ Len(audit) + 1 \in DOMAIN audit'
             /\ audit'[Len(audit) + 1] = AuditLine(d)
             /\ \A i \in DOMAIN audit : i \in DOMAIN audit' /\ audit'[i] = audit[i]
  <2>1. AuditLine(d) \in Line
    BY <1>2 DEF RecordAudit, OutcomeInv, AuditLine, Line, TypeOK
  <2> QED
    BY <1>1, <1>2, <2>1 DEF RecordAudit
<1>3. CASE RecordAudit(c)
  <2>1. AuditLine(c)' = AuditLine(c)
    BY <1>3 DEF RecordAudit, AuditLine, locals
  <2> QED
    BY <1>2, <1>3, <2>1
<1>4. CASE pc'[c] = pc[c]
  <2>1. PICK i \in DOMAIN audit : audit[i] = AuditLine(c)
    BY <1>4 DEF ResultsAreAudited
  <2>2. outcome[c] # "none"
    BY <1>4 DEF AnswerInv
  <2>3. AuditLine(c)' = AuditLine(c)
    BY <2>2, CallFrame DEF CallKept, AuditLine
  <2>4. i \in DOMAIN audit' /\ audit'[i] = audit[i]
    BY <1>2, TrailFrame
  <2> QED
    BY <2>1, <2>3, <2>4
<1> QED
  BY <1>3, <1>4, CallFrame DEF CallKept

-----------------------------------------------------------------------------
(* Theorems *)

\* A process that has just started satisfies the invariant.
LEMMA InitIInv == Init => IInv
<1> SUFFICES ASSUME Init PROVE IInv
  OBVIOUS
<1> USE DEF Init
<1>1. TypeOK
  BY BoundsAssumption, NotRangedAssumption
     DEF TypeOK, Places, Active, Ended, Unmeasured, StockPosition
<1>2. LockInv
  BY CallsAssumption DEF LockInv
<1>3. EpochInv /\ GateInv /\ BookInv
  BY DEF EpochInv, GateInv, BookInv, Active
<1>4. OutcomeInv /\ ReplayInv /\ StoreInv /\ ConfirmedInv
  BY DEF OutcomeInv, ReplayInv, StoreInv, ConfirmedInv
<1>5. TrailInv
  BY DEF TrailInv
<1>6. ReadingInv /\ AnswerInv /\ ReplayHeldInv /\ CallersAgree /\ ResultsAreAudited
  BY DEF ReadingInv, AnswerInv, ReplayHeldInv, CallersAgree, ResultsAreAudited
<1> QED
  BY <1>1, <1>2, <1>3, <1>4, <1>5, <1>6 DEF IInv

\* Each step keeps it, conjunct by conjunct.
LEMMA NextIInv == IInv /\ [Next]_vars => IInv'
  BY TypeStep, LockStep, EpochStep, GateStep, BookStep, OutcomeStep, ReplayStep,
     StoreStep, ConfirmedStep, TrailStep, ReadingStep, AnswerStep, ReplayHeldStep,
     AgreeStep, AuditedStep DEF IInv

\* The strengthened invariant holds of every behaviour.
THEOREM Invariance == Spec => []IInv
<1>1. Init => IInv
  BY InitIInv
<1>2. IInv /\ [Next]_vars => IInv'
  BY NextIInv
<1> QED
  BY <1>1, <1>2, PTL DEF Spec

\* Every variable keeps its type, whatever the callers, StoreLink and the faults do.
THEOREM TypeCorrectness == Spec => []TypeOK
<1>1. IInv => TypeOK
  BY DEF IInv
<1> QED
  BY <1>1, Invariance, PTL

\* One call, one order: no step of the server sends a write twice.
THEOREM WritesAreNeverRetried == Spec => []OneOrderPerCall
<1>1. IInv => OneOrderPerCall
  BY DEF IInv, BookInv, OneOrderPerCall
<1> QED
  BY <1>1, Invariance, PTL

\* Every order, and every request under way, crossed the threshold on its own call's figures.
THEOREM PolicyHolds == Spec => []OrdersRespectPolicy
<1>1. ASSUME IInv PROVE OrdersRespectPolicy
  <2>1. ASSUME NEW c \in Calls, wire[c] # "none"
        PROVE  /\ Tool(c) = "raise_replenishment_order"
               /\ reading[c].on_hand \in Nat
               /\ reading[c].sold - reading[c].on_hand > 6
               /\ Quantity(c) = reading[c].sold - reading[c].on_hand
    <3>1. Tool(c) = "raise_replenishment_order" /\ Assess(reading[c]) = "order_required"
      BY <1>1, <2>1 DEF IInv, GateInv
    <3>2. reading[c] \in StockPosition
      BY <1>1 DEF IInv, TypeOK
    <3> QED
      BY <3>1, <3>2, OrderRequiredIffGap, OrderIsTheGap DEF Quantity
  <2>2. ASSUME NEW i \in DOMAIN orders
        PROVE  /\ orders[i].by \in Calls
               /\ wire[orders[i].by] = "answered"
               /\ orders[i].item = Item(orders[i].by)
               /\ orders[i].qty = Quantity(orders[i].by)
    <3>1. orders[i] \in Order
      BY <1>1 DEF IInv, TypeOK
    <3> QED
      BY <1>1, <3>1 DEF IInv, BookInv, Order
  <2> QED
    BY <2>1, <2>2 DEF OrdersRespectPolicy
<1> QED
  BY <1>1, Invariance, PTL

\* The lock held across the write means a twin order is never confirmed twice.
THEOREM TwinsAreUnconfirmed == Spec => []TwinsNeedAnUnconfirmedWrite
<1>1. ASSUME IInv PROVE TwinsNeedAnUnconfirmedWrite
  <2>1. \A i \in DOMAIN orders : orders[i].by \in Calls /\ reply[orders[i].by] = i
    <3>1. \A i \in DOMAIN orders : orders[i] \in Order
      BY <1>1 DEF IInv, TypeOK
    <3> QED
      BY <1>1, <3>1 DEF IInv, BookInv, Order
  <2> QED
    BY <1>1, <2>1 DEF IInv, ConfirmedInv, TwinsNeedAnUnconfirmedWrite
<1> QED
  BY <1>1, Invariance, PTL

\* The buyer's total counts no order twice.
THEOREM ReportCountsOnce == Spec => []NoOrderCountedTwice
<1>1. ASSUME IInv PROVE NoOrderCountedTwice
  <2>1. ASSUME NEW i \in DOMAIN audit, audit[i].outcome = "created"
        PROVE  /\ audit[i].order \in DOMAIN orders
               /\ orders[audit[i].order].by = audit[i].by
    <3> DEFINE c == audit[i].by
    <3>1. c \in Calls
      <4>1. audit[i] \in Line
        BY <1>1 DEF IInv, TypeOK
      <4> QED
        BY <4>1 DEF Line
    <3>2. outcome[c] = "created" /\ audit[i].order = response[c]
      BY <1>1, <2>1 DEF IInv, TrailInv, AuditLine
    <3> QED
      BY <1>1, <3>1, <3>2 DEF IInv, OutcomeInv, BookInv
  <2> QED
    BY <1>1, <2>1 DEF IInv, TrailInv, NoOrderCountedTwice
<1> QED
  BY <1>1, Invariance, PTL

\* What the trail says was ordered, StoreLink holds, in the quantity and for the
\* trading date of the call it was reported to.
THEOREM TrailIsTrue == Spec => []TrailMatchesOrderBook
<1>1. ASSUME IInv PROVE TrailMatchesOrderBook
  <2> SUFFICES ASSUME NEW i \in DOMAIN audit, audit[i].outcome \in {"created", "duplicate"}
               PROVE  LET line == audit[i]
                          o == orders[line.order]
                      IN  /\ line.order \in DOMAIN orders
                          /\ line.outcome = "created" => o.by = line.by
                          /\ o.item = Item(line.by)
                          /\ o.qty = Quantity(line.by)
                          /\ date[o.by] = date[line.by]
    BY DEF TrailMatchesOrderBook
  <2> DEFINE c == audit[i].by
             n == audit[i].order
             d == orders[n].by
  <2>1. c \in Calls
    <3>1. audit[i] \in Line
      BY <1>1 DEF IInv, TypeOK
    <3> QED
      BY <3>1 DEF Line
  <2>2. outcome[c] = audit[i].outcome /\ n = response[c]
    BY <1>1 DEF IInv, TrailInv, AuditLine
  <2>3. n \in DOMAIN orders /\ (audit[i].outcome = "created" => d = c)
    BY <1>1, <2>1, <2>2 DEF IInv, OutcomeInv, BookInv, ReplayInv
  <2>4. KeyOf(d) = KeyOf(c)
    BY <1>1, <2>1, <2>2, <2>3 DEF IInv, ReplayInv
  <2>5. orders[n].item = Item(d) /\ orders[n].qty = Quantity(d)
    BY <1>1, <2>3 DEF IInv, BookInv
  <2>6. Item(d) = Item(c) /\ Quantity(d) = Quantity(c) /\ date[d] = date[c]
    BY <2>4, KeysAreInjective DEF KeyOf
  <2> QED
    BY <2>3, <2>5, <2>6
<1> QED
  BY <1>1, Invariance, PTL

\* Whatever the interleaving, no process gives two answers for one key.
THEOREM OneAnswerPerKey == Spec => []CallersAgree
<1>1. IInv => CallersAgree
  BY DEF IInv
<1> QED
  BY <1>1, Invariance, PTL

\* A caller is answered in the step that writes its line, so it holds no result
\* that the trail does not.
THEOREM AnswersAreAudited == Spec => []ResultsAreAudited
<1>1. IInv => ResultsAreAudited
  BY DEF IInv
<1> QED
  BY <1>1, Invariance, PTL

\* With nothing gone wrong and nothing under way, the trail reports every order
\* StoreLink holds: its caller was answered, it can only have been told of its own
\* order, and what it was told is in the trail.
THEOREM QuietReport == Spec => []QuietReportIsComplete
<1>1. ASSUME IInv PROVE QuietReportIsComplete
  <2> SUFFICES ASSUME \A c \in Calls : pc[c] \in {"idle", "returned", "refused"},
                      NEW n \in DOMAIN orders
               PROVE  \E i \in DOMAIN audit : audit[i].outcome = "created" /\ audit[i].order = n
    BY DEF QuietReportIsComplete
  <2> DEFINE c == orders[n].by
  <2>1. c \in Calls /\ wire[c] = "answered" /\ reply[c] = n
    <3>1. orders[n] \in Order
      BY <1>1 DEF IInv, TypeOK
    <3> QED
      BY <1>1, <3>1 DEF IInv, BookInv, Order
  <2>2. pc[c] \in {"returned", "refused"}
    BY <1>1, <2>1 DEF IInv, GateInv
  <2>3. outcome[c] = "created"
    BY <1>1, <2>1, <2>2 DEF IInv, AnswerInv
  <2>4. response[c] = n
    BY <1>1, <2>1, <2>3 DEF IInv, OutcomeInv
  <2>5. PICK i \in DOMAIN audit : audit[i] = AuditLine(c)
    BY <1>1, <2>1, <2>2 DEF IInv, ResultsAreAudited
  <2> QED
    BY <2>3, <2>4, <2>5 DEF AuditLine
<1> QED
  BY <1>1, Invariance, PTL

\* While the process lives, a recorded key keeps its first answer.
THEOREM RecordedKeysStay == Spec => RecordedKeysAreStable
<1>1. ASSUME IInv, [Next]_vars
      PROVE  boot' = boot => \A k \in DOMAIN results :
                                k \in DOMAIN results' /\ results'[k] = results[k]
  <2>1. CASE boot' = boot /\ results' = results
    BY <2>1
  <2>2. ASSUME NEW c \in Calls, RecordCreated(c)
        PROVE  \A k \in DOMAIN results : k \in DOMAIN results' /\ results'[k] = results[k]
    BY <1>1, <2>2 DEF RecordCreated, IInv, StoreInv
  <2>3. Restart => boot' # boot
    BY <1>1 DEF Restart, IInv, TypeOK
  <2> QED
    BY <1>1, <2>1, <2>2, <2>3, StoreFrame DEF IInv
<1> QED
  BY <1>1, Invariance, PTL DEF Spec, RecordedKeysAreStable
=============================================================================
