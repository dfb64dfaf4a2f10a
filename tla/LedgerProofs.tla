----------------------------- MODULE LedgerProofs -----------------------------
(***************************************************************************)
(* The tool server implements the ledger: with threads, a lock, lost       *)
(* answers, audit failures and restarts, every step of Replenishment is a  *)
(* step of OrderLedger or leaves its variables alone.                      *)
(*                                                                         *)
(* First what a caller has been told before and after a step, then one     *)
(* lemma for each kind of step, then the refinement, and what the server   *)
(* inherits through it.                                                    *)
(***************************************************************************)
EXTENDS ReplenishmentProofs

-----------------------------------------------------------------------------
(* What a caller has been told *)

\* The call has not ended, so its caller has been told nothing.
Pending(c) == pc[c] \in {"idle"} \cup Active

\* The step does not touch what the caller of this call has been told.
Untold(c) ==
    \/ Pending(c) /\ Pending(c)'
    \/ pc'[c] = pc[c] /\ outcome'[c] = outcome[c] /\ response'[c] = response[c]

Nothing == [answer |-> "nothing", order |-> 0]
AnError == [answer |-> "error", order |-> 0]

\* What a caller has been told, by the way its call stands.
LEMMA ToldNow ==
    ASSUME NEW c \in Calls
    PROVE  /\ Pending(c) => ToldOf(c) = Nothing
           /\ pc[c] \in {"failed", "raised", "lost"} => ToldOf(c) = AnError
  BY DEF ToldOf, Pending, Active, Nothing, AnError

\* The same of the state a step leads to, with the four ways a call can answer.
LEMMA ToldNext ==
    ASSUME NEW c \in Calls
    PROVE  /\ Pending(c)' => ToldOf(c)' = Nothing
           /\ pc'[c] \in {"failed", "raised", "lost"} => ToldOf(c)' = AnError
           /\ pc'[c] = "refused" => ToldOf(c)' = [answer |-> "refused", order |-> 0]
           /\ (pc'[c] = "returned" /\ outcome'[c] \in {"created", "duplicate"}) =>
                 ToldOf(c)' = [answer |-> outcome'[c], order |-> response'[c]]
           /\ (pc'[c] = "returned" /\ outcome'[c] \notin {"created", "duplicate"}) =>
                 ToldOf(c)' = [answer |-> "other", order |-> 0]
  BY DEF ToldOf, Pending, Active, Nothing, AnError

\* A caller whose call goes on, or is not the one that moved, is told nothing new.
LEMMA ToldKept ==
    ASSUME NEW c \in Calls, Untold(c)
    PROVE  ToldOf(c)' = ToldOf(c)
<1>1. CASE Pending(c) /\ Pending(c)'
  BY <1>1, ToldNow, ToldNext
<1>2. CASE pc'[c] = pc[c] /\ outcome'[c] = outcome[c] /\ response'[c] = response[c]
  BY <1>2 DEF ToldOf
<1> QED
  BY <1>1, <1>2 DEF Untold

\* A step about which no caller learns anything leaves what was told as it was.
LEMMA NobodyTold ==
    ASSUME \A d \in Calls : Untold(d)
    PROVE  [d \in Calls |-> ToldOf(d)'] = [d \in Calls |-> ToldOf(d)]
  BY ToldKept

\* A step that ends one call tells its caller alone.
LEMMA OneTold ==
    ASSUME NEW c \in Calls, \A d \in Calls \ {c} : Untold(d)
    PROVE  [d \in Calls |-> ToldOf(d)'] =
              [[d \in Calls |-> ToldOf(d)] EXCEPT ![c] = ToldOf(c)']
  BY ToldKept

\* What the calls ask for.
Asked == [c \in Calls |-> Item(c)]

\* No step changes what a call asks for.
LEMMA AskedKept ==
    ASSUME TypeOK, [Next]_vars
    PROVE  Asked' = Asked
  BY KeyFrame DEF KeyKept, Asked, Item

\* A pending call is silent in the ledger.
LEMMA PendingIsSilent ==
    ASSUME NEW c \in Calls, Pending(c)
    PROVE  Ledger!Silent(c)
  BY ToldNow DEF Ledger!Silent, Nothing

-----------------------------------------------------------------------------
(* One lemma for each kind of step *)

\* A step that leaves the book, the store and every answer alone is invisible.
LEMMA Stutter ==
    ASSUME UNCHANGED <<Asked, orders, results>>, \A d \in Calls : Untold(d)
    PROVE  UNCHANGED Ledger!ledgerVars
  BY NobodyTold DEF Ledger!ledgerVars, Asked

\* A call that ends in an error, or with something that is not an order.
LEMMA PlainAnswer ==
    ASSUME UNCHANGED <<Asked, orders, results>>, NEW c \in Calls, Pending(c),
           \A d \in Calls \ {c} : Untold(d),
           NEW answer \in {"error", "other"},
           ToldOf(c)' = [answer |-> answer, order |-> 0]
    PROVE  Ledger!Answer(c)
  BY OneTold, PendingIsSilent DEF Ledger!Answer, Ledger!Tell, Asked

\* StoreLink's acceptance places an order: the call that sent it may have ended in
\* an error, but was given no order, and crossed the threshold on a reading.
LEMMA AcceptPlaces ==
    ASSUME IInv, UNCHANGED Asked, NEW c \in Calls, AcceptOrder(c)
    PROVE  Ledger!Place(c, Quantity(c)) /\ Quantity(c) \in OrderQuantities
<1>1. /\ wire[c] = "sent"
      /\ orders' = Append(orders, [item |-> Item(c), qty |-> Quantity(c), by |-> c])
      /\ UNCHANGED <<pc, outcome, response, results>>
  BY DEF AcceptOrder, locals, store
<1>2. ToldOf(c) \in {Nothing, AnError}
  <2>1. outcome[c] # "created"
    BY <1>1, NoOrderYet DEF IInv, OutcomeInv
  <2>2. outcome[c] = "none"
    BY <1>1, <2>1 DEF IInv, AnswerInv
  <2>3. pc[c] \notin {"returned", "refused"}
    BY <2>2 DEF IInv, AnswerInv
  <2>4. pc[c] \in Places
    BY DEF IInv, TypeOK
  <2> QED
    BY <2>3, <2>4, ToldNow DEF Places, Ended, Pending
<1>3. \A i \in DOMAIN orders : orders[i].by # c
  BY <1>1 DEF IInv, BookInv
<1>4. Assess(reading[c]) = "order_required" /\ reading[c] \in StockPosition
  BY <1>1 DEF IInv, GateInv, TypeOK
<1>5. Quantity(c) > 6
  BY <1>4, OrderIsTheGap DEF Quantity
<1>6. Quantity(c) \in OrderQuantities
  <2>1. Assess(Unmeasured) = "not_stocked"
    BY DEF Assess, Unmeasured
  <2>2. reading[c] \in Readings
    BY <1>4, <2>1 DEF IInv, ReadingInv
  <2> QED
    BY <1>4, <2>2 DEF OrderQuantities, Quantity
<1>7. [d \in Calls |-> ToldOf(d)'] = [d \in Calls |-> ToldOf(d)]
  BY <1>1, NobodyTold DEF Untold
<1> QED
  BY <1>1, <1>2, <1>3, <1>5, <1>6, <1>7 DEF Ledger!Place, Asked, Nothing, AnError

\* Recording the answer vouches for the call's own order, under a key the lock
\* has kept out of the store.
LEMMA RecordVouches ==
    ASSUME IInv, UNCHANGED Asked, NEW c \in Calls, RecordCreated(c)
    PROVE  Ledger!Vouch(c, reply[c], date[c]) /\ reply[c] \in DOMAIN orders
<1>1. /\ pc[c] = "posting" /\ pc' = [pc EXCEPT ![c] = "auditing"]
      /\ reply[c] > 0
      /\ outcome' = [outcome EXCEPT ![c] = "created"]
      /\ response' = [response EXCEPT ![c] = reply[c]]
      /\ results' = [k \in DOMAIN results \cup {KeyOf(c)} |->
                        IF k = KeyOf(c) THEN reply[c] ELSE results[k]]
      /\ orders' = orders
  BY DEF RecordCreated, Goto, storelink
<1>2. reply[c] \in DOMAIN orders /\ orders[reply[c]].by = c
  BY <1>1 DEF IInv, BookInv
<1>3. Ledger!Key(reply[c], date[c]) = KeyOf(c)
  BY <1>2 DEF IInv, BookInv, Ledger!Key, KeyOf, ReplenishmentIdempotencyKey
<1>4. KeyOf(c) \notin DOMAIN results
  BY <1>1 DEF IInv, StoreInv
<1>5. \A d \in Calls : Untold(d)
  BY <1>1 DEF Untold, Pending, Active, IInv, TypeOK
<1>6. [d \in Calls |-> ToldOf(d)'] = [d \in Calls |-> ToldOf(d)]
  BY <1>5, NobodyTold
<1>7. Ledger!Silent(c)
  BY <1>1, PendingIsSilent DEF Pending, Active
<1> QED
  BY <1>1, <1>2, <1>3, <1>4, <1>6, <1>7 DEF Ledger!Vouch, Asked

\* Writing the line answers the caller: with the order the store holds under its
\* key, its own as created and another's as a replay, with a refusal, or plainly.
LEMMA AuditAnswers ==
    ASSUME IInv, UNCHANGED Asked, NEW c \in Calls, RecordAudit(c)
    PROVE  \/ \E k \in DOMAIN results : Ledger!GiveOrder(c, k)
           \/ Ledger!Refuse(c)
           \/ Ledger!Answer(c)
<1>1. /\ pc[c] = "auditing"
      /\ UNCHANGED <<outcome, response, orders, results>>
      /\ \A d \in Calls \ {c} : pc'[d] = pc[d]
      /\ \/ pc'[c] = IF outcome[c] = "refused" THEN "refused" ELSE "returned"
         \/ pc'[c] = "raised"
  BY DEF RecordAudit, Goto, locals, store, storelink, IInv, TypeOK
<1>2. Pending(c) /\ Ledger!Silent(c) /\ \A d \in Calls \ {c} : Untold(d)
  BY <1>1, PendingIsSilent DEF Pending, Active, Untold
<1>3. [d \in Calls |-> ToldOf(d)'] =
         [[d \in Calls |-> ToldOf(d)] EXCEPT ![c] = ToldOf(c)']
  BY <1>2, OneTold
<1>4. outcome[c] \in {"refused", "duplicate"} => \A i \in DOMAIN orders : orders[i].by # c
  BY DEF IInv, BookInv, AnswerInv
<1>5. CASE pc'[c] = "raised"
  BY <1>1, <1>2, <1>5, ToldNext, PlainAnswer DEF AnError
<1>6. CASE pc'[c] # "raised" /\ outcome[c] = "refused"
  <2>1. ToldOf(c)' = [answer |-> "refused", order |-> 0]
    BY <1>1, <1>6, ToldNext
  <2> QED
    BY <1>1, <1>2, <1>3, <1>4, <1>6, <2>1 DEF Ledger!Refuse, Ledger!Tell, Asked
<1>7. CASE pc'[c] # "raised" /\ outcome[c] \in {"created", "duplicate"}
  <2> DEFINE k == KeyOf(c)
  <2>1. ToldOf(c)' = [answer |-> outcome[c], order |-> response[c]]
    BY <1>1, <1>7, ToldNext
  <2>2. k \in DOMAIN results /\ results[k] = response[c]
    BY <1>1, <1>7 DEF IInv, StoreInv, EpochInv, OutcomeInv, ReplayHeldInv, Active
  <2>3. outcome[c] = IF orders[results[k]].by = c THEN "created" ELSE "duplicate"
    <3>1. CASE outcome[c] = "created"
      BY <2>2, <3>1 DEF IInv, OutcomeInv, BookInv
    <3>2. CASE outcome[c] = "duplicate"
      BY <1>4, <2>2, <3>2 DEF IInv, StoreInv
    <3> QED
      BY <1>7, <3>1, <3>2
  <2>4. k.item = Item(c)
    BY DEF KeyOf, ReplenishmentIdempotencyKey
  <2> HIDE DEF k
  <2>5. Ledger!GiveOrder(c, k)
    BY <1>1, <1>2, <1>3, <2>1, <2>2, <2>3, <2>4 DEF Ledger!GiveOrder, Ledger!Tell, Asked
  <2> QED
    BY <2>2, <2>5
<1>8. CASE pc'[c] # "raised" /\ outcome[c] \notin {"refused", "created", "duplicate"}
  BY <1>1, <1>2, <1>8, ToldNext, PlainAnswer
<1> QED
  BY <1>5, <1>6, <1>7, <1>8

\* A restart forgets the store and fails every call under way.
LEMMA RestartForgets ==
    ASSUME IInv, UNCHANGED Asked, Restart
    PROVE  Ledger!Forget({c \in Calls : pc[c] \in Active})
<1> DEFINE failing == {c \in Calls : pc[c] \in Active}
<1>1. /\ results' = [k \in {} |-> 0]
      /\ UNCHANGED <<orders, outcome, response>>
      /\ \A c \in Calls : pc'[c] = IF c \in failing THEN "lost" ELSE pc[c]
  BY DEF Restart, locals, storelink
<1>2. \A c \in failing : Ledger!Silent(c)
  BY PendingIsSilent DEF Pending
<1>3. \A c \in Calls : ToldOf(c)' = IF c \in failing THEN AnError ELSE ToldOf(c)
  BY <1>1, ToldNext, ToldKept DEF Untold
<1> QED
  BY <1>1, <1>2, <1>3 DEF Ledger!Forget, Asked, AnError

\* A call that ends without a record is told of an error.
LEMMA ErrorAnswers ==
    ASSUME IInv, NEW c \in Calls, Pending(c),
           UNCHANGED <<Asked, outcome, response, orders, results>>,
           NEW to \in {"failed", "raised"}, pc' = [pc EXCEPT ![c] = to]
    PROVE  Ledger!Answer(c)
<1>1. pc'[c] = to /\ \A d \in Calls \ {c} : Untold(d)
  BY DEF Untold, IInv, TypeOK
<1>2. ToldOf(c)' = AnError
  BY <1>1, ToldNext
<1> QED
  BY <1>1, <1>2, PlainAnswer DEF AnError

-----------------------------------------------------------------------------
(* The refinement *)

\* A process that has just started is an empty ledger.
LEMMA InitRefines == Init => Ledger!LedgerInit
<1> SUFFICES ASSUME Init PROVE Ledger!LedgerInit
  OBVIOUS
<1>1. \A c \in Calls : ToldOf(c) = Nothing
  BY ToldNow DEF Init, Pending
<1> QED
  BY <1>1 DEF Init, Ledger!LedgerInit, Item, Nothing

\* Every step of the server is a step of the ledger, or invisible in it.
LEMMA NextRefines ==
    ASSUME IInv, [Next]_vars
    PROVE  [Ledger!LedgerNext]_(Ledger!ledgerVars)
<1> USE DEF Goto, locals, store, storelink, world
<1> DEFINE Invisible == UNCHANGED Ledger!ledgerVars
           Quiet == UNCHANGED <<orders, results>> /\ \A d \in Calls : Untold(d)
<1>0. Asked' = Asked
  BY AskedKept DEF IInv
<1>1. Quiet => Invisible
  BY <1>0, Stutter
<1>2. ASSUME NEW c \in Calls, Begin(c) PROVE Quiet
  BY <1>2 DEF Begin, Untold, Pending, Active, IInv, TypeOK
<1>3. ASSUME NEW c \in Calls, NEW p \in Readings, CheckStockPosition(c, p) PROVE Quiet
  BY <1>3 DEF CheckStockPosition, Untold, Pending, Active, IInv, TypeOK
<1>4. ASSUME NEW c \in Calls, NEW p \in Readings, RefuseOrder(c, p) PROVE Quiet
  BY <1>4 DEF RefuseOrder, Untold, Pending, Active, IInv, TypeOK
<1>5. ASSUME NEW c \in Calls, NEW p \in Readings, RequireOrder(c, p) PROVE Quiet
  BY <1>5 DEF RequireOrder, Untold, Pending, Active, IInv, TypeOK
<1>6. ASSUME NEW c \in Calls, NEW id \in DOMAIN orders, GetReplenishmentOrderStatus(c, id)
      PROVE  Quiet
  BY <1>6 DEF GetReplenishmentOrderStatus, Untold, Pending, Active, IInv, TypeOK
<1>7. ASSUME NEW c \in Calls, ReplayRecorded(c) PROVE Quiet
  BY <1>7 DEF ReplayRecorded, Untold, Pending, Active, IInv, TypeOK
<1>8. ASSUME NEW c \in Calls, PostOrder(c) PROVE Quiet
  BY <1>8 DEF PostOrder, Untold, Pending, Active, IInv, TypeOK
<1>9. ASSUME NEW c \in Calls, RejectOrder(c) PROVE Quiet
  BY <1>9 DEF RejectOrder, Untold
<1>10. CASE Midnight
  BY <1>1, <1>10 DEF Midnight, Untold
<1>11. CASE UNCHANGED vars
  BY <1>1, <1>11 DEF vars, Untold
<1>12. ASSUME NEW c \in Calls,
              \/ ReadFails(c)
              \/ \E p \in Readings : StockRecordError(c, p)
              \/ OrderUnconfirmed(c)
              \/ AnswerUnusable(c)
              \/ AuditFails(c)
       PROVE  Ledger!Answer(c)
  <2>1. /\ Pending(c)
        /\ UNCHANGED <<outcome, response, orders, results>>
        /\ \E to \in {"failed", "raised"} : pc' = [pc EXCEPT ![c] = to]
    BY <1>12 DEF ReadFails, StockRecordError, OrderUnconfirmed, AnswerUnusable, AuditFails,
       Pending, Active
  <2> QED
    BY <1>0, <2>1, ErrorAnswers
<1>13. ASSUME NEW c \in Calls, AcceptOrder(c) PROVE Ledger!LedgerNext
  BY <1>0, <1>13, AcceptPlaces DEF Ledger!LedgerNext
<1>14. ASSUME NEW c \in Calls, RecordCreated(c) PROVE Ledger!LedgerNext
  <2>1. date[c] \in 0..LastDay
    BY DEF IInv, TypeOK
  <2> QED
    BY <1>0, <1>14, <2>1, RecordVouches DEF Ledger!LedgerNext
<1>15. ASSUME NEW c \in Calls, RecordAudit(c) PROVE Ledger!LedgerNext
  BY <1>0, <1>15, AuditAnswers DEF Ledger!LedgerNext
<1>16. CASE Restart
  <2>1. {c \in Calls : pc[c] \in Active} \in SUBSET Calls
    OBVIOUS
  <2> QED
    BY <1>0, <1>16, <2>1, RestartForgets DEF Ledger!LedgerNext
<1>17. ASSUME NEW c \in Calls, Ledger!Answer(c) PROVE Ledger!LedgerNext
  BY <1>17 DEF Ledger!LedgerNext
<1> HIDE DEF Invisible, Quiet
<1>18. CASE \E c \in Calls : Begin(c) \/ Work(c) \/ AcceptOrder(c) \/ RejectOrder(c)
  BY <1>1, <1>2, <1>3, <1>4, <1>5, <1>6, <1>7, <1>8, <1>9, <1>12, <1>13, <1>14, <1>15, <1>17,
     <1>18 DEF Work, Measure, Invisible
<1> QED
  BY <1>10, <1>11, <1>16, <1>18 DEF Next, Finished, Invisible

\* Threads, the lock, lost answers, audit failures and restarts together keep the
\* promise of the ledger: an order is vouched for at most once for its item,
\* quantity and date, and a caller told of an order is told of one vouched for.
THEOREM Refinement == Spec => ImplementsLedger
<1>1. Init => Ledger!LedgerInit
  BY InitRefines
<1>2. IInv /\ [Next]_vars => [Ledger!LedgerNext]_(Ledger!ledgerVars)
  BY NextRefines
<1> QED
  BY <1>1, <1>2, Invariance, PTL DEF Spec, ImplementsLedger, Ledger!LedgerSpec

-----------------------------------------------------------------------------
(* What the server inherits *)

\* The ledger with its theorem, under the mapping of the refinement.
Proved == INSTANCE OrderLedgerProofs WITH
    Quantities <- OrderQuantities,
    Dates <- 0..LastDay,
    asked <- [c \in Calls |-> Item(c)],
    ledger <- orders,
    vouched <- results,
    told <- [c \in Calls |-> ToldOf(c)]

\* The two instances are one ledger: they start and step alike, and say the same
\* of callers.
LEMMA SameLedger ==
    /\ Ledger!LedgerInit => Proved!LedgerInit
    /\ [Ledger!LedgerNext]_(Ledger!ledgerVars) => [Proved!LedgerNext]_(Proved!ledgerVars)
    /\ Proved!ToldIsTrue => Ledger!ToldIsTrue
<1>1. Ledger!LedgerInit => Proved!LedgerInit
  BY DEF Ledger!LedgerInit, Proved!LedgerInit
<1>2. [Ledger!LedgerNext]_(Ledger!ledgerVars) => [Proved!LedgerNext]_(Proved!ledgerVars)
  BY DEF Ledger!LedgerNext, Proved!LedgerNext, Ledger!ledgerVars, Proved!ledgerVars,
     Ledger!Place, Proved!Place, Ledger!Vouch, Proved!Vouch,
     Ledger!GiveOrder, Proved!GiveOrder, Ledger!Refuse, Proved!Refuse,
     Ledger!Answer, Proved!Answer, Ledger!Forget, Proved!Forget,
     Ledger!Key, Proved!Key, Ledger!Silent, Proved!Silent, Ledger!Tell, Proved!Tell
<1>3. Proved!ToldIsTrue => Ledger!ToldIsTrue
  BY DEF Ledger!ToldIsTrue, Proved!ToldIsTrue
<1> QED
  BY <1>1, <1>2, <1>3

\* Callers of the server are told the truth because callers of the ledger are: an
\* order a call was given exists, is of its item, and is its own exactly when it was
\* called new, and a refused call never has an order.
THEOREM CallersToldTheTruth == Spec => []CallersAreToldTheTruth
<1>1. Spec => Ledger!LedgerSpec
  BY Refinement DEF ImplementsLedger
<1>2. Proved!LedgerSpec =>
         [](Proved!OrdersAreSound /\ Proved!VouchedIsTrue /\ Proved!ToldIsTrue)
  BY Proved!LedgerIsTrue
<1>3. Ledger!LedgerInit => Proved!LedgerInit
  BY SameLedger
<1>4. [Ledger!LedgerNext]_(Ledger!ledgerVars) => [Proved!LedgerNext]_(Proved!ledgerVars)
  BY SameLedger
<1>5. Proved!ToldIsTrue => Ledger!ToldIsTrue
  BY SameLedger
<1> QED
  BY <1>1, <1>2, <1>3, <1>4, <1>5, PTL
     DEF CallersAreToldTheTruth, Ledger!LedgerSpec, Proved!LedgerSpec
=============================================================================
