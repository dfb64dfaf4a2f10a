---------------------------- MODULE Replenishment ----------------------------
(***************************************************************************)
(* The tool server at work: concurrent tool calls, each run to its end by  *)
(* a worker thread through BuyerService, one IdempotencyStore whose lock   *)
(* is held across the write, StoreLink on the far side of an unreliable    *)
(* connection, and the audit trail.                                        *)
(*                                                                         *)
(* A call is named by its correlation identifier, so a caller's retry is   *)
(* another call for the same item.  StoreLink numbers the orders it        *)
(* accepts; the position of an order in `orders' is its identifier.        *)
(* A definition marked Variant is a fault the checks are tried against; no *)
(* specification uses it.                                                  *)
(***************************************************************************)
EXTENDS Policy, Sequences

CONSTANTS
    Calls,      \* correlation identifiers of the tool calls
    Items,      \* store and product pairs callers may name
    Readings,   \* positions a measurement may return
    Faults,     \* what may go wrong: see FaultsAssumption
    NoCall,     \* "nobody": the owner of a lock that is free
    LastDay,    \* bound: the day on which the model stops turning midnights
    MaxCrashes  \* bound: how many times the process may die and restart

ASSUME CallsAssumption == NoCall \notin Calls
ASSUME ReadingsAssumption == Readings \subseteq StockPosition
ASSUME FaultsAssumption ==
    Faults \subseteq {"unanswered",  \* no answer in time, or one with an error status
                      "rejected",    \* StoreLink refuses a write (401 and the like)
                      "unusable",    \* a success status whose body is not an object
                      "audit",       \* the append to the trail raises
                      "log",         \* a log line raises: see LogRaces
                      "crash"}       \* the process dies and is restarted
ASSUME BoundsAssumption == LastDay \in Nat /\ MaxCrashes \in Nat

Tools == {"check_stock_position", "raise_replenishment_order",
          "get_replenishment_order_status"}

Ended == {"returned",  \* the caller has a result
          "refused",   \* a typed refusal, after its audit record
          "failed",    \* any other DuvoError, so a ToolError
          "raised",    \* an exception that is not a DuvoError
          "lost"}      \* the process died under the call
Active == {"measuring", "locking", "posting", "auditing"}

Unmeasured == [on_hand |-> NotRanged, sold |-> 0]

VARIABLES
    args,      \* the arguments of each call: a tool and an item
    pc,        \* where each call is
    reading,   \* the position each call measured
    date,      \* the ordering date each call computed
    outcome,   \* the outcome each call will report
    response,  \* the order identifier each call holds; 0 for none
    epoch,     \* the process incarnation each call runs in
    lock,      \* the call that holds IdempotencyStore._lock, or NoCall
    results,   \* IdempotencyStore._results: key to order identifier
    wire,      \* each call's POST: none, sent, answered
    reply,     \* the order StoreLink answered that POST with; 0 for none
    orders,    \* StoreLink's order book
    audit,     \* the audit trail, in write order
    today,     \* the trading day
    boot       \* the current process incarnation

locals == <<args, reading, date, outcome, response, epoch>>
store == <<lock, results>>
storelink == <<wire, reply, orders>>
world == <<today, boot>>
vars == <<args, pc, reading, date, outcome, response, epoch, lock, results,
          wire, reply, orders, audit, today, boot>>

Tool(c) == args[c].tool
Item(c) == args[c].item
Quantity(c) == OrderQuantity(reading[c])
KeyOf(c) == ReplenishmentIdempotencyKey(Item(c), Quantity(c), date[c])

Init ==
    /\ args \in [Calls -> [tool : Tools, item : Items]]
    /\ pc = [c \in Calls |-> "idle"]
    /\ reading = [c \in Calls |-> Unmeasured]
    /\ date = [c \in Calls |-> 0]
    /\ outcome = [c \in Calls |-> "none"]
    /\ response = [c \in Calls |-> 0]
    /\ epoch = [c \in Calls |-> 0]
    /\ lock = NoCall
    /\ results = [k \in {} |-> 0]
    /\ wire = [c \in Calls |-> "none"]
    /\ reply = [c \in Calls |-> 0]
    /\ orders = <<>>
    /\ audit = <<>>
    /\ today = 0
    /\ boot = 0

Goto(c, to) == pc' = [pc EXCEPT ![c] = to]

\* A call logs as it arrives, after each exchange with StoreLink, with the audit
\* line and as it ends.  The filter of a log line iterates over the registry of
\* secrets; it raises, and not a DuvoError, if another call registers a store's
\* key meanwhile, which a call does before a read and before its write.
LogRaces(c) ==
    /\ "log" \in Faults
    /\ \E d \in Calls \ {c} : pc[d] = "measuring" \/ (pc[d] = "locking" /\ lock = NoCall)

(***************************************************************************)
(* A call arrives, and measures.  A measurement is four reads that change  *)
(* nothing here, so it is one step, and StoreLink's figures may be         *)
(* anything in Readings each time.                                         *)
(***************************************************************************)
Begin(c) ==
    /\ pc[c] = "idle"
    /\ Goto(c, "measuring")
    /\ epoch' = [epoch EXCEPT ![c] = boot]
    /\ UNCHANGED <<args, reading, date, outcome, response, store, storelink, audit, world>>

\* An invalid argument, a missing credential, an unknown identifier or an
\* upstream failure is a DuvoError; a body without the expected fields is not.
ReadFails(c) ==
    /\ pc[c] = "measuring"
    /\ \/ Goto(c, "failed")
       \/ ("unusable" \in Faults \/ LogRaces(c)) /\ Goto(c, "raised")
    /\ UNCHANGED <<locals, store, storelink, audit, world>>

\* assess() raises on a negative quantity on hand, whichever tool measured it.
StockRecordError(c, p) ==
    /\ pc[c] = "measuring"
    /\ Tool(c) # "get_replenishment_order_status"
    /\ Assess(p) = "stock_record_error"
    /\ Goto(c, "failed")
    /\ UNCHANGED <<locals, store, storelink, audit, world>>

CheckStockPosition(c, p) ==
    /\ pc[c] = "measuring"
    /\ Tool(c) = "check_stock_position"
    /\ Assess(p) # "stock_record_error"
    /\ reading' = [reading EXCEPT ![c] = p]
    /\ outcome' = [outcome EXCEPT ![c] = Assess(p)]
    /\ Goto(c, "auditing")
    /\ UNCHANGED <<args, date, response, epoch, store, storelink, audit, world>>

RefuseOrder(c, p) ==
    /\ pc[c] = "measuring"
    /\ Tool(c) = "raise_replenishment_order"
    /\ Assess(p) \in {"not_stocked", "no_order_required"}
    /\ reading' = [reading EXCEPT ![c] = p]
    /\ outcome' = [outcome EXCEPT ![c] = "refused"]
    /\ Goto(c, "auditing")
    /\ UNCHANGED <<args, date, response, epoch, store, storelink, audit, world>>

\* The key is settled here, before the lock is waited for.
RequireOrder(c, p) ==
    /\ pc[c] = "measuring"
    /\ Tool(c) = "raise_replenishment_order"
    /\ Assess(p) = "order_required"
    /\ reading' = [reading EXCEPT ![c] = p]
    /\ date' = [date EXCEPT ![c] = today]
    /\ Goto(c, "locking")
    /\ UNCHANGED <<args, outcome, response, epoch, store, storelink, audit, world>>

\* StoreLink finds the order by store and order identifier, whatever its product.
\* An item is both, so here any order may be the one: the model does not tell the
\* items of one store from those of another, and a lookup that misses is ReadFails.
GetReplenishmentOrderStatus(c, id) ==
    /\ pc[c] = "measuring"
    /\ Tool(c) = "get_replenishment_order_status"
    /\ outcome' = [outcome EXCEPT ![c] = "found"]
    /\ response' = [response EXCEPT ![c] = id]
    /\ Goto(c, "auditing")
    /\ UNCHANGED <<args, reading, date, epoch, store, storelink, audit, world>>

(***************************************************************************)
(* IdempotencyStore.execute around create_replenishment_order.             *)
(***************************************************************************)

\* Variant: the replay flag is lost on the way to the report.
ReplayRecorded_AsCreated(c) ==
    /\ pc[c] = "locking"
    /\ lock = NoCall
    /\ KeyOf(c) \in DOMAIN results
    /\ outcome' = [outcome EXCEPT ![c] = "created"]
    /\ response' = [response EXCEPT ![c] = results[KeyOf(c)]]
    /\ Goto(c, "auditing")
    /\ UNCHANGED <<args, reading, date, epoch, store, storelink, audit, world>>

\* The key is in the store: the lock is taken and given back in one step.
ReplayRecorded(c) ==
    /\ pc[c] = "locking"
    /\ lock = NoCall
    /\ KeyOf(c) \in DOMAIN results
    /\ outcome' = [outcome EXCEPT ![c] = "duplicate"]
    /\ response' = [response EXCEPT ![c] = results[KeyOf(c)]]
    /\ Goto(c, "auditing")
    /\ UNCHANGED <<args, reading, date, epoch, store, storelink, audit, world>>

\* Variant: membership checked without holding the lock.
PostOrder_Unlocked(c) ==
    /\ pc[c] = "locking"
    /\ KeyOf(c) \notin DOMAIN results
    /\ lock' = c
    /\ wire' = [wire EXCEPT ![c] = "sent"]
    /\ Goto(c, "posting")
    /\ UNCHANGED <<locals, results, reply, orders, audit, world>>

\* The key is new: the lock is kept and the order is posted.  That the credential
\* is resolved again first, and may be missing, comes to the same for everybody as a
\* request that StoreLink never accepts (OrderUnconfirmed).
PostOrder(c) ==
    /\ pc[c] = "locking"
    /\ lock = NoCall
    /\ KeyOf(c) \notin DOMAIN results
    /\ lock' = c
    /\ wire' = [wire EXCEPT ![c] = "sent"]
    /\ Goto(c, "posting")
    /\ UNCHANGED <<locals, results, reply, orders, audit, world>>

\* Variant: the order is reported but its key is not recorded.
RecordCreated_Unrecorded(c) ==
    /\ pc[c] = "posting"
    /\ wire[c] = "answered"
    /\ reply[c] > 0
    /\ lock' = NoCall
    /\ outcome' = [outcome EXCEPT ![c] = "created"]
    /\ response' = [response EXCEPT ![c] = reply[c]]
    /\ Goto(c, "auditing")
    /\ UNCHANGED <<args, reading, date, epoch, results, storelink, audit, world>>

\* A usable answer: recorded under the key, and the lock given back.
RecordCreated(c) ==
    /\ pc[c] = "posting"
    /\ wire[c] = "answered"
    /\ reply[c] > 0
    /\ results' = [k \in DOMAIN results \cup {KeyOf(c)} |->
                      IF k = KeyOf(c) THEN reply[c] ELSE results[k]]
    /\ lock' = NoCall
    /\ outcome' = [outcome EXCEPT ![c] = "created"]
    /\ response' = [response EXCEPT ![c] = reply[c]]
    /\ Goto(c, "auditing")
    /\ UNCHANGED <<args, reading, date, epoch, storelink, audit, world>>

\* Variant: an unanswered write is sent again.
OrderUnconfirmed_Retry(c) ==
    /\ pc[c] = "posting"
    /\ "unanswered" \in Faults
    /\ wire' = [wire EXCEPT ![c] = "sent"]
    /\ UNCHANGED <<locals, pc, store, reply, orders, audit, world>>

\* Variant: the exception leaves without giving the lock back.
OrderUnconfirmed_KeepsLock(c) ==
    /\ pc[c] = "posting"
    /\ \/ wire[c] = "answered" /\ reply[c] = 0
       \/ "unanswered" \in Faults
    /\ Goto(c, "failed")
    /\ UNCHANGED <<locals, store, storelink, audit, world>>

\* UpstreamError: StoreLink refused, or nothing usable came back in time.  The
\* request, and the order, may be out there still.  Nothing is recorded.
OrderUnconfirmed(c) ==
    /\ pc[c] = "posting"
    /\ \/ wire[c] = "answered" /\ reply[c] = 0
       \/ "unanswered" \in Faults
    /\ lock' = NoCall
    /\ Goto(c, "failed") \/ (LogRaces(c) /\ Goto(c, "raised"))
    /\ UNCHANGED <<locals, results, storelink, audit, world>>

\* On a success status response.json() or dict() raises, or the log line before
\* them does: not a DuvoError, and the order that was answered is not recorded.
AnswerUnusable(c) ==
    /\ "unusable" \in Faults \/ LogRaces(c)
    /\ pc[c] = "posting"
    /\ wire[c] = "answered"
    /\ lock' = NoCall
    /\ Goto(c, "raised")
    /\ UNCHANGED <<locals, results, storelink, audit, world>>

(***************************************************************************)
(* StoreLink.  It does not deduplicate, and it acts on a request whether   *)
(* or not anybody still waits for the answer.                              *)
(***************************************************************************)
AcceptOrder(c) ==
    /\ wire[c] = "sent"
    /\ orders' = Append(orders, [item |-> Item(c), qty |-> Quantity(c), by |-> c])
    /\ reply' = [reply EXCEPT ![c] = Len(orders) + 1]
    /\ wire' = [wire EXCEPT ![c] = "answered"]
    /\ UNCHANGED <<locals, pc, store, audit, world>>

RejectOrder(c) ==
    /\ "rejected" \in Faults
    /\ wire[c] = "sent"
    /\ wire' = [wire EXCEPT ![c] = "answered"]
    /\ UNCHANGED <<locals, pc, store, reply, orders, audit, world>>

(***************************************************************************)
(* The audit trail.                                                        *)
(***************************************************************************)
AuditLine(c) == [by |-> c, outcome |-> outcome[c], order |-> response[c]]

\* A refusal is raised only after its record; a result is returned after it.
\* With the line in the file already, closing it or logging it may still raise,
\* and so may the log line of the call's end.
RecordAudit(c) ==
    /\ pc[c] = "auditing"
    /\ audit' = Append(audit, AuditLine(c))
    /\ \/ Goto(c, IF outcome[c] = "refused" THEN "refused" ELSE "returned")
       \/ ("audit" \in Faults \/ LogRaces(c)) /\ Goto(c, "raised")
    /\ UNCHANGED <<locals, store, storelink, world>>

\* Variant: a failed append is swallowed and the result returned.
AuditFails_Swallowed(c) ==
    /\ "audit" \in Faults \/ LogRaces(c)
    /\ pc[c] = "auditing"
    /\ Goto(c, "returned")
    /\ UNCHANGED <<locals, store, storelink, audit, world>>

\* Before the line is written, opening the file may raise an OSError, and scrubbing
\* the line iterates over the registry as a log line does: neither is a DuvoError.
AuditFails(c) ==
    /\ "audit" \in Faults \/ LogRaces(c)
    /\ pc[c] = "auditing"
    /\ Goto(c, "raised")
    /\ UNCHANGED <<locals, store, storelink, audit, world>>

(***************************************************************************)
(* The world: days pass, and the process may die.                          *)
(***************************************************************************)
Midnight ==
    /\ today < LastDay
    /\ today' = today + 1
    /\ UNCHANGED <<locals, pc, store, storelink, audit, boot>>

\* Nothing is persisted but the trail: a restart is an empty store.
Restart ==
    /\ "crash" \in Faults
    /\ boot < MaxCrashes
    /\ boot' = boot + 1
    /\ pc' = [c \in Calls |-> IF pc[c] \in Active THEN "lost" ELSE pc[c]]
    /\ lock' = NoCall
    /\ results' = [k \in {} |-> 0]
    /\ UNCHANGED <<locals, storelink, audit, today>>

Measure(c) ==
    \/ ReadFails(c)
    \/ \E p \in Readings :
          \/ StockRecordError(c, p)
          \/ CheckStockPosition(c, p)
          \/ RefuseOrder(c, p)
          \/ RequireOrder(c, p)
    \/ \E id \in DOMAIN orders : GetReplenishmentOrderStatus(c, id)

\* The steps a worker thread takes once its call has arrived.
Work(c) ==
    \/ Measure(c)
    \/ ReplayRecorded(c)
    \/ PostOrder(c)
    \/ RecordCreated(c)
    \/ OrderUnconfirmed(c)
    \/ AnswerUnusable(c)
    \/ RecordAudit(c)
    \/ AuditFails(c)

\* Every call has been made and has ended: the only place to stop.
Finished ==
    /\ \A c \in Calls : pc[c] \in Ended
    /\ UNCHANGED vars

Next ==
    \/ \E c \in Calls : Begin(c) \/ Work(c) \/ AcceptOrder(c) \/ RejectOrder(c)
    \/ Midnight
    \/ Restart
    \/ Finished

Spec == Init /\ [][Next]_vars

\* Worker threads are scheduled.  Callers need not call, StoreLink need not
\* answer, and midnight and crashes are nobody's duty.
FairSpec == Spec /\ \A c \in Calls : WF_vars(Work(c))
-----------------------------------------------------------------------------
(* Properties *)

Places == {"idle"} \cup Active \cup Ended
Outcomes == {"order_required", "no_order_required", "not_stocked", "refused", "found",
             "created", "duplicate"}
Key == [item : Items, qty : Nat, date : 0..LastDay]
Order == [item : Items, qty : Nat, by : Calls]
Line == [by : Calls, outcome : Outcomes, order : Nat]

\* Every variable keeps its type; in particular the quantity of an order is a
\* natural number, so the gap was never taken the wrong way round.
TypeOK ==
    /\ args \in [Calls -> [tool : Tools, item : Items]]
    /\ pc \in [Calls -> Places]
    /\ reading \in [Calls -> StockPosition]
    /\ date \in [Calls -> 0..LastDay]
    /\ outcome \in [Calls -> Outcomes \cup {"none"}]
    /\ response \in [Calls -> Nat]
    /\ epoch \in [Calls -> 0..MaxCrashes]
    /\ lock \in Calls \cup {NoCall}
    /\ DOMAIN results \subseteq Key
    /\ \A k \in DOMAIN results : results[k] \in Nat
    /\ wire \in [Calls -> {"none", "sent", "answered"}]
    /\ reply \in [Calls -> Nat]
    /\ orders \in Seq(Order)
    /\ audit \in Seq(Line)
    /\ today \in 0..LastDay
    /\ boot \in 0..MaxCrashes

\* A write is never retried inside the server: however a POST ends, and
\* however late it arrives, one call leaves at most one order at StoreLink.
OneOrderPerCall ==
    \A i, j \in DOMAIN orders : orders[i].by = orders[j].by => i = j

\* No order, and no request still under way, escapes the rule: each belongs to
\* an order-raising call whose own measurement found a ranged product, a sane
\* stock figure and sales more than six units above it, and asks for that gap.
OrdersRespectPolicy ==
    /\ \A c \in Calls : wire[c] # "none" =>
          LET p == reading[c]
          IN  /\ Tool(c) = "raise_replenishment_order"
              /\ p.on_hand \in Nat
              /\ p.sold - p.on_hand > 6
    /\ \A i \in DOMAIN orders :
          LET c == orders[i].by
          IN  /\ wire[c] # "none"
              /\ orders[i].item = Item(c)
              /\ orders[i].qty = reading[c].sold - reading[c].on_hand

\* Two orders for one item, quantity and trading date are never both confirmed
\* by the same process: a twin exists only if one of the two writes ended
\* unconfirmed or a restart emptied the store between them.
TwinsNeedAnUnconfirmedWrite ==
    \A i, j \in DOMAIN orders :
        LET c == orders[i].by
            d == orders[j].by
        IN  (i # j /\ KeyOf(c) = KeyOf(d) /\ epoch[c] = epoch[d])
               => ~(outcome[c] = "created" /\ outcome[d] = "created")

\* A retry is safe once its write is confirmed: all calls that one process answers
\* with an order for the same item, quantity and trading date, as a new order or as
\* a replay, are answered with the same one.
CallersAgree ==
    \A c, d \in Calls :
        (/\ {outcome[c], outcome[d]} \subseteq {"created", "duplicate"}
         /\ KeyOf(c) = KeyOf(d)
         /\ epoch[c] = epoch[d])
            => response[c] = response[d]

\* The buyer's total never counts an order twice: two "created" lines of the
\* trail are about two orders, whatever retries and restarts there were.
NoOrderCountedTwice ==
    \A i, j \in DOMAIN audit :
        (audit[i].outcome = "created" /\ audit[j].outcome = "created"
            /\ audit[i].order = audit[j].order) => i = j

\* What the trail says was ordered, StoreLink holds: a "created" line names the
\* call's own order, and a "duplicate" line an order of the same item, the same
\* quantity and the same trading date as the call it answers.
TrailMatchesOrderBook ==
    \A i \in DOMAIN audit : audit[i].outcome \in {"created", "duplicate"} =>
        LET line == audit[i]
            o == orders[line.order]
        IN  /\ line.order \in DOMAIN orders
            /\ line.outcome = "created" => o.by = line.by
            /\ o.item = Item(line.by)
            /\ o.qty = Quantity(line.by)
            /\ date[o.by] = date[line.by]

\* A result a caller holds is in the trail: no tool returns before its record
\* is written, and the record names the same order.
ResultsAreAudited ==
    \A c \in Calls : pc[c] \in {"returned", "refused"} =>
        \E i \in DOMAIN audit : audit[i] = AuditLine(c)

\* When nothing went wrong and nothing is under way, the report is complete:
\* every order StoreLink holds has its "created" line.
QuietReportIsComplete ==
    (\A c \in Calls : pc[c] \in {"idle", "returned", "refused"}) =>
        \A n \in DOMAIN orders : \E i \in DOMAIN audit :
            audit[i].outcome = "created" /\ audit[i].order = n

\* While the process lives, a recorded key keeps its first answer: every later
\* replay is told of the same order.
RecordedKeysAreStable ==
    [][boot' = boot =>
         \A k \in DOMAIN results : k \in DOMAIN results' /\ results'[k] = results[k]]_vars

\* A call that has arrived ends, though every caller of the server waits on one
\* lock that is held across a network write.
EveryCallEnds == \A c \in Calls : pc[c] = "measuring" ~> pc[c] \in Ended

-----------------------------------------------------------------------------
(* What the repository says of the program and the code does not keep up.  *)

\* The tool's description promises that a caller who calls again for the same
\* store, product and quantity on the same trading day is given the original
\* order (mcp_server.py), the caller's retry being what idempotency makes safe.
\* An unanswered write records no key, so the retry places a second order.
RetryReturnsTheOriginalOrder ==
    \A i, j \in DOMAIN orders :
        LET c == orders[i].by
            d == orders[j].by
        IN  (KeyOf(c) = KeyOf(d) /\ epoch[c] = epoch[d]) => i = j

\* The audit module promises that every write path records in the trail.  A
\* write that ends unconfirmed leaves no line, though its order may exist.
EveryWriteIsAudited ==
    \A n \in DOMAIN orders : pc[orders[n].by] \in Ended =>
        \E i \in DOMAIN audit : audit[i].by = orders[n].by

-----------------------------------------------------------------------------
(* Refinement: a call asks for the item of its arguments, the order book   *)
(* is StoreLink's, what is vouched for is what the idempotency store       *)
(* holds, and a caller is told something when its call ends.               *)

ToldOf(c) ==
    CASE pc[c] \in {"idle"} \cup Active ->
            [answer |-> "nothing", order |-> 0]
      [] pc[c] = "returned" /\ outcome[c] \in {"created", "duplicate"} ->
            [answer |-> outcome[c], order |-> response[c]]
      [] pc[c] = "returned" /\ outcome[c] \notin {"created", "duplicate"} ->
            [answer |-> "other", order |-> 0]
      [] pc[c] = "refused" -> [answer |-> "refused", order |-> 0]
      [] OTHER -> [answer |-> "error", order |-> 0]

OrderQuantities == {OrderQuantity(p) : p \in {r \in Readings : Assess(r) = "order_required"}}

Ledger == INSTANCE OrderLedger WITH
    Quantities <- OrderQuantities,
    Dates <- 0..LastDay,
    asked <- [c \in Calls |-> Item(c)],
    ledger <- orders,
    vouched <- results,
    told <- [c \in Calls |-> ToldOf(c)]

\* Threads, lock, lost answers and restarts together keep the buyer's promise:
\* every step of the server is a step of the ledger, or invisible in it.
ImplementsLedger == Ledger!LedgerSpec

\* Callers are told the truth and it stays true: an order a caller was given exists,
\* is of its item, and is its own exactly when it was called new; a refused call has
\* no order at StoreLink and never gets one.
CallersAreToldTheTruth == Ledger!ToldIsTrue
=============================================================================
