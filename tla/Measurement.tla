----------------------------- MODULE Measurement -----------------------------
(***************************************************************************)
(* One tool call's reads of StoreLink, taken apart: BuyerService._measure  *)
(* and the order it may lead to, through StoreLinkClient.  Each request is *)
(* signed with the key the secrets provider serves at that moment, while   *)
(* Korral's IT rotates the key in two places, the mounted file and         *)
(* StoreLink, and while the shop sells and is restocked between the reads. *)
(*                                                                         *)
(* The provider is reduced to what SecretsProvider shows of calls made one *)
(* at a time, LastKnownValue: a readable file is what it serves, otherwise *)
(* the last value it held.  All calls are raise_replenishment_order for one *)
(* product of one store; check_stock_position makes the same reads.  The   *)
(* trailing window of sales does not move during a call.                   *)
(* A definition marked Variant is a fault the checks are tried against; no *)
(* specification uses it.                                                  *)
(***************************************************************************)
EXTENDS Policy

CONSTANTS
    Calls,       \* tool calls
    Keys,        \* keys Korral may issue for the store
    NoKey,       \* no key
    Positions,   \* what the shop's figures may be at first
    Deliveries,  \* sizes of a delivery
    MaxEvents    \* bound: how often a key or the stock changes

ASSUME KeysAssumption == NoKey \notin Keys
ASSUME PositionsAssumption ==
    Positions \subseteq [on_hand : Nat \cup {NotRanged}, sold : Nat]
ASSUME DeliveriesAssumption == Deliveries \subseteq Nat
ASSUME MaxEventsAssumption == MaxEvents \in Nat

VARIABLES
    mount,     \* the key in the store's file; NoKey while it cannot be read
    held,      \* the provider's last known good value
    accepted,  \* the keys StoreLink accepts
    onHand,    \* the shop's stock, as StoreLink has it
    sold,      \* its sales in the window
    events,    \* how often any of these have been touched
    pc,        \* where each call is
    request,   \* which request it is making
    attempt,   \* the attempt of that request
    key,       \* the key that signed it
    inventory, \* units on hand it was told
    units,     \* units sold it was told
    outcome,   \* how it ended
    turns,     \* history: changes of what is served since this request's turn came
    astray,    \* history: whether what was served was not accepted at some moment since
    restocked  \* history: whether a delivery came since the call began

keys == <<mount, accepted>>
shop == <<onHand, sold>>
environment == <<mount, accepted, onHand, sold, events>>
history == <<turns, astray, restocked>>
vars == <<mount, held, accepted, onHand, sold, events, pc, request, attempt,
          key, inventory, units, outcome, turns, astray, restocked>>

Reads == {"store", "sku", "inventory", "pos"}

\* What SecretsProvider.get returns now; NoKey where it raises.
Served == IF mount # NoKey THEN mount ELSE held

Astray == Served \notin accepted

Position(c) == [on_hand |-> inventory[c], sold |-> units[c]]

Init ==
    /\ mount \in Keys \cup {NoKey}
    /\ held = NoKey
    /\ accepted \in {{}} \cup {{k} : k \in Keys}
    /\ \E p \in Positions : onHand = p.on_hand /\ sold = p.sold
    /\ events = 0
    /\ pc = [c \in Calls |-> "idle"]
    /\ request = [c \in Calls |-> "store"]
    /\ attempt = [c \in Calls |-> 1]
    /\ key = [c \in Calls |-> NoKey]
    /\ inventory = [c \in Calls |-> NotRanged]
    /\ units = [c \in Calls |-> 0]
    /\ outcome = [c \in Calls |-> "none"]
    /\ turns = [c \in Calls |-> 0]
    /\ astray = [c \in Calls |-> FALSE]
    /\ restocked = [c \in Calls |-> FALSE]

Goto(c, to) == pc' = [pc EXCEPT ![c] = to]

End(c, to, how) ==
    /\ Goto(c, to)
    /\ outcome' = [outcome EXCEPT ![c] = how]
    /\ UNCHANGED <<request, attempt, turns, astray>>

\* The turn of a request: its first attempt is to be signed next.
Turn(c, to, r) ==
    /\ Goto(c, to)
    /\ request' = [request EXCEPT ![c] = r]
    /\ attempt' = [attempt EXCEPT ![c] = 1]
    /\ turns' = [turns EXCEPT ![c] = 0]
    /\ astray' = [astray EXCEPT ![c] = Astray]
    /\ UNCHANGED outcome

(***************************************************************************)
(* The call.  Resolving a key refreshes what the provider holds.           *)
(***************************************************************************)

\* The credential is resolved before anything is sent.
Begin(c) ==
    /\ pc[c] = "idle"
    /\ held' = Served
    /\ \/ Served = NoKey /\ End(c, "ended", "store_credential_missing")
       \/ Served # NoKey /\ Turn(c, "signing", "store")
    /\ restocked' = [restocked EXCEPT ![c] = FALSE]
    /\ UNCHANGED <<environment, key, inventory, units>>

Sign(c) ==
    /\ pc[c] = "signing"
    /\ held' = Served
    /\ key' = [key EXCEPT ![c] = Served]
    /\ Goto(c, "waiting")
    /\ UNCHANGED <<environment, request, attempt, inventory, units, outcome, history>>

\* Variant: compared with what is held, without reading the file again.
Rotated_Held(c) == held # key[c]

\* Of a read that was refused the key is read again and compared.
Rotated(c) == Served # key[c]

\* Variant: as often as the key changes.
RetryRead_Always(c) ==
    /\ pc[c] = "comparing"
    /\ Rotated(c)
    /\ held' = Served
    /\ attempt' = [attempt EXCEPT ![c] = @ + 1]
    /\ Goto(c, "logging")
    /\ UNCHANGED <<environment, request, key, inventory, units, outcome, history>>

RetryRead(c) ==
    /\ pc[c] = "comparing"
    /\ Rotated(c) /\ attempt[c] = 1
    /\ held' = Served
    /\ attempt' = [attempt EXCEPT ![c] = 2]
    /\ Goto(c, "logging")
    /\ UNCHANGED <<environment, request, key, inventory, units, outcome, history>>

RejectRead(c) ==
    /\ pc[c] = "comparing"
    /\ ~(Rotated(c) /\ attempt[c] = 1)
    /\ held' = Served
    /\ End(c, "logging", "rejected")
    /\ UNCHANGED <<environment, key, inventory, units, restocked>>

\* Every request is logged, with the secret's state, which refreshes it once more.
LogRequest(c) ==
    /\ pc[c] = "logging"
    /\ held' = Served
    /\ Goto(c, IF outcome[c] = "none" THEN "signing" ELSE "ended")
    /\ UNCHANGED <<environment, request, attempt, key, inventory, units, outcome,
                   history>>

\* The store of IdempotencyStore may have the order already: nothing is sent.
ReplayRecorded(c) ==
    /\ pc[c] = "signing"
    /\ request[c] = "order"
    /\ End(c, "ended", "duplicate")
    /\ UNCHANGED <<environment, held, key, inventory, units, restocked>>

\* No answer in time, an error status, an identifier StoreLink does not know or
\* a body that is no object.  A write may have been done all the same.
Unanswered(c) ==
    /\ pc[c] = "waiting"
    /\ End(c, "logging", IF request[c] = "order" THEN "unconfirmed" ELSE "unavailable")
    /\ UNCHANGED <<environment, held, key, inventory, units, restocked>>

(***************************************************************************)
(* StoreLink, at the moment it handles the request.                        *)
(***************************************************************************)
Unauthorised(c) ==
    /\ pc[c] = "waiting"
    /\ key[c] \notin accepted
    /\ \/ request[c] = "order" /\ End(c, "logging", "unconfirmed")
       \/ /\ request[c] # "order"
          /\ Goto(c, "comparing")
          /\ UNCHANGED <<request, attempt, outcome, turns, astray>>
    /\ UNCHANGED <<environment, held, key, inventory, units, restocked>>

Authorised(c, r) == pc[c] = "waiting" /\ key[c] \in accepted /\ request[c] = r

ReadStore(c) ==
    /\ Authorised(c, "store")
    /\ Turn(c, "logging", "sku")
    /\ UNCHANGED <<environment, held, key, inventory, units, restocked>>

ReadSku(c) ==
    /\ Authorised(c, "sku")
    /\ Turn(c, "logging", "inventory")
    /\ UNCHANGED <<environment, held, key, inventory, units, restocked>>

\* Variant: the stock figure of an earlier call is used again.
ReadInventory_Older(c) ==
    /\ Authorised(c, "inventory")
    /\ \E d \in Calls :
          inventory' = [inventory EXCEPT ![c] =
                           IF inventory[d] # NotRanged THEN inventory[d] ELSE onHand]
    /\ Turn(c, "logging", "pos")
    /\ UNCHANGED <<environment, held, key, units, restocked>>

\* Not ranged at the store is an answer, not an error.
ReadInventory(c) ==
    /\ Authorised(c, "inventory")
    /\ inventory' = [inventory EXCEPT ![c] = onHand]
    /\ Turn(c, "logging", "pos")
    /\ UNCHANGED <<environment, held, key, units, restocked>>

\* The last figure, and with it the decision.
ReadPos(c) ==
    /\ Authorised(c, "pos")
    /\ units' = [units EXCEPT ![c] = sold]
    /\ LET conclusion == Assess([on_hand |-> inventory[c], sold |-> sold])
       IN  \/ conclusion = "order_required" /\ Turn(c, "logging", "order")
           \/ conclusion # "order_required" /\ End(c, "logging", conclusion)
    /\ UNCHANGED <<environment, held, key, inventory, restocked>>

AcceptOrder(c) ==
    /\ Authorised(c, "order")
    /\ End(c, "logging", "created")
    /\ UNCHANGED <<environment, held, key, inventory, units, restocked>>

(***************************************************************************)
(* Korral's IT, and the shop.                                              *)
(***************************************************************************)

Happen == events < MaxEvents /\ events' = events + 1

\* What each call that has no outcome yet sees of the keys.
Watch ==
    /\ Happen
    /\ UNCHANGED <<held, shop, pc, request, attempt, key, inventory, units, outcome,
                   restocked>>
    /\ turns' = [c \in Calls |->
                    IF outcome[c] = "none" /\ Served' # Served
                    THEN turns[c] + 1 ELSE turns[c]]
    /\ astray' = [c \in Calls |-> astray[c] \/ (outcome[c] = "none" /\ Astray')]

Publish(k) ==
    /\ mount' = k
    /\ UNCHANGED accepted
    /\ Watch

\* The file is removed, emptied or made unreadable.
Hide ==
    /\ mount' = NoKey
    /\ UNCHANGED accepted
    /\ Watch

Issue(k) ==
    /\ accepted' = accepted \cup {k}
    /\ UNCHANGED mount
    /\ Watch

Revoke(k) ==
    /\ accepted' = accepted \ {k}
    /\ UNCHANGED mount
    /\ Watch

Move ==
    /\ Happen
    /\ UNCHANGED <<keys, held, pc, request, attempt, key, inventory, units, outcome,
                   turns, astray>>

Sell ==
    /\ onHand # NotRanged /\ onHand > 0
    /\ onHand' = onHand - 1
    /\ sold' = sold + 1
    /\ UNCHANGED restocked
    /\ Move

Deliver(n) ==
    /\ onHand # NotRanged
    /\ onHand' = onHand + n
    /\ UNCHANGED sold
    /\ restocked' = [c \in Calls |-> TRUE]
    /\ Move

Work(c) ==
    \/ Begin(c) \/ Sign(c) \/ RetryRead(c) \/ RejectRead(c) \/ LogRequest(c)
    \/ ReplayRecorded(c) \/ Unanswered(c) \/ Unauthorised(c)
    \/ ReadStore(c) \/ ReadSku(c) \/ ReadInventory(c) \/ ReadPos(c) \/ AcceptOrder(c)

Environment ==
    \/ \E k \in Keys : Publish(k) \/ Issue(k) \/ Revoke(k)
    \/ Hide
    \/ Sell
    \/ \E n \in Deliveries : Deliver(n)

\* A call that has ended stays ended.
Finished == (\A c \in Calls : pc[c] = "ended") /\ UNCHANGED vars

Next == (\E c \in Calls : Work(c)) \/ Environment \/ Finished

Spec == Init /\ [][Next]_vars
-----------------------------------------------------------------------------
(* Properties *)

Places == {"idle", "signing", "waiting", "comparing", "logging", "ended"}
Outcomes == {"none", "store_credential_missing", "rejected", "unavailable", "unconfirmed",
             "not_stocked", "stock_record_error", "no_order_required", "duplicate",
             "created"}

\* Every variable keeps its type; in particular no request has a third attempt,
\* and no write has a second one.
TypeOK ==
    /\ mount \in Keys \cup {NoKey}
    /\ held \in Keys \cup {NoKey}
    /\ accepted \subseteq Keys
    /\ onHand \in Nat \cup {NotRanged}
    /\ sold \in Nat
    /\ events \in Nat
    /\ pc \in [Calls -> Places]
    /\ request \in [Calls -> Reads \cup {"order"}]
    /\ attempt \in [Calls -> 1..2]
    /\ key \in [Calls -> Keys \cup {NoKey}]
    /\ inventory \in [Calls -> Nat \cup {NotRanged}]
    /\ units \in [Calls -> Nat]
    /\ outcome \in [Calls -> Outcomes]
    /\ turns \in [Calls -> Nat]
    /\ astray \in [Calls -> BOOLEAN]
    /\ restocked \in [Calls -> BOOLEAN]
    /\ \A c \in Calls : request[c] = "order" => attempt[c] = 1

\* A rotation during a read is absorbed: if StoreLink accepted, at every moment
\* of the read, the key the provider would have served, and that key changed at
\* most once meanwhile, the read does not end in the sentence for a revoked key.
OneRotationIsAbsorbed ==
    \A c \in Calls : (outcome[c] = "rejected" /\ ~astray[c]) => turns[c] > 1

\* The two figures are read at two moments, and the order is placed at a third;
\* still, an order about to be placed asks for no more than the gap there is by
\* then, unless a delivery came during the call.
NeverMoreThanTheGap ==
    \A c \in Calls :
        (request[c] = "order" /\ pc[c] \in {"signing", "waiting"} /\ ~restocked[c]) =>
            OrderQuantity(Position(c)) <= ComputeGapUnits(onHand, sold)
=============================================================================
