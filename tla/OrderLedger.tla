----------------------------- MODULE OrderLedger -----------------------------
(***************************************************************************)
(* What the server promises a buyer, without threads, locks or messages:   *)
(* what each call asks for, an order book that only grows, the orders the  *)
(* server vouches for (at most one for each item, quantity and trading     *)
(* date until it forgets them), and what each caller has been told.        *)
(***************************************************************************)
EXTENDS Naturals, Sequences

CONSTANTS Calls, Items, Quantities, Dates

VARIABLES
    asked,    \* the item each call asks about; it never changes
    ledger,   \* the orders that exist, in the order they came to
    vouched,  \* key to the one order the server has confirmed under it
    told      \* what each caller has been told

Answers == {"nothing", "created", "duplicate", "refused", "other", "error"}

ledgerVars == <<asked, ledger, vouched, told>>

Key(id, date) == [item |-> ledger[id].item, qty |-> ledger[id].qty, date |-> date]

Silent(c) == told[c].answer = "nothing"

Tell(c, answer, id) == told' = [told EXCEPT ![c] = [answer |-> answer, order |-> id]]

LedgerInit ==
    /\ asked \in [Calls -> Items]
    /\ ledger = <<>>
    /\ vouched = [k \in {} |-> 0]
    /\ told = [c \in Calls |-> [answer |-> "nothing", order |-> 0]]

\* An order of what was asked for comes to exist for a call that has had none, even
\* when its caller has given up already; never for one that was refused or answered.
Place(c, qty) ==
    /\ told[c].answer \in {"nothing", "error"}
    /\ \A i \in DOMAIN ledger : ledger[i].by # c
    /\ qty > 6
    /\ ledger' = Append(ledger, [item |-> asked[c], qty |-> qty, by |-> c])
    /\ UNCHANGED <<asked, vouched, told>>

\* The server vouches for a call's own order, under a key it vouches for no
\* other order under.
Vouch(c, id, date) ==
    /\ Silent(c)
    /\ ledger[id].by = c
    /\ Key(id, date) \notin DOMAIN vouched
    /\ vouched' = [k \in DOMAIN vouched \cup {Key(id, date)} |->
                      IF k = Key(id, date) THEN id ELSE vouched[k]]
    /\ UNCHANGED <<asked, ledger, told>>

\* A caller is given an order of the item it asked for that the server vouches for:
\* its own as a new order, anybody else's as a replay.
GiveOrder(c, k) ==
    /\ Silent(c)
    /\ k.item = asked[c]
    /\ Tell(c, IF ledger[vouched[k]].by = c THEN "created" ELSE "duplicate", vouched[k])
    /\ UNCHANGED <<asked, ledger, vouched>>

\* A refusal is final: the call has no order, and will have none.
Refuse(c) ==
    /\ Silent(c)
    /\ \A i \in DOMAIN ledger : ledger[i].by # c
    /\ Tell(c, "refused", 0)
    /\ UNCHANGED <<asked, ledger, vouched>>

\* An error promises nothing, and what is not an order changes nothing.
Answer(c) ==
    /\ Silent(c)
    /\ \E answer \in {"error", "other"} : Tell(c, answer, 0)
    /\ UNCHANGED <<asked, ledger, vouched>>

\* A restart: nothing is vouched for any more, and calls under way fail.
Forget(failing) ==
    /\ \A c \in failing : Silent(c)
    /\ vouched' = [k \in {} |-> 0]
    /\ told' = [c \in Calls |-> IF c \in failing THEN [answer |-> "error", order |-> 0]
                                                 ELSE told[c]]
    /\ UNCHANGED <<asked, ledger>>

LedgerNext ==
    \/ \E c \in Calls :
          \/ \E qty \in Quantities : Place(c, qty)
          \/ \E id \in DOMAIN ledger, date \in Dates : Vouch(c, id, date)
          \/ \E k \in DOMAIN vouched : GiveOrder(c, k)
          \/ Refuse(c)
          \/ Answer(c)
    \/ \E failing \in SUBSET Calls : Forget(failing)

LedgerSpec == LedgerInit /\ [][LedgerNext]_ledgerVars
-----------------------------------------------------------------------------
(* What the ledger guarantees *)

\* What a caller has been told stays true: an order it was given exists, is of the
\* item it asked for, and is its own exactly when it was called new; and a call
\* that was refused has no order and never gets one.
ToldIsTrue ==
    \A c \in Calls :
        /\ told[c].answer \in {"created", "duplicate"} =>
              LET id == told[c].order
              IN  /\ id \in DOMAIN ledger
                  /\ ledger[id].item = asked[c]
                  /\ told[c].answer = "created" <=> ledger[id].by = c
        /\ told[c].answer = "refused" => \A i \in DOMAIN ledger : ledger[i].by # c

\* Orders are never vouched for under a key that is not theirs, so no two keys
\* share an order but in their date.
VouchedIsTrue ==
    \A k \in DOMAIN vouched :
        /\ vouched[k] \in DOMAIN ledger
        /\ k = Key(vouched[k], k.date)

\* Every order is one call's, for more than six units.
OrdersAreSound ==
    /\ \A i, j \in DOMAIN ledger : ledger[i].by = ledger[j].by => i = j
    /\ \A i \in DOMAIN ledger : ledger[i].qty > 6
=============================================================================
