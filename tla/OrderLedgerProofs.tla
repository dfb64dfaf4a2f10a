--------------------------- MODULE OrderLedgerProofs ---------------------------
(***************************************************************************)
(* What the ledger guarantees, proved of the ledger alone.  The orders are *)
(* sound, what is vouched for is true, and callers are told the truth; the *)
(* last needs the second, since an order is given from what is vouched for.*)
(***************************************************************************)
EXTENDS OrderLedger, TLAPS

\* The order book is a list of orders and every caller has been told something.
LedgerTypeOK ==
    /\ asked \in [Calls -> Items]
    /\ ledger \in Seq([item : Items, qty : Quantities, by : Calls])
    /\ told \in [Calls -> [answer : Answers, order : Nat]]

LedgerInv ==
    /\ LedgerTypeOK
    /\ OrdersAreSound
    /\ VouchedIsTrue
    /\ ToldIsTrue

-----------------------------------------------------------------------------
(* One lemma for each action *)

\* A new order leaves the older ones where they are.
LEMMA BookGrows ==
    ASSUME LedgerTypeOK, NEW o \in [item : Items, qty : Quantities, by : Calls],
           ledger' = Append(ledger, o)
    PROVE  /\ ledger' \in Seq([item : Items, qty : Quantities, by : Calls])
           /\ DOMAIN ledger' = DOMAIN ledger \cup {Len(ledger) + 1}
           /\ \A i \in DOMAIN ledger : ledger'[i] = ledger[i]
           /\ ledger'[Len(ledger) + 1] = o
           /\ Len(ledger) + 1 \notin DOMAIN ledger
  BY DEF LedgerTypeOK

\* The new order is the only one of its call, which has not been told of any.
LEMMA PlaceKeeps ==
    ASSUME LedgerInv, NEW c \in Calls, NEW qty \in Quantities, Place(c, qty)
    PROVE  LedgerInv'
<1> DEFINE o == [item |-> asked[c], qty |-> qty, by |-> c]
<1>1. /\ told[c].answer \in {"nothing", "error"}
      /\ \A i \in DOMAIN ledger : ledger[i].by # c
      /\ qty > 6
      /\ ledger' = Append(ledger, o)
      /\ UNCHANGED <<asked, vouched, told>>
  BY DEF Place
<1>2. o \in [item : Items, qty : Quantities, by : Calls] /\ LedgerTypeOK
  BY DEF LedgerInv, LedgerTypeOK
<1>3. /\ ledger' \in Seq([item : Items, qty : Quantities, by : Calls])
      /\ DOMAIN ledger' = DOMAIN ledger \cup {Len(ledger) + 1}
      /\ \A i \in DOMAIN ledger : ledger'[i] = ledger[i]
      /\ ledger'[Len(ledger) + 1] = o
  BY <1>1, <1>2, BookGrows
<1>4. LedgerTypeOK'
  BY <1>1, <1>2, <1>3 DEF LedgerTypeOK
<1>5. OrdersAreSound'
  BY <1>1, <1>3 DEF LedgerInv, OrdersAreSound
<1>6. VouchedIsTrue'
  BY <1>1, <1>3 DEF LedgerInv, VouchedIsTrue, Key
<1>7. ToldIsTrue'
  BY <1>1, <1>3 DEF LedgerInv, ToldIsTrue
<1> QED
  BY <1>4, <1>5, <1>6, <1>7 DEF LedgerInv

\* What is newly vouched for is an order of the book, under its own key.
LEMMA VouchKeeps ==
    ASSUME LedgerInv, NEW c \in Calls, NEW id \in DOMAIN ledger, NEW date, Vouch(c, id, date)
    PROVE  LedgerInv'
<1>1. /\ DOMAIN vouched' = DOMAIN vouched \cup {Key(id, date)}
      /\ vouched'[Key(id, date)] = id
      /\ \A k \in DOMAIN vouched : vouched'[k] = vouched[k]
      /\ UNCHANGED <<asked, ledger, told>>
  BY DEF Vouch
<1>2. Key(id, date).date = date
  BY DEF Key
<1>3. VouchedIsTrue'
  BY <1>1, <1>2 DEF LedgerInv, VouchedIsTrue, Key
<1> QED
  BY <1>1, <1>3 DEF LedgerInv, LedgerTypeOK, OrdersAreSound, ToldIsTrue

\* An order that is given is one that is vouched for, so it is in the book and of
\* the item its key names.
LEMMA GiveOrderKeeps ==
    ASSUME LedgerInv, NEW c \in Calls, NEW k \in DOMAIN vouched, GiveOrder(c, k)
    PROVE  LedgerInv'
<1> DEFINE id == vouched[k]
           answer == IF ledger[id].by = c THEN "created" ELSE "duplicate"
<1>1. /\ k.item = asked[c]
      /\ told' = [told EXCEPT ![c] = [answer |-> answer, order |-> id]]
      /\ UNCHANGED <<asked, ledger, vouched>>
  BY DEF GiveOrder, Tell
<1>2. /\ id \in DOMAIN ledger
      /\ ledger[id].item = asked[c]
  BY <1>1 DEF LedgerInv, VouchedIsTrue, Key
<1>3. id \in Nat
  BY <1>2 DEF LedgerInv, LedgerTypeOK
<1>4. LedgerTypeOK'
  BY <1>1, <1>3 DEF LedgerInv, LedgerTypeOK, Answers
<1>5. told'[c] = [answer |-> answer, order |-> id] /\ \A d \in Calls \ {c} : told'[d] = told[d]
  BY <1>1 DEF LedgerInv, LedgerTypeOK
<1>6. ToldIsTrue'
  BY <1>1, <1>2, <1>5 DEF LedgerInv, ToldIsTrue
<1> QED
  BY <1>1, <1>4, <1>6 DEF LedgerInv, OrdersAreSound, VouchedIsTrue, Key

\* A refusal is given to a call without an order; other answers promise nothing.
LEMMA OtherAnswersKeep ==
    ASSUME LedgerInv, NEW c \in Calls, Refuse(c) \/ Answer(c)
    PROVE  LedgerInv'
<1>1. PICK answer \in {"refused", "error", "other"} :
         /\ told' = [told EXCEPT ![c] = [answer |-> answer, order |-> 0]]
         /\ answer = "refused" => \A i \in DOMAIN ledger : ledger[i].by # c
  BY DEF Refuse, Answer, Tell
<1>2. UNCHANGED <<asked, ledger, vouched>>
  BY DEF Refuse, Answer
<1>3. LedgerTypeOK'
  BY <1>1, <1>2 DEF LedgerInv, LedgerTypeOK, Answers
<1>4. /\ told'[c] = [answer |-> answer, order |-> 0]
      /\ \A d \in Calls \ {c} : told'[d] = told[d]
  BY <1>1 DEF LedgerInv, LedgerTypeOK
<1>5. ToldIsTrue'
  BY <1>1, <1>2, <1>4 DEF LedgerInv, ToldIsTrue
<1> QED
  BY <1>2, <1>3, <1>5 DEF LedgerInv, OrdersAreSound, VouchedIsTrue, Key

\* A restart takes back what was vouched for, not what was told.
LEMMA ForgetKeeps ==
    ASSUME LedgerInv, NEW failing \in SUBSET Calls, Forget(failing)
    PROVE  LedgerInv'
<1>1. /\ DOMAIN vouched' = {}
      /\ \A c \in Calls : told'[c] = IF c \in failing THEN [answer |-> "error", order |-> 0]
                                                      ELSE told[c]
      /\ UNCHANGED <<asked, ledger>>
  BY DEF Forget
<1>2. LedgerTypeOK'
  BY <1>1 DEF LedgerInv, LedgerTypeOK, Answers, Forget
<1>3. ToldIsTrue'
  BY <1>1 DEF LedgerInv, ToldIsTrue
<1> QED
  BY <1>1, <1>2, <1>3 DEF LedgerInv, OrdersAreSound, VouchedIsTrue

-----------------------------------------------------------------------------
(* The theorem *)

\* Whatever is placed, vouched for, forgotten and answered, and in whatever order,
\* the orders are sound, what is vouched for is true and callers are told the truth.
THEOREM LedgerIsTrue ==
    LedgerSpec => [](OrdersAreSound /\ VouchedIsTrue /\ ToldIsTrue)
<1>1. LedgerInit => LedgerInv
  BY DEF LedgerInit, LedgerInv, LedgerTypeOK, OrdersAreSound, VouchedIsTrue, ToldIsTrue, Answers
<1>2. LedgerInv /\ [LedgerNext]_ledgerVars => LedgerInv'
  <2> SUFFICES ASSUME LedgerInv, [LedgerNext]_ledgerVars PROVE LedgerInv'
    OBVIOUS
  <2>1. CASE UNCHANGED ledgerVars
    BY <2>1 DEF ledgerVars, LedgerInv, LedgerTypeOK, OrdersAreSound, VouchedIsTrue, ToldIsTrue,
       Key
  <2>2. CASE LedgerNext
    BY <2>2, PlaceKeeps, VouchKeeps, GiveOrderKeeps, OtherAnswersKeep, ForgetKeeps
       DEF LedgerNext
  <2> QED
    BY <2>1, <2>2
<1>3. LedgerInv => OrdersAreSound /\ VouchedIsTrue /\ ToldIsTrue
  BY DEF LedgerInv
<1> QED
  BY <1>1, <1>2, <1>3, PTL DEF LedgerSpec
=============================================================================
