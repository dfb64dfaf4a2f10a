------------------------ MODULE ReplenishmentInvariant ------------------------
(***************************************************************************)
(* The inductive invariant of Replenishment: what links a call's position, *)
(* the lock, the idempotency store, StoreLink's order book and the trail.  *)
(***************************************************************************)
EXTENDS Replenishment

\* The lock is held by the one call that waits for StoreLink's answer.
LockInv == \A c \in Calls : pc[c] = "posting" <=> lock = c

\* A call under way runs in the current process, and no call in a later one.
EpochInv ==
    \A c \in Calls :
        /\ pc[c] \in Active => epoch[c] = boot
        /\ epoch[c] <= boot

\* Past the policy gate a call holds a position that requires an order, and it
\* has no request on the wire before it has posted.
GateInv ==
    \A c \in Calls :
        /\ (pc[c] = "locking" \/ wire[c] # "none") =>
              /\ Tool(c) = "raise_replenishment_order"
              /\ Assess(reading[c]) = "order_required"
        /\ pc[c] \in {"idle", "measuring", "locking"} => wire[c] = "none"
        /\ pc[c] = "posting" => wire[c] # "none"

\* Orders and replies name each other.
BookInv ==
    /\ \A i \in DOMAIN orders :
          LET c == orders[i].by
          IN  /\ wire[c] = "answered"
              /\ reply[c] = i
              /\ orders[i].item = Item(c)
              /\ orders[i].qty = Quantity(c)
    /\ \A c \in Calls : reply[c] # 0 =>
          reply[c] \in DOMAIN orders /\ orders[reply[c]].by = c

\* What an outcome says of the order it comes with.
OutcomeInv ==
    \A c \in Calls :
        /\ outcome[c] # "none" => pc[c] \in {"auditing"} \cup Ended
        /\ pc[c] = "auditing" => outcome[c] # "none"
        /\ outcome[c] = "created" => response[c] = reply[c] /\ reply[c] # 0

\* A replay is about an order of the key it was asked for.
ReplayInv ==
    \A c \in Calls : outcome[c] = "duplicate" =>
        /\ response[c] \in DOMAIN orders
        /\ KeyOf(orders[response[c]].by) = KeyOf(c)

\* The store holds exactly the keys created in this process, each with the
\* order it was created with, and never the key a write is under way for.
StoreInv ==
    /\ \A k \in DOMAIN results :
          /\ results[k] \in DOMAIN orders
          /\ KeyOf(orders[results[k]].by) = k
    /\ \A c \in Calls : (outcome[c] = "created" /\ epoch[c] = boot) =>
          KeyOf(c) \in DOMAIN results /\ results[KeyOf(c)] = reply[c]
    /\ \A c \in Calls : pc[c] = "posting" => KeyOf(c) \notin DOMAIN results

\* One key, one confirmed call per process.
ConfirmedInv ==
    \A c, d \in Calls :
        (outcome[c] = "created" /\ outcome[d] = "created"
            /\ KeyOf(c) = KeyOf(d) /\ epoch[c] = epoch[d]) => c = d

\* A line of the trail is the final word of its call, and its only one.
TrailInv ==
    /\ \A i \in DOMAIN audit :
          /\ audit[i] = AuditLine(audit[i].by)
          /\ pc[audit[i].by] \in {"returned", "refused", "raised"}
    /\ \A i, j \in DOMAIN audit : audit[i].by = audit[j].by => i = j

\* The quantity of an order comes from a reading StoreLink gave.
ReadingInv == \A c \in Calls : reading[c] \in Readings \cup {Unmeasured}

\* A caller is answered only with an outcome, a refusal only with "refused", and
\* a call that has posted is answered with its own order or not at all.
AnswerInv ==
    \A c \in Calls :
        /\ pc[c] = "returned" => outcome[c] \notin {"none", "refused"}
        /\ pc[c] = "refused" => outcome[c] = "refused"
        /\ wire[c] # "none" => outcome[c] \in {"none", "created"}

\* The order a replay is about stays in the store as long as the process lives.
ReplayHeldInv ==
    \A c \in Calls : (outcome[c] = "duplicate" /\ epoch[c] = boot) =>
        KeyOf(c) \in DOMAIN results /\ results[KeyOf(c)] = response[c]

IInv ==
    /\ TypeOK
    /\ LockInv
    /\ EpochInv
    /\ GateInv
    /\ BookInv
    /\ OutcomeInv
    /\ ReplayInv
    /\ StoreInv
    /\ ConfirmedInv
    /\ TrailInv
    /\ ReadingInv
    /\ AnswerInv
    /\ ReplayHeldInv
    /\ CallersAgree
    /\ ResultsAreAudited
=============================================================================
