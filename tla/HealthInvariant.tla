---------------------------- MODULE HealthInvariant ----------------------------
(***************************************************************************)
(* The inductive invariant behind the theorems of HealthProofs, checked by *)
(* TLC as an invariant before it is proved.                                *)
(***************************************************************************)
EXTENDS Health

Met(t, states) == \E state \in states : state \in met[t]
Lately(p, n, states) == \E state \in states : state \in lately[p][n]

\* A refresh is of a secret; a thread about to clear the flag met an accessible file
\* and its process holds the value; and what it met was met lately, and, if it is a
\* probe's, during the call.
Refreshing(t) ==
    stage[t] # "idle" =>
        /\ about[t] \in Names
        /\ stage[t] \in {"clearing", "rotated"} =>
              Met(t, Accessible) /\ about[t] \in held[Owner(t)]
        /\ at[Owner(t)] # "idle" => met[t] \subseteq lately[Owner(t)][about[t]]
        /\ t \in Processes =>
              /\ at[t] = "asking"
              /\ Len(results[t]) < Len(Required)
              /\ about[t] = Required[Len(results[t]) + 1]
              /\ met[t] \subseteq seen[t][about[t]]

\* Only probes stop between the refresh and the state, and the flag is set then
\* unless somebody has met the file accessible.
Looked(p) ==
    stage[p] = "looked" =>
        about[p] \in degraded[p] \/ Lately(p, about[p], Accessible)

\* What the result of the i-th probe of an unfinished or answered call tells.
Grounded(p, i) ==
    LET n == Required[i]
    IN  /\ results[p][i] = "failed" =>
               n \notin heldFirst[p] \/ "undecodable" \in seen[p][n] \/ LinesRace
        /\ results[p][i] = "ok" => n \in held[p] /\ Lately(p, n, Accessible)

\* While a call is under way or was the last thing, values are only gained, every
\* file's state is among those seen, each result is grounded, and an answer is the
\* verdict over a result for every required secret.
Asked(p) ==
    at[p] # "idle" =>
        /\ heldFirst[p] \subseteq held[p]
        /\ \A n \in Names : file[n] \in seen[p][n] /\ file[n] \in lately[p][n]
        /\ Len(results[p]) <= Len(Required)
        /\ \A i \in 1..Len(results[p]) : Grounded(p, i)
        /\ at[p] = "answered" =>
              /\ Len(results[p]) = Len(Required)
              /\ status[p] = Verdict(results[p])

\* What the command holds, it read during its call.
CommandRead ==
    /\ at["command"] # "idle" =>
          \A n \in held["command"] : "text" \in seen["command"][n]
    /\ at["command"] = "idle" => held["command"] = {}

Inv ==
    /\ TypeOK
    /\ \A t \in Threads : Refreshing(t)
    /\ \A p \in Processes : Looked(p) /\ Asked(p)
    /\ CommandRead
=============================================================================
