----------------------------- MODULE HealthProofs -----------------------------
(***************************************************************************)
(* Health, for any secrets, any number of them required and any number of  *)
(* worker threads: what an answer of the readiness call says of the files. *)
(* The invariant is HealthInvariant's.                                     *)
(***************************************************************************)
EXTENDS HealthInvariant, TLAPS

\* A thread is of one process, and the command has one thread.
LEMMA Owners ==
    ASSUME NEW t \in Threads
    PROVE  /\ Owner(t) \in Processes
           /\ t \in Processes => Owner(t) = t
           /\ Owner(t) = "command" => t = "command"
  BY DEF Owner, Processes

\* A probe's outcome is one of three, whatever the file.
LEMMA JudgementType ==
    ASSUME NEW p, NEW n
    PROVE  Judgement(p, n) \in {"ok", "degraded", "failed"}
  BY DEF Judgement

\* So is the verdict over any results.
LEMMA VerdictType ==
    ASSUME NEW found
    PROVE  Verdict(found) \in {"ready", "degraded", "not_ready"}
  BY DEF Verdict

(***************************************************************************)
(* What a step leaves as it is.                                            *)
(***************************************************************************)

\* A call stays grounded while it gains values and sees more.
LEMMA AskedFrame ==
    ASSUME TypeOK, Required \in Seq(Names), NEW p \in Processes, Asked(p),
           at'[p] = at[p], results'[p] = results[p], status'[p] = status[p],
           heldFirst'[p] = heldFirst[p], held[p] \subseteq held'[p],
           \A n \in Names : /\ seen[p][n] \subseteq seen'[p][n]
                            /\ lately[p][n] \subseteq lately'[p][n]
                            /\ file'[n] \in seen'[p][n] \/ file'[n] = file[n]
                            /\ file'[n] \in lately'[p][n] \/ file'[n] = file[n]
    PROVE  Asked(p)'
<1> SUFFICES ASSUME at[p] # "idle"
             PROVE  Asked(p)'
  BY DEF Asked
<1>1. \A n \in Names : file'[n] \in seen'[p][n] /\ file'[n] \in lately'[p][n]
  BY DEF Asked
<1>2. ASSUME NEW i \in 1..Len(results[p]) PROVE Grounded(p, i)'
  <2>1. Grounded(p, i) /\ i \in 1..Len(Required)
    BY DEF Asked, TypeOK
  <2>2. Required[i] \in Names
    BY <2>1
  <2> QED
    BY <2>1, <2>2 DEF Grounded, Lately
<1> QED
  BY <1>1, <1>2 DEF Asked

\* So does a refresh that is not the one to move.
LEMMA RefreshingFrame ==
    ASSUME NEW t \in Threads, Refreshing(t),
           stage'[t] = stage[t], about'[t] = about[t], met'[t] = met[t],
           at'[Owner(t)] = at[Owner(t)], held[Owner(t)] \subseteq held'[Owner(t)],
           t \in Processes => at'[t] = at[t] /\ results'[t] = results[t],
           UNCHANGED history
    PROVE  Refreshing(t)'
  BY DEF Refreshing, Met, history

\* A step of one thread's refresh leaves the other threads' refreshes and the other
\* process's call as they are, if it takes no flag away that somebody relies on.
LEMMA OthersKept ==
    ASSUME Inv, Required \in Seq(Names), NEW t \in Threads,
           UNCHANGED <<file, at, status, history>>,
           \A u \in Threads :
              u # t => stage'[u] = stage[u] /\ about'[u] = about[u] /\ met'[u] = met[u],
           \A q \in Processes : q # t => results'[q] = results[q],
           \A q \in Processes : held[q] \subseteq held'[q],
           \A q \in Processes :
              q # t /\ stage[q] = "looked" /\ about[q] \in degraded[q]
                 => about[q] \in degraded'[q] \/ Lately(q, about[q], Accessible),
           TypeOK', Refreshing(t)', t \in Processes => Looked(t)' /\ Asked(t)', CommandRead'
    PROVE  Inv'
<1>1. ASSUME NEW u \in Threads, u # t PROVE Refreshing(u)'
  <2>1. Refreshing(u)
    BY DEF Inv
  <2> QED
    BY <1>1, <2>1, Owners, RefreshingFrame
<1>2. ASSUME NEW q \in Processes, q # t PROVE Looked(q)'
  <2>1. Looked(q) /\ q \in Threads
    BY DEF Inv, Threads
  <2>2. UNCHANGED lately
    BY DEF history
  <2> QED
    BY <1>2, <2>1, <2>2 DEF Looked, Lately
<1>3. ASSUME NEW q \in Processes, q # t PROVE Asked(q)'
  <2>1. TypeOK /\ Asked(q)
    BY DEF Inv
  <2> QED
    BY <1>3, <2>1, AskedFrame DEF history
<1> QED
  BY <1>1, <1>2, <1>3 DEF Inv

\* A probe that is over adds a result, and the call stays grounded if that is.
LEMMA ReportStep ==
    ASSUME Inv, Required \in Seq(Names), NEW p \in Processes, stage[p] # "idle",
           UNCHANGED <<file, held, at, status, history>>,
           NEW result \in {"ok", "degraded", "failed"}, Report(p, result),
           result = "failed" => \/ about[p] \notin heldFirst[p] \/ LinesRace
                                \/ "undecodable" \in seen[p][about[p]],
           result = "ok" => about[p] \in held[p] /\ Lately(p, about[p], Accessible)
    PROVE  /\ results' \in [Processes -> Seq({"ok", "degraded", "failed"})]
           /\ \A q \in Processes : q # p => results'[q] = results[q]
           /\ Asked(p)'
<1>1. results[p] \in Seq({"ok", "degraded", "failed"}) /\ TypeOK /\ Asked(p)
  BY DEF Inv, TypeOK
<1>2. PICK k \in Nat :
        /\ k = Len(results[p]) + 1 /\ at[p] = "asking"
        /\ Len(results[p]) < Len(Required) /\ about[p] = Required[k]
  BY <1>1 DEF Inv, Refreshing, Threads
<1>3. k \in 1..Len(Required)
  BY <1>1, <1>2
<1>4. results' = [results EXCEPT ![p] = Append(results[p], result)]
  BY DEF Report
<1>5. results' \in [Processes -> Seq({"ok", "degraded", "failed"})]
  BY <1>1, <1>4 DEF TypeOK
<1>6. \A q \in Processes : q # p => results'[q] = results[q]
  BY <1>1, <1>4 DEF TypeOK
<1>7. /\ results'[p] = Append(results[p], result)
      /\ Len(results'[p]) = k
      /\ results'[p][k] = result
      /\ \A i \in 1..Len(results[p]) : results'[p][i] = results[p][i]
  BY <1>1, <1>2, <1>4 DEF TypeOK
<1>8. UNCHANGED <<file, held, at, heldFirst, seen, lately>>
  BY DEF history
<1>9. Grounded(p, k)'
  <2>1. results'[p][k] = "failed" =>
           \/ Required[k] \notin heldFirst'[p] \/ LinesRace
           \/ "undecodable" \in seen'[p][Required[k]]
    BY <1>2, <1>7, <1>8
  <2>2. results'[p][k] = "ok" =>
           Required[k] \in held'[p] /\ Lately(p, Required[k], Accessible)'
    BY <1>2, <1>7, <1>8 DEF Lately
  <2> QED
    BY <2>1, <2>2 DEF Grounded
<1>10. ASSUME NEW i \in 1..Len(results[p]) PROVE Grounded(p, i)'
  <2>1. Grounded(p, i)
    BY <1>1, <1>2 DEF Asked
  <2> QED
    BY <1>7, <1>8, <2>1 DEF Grounded, Lately
<1>11. \A i \in 1..Len(results'[p]) : Grounded(p, i)'
  <2>1. \A i \in 1..Len(results'[p]) : i = k \/ i \in 1..Len(results[p])
    BY <1>1, <1>2, <1>7
  <2> QED
    BY <1>9, <1>10, <2>1
<1>12. Asked(p)'
  BY <1>1, <1>2, <1>3, <1>7, <1>8, <1>11 DEF Asked
<1> QED
  BY <1>5, <1>6, <1>12

(***************************************************************************)
(* One lemma for each action.                                              *)
(***************************************************************************)

\* The files change: what was met and seen only grows.
LEMMA MountStep ==
    ASSUME Inv, Required \in Seq(Names), NEW n \in Names, NEW state \in States, Mount(n, state)
    PROVE  Inv'
<1>1. TypeOK
  BY DEF Inv
<1>2. \A p \in Processes, m \in Names :
        /\ seen'[p][m] = IF m = n THEN seen[p][m] \cup {state} ELSE seen[p][m]
        /\ lately'[p][m] = IF m = n THEN lately[p][m] \cup {state} ELSE lately[p][m]
        /\ file'[m] = IF m = n THEN state ELSE file[m]
  BY <1>1 DEF Mount, TypeOK
<1>3. \A t \in Threads :
        met'[t] = IF stage[t] = "looking" /\ about[t] = n THEN met[t] \cup {state} ELSE met[t]
  BY DEF Mount
<1>4. TypeOK'
  <2>1. /\ seen' \in [Processes -> [Names -> SUBSET States]]
        /\ lately' \in [Processes -> [Names -> SUBSET States]]
    BY <1>1 DEF Mount, TypeOK
  <2>2. met' \in [Threads -> SUBSET States] /\ file' \in [Names -> States]
    BY <1>1 DEF Mount, TypeOK
  <2> QED
    BY <1>1, <2>1, <2>2 DEF Mount, TypeOK, knowledge, readiness
<1>5. UNCHANGED <<held, degraded, stage, about, at, results, status, heldFirst>>
  BY DEF Mount, knowledge, readiness
<1>6. ASSUME NEW t \in Threads PROVE Refreshing(t)'
  <2>1. Refreshing(t) /\ Owner(t) \in Processes
    BY Owners DEF Inv
  <2>2. /\ met[t] \subseteq met'[t]
        /\ about[t] \in Names =>
              /\ met[t] \subseteq lately[Owner(t)][about[t]]
                    => met'[t] \subseteq lately'[Owner(t)][about[t]]
              /\ t \in Processes /\ met[t] \subseteq seen[t][about[t]]
                    => met'[t] \subseteq seen'[t][about[t]]
    BY <1>2, <1>3, <2>1
  <2> QED
    BY <1>5, <2>1, <2>2 DEF Refreshing, Met
<1>7. ASSUME NEW p \in Processes PROVE Looked(p)'
  <2>1. Looked(p) /\ Refreshing(p)
    BY DEF Inv, Threads
  <2>2. stage[p] = "looked" => about[p] \in Names
    BY <2>1 DEF Refreshing
  <2> QED
    BY <1>2, <1>5, <2>1, <2>2 DEF Looked, Lately
<1>8. ASSUME NEW p \in Processes PROVE Asked(p)'
  <2>1. Asked(p)
    BY DEF Inv
  <2> QED
    BY <1>1, <1>2, <1>5, <2>1, AskedFrame
<1>9. CommandRead'
  <2>1. "command" \in Processes /\ held["command"] \in SUBSET Names
    BY <1>1 DEF Processes, TypeOK
  <2> QED
    BY <1>2, <1>5, <2>1 DEF Inv, CommandRead
<1> QED
  BY <1>4, <1>6, <1>7, <1>8, <1>9 DEF Inv

\* A refresh begins with the file as it is.
LEMMA LookStep ==
    ASSUME Inv, Required \in Seq(Names), NEW t \in Threads, NEW n \in Names, Look(t, n),
           t \in Processes => /\ at[t] = "asking"
                              /\ Len(results[t]) < Len(Required)
                              /\ n = Required[Len(results[t]) + 1]
    PROVE  Inv'
<1>1. TypeOK /\ UNCHANGED <<file, held, degraded, at, results, status, history>>
  BY DEF Inv, Look, knowledge, readiness
<1>2. /\ stage'[t] = "looking" /\ about'[t] = n /\ met'[t] = {file[n]}
      /\ \A u \in Threads :
            u # t => stage'[u] = stage[u] /\ about'[u] = about[u] /\ met'[u] = met[u]
  BY <1>1 DEF Look, TypeOK
<1>3. TypeOK'
  BY <1>1 DEF Look, TypeOK, Stages, history
<1>4. Owner(t) \in Processes /\ (t \in Processes => Owner(t) = t)
  BY Owners
<1>5. at[Owner(t)] # "idle" => file[n] \in lately[Owner(t)][n] /\ file[n] \in seen[Owner(t)][n]
  BY <1>4 DEF Inv, Asked
<1>6. Refreshing(t)'
  BY <1>1, <1>2, <1>4, <1>5 DEF Refreshing, Met, history
<1>7. ASSUME t \in Processes PROVE Looked(t)' /\ Asked(t)'
  <2>1. Asked(t)
    BY <1>7 DEF Inv
  <2>2. Asked(t)'
    BY <1>1, <1>7, <2>1, AskedFrame DEF history
  <2> QED
    BY <1>2, <2>2 DEF Looked
<1>8. CommandRead'
  BY <1>1 DEF Inv, CommandRead, history
<1> QED
  BY <1>1, <1>2, <1>3, <1>6, <1>7, <1>8, OthersKept

\* Text that was met is held, by the command during its call.
LEMMA LoadStep ==
    ASSUME Inv, Required \in Seq(Names), NEW t \in Threads, Load(t)
    PROVE  Inv'
<1>1. TypeOK /\ UNCHANGED <<file, degraded, about, met, at, results, status, history>>
  BY DEF Inv, Load, readiness
<1>2. stage[t] = "looking" /\ Refreshing(t) /\ about[t] \in Names
  BY DEF Inv, Load, Refreshing
<1>3. /\ Owner(t) \in Processes /\ (t \in Processes => Owner(t) = t)
      /\ Owner(t) = "command" => t = "command"
  BY Owners
<1>4. /\ stage'[t] \in {"clearing", "rotated"}
      /\ stage' \in [Threads -> Stages]
      /\ \A u \in Threads : u # t => stage'[u] = stage[u]
  BY <1>1 DEF Load, TypeOK, Stages
<1>5. /\ held' \in [Processes -> SUBSET Names]
      /\ \A q \in Processes : held'[q] = IF q = Owner(t) THEN held[q] \cup {about[t]} ELSE held[q]
  BY <1>1, <1>2 DEF Load, TypeOK
<1>6. TypeOK'
  BY <1>1, <1>4, <1>5 DEF TypeOK, history
<1>7. Refreshing(t)'
  <2>1. "text" \in met[t]
    BY DEF Load
  <2> QED
    BY <1>1, <1>2, <1>3, <1>4, <1>5, <2>1 DEF Refreshing, Met, Accessible, history
<1>8. ASSUME t \in Processes PROVE Looked(t)' /\ Asked(t)'
  <2>1. Asked(t)
    BY <1>8 DEF Inv
  <2>2. Asked(t)'
    BY <1>1, <1>5, <1>8, <2>1, AskedFrame DEF history
  <2> QED
    BY <1>4, <2>2 DEF Looked
<1>9. CommandRead'
  <2>1. CASE Owner(t) = "command"
    <3>1. t = "command" /\ t \in Processes /\ at[t] = "asking" /\ "text" \in seen[t][about[t]]
      BY <1>2, <1>3, <2>1 DEF Load, Refreshing, Processes
    <3>2. held'[t] = held[t] \cup {about[t]}
      BY <1>3, <1>5, <2>1, <3>1
    <3> QED
      BY <1>1, <3>1, <3>2 DEF Inv, CommandRead, history
  <2>2. CASE Owner(t) # "command"
    <3>1. held'["command"] = held["command"]
      BY <1>5, <2>2 DEF Processes
    <3> QED
      BY <1>1, <3>1 DEF Inv, CommandRead, history
  <2> QED
    BY <2>1, <2>2
<1> QED
  BY <1>1, <1>4, <1>5, <1>6, <1>7, <1>8, <1>9, OthersKept

\* The value held is confirmed by an accessible file.
LEMMA ConfirmStep ==
    ASSUME Inv, Required \in Seq(Names), NEW t \in Threads, Confirm(t)
    PROVE  Inv'
<1>1. TypeOK /\ UNCHANGED <<file, held, degraded, about, met, at, results, status, history>>
  BY DEF Inv, Confirm, knowledge, readiness
<1>2. stage[t] = "looking" /\ Refreshing(t)
  BY DEF Inv, Confirm
<1>3. /\ stage'[t] = "clearing"
      /\ stage' \in [Threads -> Stages]
      /\ \A u \in Threads : u # t => stage'[u] = stage[u]
  BY <1>1 DEF Confirm, TypeOK, Stages
<1>4. TypeOK'
  BY <1>1, <1>3 DEF TypeOK, history
<1>5. Met(t, Accessible) /\ about[t] \in held[Owner(t)]
  BY DEF Confirm, Met
<1>6. Refreshing(t)'
  BY <1>1, <1>2, <1>3, <1>5 DEF Refreshing, Met, history
<1>7. ASSUME t \in Processes PROVE Looked(t)' /\ Asked(t)'
  <2>1. Asked(t)
    BY <1>7 DEF Inv
  <2>2. Asked(t)'
    BY <1>1, <1>7, <2>1, AskedFrame DEF history
  <2> QED
    BY <1>3, <2>2 DEF Looked
<1>8. CommandRead'
  BY <1>1 DEF Inv, CommandRead, history
<1> QED
  BY <1>1, <1>3, <1>4, <1>6, <1>7, <1>8, OthersKept

\* A refresh is over, or has raised for a reason a result may fail for: what the two
\* ends of a refresh have in common.
LEMMA EndStep ==
    ASSUME Inv, Required \in Seq(Names), NEW t \in Threads, stage[t] # "idle",
           UNCHANGED <<file, held, about, met, at, status, history>>,
           degraded' \in [Processes -> SUBSET Names],
           Over(t) \/ (Raise(t) /\ (LinesRace \/ "undecodable" \in met[t])),
           \A q \in Processes :
              stage[q] = "looked" /\ about[q] \in degraded[q]
                 => about[q] \in degraded'[q] \/ Lately(q, about[q], Accessible),
           t \in Processes => about[t] \in degraded'[t] \/ Lately(t, about[t], Accessible)
    PROVE  Inv'
<1>1. TypeOK /\ Refreshing(t) /\ UNCHANGED <<heldFirst, seen, lately>>
  BY DEF Inv, history
<1>2. CASE Over(t)
  <2>1. /\ stage'[t] = IF t \in Processes THEN "looked" ELSE "idle"
        /\ stage' \in [Threads -> Stages]
        /\ \A u \in Threads : u # t => stage'[u] = stage[u]
        /\ UNCHANGED results
    BY <1>1, <1>2 DEF Over, TypeOK, Stages
  <2>2. TypeOK'
    BY <1>1, <2>1 DEF TypeOK
  <2>3. Refreshing(t)'
    BY <1>1, <2>1 DEF Refreshing
  <2>4. ASSUME t \in Processes PROVE Looked(t)' /\ Asked(t)'
    <3>1. Asked(t)
      BY <2>4 DEF Inv
    <3>2. Asked(t)'
      BY <1>1, <2>1, <2>4, <3>1, AskedFrame
    <3> QED
      BY <1>1, <2>4, <3>2 DEF Looked, Lately
  <2>5. CommandRead'
    BY <1>1 DEF Inv, CommandRead
  <2> QED
    BY <2>1, <2>2, <2>3, <2>4, <2>5, OthersKept
<1>3. CASE Raise(t) /\ (LinesRace \/ "undecodable" \in met[t])
  <2>1. /\ stage'[t] = "idle"
        /\ stage' \in [Threads -> Stages]
        /\ \A u \in Threads : u # t => stage'[u] = stage[u]
    BY <1>1, <1>3 DEF Raise, TypeOK, Stages
  <2>2. /\ results' \in [Processes -> Seq({"ok", "degraded", "failed"})]
        /\ \A q \in Processes : q # t => results'[q] = results[q]
        /\ t \in Processes => Asked(t)'
    <3>1. CASE t \in Processes
      <4>1. Report(t, "failed")
        BY <1>3, <3>1 DEF Raise
      <4>2. LinesRace \/ "undecodable" \in seen[t][about[t]]
        BY <1>1, <1>3, <3>1 DEF Refreshing
      <4> QED
        BY <3>1, <4>1, <4>2, ReportStep
    <3>2. CASE t \notin Processes
      BY <1>1, <1>3, <3>2 DEF Raise, TypeOK
    <3> QED
      BY <3>1, <3>2
  <2>3. TypeOK'
    BY <1>1, <2>1, <2>2 DEF TypeOK
  <2>4. Refreshing(t)' /\ Looked(t)'
    BY <2>1 DEF Refreshing, Looked
  <2>5. CommandRead'
    BY <1>1 DEF Inv, CommandRead
  <2> QED
    BY <2>1, <2>2, <2>3, <2>4, <2>5, OthersKept
<1> QED
  BY <1>2, <1>3

\* Whoever clears a flag has met the file accessible, and lately if a call goes on.
LEMMA DiscardStep ==
    ASSUME Inv, Required \in Seq(Names), NEW t \in Threads, DiscardDegraded(t)
    PROVE  Inv'
<1>1. TypeOK /\ Refreshing(t)
  BY DEF Inv
<1>2. /\ Met(t, Accessible)
      /\ at[Owner(t)] # "idle" => met[t] \subseteq lately[Owner(t)][about[t]]
  BY <1>1 DEF DiscardDegraded, Refreshing
<1>3. Owner(t) \in Processes /\ (t \in Processes => Owner(t) = t)
  BY Owners
<1>4. /\ degraded' \in [Processes -> SUBSET Names]
      /\ \A q \in Processes : degraded'[q] = IF q = Owner(t) THEN degraded[q] \ {about[t]}
                                                             ELSE degraded[q]
  BY <1>1 DEF DiscardDegraded, TypeOK
<1>5. at[Owner(t)] # "idle" => Lately(Owner(t), about[t], Accessible)
  BY <1>2 DEF Met, Lately
<1>6. ASSUME NEW q \in Processes, stage[q] = "looked", about[q] \in degraded[q]
      PROVE  about[q] \in degraded'[q] \/ Lately(q, about[q], Accessible)
  <2>1. at[q] = "asking"
    BY <1>6 DEF Inv, Refreshing, Threads
  <2> QED
    BY <1>4, <1>5, <1>6, <2>1
<1>7. t \in Processes => Lately(t, about[t], Accessible)
  BY <1>1, <1>3, <1>5 DEF DiscardDegraded, Refreshing
<1>8. /\ stage[t] # "idle" /\ UNCHANGED <<file, held, about, met, at, status, history>>
      /\ Over(t) \/ (Raise(t) /\ LinesRace)
  BY DEF DiscardDegraded, LogRaces
<1> QED
  BY <1>4, <1>6, <1>7, <1>8, EndStep

\* A flag that is set takes none away.
LEMMA MarkStep ==
    ASSUME Inv, Required \in Seq(Names), NEW t \in Threads, MarkDegraded(t)
    PROVE  Inv'
<1>1. TypeOK /\ about[t] \in Names
  BY DEF Inv, MarkDegraded, Refreshing
<1>2. Owner(t) \in Processes /\ (t \in Processes => Owner(t) = t)
  BY Owners
<1>3. /\ degraded' \in [Processes -> SUBSET Names]
      /\ \A q \in Processes : degraded'[q] = IF q = Owner(t) THEN degraded[q] \cup {about[t]}
                                                             ELSE degraded[q]
  BY <1>1 DEF MarkDegraded, TypeOK
<1>4. /\ stage[t] # "idle" /\ UNCHANGED <<file, held, about, met, at, status, history>>
      /\ Over(t) \/ (Raise(t) /\ LinesRace)
  BY DEF MarkDegraded, LogRaces
<1> QED
  BY <1>2, <1>3, <1>4, EndStep

\* A file that did not decode was accessible, and met so by the call it fails.
LEMMA DecodeStep ==
    ASSUME Inv, Required \in Seq(Names), NEW t \in Threads, DecodeFails(t)
    PROVE  Inv'
<1>1. /\ TypeOK /\ Refreshing(t)
      /\ UNCHANGED <<file, held, degraded, about, met, at, status, history>>
  BY DEF Inv, DecodeFails, knowledge
<1>2. stage[t] = "looking" /\ "undecodable" \in met[t] /\ Raise(t)
  BY DEF DecodeFails
<1>3. t \in Processes => Lately(t, about[t], Accessible)
  <2>1. t \in Processes => Owner(t) = t
    BY Owners
  <2> QED
    BY <1>1, <1>2, <2>1 DEF Refreshing, Lately, Accessible
<1>4. degraded' \in [Processes -> SUBSET Names]
  BY <1>1 DEF TypeOK
<1> QED
  BY <1>1, <1>2, <1>3, <1>4, EndStep

\* A new call starts from what is held, what the files are, and what is under way.
LEMMA AskStep ==
    ASSUME Inv, Required \in Seq(Names), NEW p \in Processes, Ask(p)
    PROVE  Inv'
<1>1. /\ TypeOK /\ UNCHANGED <<file, stage, about, met, status>>
      /\ at[p] # "asking" /\ p \in Threads
  BY DEF Inv, Ask, refresh, Threads
<1>2. /\ held' \in [Processes -> SUBSET Names]
      /\ degraded' \in [Processes -> SUBSET Names]
      /\ \A q \in Processes : q # p => held'[q] = held[q] /\ degraded'[q] = degraded[q]
      /\ held'[p] = IF p = "command" THEN {} ELSE held[p]
  BY <1>1 DEF Ask, TypeOK
<1>3. \A n \in Names : UnderWay(p, n) \subseteq States
  BY <1>1 DEF UnderWay, TypeOK
<1>4. /\ at'[p] = "asking" /\ results'[p] = <<>> /\ heldFirst'[p] = held'[p]
      /\ \A n \in Names : seen'[p][n] = {file[n]} /\ lately'[p][n] = {file[n]} \cup UnderWay(p, n)
      /\ \A q \in Processes :
            q # p => /\ at'[q] = at[q] /\ results'[q] = results[q]
                     /\ heldFirst'[q] = heldFirst[q]
                     /\ seen'[q] = seen[q] /\ lately'[q] = lately[q]
  BY <1>1, <1>2 DEF Ask, TypeOK
<1>5. TypeOK'
  <2>1. /\ [n \in Names |-> {file[n]}] \in [Names -> SUBSET States]
        /\ [n \in Names |-> {file[n]} \cup UnderWay(p, n)] \in [Names -> SUBSET States]
    BY <1>1, <1>3 DEF TypeOK
  <2>2. seen' \in [Processes -> [Names -> SUBSET States]]
    BY <1>1, <2>1 DEF Ask, TypeOK
  <2>3. lately' \in [Processes -> [Names -> SUBSET States]]
    BY <1>1, <2>1 DEF Ask, TypeOK
  <2>4. heldFirst' \in [Processes -> SUBSET Names]
    BY <1>1, <1>2 DEF Ask, TypeOK
  <2>5. /\ at' \in [Processes -> {"idle", "asking", "answered"}]
        /\ results' \in [Processes -> Seq({"ok", "degraded", "failed"})]
    BY <1>1 DEF Ask, TypeOK
  <2> QED
    BY <1>1, <1>2, <2>2, <2>3, <2>4, <2>5 DEF TypeOK
<1>6. stage[p] = "idle"
  BY <1>1 DEF Inv, Refreshing
<1>7. ASSUME NEW t \in Threads PROVE Refreshing(t)'
  <2>1. /\ Refreshing(t) /\ Owner(t) \in Processes
        /\ t \in Processes => Owner(t) = t
        /\ Owner(t) = "command" => t = "command"
    BY Owners DEF Inv
  <2> SUFFICES ASSUME stage[t] # "idle" PROVE Refreshing(t)'
    BY <1>1 DEF Refreshing
  <2>2. t # p
    BY <1>6
  <2>3. about[t] \in Names /\ held'[Owner(t)] = held[Owner(t)]
    BY <1>2, <2>1, <2>2 DEF Refreshing
  <2>4. at'[Owner(t)] # "idle" => met[t] \subseteq lately'[Owner(t)][about[t]]
    <3>1. CASE Owner(t) = p
      <4>1. met[t] \subseteq UnderWay(p, about[t])
        BY <3>1 DEF UnderWay
      <4> QED
        BY <1>4, <2>3, <3>1, <4>1
    <3>2. CASE Owner(t) # p
      BY <1>4, <2>1, <3>2 DEF Refreshing
    <3> QED
      BY <3>1, <3>2
  <2> QED
    BY <1>1, <1>4, <2>1, <2>2, <2>3, <2>4 DEF Refreshing, Met
<1>8. ASSUME NEW q \in Processes PROVE Looked(q)'
  <2>1. Looked(q)
    BY DEF Inv
  <2> QED
    BY <1>1, <1>2, <1>4, <1>6, <2>1 DEF Looked, Lately
<1>9. Asked(p)'
  BY <1>1, <1>4 DEF Asked
<1>10. ASSUME NEW q \in Processes, q # p PROVE Asked(q)'
  <2>1. Asked(q)
    BY DEF Inv
  <2> QED
    BY <1>1, <1>2, <1>4, <1>10, <2>1, AskedFrame
<1>11. CommandRead'
  <2>1. CASE p = "command"
    BY <1>2, <1>4, <2>1 DEF CommandRead
  <2>2. CASE p # "command"
    <3>1. /\ at'["command"] = at["command"] /\ held'["command"] = held["command"]
          /\ seen'["command"] = seen["command"]
      BY <1>2, <1>4, <2>2 DEF Processes
    <3> QED
      BY <3>1 DEF Inv, CommandRead
  <2> QED
    BY <2>1, <2>2
<1> QED
  BY <1>5, <1>7, <1>8, <1>9, <1>10, <1>11 DEF Inv

\* A state read without the flag is of a secret met accessible, and one read without
\* a value of a secret not held before either.
LEMMA ReadStep ==
    ASSUME Inv, Required \in Seq(Names), NEW p \in Processes, ReadState(p)
    PROVE  Inv'
<1>1. /\ TypeOK /\ Refreshing(p) /\ Looked(p) /\ Asked(p) /\ p \in Threads
      /\ UNCHANGED <<file, held, degraded, about, met, at, status, history>>
  BY DEF Inv, ReadState, knowledge, Threads
<1>2. stage[p] = "looked" /\ Report(p, Judgement(p, about[p]))
  BY DEF ReadState
<1>3. Judgement(p, about[p]) \in {"ok", "degraded", "failed"}
  BY JudgementType
<1>4. Judgement(p, about[p]) = "ok" => about[p] \in held[p] /\ Lately(p, about[p], Accessible)
  BY <1>1, <1>2 DEF Judgement, Looked
<1>5. Judgement(p, about[p]) = "failed" => about[p] \notin heldFirst[p]
  <2>1. Judgement(p, about[p]) = "failed" => about[p] \notin held[p]
    BY DEF Judgement
  <2>2. heldFirst[p] \subseteq held[p]
    BY <1>1, <1>2 DEF Refreshing, Asked
  <2> QED
    BY <2>1, <2>2
<1>6. stage[p] # "idle"
  BY <1>2
<1>7. /\ results' \in [Processes -> Seq({"ok", "degraded", "failed"})]
      /\ \A q \in Processes : q # p => results'[q] = results[q]
      /\ Asked(p)'
  BY <1>1, <1>2, <1>3, <1>4, <1>5, <1>6, ReportStep
<1>8. /\ stage'[p] = "idle"
      /\ stage' \in [Threads -> Stages]
      /\ \A u \in Threads : u # p => stage'[u] = stage[u]
  BY <1>1 DEF ReadState, TypeOK, Stages
<1>9. TypeOK'
  BY <1>1, <1>7, <1>8 DEF TypeOK, history
<1>10. Refreshing(p)' /\ Looked(p)'
  BY <1>8 DEF Refreshing, Looked
<1>11. CommandRead'
  BY <1>1 DEF Inv, CommandRead, history
<1> QED
  BY <1>1, <1>7, <1>8, <1>9, <1>10, <1>11, OthersKept

\* The answer is the verdict, over a result for every required secret.
LEMMA AnswerStep ==
    ASSUME Inv, Required \in Seq(Names), NEW p \in Processes, Answer(p)
    PROVE  Inv'
<1>1. /\ TypeOK /\ p \in Threads
      /\ UNCHANGED <<file, held, degraded, stage, about, met, results, heldFirst, seen, lately>>
  BY DEF Inv, Answer, knowledge, refresh, history, Threads
<1>2. /\ at[p] = "asking" /\ at'[p] = "answered" /\ stage[p] = "idle"
      /\ Len(results[p]) = Len(Required) /\ status'[p] = Verdict(results[p])
      /\ \A q \in Processes : q # p => at'[q] = at[q] /\ status'[q] = status[q]
  BY <1>1 DEF Answer, TypeOK
<1>3. TypeOK'
  BY <1>1, VerdictType DEF Answer, TypeOK
<1>4. ASSUME NEW t \in Threads PROVE Refreshing(t)'
  <2>1. Refreshing(t) /\ Owner(t) \in Processes
    BY Owners DEF Inv
  <2>2. at'[Owner(t)] # "idle" => at[Owner(t)] # "idle"
    BY <1>2, <2>1
  <2>3. stage[t] # "idle" /\ t \in Processes => at'[t] = at[t]
    BY <1>2
  <2> QED
    BY <1>1, <2>1, <2>2, <2>3 DEF Refreshing, Met
<1>5. ASSUME NEW q \in Processes PROVE Looked(q)'
  <2>1. Looked(q)
    BY DEF Inv
  <2> QED
    BY <1>1, <2>1 DEF Looked, Lately
<1>6. Asked(p)'
  <2>1. Asked(p)
    BY DEF Inv
  <2> QED
    BY <1>1, <1>2, <2>1 DEF Asked, Grounded, Lately, Verdict
<1>7. ASSUME NEW q \in Processes, q # p PROVE Asked(q)'
  <2>1. Asked(q)
    BY DEF Inv
  <2> QED
    BY <1>1, <1>2, <1>7, <2>1, AskedFrame
<1>8. CommandRead'
  <2>1. at'["command"] = "idle" <=> at["command"] = "idle"
    BY <1>2 DEF Processes
  <2> QED
    BY <1>1, <2>1 DEF Inv, CommandRead
<1> QED
  BY <1>3, <1>4, <1>5, <1>6, <1>7, <1>8 DEF Inv

\* Nobody has asked anything in the beginning.
LEMMA InitInv == Init => Inv
<1> SUFFICES ASSUME Init PROVE Inv
  OBVIOUS
<1>1. TypeOK
  BY DEF Init, TypeOK, States, Stages, Processes
<1>2. \A t \in Threads : Refreshing(t)
  BY DEF Init, Refreshing
<1>3. \A p \in Processes : Looked(p) /\ Asked(p)
  BY DEF Init, Looked, Asked, Threads
<1>4. CommandRead
  BY DEF Init, CommandRead, Processes
<1> QED
  BY <1>1, <1>2, <1>3, <1>4 DEF Inv

\* A step that changes nothing.
LEMMA StutterStep ==
    ASSUME Inv, UNCHANGED vars
    PROVE  Inv'
<1> USE DEF vars
<1>1. TypeOK'
  BY DEF Inv, TypeOK
<1>2. \A t \in Threads : Refreshing(t)'
  BY DEF Inv, Refreshing, Met
<1>3. \A p \in Processes : Looked(p)'
  BY DEF Inv, Looked, Lately
<1>4. \A p \in Processes : Asked(p)'
  BY DEF Inv, Asked, Grounded, Lately, Verdict
<1>5. CommandRead'
  BY DEF Inv, CommandRead
<1> QED
  BY <1>1, <1>2, <1>3, <1>4, <1>5 DEF Inv

(***************************************************************************)
(* The theorems.                                                           *)
(***************************************************************************)

\* The invariant holds of every behaviour.
THEOREM Invariance ==
    ASSUME Required \in Seq(Names)
    PROVE  Spec => []Inv
<1>1. Inv /\ [Next]_vars => Inv'
  <2> SUFFICES ASSUME Inv, [Next]_vars
               PROVE  Inv'
    OBVIOUS
  <2>1. CASE UNCHANGED vars
    BY <2>1, StutterStep
  <2>2. CASE \E n \in Names : \E state \in States : Mount(n, state)
    BY <2>2, MountStep
  <2>3. ASSUME NEW t \in Threads, Refresh(t) PROVE Inv'
    BY <2>3, LoadStep, ConfirmStep, DiscardStep, MarkStep, DecodeStep DEF Refresh
  <2>4. ASSUME NEW t \in Threads, NEW n \in Names, ServeRequest(t, n) PROVE Inv'
    BY <2>4, LookStep DEF ServeRequest, Requests
  <2>5. ASSUME NEW p \in Processes, RunProbe(p) PROVE Inv'
    <3>1. results[p] \in Seq({"ok", "degraded", "failed"}) /\ Len(results[p]) < Len(Required)
      BY <2>5 DEF Inv, TypeOK, RunProbe
    <3>2. Required[Len(results[p]) + 1] \in Names /\ p \in Threads
      BY <3>1 DEF Threads
    <3> QED
      BY <2>5, <3>2, LookStep DEF RunProbe
  <2>6. ASSUME NEW p \in Processes, Ask(p) \/ ReadState(p) \/ Answer(p) PROVE Inv'
    BY <2>6, AskStep, ReadStep, AnswerStep
  <2> QED
    BY <2>1, <2>2, <2>3, <2>4, <2>5, <2>6 DEF Next
<1> QED
  BY <1>1, InitInv, PTL DEF Spec

\* Types, whatever is required.
THEOREM HealthTypeCorrect ==
    ASSUME Required \in Seq(Names)
    PROVE  Spec => []TypeOK
<1>1. Inv => TypeOK
  BY DEF Inv
<1> QED
  BY <1>1, Invariance, PTL

\* An instance that holds its secrets is not taken out of rotation because their
\* files come and go between and under the probes, where no log line races.
THEOREM NotReadyHasACause ==
    ASSUME Required \in Seq(Names), ~LinesRace
    PROVE  Spec => []UnreadyForCause
<1>1. Inv => UnreadyForCause
  <2> SUFFICES ASSUME Inv, NEW p \in Processes, at[p] = "answered", status[p] = "not_ready"
               PROVE  \E n \in RequiredNames :
                         n \notin heldFirst[p] \/ "undecodable" \in seen[p][n]
    BY DEF UnreadyForCause
  <2>1. /\ results[p] \in Seq({"ok", "degraded", "failed"})
        /\ Len(results[p]) = Len(Required)
        /\ Verdict(results[p]) = "not_ready"
        /\ \A i \in 1..Len(results[p]) : Grounded(p, i)
    BY DEF Inv, TypeOK, Asked
  <2>2. PICK i \in DOMAIN results[p] : results[p][i] = "failed"
    BY <2>1 DEF Verdict
  <2>3. i \in 1..Len(results[p]) /\ i \in DOMAIN Required
    BY <2>1, <2>2
  <2> QED
    BY <2>1, <2>2, <2>3 DEF Grounded, RequiredNames
<1> QED
  BY <1>1, Invariance, PTL

\* What an answer without a reservation says of each required secret.
LEMMA ReadyResults ==
    ASSUME Inv, Required \in Seq(Names), NEW p \in Processes,
           at[p] = "answered", status[p] = "ready", NEW n \in RequiredNames
    PROVE  n \in held[p] /\ Lately(p, n, Accessible)
<1>1. /\ results[p] \in Seq({"ok", "degraded", "failed"})
      /\ Len(results[p]) = Len(Required)
      /\ Verdict(results[p]) = "ready"
      /\ \A i \in 1..Len(results[p]) : Grounded(p, i)
  BY DEF Inv, TypeOK, Asked
<1>2. PICK i \in DOMAIN Required : n = Required[i]
  BY DEF RequiredNames
<1>3. i \in 1..Len(results[p]) /\ i \in DOMAIN results[p]
  BY <1>1, <1>2
<1>4. results[p][i] \in {"ok", "degraded", "failed"}
  BY <1>1, <1>3
<1>5. results[p][i] = "ok"
  BY <1>1, <1>3, <1>4 DEF Verdict
<1> QED
  BY <1>1, <1>2, <1>3, <1>5 DEF Grounded

\* Ready without a reservation rests on a value held of every required secret, and
\* on a file accessible during the call or under a refresh the call overtook.
THEOREM ReadyHasBeenSeen ==
    ASSUME Required \in Seq(Names)
    PROVE  Spec => []ReadyIsFresh
<1>1. Inv => ReadyIsFresh
  BY ReadyResults DEF ReadyIsFresh, Lately
<1> QED
  BY <1>1, Invariance, PTL

\* The health command says ready of what it has read usable during its own run.
THEOREM CommandReadsWhatItVouchesFor ==
    ASSUME Required \in Seq(Names)
    PROVE  Spec => []CommandHasRead
<1>1. Inv => CommandHasRead
  <2> SUFFICES ASSUME Inv, at["command"] = "answered", status["command"] = "ready",
                      NEW n \in RequiredNames
               PROVE  "text" \in seen["command"][n]
    BY DEF CommandHasRead
  <2>1. n \in held["command"]
    BY ReadyResults DEF Processes
  <2> QED
    BY <2>1 DEF Inv, TypeOK, CommandRead
<1> QED
  BY <1>1, Invariance, PTL
=============================================================================
