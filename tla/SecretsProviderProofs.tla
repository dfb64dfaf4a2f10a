------------------------ MODULE SecretsProviderProofs ------------------------
(***************************************************************************)
(* What a provider without a lock promises, for any number of threads, any *)
(* secrets and any mishaps: SecretsProviderInvariant is inductive, and the *)
(* properties of the threaded run follow from it.  Then what it promises   *)
(* besides when calls are made one at a time, and that it implements       *)
(* LastKnownValue then.                                                    *)
(***************************************************************************)
EXTENDS SecretsProviderInvariant, TLAPS

USE TextsAssumption

\* The operator changes the file, and nothing else.
LEMMA OperatorFrame ==
    ASSUME TypeOK, FileInv, Operator
    PROVE  /\ file' \in File
           /\ FileInv'
           /\ changes' = changes + 1
           /\ UNCHANGED <<value, identity, degraded, rotations, registered, call>>
<1> USE DEF TypeOK, FileInv, Change, provider, Texts, File
<1>1. ASSUME NEW s \in Secrets, Rename(s)
      PROVE  /\ file' \in File /\ FileInv' /\ changes' = changes + 1
             /\ UNCHANGED <<value, identity, degraded, rotations, registered, call>>
  BY <1>1 DEF Rename
<1>2. ASSUME NEW s \in Secrets, WriteRest(s)
      PROVE  /\ file' \in File /\ FileInv' /\ changes' = changes + 1
             /\ UNCHANGED <<value, identity, degraded, rotations, registered, call>>
  BY <1>2 DEF WriteRest
<1>3. ASSUME NEW f \in Fragments, WriteFragment(f)
      PROVE  /\ file' \in File /\ FileInv' /\ changes' = changes + 1
             /\ UNCHANGED <<value, identity, degraded, rotations, registered, call>>
  BY <1>3 DEF WriteFragment
<1>4. CASE Truncate
  BY <1>4 DEF Truncate
<1>5. CASE Remove
  BY <1>5 DEF Remove
<1>6. CASE Garble
  BY <1>6 DEF Garble
<1>7. CASE Chmod
  <2>1. (~file.readable) \in BOOLEAN
    OBVIOUS
  <2>2. file' = [file EXCEPT !.readable = ~file.readable] /\ changes' = changes + 1
    BY <1>7 DEF Chmod
  <2>3. file' \in File
    BY <2>1, <2>2
  <2>4. /\ file'.state = file.state /\ file'.version = file.version
        /\ file'.text = file.text
    BY <2>2
  <2> QED
    BY <1>7, <2>2, <2>3, <2>4 DEF Chmod
<1> QED
  BY <1>1, <1>2, <1>3, <1>4, <1>5, <1>6, <1>7 DEF Operator


\* What one step of a thread leaves of all calls: they stay calls, and the other
\* threads' are untouched.
Moved(t) ==
    /\ call' \in [Threads -> Call]
    /\ \A u \in Threads : u # t => call'[u] = call[u]

\* What it leaves of its own.
SameCall(t) == call'[t].began = call[t].began /\ call'[t].held = call[t].held
SameFind(t) == call'[t].seen = call[t].seen /\ call'[t].text = call[t].text
SameCount(t) == call'[t].rotated = call[t].rotated /\ call'[t].tally = call[t].tally

\* The numbers a call carries are natural.
LEMMA CallTypes ==
    ASSUME TypeOK, NEW t \in Threads
    PROVE  call[t].seen \in Nat /\ call[t].tally \in Nat /\ call[t].began \in Nat
<1>1. call[t] \in Call
  BY DEF TypeOK
<1> QED
  BY <1>1 DEF Call

\* A thread's step sets its own frame and no other's.
LEMMA Becoming ==
    ASSUME TypeOK, NEW t \in Threads, NEW frame \in Call, Become(t, frame)
    PROVE  Moved(t) /\ call'[t] = frame
  BY DEF TypeOK, Become, Moved

\* Going to a place changes nothing else of the call.
LEMMA GotoMove ==
    ASSUME TypeOK, NEW t \in Threads, NEW to \in Places, Goto(t, to)
    PROVE  Moved(t) /\ SameCall(t) /\ SameFind(t) /\ SameCount(t) /\ call'[t].at = to
<1> DEFINE f == call[t]
           g == [f EXCEPT !.at = to]
<1>1. f \in Call
  BY DEF TypeOK
<1>2. Become(t, g)
  BY DEF Goto
<1>3. call'[t] = g /\ Moved(t)
  <2> HIDE DEF f
  <2>1. g \in Call
    BY <1>1 DEF Call
  <2> QED
    BY <1>2, <2>1, Becoming
<1> QED
  <2> HIDE DEF f
  <2>1. /\ g.at = to /\ g.seen = f.seen /\ g.text = f.text /\ g.began = f.began /\ g.held = f.held
        /\ g.rotated = f.rotated /\ g.tally = f.tally
    BY <1>1 DEF Call
  <2> QED
    BY <1>3, <2>1 DEF SameCall, SameFind, SameCount, f

\* The frame after stat: on to the comparison, with the version seen.
LEMMA SeenMove ==
    ASSUME TypeOK, NEW t \in Threads, NEW n \in Nat,
           Become(t, [call[t] EXCEPT !.at = "compare", !.seen = n])
    PROVE  Moved(t) /\ SameCall(t) /\ call'[t].at = "compare" /\ call'[t].seen = n
<1> DEFINE f == call[t]
           g == [f EXCEPT !.at = "compare", !.seen = n]
<1>1. f \in Call
  BY DEF TypeOK
<1>2. Become(t, g)
  OBVIOUS
<1>3. call'[t] = g /\ Moved(t)
  <2> HIDE DEF f
  <2>1. g \in Call
    BY <1>1 DEF Call, Places, Answers
  <2> QED
    BY <1>2, <2>1, Becoming
<1> QED
  <2> HIDE DEF f
  <2>1. g.at = "compare" /\ g.seen = n /\ g.began = f.began /\ g.held = f.held
    BY <1>1 DEF Call
  <2> QED
    BY <1>3, <2>1 DEF SameCall, SameFind, f

\* The frame after a successful read.
LEMMA TextMove ==
    ASSUME TypeOK, NEW t \in Threads, NEW x \in Texts \cup {NoText},
           Become(t, [call[t] EXCEPT !.at = "judge", !.text = x])
    PROVE  Moved(t) /\ SameCall(t) /\ call'[t].at = "judge" /\ call'[t].text = x
           /\ call'[t].seen = call[t].seen
<1> DEFINE f == call[t]
           g == [f EXCEPT !.at = "judge", !.text = x]
<1>1. f \in Call
  BY DEF TypeOK
<1>2. Become(t, g)
  OBVIOUS
<1>3. call'[t] = g /\ Moved(t)
  <2> HIDE DEF f
  <2>1. g \in Call
    BY <1>1 DEF Call, Places, Answers
  <2> QED
    BY <1>2, <2>1, Becoming
<1> QED
  <2> HIDE DEF f
  <2>1. g.at = "judge" /\ g.text = x /\ g.seen = f.seen /\ g.began = f.began /\ g.held = f.held
    BY <1>1 DEF Call
  <2> QED
    BY <1>3, <2>1 DEF SameCall, SameFind, f

\* The frame after the old and the new value were compared.
LEMMA JudgeMove ==
    ASSUME TypeOK, NEW t \in Threads, NEW r \in BOOLEAN,
           Become(t, [call[t] EXCEPT !.at = "value", !.rotated = r])
    PROVE  Moved(t) /\ SameCall(t) /\ SameFind(t) /\ call'[t].at = "value" /\ call'[t].rotated = r
<1> DEFINE f == call[t]
           g == [f EXCEPT !.at = "value", !.rotated = r]
<1>1. f \in Call
  BY DEF TypeOK
<1>2. Become(t, g)
  OBVIOUS
<1>3. call'[t] = g /\ Moved(t)
  <2> HIDE DEF f
  <2>1. g \in Call
    BY <1>1 DEF Call, Places, Answers
  <2> QED
    BY <1>2, <2>1, Becoming
<1> QED
  <2> HIDE DEF f
  <2>1. /\ g.at = "value" /\ g.text = f.text /\ g.seen = f.seen /\ g.began = f.began
        /\ g.held = f.held /\ g.rotated = r
    BY <1>1 DEF Call
  <2> QED
    BY <1>3, <2>1 DEF SameCall, SameFind, f

\* The frame after the rotation count was read.
LEMMA TallyMove ==
    ASSUME TypeOK, NEW t \in Threads, NEW n \in Nat,
           Become(t, [call[t] EXCEPT !.at = "tally", !.tally = n])
    PROVE  Moved(t) /\ SameCall(t) /\ SameFind(t) /\ call'[t].at = "tally" /\ call'[t].tally = n
<1> DEFINE f == call[t]
           g == [f EXCEPT !.at = "tally", !.tally = n]
<1>1. f \in Call
  BY DEF TypeOK
<1>2. Become(t, g)
  OBVIOUS
<1>3. call'[t] = g /\ Moved(t)
  <2> HIDE DEF f
  <2>1. g \in Call
    BY <1>1 DEF Call, Places, Answers
  <2> QED
    BY <1>2, <2>1, Becoming
<1> QED
  <2> HIDE DEF f
  <2>1. /\ g.at = "tally" /\ g.text = f.text /\ g.seen = f.seen /\ g.began = f.began
        /\ g.held = f.held /\ g.tally = n
    BY <1>1 DEF Call
  <2> QED
    BY <1>3, <2>1 DEF SameCall, SameFind, f

\* The frame of a call that ends with an answer and no value.
LEMMA AnswerMove ==
    ASSUME TypeOK, NEW t \in Threads, NEW a \in Answers,
           Become(t, [call[t] EXCEPT !.at = "idle", !.answer = a])
    PROVE  Moved(t) /\ SameCall(t) /\ call'[t].at = "idle" /\ call'[t].answer = a
<1> DEFINE f == call[t]
           g == [f EXCEPT !.at = "idle", !.answer = a]
<1>1. f \in Call
  BY DEF TypeOK
<1>2. Become(t, g)
  OBVIOUS
<1>3. call'[t] = g /\ Moved(t)
  <2> HIDE DEF f
  <2>1. g \in Call
    BY <1>1 DEF Call, Places, Answers
  <2> QED
    BY <1>2, <2>1, Becoming
<1> QED
  <2> HIDE DEF f
  <2>1. g.at = "idle" /\ g.answer = a /\ g.began = f.began /\ g.held = f.held
    BY <1>1 DEF Call
  <2> QED
    BY <1>3, <2>1 DEF SameCall, SameFind, f

\* The frame of a call that ends with what get() returned.
LEMMA GivenMove ==
    ASSUME TypeOK, NEW t \in Threads, NEW a \in Answers, NEW x \in Texts \cup {NoText},
           Become(t, [call[t] EXCEPT !.at = "idle", !.given = x, !.answer = a])
    PROVE  /\ Moved(t) /\ SameCall(t)
           /\ call'[t].at = "idle" /\ call'[t].answer = a /\ call'[t].given = x
<1> DEFINE f == call[t]
           g == [f EXCEPT !.at = "idle", !.given = x, !.answer = a]
<1>1. f \in Call
  BY DEF TypeOK
<1>2. Become(t, g)
  OBVIOUS
<1>3. call'[t] = g /\ Moved(t)
  <2> HIDE DEF f
  <2>1. g \in Call
    BY <1>1 DEF Call, Places, Answers
  <2> QED
    BY <1>2, <2>1, Becoming
<1> QED
  <2> HIDE DEF f
  <2>1. g.at = "idle" /\ g.answer = a /\ g.given = x /\ g.began = f.began /\ g.held = f.held
    BY <1>1 DEF Call
  <2> QED
    BY <1>3, <2>1 DEF SameCall, SameFind, f

\* The frame of a call that begins.
LEMMA FreshMove ==
    ASSUME TypeOK, NEW t \in Threads, NEW n \in Nat, NEW h \in BOOLEAN,
           Become(t, [NoCallYet EXCEPT !.at = "stat", !.began = n, !.held = h])
    PROVE  Moved(t) /\ call'[t].at = "stat" /\ call'[t].began = n /\ call'[t].held = h
<1> DEFINE f == NoCallYet
           g == [f EXCEPT !.at = "stat", !.began = n, !.held = h]
<1>1. f \in Call
  BY DEF TypeOK, NoCallYet, Call, Places, Answers
<1>2. Become(t, g)
  OBVIOUS
<1>3. call'[t] = g /\ Moved(t)
  <2> HIDE DEF f
  <2>1. g \in Call
    BY <1>1 DEF Call, Places, Answers
  <2> QED
    BY <1>2, <2>1, Becoming
<1> QED
  <2> HIDE DEF f
  <2>1. g.at = "stat" /\ g.began = n /\ g.held = h
    BY <1>1 DEF Call
  <2> QED
    BY <1>3, <2>1 DEF SameCall, SameFind, f

(* The steps, by where they lead. *)

\* A call begins with a note of the file's age and of whether a value is held.
LEMMA EnterMove ==
    ASSUME TypeOK, NEW t \in Threads, Enter(t)
    PROVE  Moved(t) /\ call'[t].at = "stat" /\ call'[t].began = changes
           /\ call'[t].held = (value # NoText)
<1>1. (value # NoText) \in BOOLEAN /\ changes \in Nat
  BY DEF TypeOK
<1>2. Become(t, [NoCallYet EXCEPT !.at = "stat", !.began = changes, !.held = value # NoText])
  BY DEF Enter
<1> QED
  BY <1>1, <1>2, FreshMove

\* stat finds nothing, or a version to compare.
LEMMA StatPathMove ==
    ASSUME TypeOK, NEW t \in Threads, StatPath(t)
    PROVE  /\ Moved(t) /\ SameCall(t)
           /\ \/ file.state = "absent" /\ call'[t].at = "mark"
              \/ file.state # "absent" /\ call'[t].at = "compare" /\ call'[t].seen = file.version
<1>1. CASE file.state = "absent"
  BY <1>1, GotoMove DEF StatPath, Places
<1>2. CASE file.state # "absent"
  <2>1. file.version \in Nat
    BY DEF TypeOK, File
  <2> QED
    BY <1>2, <2>1, SeenMove DEF StatPath
<1> QED
  BY <1>1, <1>2

\* An identity that is known leads to the access check, any other to a read.
LEMMA CompareIdentityMove ==
    ASSUME TypeOK, NEW t \in Threads, CompareIdentity(t)
    PROVE  /\ Moved(t) /\ SameCall(t) /\ SameFind(t)
           /\ \/ identity = call[t].seen /\ call'[t].at = "access"
              \/ identity # call[t].seen /\ call'[t].at = "read"
<1>1. CASE identity = call[t].seen
  BY <1>1, GotoMove DEF CompareIdentity, Places
<1>2. CASE identity # call[t].seen
  BY <1>2, GotoMove DEF CompareIdentity, Places
<1> QED
  BY <1>1, <1>2

\* A known file is clear if it is readable, and marked if it is not.
LEMMA CheckAccessMove ==
    ASSUME TypeOK, NEW t \in Threads, CheckAccess(t)
    PROVE  /\ Moved(t) /\ SameCall(t) /\ SameFind(t)
           /\ \/ file.state # "absent" /\ file.readable /\ call'[t].at = "clear"
              \/ ~(file.state # "absent" /\ file.readable) /\ call'[t].at = "mark"
<1>1. CASE file.state # "absent" /\ file.readable
  BY <1>1, GotoMove DEF CheckAccess, Places
<1>2. CASE ~(file.state # "absent" /\ file.readable)
  BY <1>2, GotoMove DEF CheckAccess, Places
<1> QED
  BY <1>1, <1>2

\* A read marks an unhealthy file, raises, or finds the text to judge.
LEMMA ReadTextMove ==
    ASSUME TypeOK, NEW t \in Threads, ReadText(t)
    PROVE  /\ Moved(t) /\ SameCall(t)
           /\ \/ ~Healthy /\ call'[t].at = "mark" /\ SameFind(t)
              \/ file.state = "garbled" /\ call'[t].at = "idle" /\ call'[t].answer = "raised"
              \/ /\ file.state = "text" /\ file.readable /\ call'[t].at = "judge"
                 /\ call'[t].text = file.text /\ call'[t].seen = call[t].seen
<1>1. CASE /\ ~file.readable \/ file.state \in {"absent", "empty"}
           /\ Goto(t, "mark")
  BY <1>1, GotoMove DEF Healthy, Places
<1>2. CASE /\ file.state = "garbled"
           /\ Become(t, [call[t] EXCEPT !.at = "idle", !.answer = "raised"])
  BY <1>2, AnswerMove DEF Answers
<1>3. CASE /\ file.readable /\ file.state = "text"
           /\ Become(t, [call[t] EXCEPT !.at = "judge", !.text = file.text])
  <2>1. file.text \in Texts \cup {NoText}
    BY DEF TypeOK, File
  <2> QED
    BY <1>3, <2>1, TextMove
<1> QED
  BY <1>1, <1>2, <1>3 DEF ReadText

\* What was judged is stored next.
LEMMA JudgeChangeMove ==
    ASSUME TypeOK, NEW t \in Threads, JudgeChange(t)
    PROVE  /\ Moved(t) /\ SameCall(t) /\ SameFind(t) /\ call'[t].at = "value"
           /\ call'[t].rotated => value # NoText
<1>1. (value # NoText /\ value # call[t].text) \in BOOLEAN
  OBVIOUS
<1> QED
  BY <1>1, JudgeMove DEF JudgeChange

\* The identity follows the value.
LEMMA StoreValueMove ==
    ASSUME TypeOK, NEW t \in Threads, StoreValue(t)
    PROVE  Moved(t) /\ SameCall(t) /\ SameFind(t) /\ SameCount(t) /\ call'[t].at = "identity"
  BY GotoMove DEF StoreValue, Places

\* With the identity stored the file is loaded.
LEMMA StoreIdentityMove ==
    ASSUME TypeOK, NEW t \in Threads, StoreIdentity(t)
    PROVE  Moved(t) /\ SameCall(t) /\ SameFind(t) /\ SameCount(t) /\ call'[t].at = "loaded"
  BY GotoMove DEF StoreIdentity, Places

\* A counted rotation is registered next.
LEMMA StoreRotationsMove ==
    ASSUME TypeOK, NEW t \in Threads, StoreRotations(t)
    PROVE  Moved(t) /\ SameCall(t) /\ SameFind(t) /\ call'[t].at = "register"
  BY GotoMove DEF StoreRotations, Places

\* A registered value is answered for.
LEMMA RegisterMove ==
    ASSUME TypeOK, NEW t \in Threads, Register(t)
    PROVE  Moved(t) /\ SameCall(t) /\ SameFind(t) /\ call'[t].at = "answer"
  BY GotoMove DEF Register, Places

\* A degraded secret is answered for.
LEMMA MarkDegradedMove ==
    ASSUME TypeOK, NEW t \in Threads, MarkDegraded(t)
    PROVE  Moved(t) /\ SameCall(t) /\ SameFind(t) /\ call'[t].at = "answer"
  BY GotoMove DEF MarkDegraded, Places

\* A clear file is answered for; a loaded one is counted and registered first.
LEMMA DiscardDegradedMove ==
    ASSUME TypeOK, NEW t \in Threads, DiscardDegraded(t)
    PROVE  /\ Moved(t) /\ SameCall(t) /\ SameFind(t)
           /\ \/ call[t].at = "clear" /\ call'[t].at = "answer"
              \/ call[t].at = "loaded" /\ call[t].rotated /\ call'[t].at = "count"
              \/ call[t].at = "loaded" /\ call'[t].at = "register"
<1>1. CASE call[t].at = "clear"
  BY <1>1, GotoMove DEF DiscardDegraded, At, Places
<1>2. CASE call[t].at = "loaded" /\ call[t].rotated
  BY <1>2, GotoMove DEF DiscardDegraded, At, Places
<1>3. CASE call[t].at = "loaded" /\ ~call[t].rotated
  BY <1>3, GotoMove DEF DiscardDegraded, At, Places
<1> QED
  BY <1>1, <1>2, <1>3 DEF DiscardDegraded, At

\* The count that was read is written back next.
LEMMA CountRotationMove ==
    ASSUME TypeOK, NEW t \in Threads, CountRotation(t)
    PROVE  /\ Moved(t) /\ SameCall(t) /\ SameFind(t) /\ call'[t].at = "tally"
           /\ call'[t].tally = rotations + 1
<1>1. rotations + 1 \in Nat
  BY DEF TypeOK
<1> QED
  BY <1>1, TallyMove DEF CountRotation

\* get() ends with the value, or with none to give.
LEMMA FetchValueMove ==
    ASSUME TypeOK, NEW t \in Threads, FetchValue(t)
    PROVE  /\ Moved(t) /\ SameCall(t) /\ call'[t].at = "idle"
           /\ call'[t].answer = IF value = NoText THEN "unavailable" ELSE "value"
           /\ call'[t].given = value
<1> DEFINE a == IF value = NoText THEN "unavailable" ELSE "value"
<1>1. a \in Answers /\ value \in Texts \cup {NoText}
  BY DEF TypeOK, Answers
<1>2. Become(t, [call[t] EXCEPT !.at = "idle", !.given = value, !.answer = a])
  BY DEF FetchValue
<1> HIDE DEF a
<1>3. /\ Moved(t) /\ SameCall(t) /\ call'[t].at = "idle" /\ call'[t].answer = a
      /\ call'[t].given = value
  BY <1>1, <1>2, GivenMove
<1> QED
  BY <1>3 DEF a

\* The probe fails only when no value is held, and is content with a fresh one.
LEMMA ReportStateMove ==
    ASSUME TypeOK, NEW t \in Threads, ReportState(t)
    PROVE  /\ Moved(t) /\ SameCall(t) /\ call'[t].at = "idle"
           /\ call'[t].answer \in {"probe_failed", "probe_degraded", "probe_ok"}
           /\ call'[t].answer = "probe_failed" <=> value = NoText
           /\ call'[t].answer = "probe_ok" <=> (value # NoText /\ ~degraded)
<1> DEFINE a == CASE value = NoText -> "probe_failed"
                  [] value # NoText /\ degraded -> "probe_degraded"
                  [] OTHER -> "probe_ok"
<1>1. /\ a \in {"probe_failed", "probe_degraded", "probe_ok"}
      /\ a = "probe_failed" <=> value = NoText
      /\ a = "probe_ok" <=> (value # NoText /\ ~degraded)
  OBVIOUS
<1>2. a \in Answers
  BY <1>1 DEF Answers
<1>3. Become(t, [call[t] EXCEPT !.at = "idle", !.answer = a])
  BY DEF ReportState
<1> HIDE DEF a
<1>4. Moved(t) /\ SameCall(t) /\ call'[t].at = "idle" /\ call'[t].answer = a
  BY <1>2, <1>3, AnswerMove
<1> QED
  BY <1>1, <1>4

\* A raced log line ends the call, wherever it was written.
LEMMA LogRacesMove ==
    ASSUME TypeOK, NEW t \in Threads, LogRaces(t)
    PROVE  /\ Moved(t) /\ SameCall(t) /\ call'[t].at = "idle" /\ call'[t].answer = "raised"
           /\ "race" \in Mishaps
  BY AnswerMove DEF LogRaces, Answers

\* Types: an identity is stored after a value, and a value is never removed.
LEMMA TypeStep ==
    ASSUME TypeOK, FileInv, LoadInv, [Next]_vars
    PROVE  TypeOK'
<1> USE DEF Moved, SameCall, SameFind, At, provider, environment, TypeOK
<1>1. CASE Operator
  BY <1>1, OperatorFrame
<1>2. ASSUME NEW t \in Threads, Enter(t) PROVE TypeOK'
  BY <1>2, EnterMove DEF Enter
<1>3. ASSUME NEW t \in Threads, StatPath(t) PROVE TypeOK'
  BY <1>3, StatPathMove DEF StatPath
<1>4. ASSUME NEW t \in Threads, CompareIdentity(t) PROVE TypeOK'
  BY <1>4, CompareIdentityMove DEF CompareIdentity
<1>5. ASSUME NEW t \in Threads, CheckAccess(t) PROVE TypeOK'
  BY <1>5, CheckAccessMove DEF CheckAccess
<1>6. ASSUME NEW t \in Threads, ReadText(t) PROVE TypeOK'
  BY <1>6, ReadTextMove DEF ReadText
<1>7. ASSUME NEW t \in Threads, JudgeChange(t) PROVE TypeOK'
  BY <1>7, JudgeChangeMove DEF JudgeChange
<1>8. ASSUME NEW t \in Threads, StoreValue(t) PROVE TypeOK'
  BY <1>8, StoreValueMove DEF StoreValue, LoadInv, Loading, Stored
<1>9. ASSUME NEW t \in Threads, StoreIdentity(t) PROVE TypeOK'
  BY <1>9, StoreIdentityMove, CallTypes DEF StoreIdentity, LoadInv, Loading, Stored
<1>10. ASSUME NEW t \in Threads, DiscardDegraded(t) PROVE TypeOK'
  BY <1>10, DiscardDegradedMove DEF DiscardDegraded
<1>11. ASSUME NEW t \in Threads, CountRotation(t) PROVE TypeOK'
  BY <1>11, CountRotationMove DEF CountRotation
<1>12. ASSUME NEW t \in Threads, StoreRotations(t) PROVE TypeOK'
  BY <1>12, StoreRotationsMove, CallTypes DEF StoreRotations
<1>13. ASSUME NEW t \in Threads, Register(t) PROVE TypeOK'
  BY <1>13, RegisterMove DEF Register, LoadInv, Loading, Stored
<1>14. ASSUME NEW t \in Threads, MarkDegraded(t) PROVE TypeOK'
  BY <1>14, MarkDegradedMove DEF MarkDegraded
<1>15. ASSUME NEW t \in Threads, FetchValue(t) PROVE TypeOK'
  BY <1>15, FetchValueMove DEF FetchValue
<1>16. ASSUME NEW t \in Threads, ReportState(t) PROVE TypeOK'
  BY <1>16, ReportStateMove DEF ReportState
<1>17. ASSUME NEW t \in Threads, LogRaces(t) PROVE TypeOK'
  BY <1>17, LogRacesMove DEF LogRaces
<1>18. CASE UNCHANGED vars
  BY <1>18 DEF vars
<1> QED
  BY <1>1, <1>2, <1>3, <1>4, <1>5, <1>6, <1>7, <1>8, <1>9, <1>10, <1>11,
     <1>12, <1>13, <1>14, <1>15, <1>16, <1>17, <1>18 DEF Next, Serve, Refresh

\* A thread leaves the file alone.
LEMMA FileStep ==
    ASSUME TypeOK, FileInv, [Next]_vars
    PROVE  FileInv'
<1> USE DEF Moved, SameCall, SameFind, At, provider, environment, FileInv
<1>1. CASE Operator
  BY <1>1, OperatorFrame
<1>2. ASSUME NEW t \in Threads, Enter(t) PROVE FileInv'
  BY <1>2, EnterMove DEF Enter
<1>3. ASSUME NEW t \in Threads, StatPath(t) PROVE FileInv'
  BY <1>3, StatPathMove DEF StatPath
<1>4. ASSUME NEW t \in Threads, CompareIdentity(t) PROVE FileInv'
  BY <1>4, CompareIdentityMove DEF CompareIdentity
<1>5. ASSUME NEW t \in Threads, CheckAccess(t) PROVE FileInv'
  BY <1>5, CheckAccessMove DEF CheckAccess
<1>6. ASSUME NEW t \in Threads, ReadText(t) PROVE FileInv'
  BY <1>6, ReadTextMove DEF ReadText
<1>7. ASSUME NEW t \in Threads, JudgeChange(t) PROVE FileInv'
  BY <1>7, JudgeChangeMove DEF JudgeChange
<1>8. ASSUME NEW t \in Threads, StoreValue(t) PROVE FileInv'
  BY <1>8, StoreValueMove DEF StoreValue
<1>9. ASSUME NEW t \in Threads, StoreIdentity(t) PROVE FileInv'
  BY <1>9, StoreIdentityMove DEF StoreIdentity
<1>10. ASSUME NEW t \in Threads, DiscardDegraded(t) PROVE FileInv'
  BY <1>10, DiscardDegradedMove DEF DiscardDegraded
<1>11. ASSUME NEW t \in Threads, CountRotation(t) PROVE FileInv'
  BY <1>11, CountRotationMove DEF CountRotation
<1>12. ASSUME NEW t \in Threads, StoreRotations(t) PROVE FileInv'
  BY <1>12, StoreRotationsMove DEF StoreRotations
<1>13. ASSUME NEW t \in Threads, Register(t) PROVE FileInv'
  BY <1>13, RegisterMove DEF Register
<1>14. ASSUME NEW t \in Threads, MarkDegraded(t) PROVE FileInv'
  BY <1>14, MarkDegradedMove DEF MarkDegraded
<1>15. ASSUME NEW t \in Threads, FetchValue(t) PROVE FileInv'
  BY <1>15, FetchValueMove DEF FetchValue
<1>16. ASSUME NEW t \in Threads, ReportState(t) PROVE FileInv'
  BY <1>16, ReportStateMove DEF ReportState
<1>17. ASSUME NEW t \in Threads, LogRaces(t) PROVE FileInv'
  BY <1>17, LogRacesMove DEF LogRaces
<1>18. CASE UNCHANGED vars
  BY <1>18 DEF vars
<1> QED
  BY <1>1, <1>2, <1>3, <1>4, <1>5, <1>6, <1>7, <1>8, <1>9, <1>10, <1>11,
     <1>12, <1>13, <1>14, <1>15, <1>16, <1>17, <1>18 DEF Next, Serve, Refresh

\* What a thread knows stays true: values are replaced, never removed.
LEMMA LoadStep ==
    ASSUME TypeOK, FileInv, LoadInv, [Next]_vars
    PROVE  LoadInv'
<1> USE DEF Moved, SameCall, SameFind, At, provider, environment, TypeOK, LoadInv,
     Loading, Stored, FileInv
<1>1. CASE Operator
  BY <1>1, OperatorFrame DEF LoadInv
<1>2. ASSUME NEW t \in Threads, Enter(t) PROVE LoadInv'
  BY <1>2, EnterMove DEF Enter
<1>3. ASSUME NEW t \in Threads, StatPath(t) PROVE LoadInv'
  <2>1. At(t, "stat") /\ UNCHANGED <<environment, provider>>
    BY <1>3 DEF StatPath
  <2> QED
    BY <1>3, <2>1, StatPathMove
<1>4. ASSUME NEW t \in Threads, CompareIdentity(t) PROVE LoadInv'
  BY <1>4, CompareIdentityMove DEF CompareIdentity
<1>5. ASSUME NEW t \in Threads, CheckAccess(t) PROVE LoadInv'
  BY <1>5, CheckAccessMove DEF CheckAccess
<1>6. ASSUME NEW t \in Threads, ReadText(t) PROVE LoadInv'
  <2>1. At(t, "read") /\ UNCHANGED <<environment, provider>>
    BY <1>6 DEF ReadText
  <2> QED
    BY <1>6, <2>1, ReadTextMove
<1>7. ASSUME NEW t \in Threads, JudgeChange(t) PROVE LoadInv'
  <2>1. At(t, "judge") /\ UNCHANGED <<environment, provider>>
    BY <1>7 DEF JudgeChange
  <2> QED
    BY <1>7, <2>1, JudgeChangeMove
<1>8. ASSUME NEW t \in Threads, StoreValue(t) PROVE LoadInv'
  BY <1>8, StoreValueMove DEF StoreValue
<1>9. ASSUME NEW t \in Threads, StoreIdentity(t) PROVE LoadInv'
  BY <1>9, StoreIdentityMove DEF StoreIdentity
<1>10. ASSUME NEW t \in Threads, DiscardDegraded(t) PROVE LoadInv'
  <2>1. UNCHANGED <<environment, value, identity, rotations, registered>>
    BY <1>10 DEF DiscardDegraded
  <2> QED
    BY <1>10, <2>1, DiscardDegradedMove
<1>11. ASSUME NEW t \in Threads, CountRotation(t) PROVE LoadInv'
  <2>1. At(t, "count") /\ UNCHANGED <<environment, provider>>
    BY <1>11 DEF CountRotation
  <2> QED
    BY <1>11, <2>1, CountRotationMove
<1>12. ASSUME NEW t \in Threads, StoreRotations(t) PROVE LoadInv'
  BY <1>12, StoreRotationsMove DEF StoreRotations
<1>13. ASSUME NEW t \in Threads, Register(t) PROVE LoadInv'
  BY <1>13, RegisterMove DEF Register
<1>14. ASSUME NEW t \in Threads, MarkDegraded(t) PROVE LoadInv'
  BY <1>14, MarkDegradedMove DEF MarkDegraded
<1>15. ASSUME NEW t \in Threads, FetchValue(t) \/ ReportState(t) \/ LogRaces(t) PROVE LoadInv'
  <2>1. Moved(t) /\ SameCall(t) /\ call'[t].at = "idle"
    BY <1>15, FetchValueMove, ReportStateMove, LogRacesMove
  <2>2. UNCHANGED value
    BY <1>15 DEF FetchValue, ReportState, LogRaces
  <2> QED
    BY <2>1, <2>2
<1>16. CASE UNCHANGED vars
  BY <1>16 DEF vars
<1> QED
  BY <1>1, <1>2, <1>3, <1>4, <1>5, <1>6, <1>7, <1>8, <1>9, <1>10, <1>11,
     <1>12, <1>13, <1>14, <1>15, <1>16 DEF Next, Serve, Refresh

\* A thread's step leaves the others as still as they were, since no value is removed.
LEMMA StillFrame ==
    ASSUME TypeOK, StillInv, NEW t \in Threads, Moved(t), UNCHANGED environment,
           value # NoText => value' # NoText, StillOf(t)'
    PROVE  StillInv'
<1> SUFFICES ASSUME NEW u \in Threads PROVE StillOf(u)'
  BY DEF StillInv
<1>1. StillOf(u)
  BY DEF StillInv
<1>2. CASE u # t
  <2>1. call'[u] = call[u]
    BY <1>2 DEF Moved
  <2> QED
    BY <1>1, <2>1 DEF StillOf, Still, Healthy, Answered, At, environment
<1> QED
  BY <1>2

\* A failure over a still and healthy file would need one the file caused.
LEMMA StillStep ==
    ASSUME TypeOK, FileInv, LoadInv, StillInv, [Next]_vars
    PROVE  StillInv'
<1> USE DEF Moved, SameCall, SameFind, At, provider, environment, TypeOK, StillOf,
     Still, Healthy, Answered, Failures, LoadInv, Loading, Stored, FileInv
<1>1. CASE Operator
  <2>1. changes' = changes + 1 /\ call' = call
    BY <1>1, OperatorFrame
  <2>2. ASSUME NEW u \in Threads
        PROVE  call'[u].began <= changes' /\ call'[u].began # changes'
    BY <2>1, <2>2, CallTypes DEF StillInv
  <2> QED
    BY <2>2 DEF StillInv
<1>2. ASSUME NEW t \in Threads, Enter(t) PROVE StillInv'
  <2>1. At(t, "idle") /\ UNCHANGED <<environment, provider>>
    BY <1>2 DEF Enter
  <2>2. StillOf(t)'
    BY <1>2, <2>1, EnterMove
  <2>3. Moved(t) /\ UNCHANGED environment /\ (value # NoText => value' # NoText)
    BY <1>2, EnterMove DEF Enter
  <2> QED
    BY <2>2, <2>3, StillFrame
<1>3. ASSUME NEW t \in Threads, StatPath(t) PROVE StillInv'
  <2>1. StillOf(t)
    BY DEF StillInv
  <2>2. StillOf(t)'
    BY <1>3, <2>1, StatPathMove DEF StatPath
  <2>3. Moved(t) /\ UNCHANGED environment /\ (value # NoText => value' # NoText)
    BY <1>3, StatPathMove DEF StatPath
  <2> QED
    BY <2>2, <2>3, StillFrame
<1>4. ASSUME NEW t \in Threads, CompareIdentity(t) PROVE StillInv'
  <2>1. StillOf(t)
    BY DEF StillInv
  <2>2. StillOf(t)'
    BY <1>4, <2>1, CompareIdentityMove DEF CompareIdentity
  <2>3. Moved(t) /\ UNCHANGED environment /\ (value # NoText => value' # NoText)
    BY <1>4, CompareIdentityMove DEF CompareIdentity
  <2> QED
    BY <2>2, <2>3, StillFrame
<1>5. ASSUME NEW t \in Threads, CheckAccess(t) PROVE StillInv'
  <2>1. StillOf(t)
    BY DEF StillInv
  <2>2. StillOf(t)'
    BY <1>5, <2>1, CheckAccessMove DEF CheckAccess
  <2>3. Moved(t) /\ UNCHANGED environment /\ (value # NoText => value' # NoText)
    BY <1>5, CheckAccessMove DEF CheckAccess
  <2> QED
    BY <2>2, <2>3, StillFrame
<1>6. ASSUME NEW t \in Threads, ReadText(t) PROVE StillInv'
  <2>1. StillOf(t)
    BY DEF StillInv
  <2>2. StillOf(t)'
    BY <1>6, <2>1, ReadTextMove DEF ReadText
  <2>3. Moved(t) /\ UNCHANGED environment /\ (value # NoText => value' # NoText)
    BY <1>6, ReadTextMove DEF ReadText
  <2> QED
    BY <2>2, <2>3, StillFrame
<1>7. ASSUME NEW t \in Threads, JudgeChange(t) PROVE StillInv'
  <2>1. StillOf(t)
    BY DEF StillInv
  <2>2. StillOf(t)'
    BY <1>7, <2>1, JudgeChangeMove DEF JudgeChange
  <2>3. Moved(t) /\ UNCHANGED environment /\ (value # NoText => value' # NoText)
    BY <1>7, JudgeChangeMove DEF JudgeChange
  <2> QED
    BY <2>2, <2>3, StillFrame
<1>8. ASSUME NEW t \in Threads, StoreValue(t) PROVE StillInv'
  <2>1. StillOf(t)
    BY DEF StillInv
  <2>2. StillOf(t)'
    BY <1>8, <2>1, StoreValueMove DEF StoreValue
  <2>3. Moved(t) /\ UNCHANGED environment /\ (value # NoText => value' # NoText)
    BY <1>8, StoreValueMove DEF StoreValue
  <2> QED
    BY <2>2, <2>3, StillFrame
<1>9. ASSUME NEW t \in Threads, StoreIdentity(t) PROVE StillInv'
  <2>1. StillOf(t)
    BY DEF StillInv
  <2>2. StillOf(t)'
    BY <1>9, <2>1, StoreIdentityMove DEF StoreIdentity
  <2>3. Moved(t) /\ UNCHANGED environment /\ (value # NoText => value' # NoText)
    BY <1>9, StoreIdentityMove DEF StoreIdentity
  <2> QED
    BY <2>2, <2>3, StillFrame
<1>10. ASSUME NEW t \in Threads, DiscardDegraded(t) PROVE StillInv'
  <2>1. StillOf(t)
    BY DEF StillInv
  <2>2. StillOf(t)'
    BY <1>10, <2>1, DiscardDegradedMove DEF DiscardDegraded
  <2>3. Moved(t) /\ UNCHANGED environment /\ (value # NoText => value' # NoText)
    BY <1>10, DiscardDegradedMove DEF DiscardDegraded
  <2> QED
    BY <2>2, <2>3, StillFrame
<1>11. ASSUME NEW t \in Threads, CountRotation(t) PROVE StillInv'
  <2>1. StillOf(t)
    BY DEF StillInv
  <2>2. StillOf(t)'
    BY <1>11, <2>1, CountRotationMove DEF CountRotation
  <2>3. Moved(t) /\ UNCHANGED environment /\ (value # NoText => value' # NoText)
    BY <1>11, CountRotationMove DEF CountRotation
  <2> QED
    BY <2>2, <2>3, StillFrame
<1>12. ASSUME NEW t \in Threads, StoreRotations(t) PROVE StillInv'
  <2>1. StillOf(t)
    BY DEF StillInv
  <2>2. StillOf(t)'
    BY <1>12, <2>1, StoreRotationsMove DEF StoreRotations
  <2>3. Moved(t) /\ UNCHANGED environment /\ (value # NoText => value' # NoText)
    BY <1>12, StoreRotationsMove DEF StoreRotations
  <2> QED
    BY <2>2, <2>3, StillFrame
<1>13. ASSUME NEW t \in Threads, Register(t) PROVE StillInv'
  <2>1. StillOf(t)
    BY DEF StillInv
  <2>2. StillOf(t)'
    BY <1>13, <2>1, RegisterMove DEF Register
  <2>3. Moved(t) /\ UNCHANGED environment /\ (value # NoText => value' # NoText)
    BY <1>13, RegisterMove DEF Register
  <2> QED
    BY <2>2, <2>3, StillFrame
<1>14. ASSUME NEW t \in Threads, MarkDegraded(t) PROVE StillInv'
  <2>1. StillOf(t)
    BY DEF StillInv
  <2>2. StillOf(t)'
    BY <1>14, <2>1, MarkDegradedMove DEF MarkDegraded
  <2>3. Moved(t) /\ UNCHANGED environment /\ (value # NoText => value' # NoText)
    BY <1>14, MarkDegradedMove DEF MarkDegraded
  <2> QED
    BY <2>2, <2>3, StillFrame
<1>15. ASSUME NEW t \in Threads, FetchValue(t) PROVE StillInv'
  <2>1. StillOf(t)
    BY DEF StillInv
  <2>2. StillOf(t)'
    BY <1>15, <2>1, FetchValueMove DEF FetchValue
  <2>3. Moved(t) /\ UNCHANGED environment /\ (value # NoText => value' # NoText)
    BY <1>15, FetchValueMove DEF FetchValue
  <2> QED
    BY <2>2, <2>3, StillFrame
<1>16. ASSUME NEW t \in Threads, ReportState(t) PROVE StillInv'
  <2>1. StillOf(t)
    BY DEF StillInv
  <2>2. StillOf(t)'
    BY <1>16, <2>1, ReportStateMove DEF ReportState
  <2>3. Moved(t) /\ UNCHANGED environment /\ (value # NoText => value' # NoText)
    BY <1>16, ReportStateMove DEF ReportState
  <2> QED
    BY <2>2, <2>3, StillFrame
<1>17. ASSUME NEW t \in Threads, LogRaces(t) PROVE StillInv'
  <2>1. StillOf(t)
    BY DEF StillInv
  <2>2. StillOf(t)'
    BY <1>17, <2>1, LogRacesMove DEF LogRaces
  <2>3. Moved(t) /\ UNCHANGED environment /\ (value # NoText => value' # NoText)
    BY <1>17, LogRacesMove DEF LogRaces
  <2> QED
    BY <2>2, <2>3, StillFrame
<1>18. CASE UNCHANGED vars
  BY <1>18 DEF vars, StillInv
<1> QED
  BY <1>1, <1>2, <1>3, <1>4, <1>5, <1>6, <1>7, <1>8, <1>9, <1>10, <1>11,
     <1>12, <1>13, <1>14, <1>15, <1>16, <1>17, <1>18 DEF Next, Serve, Refresh

\* A call that began with a value held finds one at its end.
LEMMA HeldStep ==
    ASSUME TypeOK, FileInv, LoadInv, HeldInv, [Next]_vars
    PROVE  HeldInv'
<1> USE DEF Moved, SameCall, SameFind, At, provider, environment, TypeOK, HeldInv,
     Answered, LoadInv, FileInv
<1>1. CASE Operator
  BY <1>1, OperatorFrame DEF HeldInv, Answered
<1>2. ASSUME NEW t \in Threads, Enter(t) PROVE HeldInv'
  BY <1>2, EnterMove DEF Enter
<1>3. ASSUME NEW t \in Threads, StatPath(t) PROVE HeldInv'
  BY <1>3, StatPathMove DEF StatPath
<1>4. ASSUME NEW t \in Threads, CompareIdentity(t) PROVE HeldInv'
  BY <1>4, CompareIdentityMove DEF CompareIdentity
<1>5. ASSUME NEW t \in Threads, CheckAccess(t) PROVE HeldInv'
  BY <1>5, CheckAccessMove DEF CheckAccess
<1>6. ASSUME NEW t \in Threads, ReadText(t) PROVE HeldInv'
  <2>1. At(t, "read") /\ UNCHANGED <<environment, provider>>
    BY <1>6 DEF ReadText
  <2> QED
    BY <1>6, <2>1, ReadTextMove
<1>7. ASSUME NEW t \in Threads, JudgeChange(t) PROVE HeldInv'
  <2>1. At(t, "judge") /\ UNCHANGED <<environment, provider>>
    BY <1>7 DEF JudgeChange
  <2> QED
    BY <1>7, <2>1, JudgeChangeMove
<1>8. ASSUME NEW t \in Threads, StoreValue(t) PROVE HeldInv'
  BY <1>8, StoreValueMove DEF StoreValue
<1>9. ASSUME NEW t \in Threads, StoreIdentity(t) PROVE HeldInv'
  BY <1>9, StoreIdentityMove DEF StoreIdentity
<1>10. ASSUME NEW t \in Threads, DiscardDegraded(t) PROVE HeldInv'
  BY <1>10, DiscardDegradedMove DEF DiscardDegraded
<1>11. ASSUME NEW t \in Threads, CountRotation(t) PROVE HeldInv'
  <2>1. At(t, "count") /\ UNCHANGED <<environment, provider>>
    BY <1>11 DEF CountRotation
  <2> QED
    BY <1>11, <2>1, CountRotationMove
<1>12. ASSUME NEW t \in Threads, StoreRotations(t) PROVE HeldInv'
  BY <1>12, StoreRotationsMove DEF StoreRotations
<1>13. ASSUME NEW t \in Threads, Register(t) PROVE HeldInv'
  BY <1>13, RegisterMove DEF Register
<1>14. ASSUME NEW t \in Threads, MarkDegraded(t) PROVE HeldInv'
  BY <1>14, MarkDegradedMove DEF MarkDegraded
<1>15. ASSUME NEW t \in Threads, FetchValue(t) PROVE HeldInv'
  BY <1>15, FetchValueMove DEF FetchValue
<1>16. ASSUME NEW t \in Threads, ReportState(t) PROVE HeldInv'
  BY <1>16, ReportStateMove DEF ReportState
<1>17. ASSUME NEW t \in Threads, LogRaces(t) PROVE HeldInv'
  BY <1>17, LogRacesMove DEF LogRaces
<1>18. CASE UNCHANGED vars
  BY <1>18 DEF vars
<1> QED
  BY <1>1, <1>2, <1>3, <1>4, <1>5, <1>6, <1>7, <1>8, <1>9, <1>10, <1>11,
     <1>12, <1>13, <1>14, <1>15, <1>16, <1>17, <1>18 DEF Next, Serve, Refresh

\* A thread that replaces a value is the one on its way to register the new one.
LEMMA PendingStep ==
    ASSUME TypeOK, LoadInv, PendingInv, FileInv, [Next]_vars
    PROVE  PendingInv'
<1> USE DEF Moved, SameCall, SameFind, At, provider, environment, TypeOK, PendingInv,
     Stored, Loading, LoadInv
<1>1. CASE Operator
  BY <1>1, OperatorFrame DEF PendingInv
<1>2. ASSUME NEW t \in Threads, Enter(t) PROVE PendingInv'
  BY <1>2, EnterMove DEF Enter
<1>3. ASSUME NEW t \in Threads, StatPath(t) PROVE PendingInv'
  BY <1>3, StatPathMove DEF StatPath
<1>4. ASSUME NEW t \in Threads, CompareIdentity(t) PROVE PendingInv'
  BY <1>4, CompareIdentityMove DEF CompareIdentity
<1>5. ASSUME NEW t \in Threads, CheckAccess(t) PROVE PendingInv'
  BY <1>5, CheckAccessMove DEF CheckAccess
<1>6. ASSUME NEW t \in Threads, ReadText(t) PROVE PendingInv'
  <2>1. At(t, "read") /\ UNCHANGED <<environment, provider>>
    BY <1>6 DEF ReadText
  <2> QED
    BY <1>6, <2>1, ReadTextMove
<1>7. ASSUME NEW t \in Threads, JudgeChange(t) PROVE PendingInv'
  <2>1. At(t, "judge") /\ UNCHANGED <<environment, provider>>
    BY <1>7 DEF JudgeChange
  <2> QED
    BY <1>7, <2>1, JudgeChangeMove
<1>8. ASSUME NEW t \in Threads, StoreValue(t) PROVE PendingInv'
  BY <1>8, StoreValueMove DEF StoreValue
<1>9. ASSUME NEW t \in Threads, StoreIdentity(t) PROVE PendingInv'
  BY <1>9, StoreIdentityMove DEF StoreIdentity
<1>10. ASSUME NEW t \in Threads, DiscardDegraded(t) PROVE PendingInv'
  <2>1. UNCHANGED <<environment, value, identity, rotations, registered>>
    BY <1>10 DEF DiscardDegraded
  <2> QED
    BY <1>10, <2>1, DiscardDegradedMove
<1>11. ASSUME NEW t \in Threads, CountRotation(t) PROVE PendingInv'
  <2>1. At(t, "count") /\ UNCHANGED <<environment, provider>>
    BY <1>11 DEF CountRotation
  <2> QED
    BY <1>11, <2>1, CountRotationMove
<1>12. ASSUME NEW t \in Threads, StoreRotations(t) PROVE PendingInv'
  BY <1>12, StoreRotationsMove DEF StoreRotations
<1>13. ASSUME NEW t \in Threads, Register(t) PROVE PendingInv'
  BY <1>13, RegisterMove DEF Register
<1>14. ASSUME NEW t \in Threads, MarkDegraded(t) PROVE PendingInv'
  BY <1>14, MarkDegradedMove DEF MarkDegraded
<1>15. ASSUME NEW t \in Threads, FetchValue(t) PROVE PendingInv'
  BY <1>15, FetchValueMove DEF FetchValue
<1>16. ASSUME NEW t \in Threads, ReportState(t) PROVE PendingInv'
  BY <1>16, ReportStateMove DEF ReportState
<1>17. ASSUME NEW t \in Threads, LogRaces(t) PROVE PendingInv'
  BY <1>17, LogRacesMove DEF LogRaces
<1>18. CASE UNCHANGED vars
  BY <1>18 DEF vars
<1> QED
  BY <1>1, <1>2, <1>3, <1>4, <1>5, <1>6, <1>7, <1>8, <1>9, <1>10, <1>11,
     <1>12, <1>13, <1>14, <1>15, <1>16, <1>17, <1>18 DEF Next, Serve, Refresh

-----------------------------------------------------------------------------
(* Theorems *)

\* A provider that has loaded nothing satisfies the invariant.
LEMMA InitIInv == Init => IInv
<1> SUFFICES ASSUME Init PROVE IInv
  OBVIOUS
<1> USE DEF Init
<1>1. file \in File /\ changes \in Nat
  <2>1. CASE file = [state |-> "absent", text |-> NoText, version |-> 0, readable |-> TRUE]
    BY <2>1 DEF File
  <2>2. ASSUME NEW s \in Secrets,
               file = [state |-> "text", text |-> s, version |-> 1, readable |-> TRUE]
        PROVE  file \in File /\ file.version \in Nat
    BY <2>2 DEF File, Texts
  <2> QED
    BY <2>1, <2>2
<1>2. NoCallYet \in Call
  BY DEF NoCallYet, Call, Places, Answers
<1>3. TypeOK
  BY <1>1, <1>2 DEF TypeOK
<1>4. FileInv
  BY DEF FileInv, Texts
<1>5. LoadInv /\ StillInv /\ HeldInv /\ PendingInv
  BY <1>1 DEF LoadInv, StillInv, StillOf, HeldInv, PendingInv, Loading, Stored, Answered, At,
     NoCallYet
<1> QED
  BY <1>3, <1>4, <1>5 DEF IInv

\* The strengthened invariant holds of every behaviour.
THEOREM Invariance == Spec => []IInv
<1>1. Init => IInv
  BY InitIInv
<1>2. IInv /\ [Next]_vars => IInv'
  BY TypeStep, FileStep, LoadStep, StillStep, HeldStep, PendingStep DEF IInv
<1> QED
  BY <1>1, <1>2, PTL DEF Spec

\* Types, and an identity only with a value, whatever the threads interleave.
THEOREM TypeCorrectness == Spec => []TypeOK
<1>1. IInv => TypeOK
  BY DEF IInv
<1> QED
  BY <1>1, Invariance, PTL

\* A readable file that stays still for a call is enough for the call to succeed,
\* where no log line races.
THEOREM StillFileIsServed ==
    ASSUME "race" \notin Mishaps
    PROVE  Spec => []AvailableWhenHealthy
<1>1. IInv => AvailableWhenHealthy
  BY DEF IInv, StillInv, StillOf, AvailableWhenHealthy
<1> QED
  BY <1>1, Invariance, PTL

\* Whatever is held at rest, the redaction registry knows, unless a log line raced.
THEOREM HeldIsRegistered ==
    ASSUME "race" \notin Mishaps
    PROVE  Spec => []RegisteredAtRest
<1>1. IInv => RegisteredAtRest
  BY DEF IInv, PendingInv, RegisteredAtRest, At, Stored
<1> QED
  BY <1>1, Invariance, PTL

\* The last known good value survives everything but bytes that do not decode
\* and a raced log line.
THEOREM LastKnownGood ==
    ASSUME Mishaps \cap {"garbled", "race"} = {}
    PROVE  Spec => []HeldValueNeverFails
<1>1. IInv => HeldValueNeverFails
  BY DEF IInv, HeldInv, HeldValueNeverFails, Failures
<1> QED
  BY <1>1, Invariance, PTL

-----------------------------------------------------------------------------
(* Calls made one at a time *)

\* A change of the file makes it younger, except that of its permissions.
LEMMA OperatorAges ==
    ASSUME TypeOK, FileInv, Operator
    PROVE  /\ file.version \in Nat /\ file'.version \in Nat
           /\ \/ file'.version > file.version
              \/ /\ file'.version = file.version /\ file'.state = file.state
                 /\ file'.text = file.text
<1>1. file \in File /\ changes \in Nat /\ file' \in File
  BY OperatorFrame DEF TypeOK
<1>2. file.version \in Nat /\ file'.version \in Nat /\ file.version <= changes
  BY <1>1 DEF File, FileInv
<1>3. CASE Chmod
  BY <1>1, <1>2, <1>3 DEF Chmod, File
<1>4. CASE file'.version = changes + 1
  BY <1>1, <1>2, <1>4
<1> QED
  BY <1>2, <1>3, <1>4 DEF Operator, Rename, WriteRest, WriteFragment, Truncate, Remove, Garble,
     Change

\* Only the two stores change what is held, and only the operator the file.
LEMMA HoldFrame ==
    ASSUME [Next]_vars
    PROVE  \/ Operator
           \/ \E t \in Threads : StoreValue(t) \/ StoreIdentity(t)
           \/ UNCHANGED <<file, changes, value, identity>>
<1> USE DEF provider, environment
<1>1. ASSUME NEW t \in Threads, Serve(t), ~StoreValue(t), ~StoreIdentity(t)
      PROVE  UNCHANGED <<file, changes, value, identity>>
  BY <1>1 DEF Serve, Refresh, Enter, StatPath, CompareIdentity, CheckAccess, ReadText,
     JudgeChange, DiscardDegraded, CountRotation, StoreRotations, Register, MarkDegraded,
     LogRaces, FetchValue, ReportState
<1> QED
  BY <1>1 DEF Next, vars

\* The identity stored is that of the file as it was before the text was read, so
\* it is never newer than the text.
LEMMA KnownStep ==
    ASSUME TypeOK, FileInv, KnownInv, SightInv, [Next]_vars
    PROVE  KnownInv'
<1> USE DEF KnownInv
<1>1. identity \in Nat /\ file.version \in Nat
  BY DEF TypeOK, File
<1>2. CASE Operator
  BY <1>1, <1>2, OperatorFrame, OperatorAges
<1>3. ASSUME NEW t \in Threads, StoreValue(t) PROVE KnownInv'
  <2>1. identity < call[t].seen /\ call[t].seen <= file.version /\ call[t].seen \in Nat
    BY <1>3, CallTypes DEF StoreValue, At, SightInv, SightOf, Reading
  <2> QED
    BY <1>1, <1>3, <2>1 DEF StoreValue, environment
<1>4. ASSUME NEW t \in Threads, StoreIdentity(t) PROVE KnownInv'
  BY <1>1, <1>4 DEF StoreIdentity, At, environment, SightInv, SightOf, Reading
<1>5. CASE UNCHANGED <<file, changes, value, identity>>
  BY <1>5
<1> QED
  BY <1>2, <1>3, <1>4, <1>5, HoldFrame


\* A step leaves what the call under way has seen in order.
LEMMA SightMove ==
    ASSUME TypeOK, FileInv, KnownInv, NEW t \in Threads, SightOf(t), Serve(t)
    PROVE  SightOf(t)'
<1> USE DEF SameCall, SameFind, At, provider, environment, KnownInv, SightOf, Reading
<1> identity \in Nat /\ file.version \in Nat /\ call[t].seen \in Nat
  BY CallTypes DEF TypeOK, File
<1>1. CASE Enter(t)
  BY <1>1, EnterMove DEF Enter
<1>2. CASE StatPath(t)
  <2>1. UNCHANGED <<file, value, identity>>
    BY <1>2 DEF StatPath
  <2>2. call'[t].at = "mark" \/ (call'[t].at = "compare" /\ call'[t].seen = file.version)
    BY <1>2, StatPathMove
  <2> QED
    BY <2>1, <2>2
<1>3. CASE CompareIdentity(t)
  BY <1>3, CompareIdentityMove DEF CompareIdentity
<1>4. CASE CheckAccess(t)
  BY <1>4, CheckAccessMove DEF CheckAccess
<1>5. CASE ReadText(t)
  BY <1>5, ReadTextMove DEF ReadText
<1>6. CASE JudgeChange(t)
  BY <1>6, JudgeChangeMove DEF JudgeChange
<1>7. CASE StoreValue(t)
  BY <1>7, StoreValueMove DEF StoreValue
<1>8. CASE StoreIdentity(t)
  BY <1>8, StoreIdentityMove DEF StoreIdentity
<1>9. CASE DiscardDegraded(t)
  BY <1>9, DiscardDegradedMove DEF DiscardDegraded
<1>10. CASE CountRotation(t)
  BY <1>10, CountRotationMove DEF CountRotation
<1>11. CASE StoreRotations(t)
  BY <1>11, StoreRotationsMove DEF StoreRotations
<1>12. CASE Register(t)
  BY <1>12, RegisterMove DEF Register
<1>13. CASE MarkDegraded(t)
  BY <1>13, MarkDegradedMove DEF MarkDegraded
<1>14. CASE FetchValue(t)
  BY <1>14, FetchValueMove DEF FetchValue
<1>15. CASE ReportState(t)
  BY <1>15, ReportStateMove DEF ReportState
<1>16. CASE LogRaces(t)
  BY <1>16, LogRacesMove DEF LogRaces
<1> QED
  BY <1>1, <1>2, <1>3, <1>4, <1>5, <1>6, <1>7, <1>8, <1>9, <1>10, <1>11, <1>12, <1>13,
     <1>14, <1>15, <1>16 DEF Serve, Refresh

\* What the one call under way has seen.
LEMMA SightStep ==
    ASSUME Alone, TypeOK, FileInv, KnownInv, SightInv, [Next]_vars
    PROVE  SightInv'
<1>1. ASSUME NEW t \in Threads, Serve(t) PROVE SightInv'
  BY <1>1, SightMove DEF SightInv, Alone
<1>2. CASE Operator
  <2> SUFFICES ASSUME NEW t \in Threads PROVE SightOf(t)'
    BY DEF SightInv
  <2>1. SightOf(t) /\ call[t].seen \in Nat /\ identity \in Nat
    BY CallTypes DEF SightInv, TypeOK
  <2>2. UNCHANGED <<value, identity, call>>
    BY <1>2, OperatorFrame
  <2> QED
    BY <1>2, <2>1, <2>2, OperatorAges DEF SightOf, Reading
<1>3. CASE UNCHANGED vars
  BY <1>3 DEF vars, SightInv, SightOf
<1> QED
  BY <1>1, <1>2, <1>3 DEF Next

\* A step over a still file leads to the right answer.
LEMMA SettledMove ==
    ASSUME TypeOK, LoadInv, KnownInv, NEW t \in Threads, SightOf(t), SettledOf(t), Serve(t)
    PROVE  SettledOf(t)'
<1> USE DEF SameCall, SameFind, At, provider, environment, SettledOf, Still, Healthy, Reading,
     Loading, Stored, Loaded
<1>1. CASE Enter(t)
  BY <1>1, EnterMove DEF Enter
<1>2. CASE StatPath(t)
  BY <1>2, StatPathMove DEF StatPath
<1>3. CASE CompareIdentity(t)
  BY <1>3, CompareIdentityMove DEF CompareIdentity
<1>4. CASE CheckAccess(t)
  <2>1. UNCHANGED <<file, changes, identity>> /\ call[t].at = "access"
    BY <1>4 DEF CheckAccess
  <2>2. identity = call[t].seen /\ call[t].seen > 0
    BY <2>1 DEF SightOf, LoadInv
  <2>3. SameCall(t) /\ SameFind(t)
        /\ \/ file.state # "absent" /\ file.readable /\ call'[t].at = "clear"
           \/ ~(file.state # "absent" /\ file.readable) /\ call'[t].at = "mark"
    BY <1>4, CheckAccessMove
  <2> QED
    BY <2>1, <2>2, <2>3 DEF KnownInv
<1>5. CASE ReadText(t)
  BY <1>5, ReadTextMove DEF ReadText
<1>6. CASE JudgeChange(t)
  BY <1>6, JudgeChangeMove DEF JudgeChange
<1>7. CASE StoreValue(t)
  BY <1>7, StoreValueMove DEF StoreValue
<1>8. CASE StoreIdentity(t)
  BY <1>8, StoreIdentityMove DEF StoreIdentity
<1>9. CASE DiscardDegraded(t)
  BY <1>9, DiscardDegradedMove DEF DiscardDegraded
<1>10. CASE CountRotation(t)
  BY <1>10, CountRotationMove DEF CountRotation
<1>11. CASE StoreRotations(t)
  BY <1>11, StoreRotationsMove DEF StoreRotations
<1>12. CASE Register(t)
  BY <1>12, RegisterMove DEF Register
<1>13. CASE MarkDegraded(t)
  BY <1>13, MarkDegradedMove DEF MarkDegraded
<1>14. CASE FetchValue(t)
  BY <1>14, FetchValueMove DEF FetchValue
<1>15. CASE ReportState(t)
  BY <1>15, ReportStateMove DEF ReportState
<1>16. CASE LogRaces(t)
  BY <1>16, LogRacesMove DEF LogRaces
<1> QED
  BY <1>1, <1>2, <1>3, <1>4, <1>5, <1>6, <1>7, <1>8, <1>9, <1>10, <1>11, <1>12, <1>13,
     <1>14, <1>15, <1>16 DEF Serve, Refresh

\* A call over a still file is on its way to the right answer.
LEMMA SettledStep ==
    ASSUME Alone, TypeOK, FileInv, LoadInv, KnownInv, SightInv, StillInv, SettledInv, [Next]_vars
    PROVE  SettledInv'
<1>1. ASSUME NEW t \in Threads, Serve(t) PROVE SettledInv'
  BY <1>1, SettledMove DEF SightInv, SettledInv, Alone
<1>2. CASE Operator
  <2> SUFFICES ASSUME NEW t \in Threads PROVE SettledOf(t)'
    BY DEF SettledInv
  <2>1. changes' = changes + 1 /\ call' = call
    BY <1>2, OperatorFrame
  <2>2. call[t].began <= changes /\ call[t].began \in Nat /\ changes \in Nat
    BY CallTypes DEF StillInv, StillOf, TypeOK
  <2> QED
    BY <2>1, <2>2 DEF SettledOf, Still
<1>3. CASE UNCHANGED vars
  BY <1>3 DEF vars, SettledInv, SettledOf, Still, Healthy
<1> QED
  BY <1>1, <1>2, <1>3 DEF Next

\* Of a call's steps four answer it.
LEMMA AnswerFrame ==
    ASSUME TypeOK, NEW t \in Threads, Serve(t)
    PROVE  \/ call'[t].at # "idle"
           \/ ReadText(t) \/ FetchValue(t) \/ ReportState(t) \/ LogRaces(t)
  BY EnterMove, StatPathMove, CompareIdentityMove, CheckAccessMove, JudgeChangeMove,
     StoreValueMove, StoreIdentityMove, DiscardDegradedMove, CountRotationMove,
     StoreRotationsMove, RegisterMove, MarkDegradedMove DEF Serve, Refresh

\* A step that answers a call gives the answer the settled provider has.
LEMMA RightAnswer ==
    ASSUME TypeOK, FileInv, KnownInv, NEW t \in Threads, SettledOf(t), Serve(t),
           Answered(t)', Still(t)'
    PROVE  /\ Healthy' => /\ value' = file'.text
                          /\ identity' = file'.version
                          /\ \/ call'[t].answer = "probe_ok" \/ call'[t].given = file'.text
                             \/ "race" \in Mishaps /\ call'[t].answer = "raised"
           /\ ~Healthy' => \/ degraded' /\ call'[t].answer # "probe_ok"
                           \/ call'[t].answer = "raised"
<1> USE DEF Answered, At, provider, environment
<1>1. Healthy => file.version > 0 /\ file.text # NoText
  BY DEF FileInv, Healthy
<1>2. ASSUME Still(t), call[t].at = "answer"
      PROVE  /\ Healthy => value = file.text /\ identity = file.version /\ ~degraded
             /\ ~Healthy => degraded
  BY <1>1, <1>2 DEF SettledOf, KnownInv
<1>3. CASE ReadText(t)
  <2>1. file' = file
    BY <1>3 DEF ReadText
  <2>2. file.state = "garbled" /\ call'[t].answer = "raised"
    BY <1>3, ReadTextMove
  <2> QED
    BY <2>1, <2>2 DEF Healthy
<1>4. CASE FetchValue(t)
  <2>1. /\ UNCHANGED <<file, changes, value, identity, degraded>>
        /\ call[t].at = "answer"
    BY <1>4 DEF FetchValue
  <2>2. Still(t) /\ call'[t].given = value /\ call'[t].answer \in {"unavailable", "value"}
    BY <1>4, <2>1, FetchValueMove DEF Still, SameCall
  <2> QED
    BY <1>2, <2>1, <2>2 DEF Healthy
<1>5. CASE ReportState(t)
  <2>1. /\ UNCHANGED <<file, changes, value, identity, degraded>>
        /\ call[t].at = "answer"
    BY <1>5 DEF ReportState
  <2>2. Still(t) /\ (call'[t].answer = "probe_ok" <=> (value # NoText /\ ~degraded))
    BY <1>5, <2>1, ReportStateMove DEF Still, SameCall
  <2> QED
    BY <1>1, <1>2, <2>1, <2>2 DEF Healthy
<1>6. CASE LogRaces(t)
  <2>1. /\ UNCHANGED <<file, changes, value, identity>>
        /\ call[t].at \in {"mark", "register"}
    BY <1>6 DEF LogRaces
  <2>2. Still(t) /\ call'[t].answer = "raised" /\ "race" \in Mishaps
    BY <1>6, <2>1, LogRacesMove DEF Still, SameCall
  <2>3. Healthy => call[t].at = "register" /\ identity = file.version
    BY <2>1, <2>2 DEF SettledOf, Loaded
  <2> QED
    BY <1>1, <2>1, <2>2, <2>3 DEF KnownInv, Healthy
<1> QED
  BY <1>3, <1>4, <1>5, <1>6, AnswerFrame

\* An answer stands until the file changes.
LEMMA SettlesStep ==
    ASSUME Alone, TypeOK, FileInv, KnownInv, StillInv, SettledInv, StillFileSettles,
           [Next]_vars
    PROVE  StillFileSettles'
<1> USE DEF StillFileSettles
<1>1. ASSUME NEW t \in Threads, Serve(t) PROVE StillFileSettles'
  <2>1. SettledOf(t) /\ \A u \in Threads : u = t
    BY DEF SettledInv, Alone
  <2> QED
    BY <1>1, <2>1, RightAnswer
<1>2. CASE Operator
  <2> SUFFICES ASSUME NEW t \in Threads PROVE ~Still(t)'
    OBVIOUS
  <2>1. changes' = changes + 1 /\ call' = call
    BY <1>2, OperatorFrame
  <2>2. call[t].began <= changes /\ call[t].began \in Nat /\ changes \in Nat
    BY CallTypes DEF StillInv, StillOf, TypeOK
  <2> QED
    BY <2>1, <2>2 DEF Still
<1>3. CASE UNCHANGED vars
  BY <1>3 DEF vars, Answered, Still, Healthy, At
<1> QED
  BY <1>1, <1>2, <1>3 DEF Next

\* A step counts a rotation only when it has stored a newer identity.
LEMMA CountMove ==
    ASSUME TypeOK, NEW t \in Threads, SightOf(t), CountOf(t),
           rotations = 0 \/ rotations < identity, Serve(t)
    PROVE  CountOf(t)' /\ (rotations' = 0 \/ rotations' < identity')
<1> USE DEF SameCall, SameFind, SameCount, At, provider, environment, CountOf
<1> /\ identity \in Nat /\ rotations \in Nat
    /\ call[t].seen \in Nat /\ call[t].tally \in Nat
  BY CallTypes DEF TypeOK
<1>1. CASE Enter(t)
  BY <1>1, EnterMove DEF Enter
<1>2. CASE StatPath(t)
  BY <1>2, StatPathMove DEF StatPath
<1>3. CASE CompareIdentity(t)
  BY <1>3, CompareIdentityMove DEF CompareIdentity
<1>4. CASE CheckAccess(t)
  BY <1>4, CheckAccessMove DEF CheckAccess
<1>5. CASE ReadText(t)
  BY <1>5, ReadTextMove DEF ReadText
<1>6. CASE JudgeChange(t)
  BY <1>6, JudgeChangeMove DEF JudgeChange
<1>7. CASE StoreValue(t)
  BY <1>7, StoreValueMove DEF StoreValue
<1>8. CASE StoreIdentity(t)
  BY <1>8, StoreIdentityMove DEF StoreIdentity, SightOf, Reading
<1>9. CASE DiscardDegraded(t)
  BY <1>9, DiscardDegradedMove DEF DiscardDegraded
<1>10. CASE CountRotation(t)
  BY <1>10, CountRotationMove DEF CountRotation
<1>11. CASE StoreRotations(t)
  BY <1>11, StoreRotationsMove DEF StoreRotations
<1>12. CASE Register(t)
  BY <1>12, RegisterMove DEF Register
<1>13. CASE MarkDegraded(t)
  BY <1>13, MarkDegradedMove DEF MarkDegraded
<1>14. CASE FetchValue(t)
  BY <1>14, FetchValueMove DEF FetchValue
<1>15. CASE ReportState(t)
  BY <1>15, ReportStateMove DEF ReportState
<1>16. CASE LogRaces(t)
  BY <1>16, LogRacesMove DEF LogRaces
<1> QED
  BY <1>1, <1>2, <1>3, <1>4, <1>5, <1>6, <1>7, <1>8, <1>9, <1>10, <1>11, <1>12, <1>13,
     <1>14, <1>15, <1>16 DEF Serve, Refresh

\* Rotations are counted by one call at a time, each for a newer file.
LEMMA CountStep ==
    ASSUME Alone, TypeOK, FileInv, SightInv, CountInv, [Next]_vars
    PROVE  CountInv'
<1>1. ASSUME NEW t \in Threads, Serve(t) PROVE CountInv'
  <2>1. SightOf(t) /\ CountOf(t) /\ \A u \in Threads : u = t
    BY DEF SightInv, CountInv, Alone
  <2> QED
    BY <1>1, <2>1, CountMove DEF CountInv
<1>2. CASE Operator
  BY <1>2, OperatorFrame DEF CountInv, CountOf
<1>3. CASE UNCHANGED vars
  BY <1>3 DEF vars, CountInv, CountOf
<1> QED
  BY <1>1, <1>2, <1>3 DEF Next

\* A provider that has loaded nothing has nothing out of order.
LEMMA InitAloneInv == Init => AloneInv
<1> SUFFICES ASSUME Init PROVE AloneInv
  OBVIOUS
<1>1. \A t \in Threads : call[t] = NoCallYet
  BY DEF Init
<1>2. identity = 0 /\ rotations = 0 /\ value = NoText /\ file.version \in {0, 1}
  BY DEF Init
<1>3. KnownInv
  BY <1>2 DEF KnownInv
<1>4. SightInv /\ SettledInv /\ StillFileSettles
  BY <1>1 DEF NoCallYet, SightInv, SightOf, SettledInv, SettledOf, StillFileSettles, Answered,
     At, Reading, Loading, Stored, Loaded
<1>5. CountInv
  BY <1>1, <1>2 DEF NoCallYet, CountInv, CountOf
<1> QED
  BY <1>3, <1>4, <1>5 DEF AloneInv

\* Made one at a time, calls keep the provider in step with the file.
THEOREM AloneInvariance ==
    ASSUME Alone
    PROVE  Spec => []AloneInv
<1>1. Init => AloneInv
  BY InitAloneInv
<1>2. IInv /\ AloneInv /\ [Next]_vars => AloneInv'
  BY KnownStep, SightStep, SettledStep, SettlesStep, CountStep DEF IInv, AloneInv
<1> QED
  BY <1>1, <1>2, Invariance, PTL DEF Spec

\* One call over a still file settles the provider: a rotation is picked up by
\* the next request, and a file that cannot be read is reported as degraded.
THEOREM OneCallSettles ==
    ASSUME Alone
    PROVE  Spec => []StillFileSettles
<1>1. AloneInv => StillFileSettles
  BY DEF AloneInv
<1> QED
  BY <1>1, AloneInvariance, PTL

\* No rotation is reported that the file did not make, and the first load is none.
THEOREM RotationsAreReal ==
    ASSUME Alone
    PROVE  Spec => []RotationsAreObserved
<1>1. ASSUME IInv, AloneInv PROVE RotationsAreObserved
  <2>1. file.version \in Nat /\ identity \in Nat /\ rotations \in Nat /\ changes \in Nat
    BY <1>1 DEF IInv, TypeOK, File
  <2> QED
    BY <1>1, <2>1 DEF IInv, FileInv, AloneInv, KnownInv, CountInv, RotationsAreObserved
<1> QED
  BY <1>1, AloneInvariance, Invariance, PTL

-----------------------------------------------------------------------------
(* Calls made one at a time act as if each looked at the path once. *)

\* The text a call carries from its read to the dictionary.
Carries(t) == call[t].at \in {"judge", "value"}

\* One thread carries, or nobody does.
LEMMA HeldNow ==
    ASSUME Alone, NEW t \in Threads
    PROVE  Held = IF Carries(t) THEN call[t].text ELSE value
<1>1. CASE Carries(t)
  <2>1. Carrying = {t}
    BY <1>1 DEF Carrying, Carries, Alone
  <2> QED
    BY <1>1, <2>1 DEF Held
<1>2. CASE ~Carries(t)
  BY <1>2 DEF Held, Carrying, Carries, Alone
<1> QED
  BY <1>1, <1>2

\* The same of the state a step leads to.
LEMMA HeldNext ==
    ASSUME Alone, NEW t \in Threads
    PROVE  Held' = IF Carries(t)' THEN call'[t].text ELSE value'
<1>1. CASE Carries(t)'
  <2>1. Carrying' = {t}
    BY <1>1 DEF Carrying, Carries, Alone
  <2> QED
    BY <1>1, <2>1 DEF Held
<1>2. CASE ~Carries(t)'
  BY <1>2 DEF Held, Carrying, Carries, Alone
<1> QED
  BY <1>1, <1>2

Quiet == [answer |-> "nothing", given |-> NoText]

\* Until a call ends, its caller has been told nothing.
LEMMA ToldDuring ==
    ASSUME NEW t \in Threads
    PROVE  /\ call[t].at # "idle" => ToldOf(t) = Quiet
           /\ call'[t].at # "idle" => ToldOf(t)' = Quiet
  BY DEF ToldOf, Quiet, Answered, At

\* What a call is told by the way it ends.
LEMMA ToldAtTheEnd ==
    ASSUME NEW t \in Threads, call'[t].at = "idle"
    PROVE  /\ call'[t].answer = "value" =>
                 ToldOf(t)' = [answer |-> "value", given |-> call'[t].given]
           /\ call'[t].answer \in {"unavailable", "probe_failed"} =>
                 ToldOf(t)' = [answer |-> "unavailable", given |-> NoText]
           /\ call'[t].answer \in {"probe_ok", "probe_degraded"} =>
                 ToldOf(t)' = [answer |-> "available", given |-> NoText]
           /\ call'[t].answer = "raised" =>
                 ToldOf(t)' = [answer |-> "raised", given |-> NoText]
  BY DEF ToldOf, Answered, At

\* The phase of a call by its place, before and after a step.
LEMMA Phases ==
    ASSUME NEW t \in Threads
    PROVE  /\ call[t].at = "idle" => PhaseOf(t) = "idle"
           /\ call[t].at \in {"stat", "read"} => PhaseOf(t) = "asked"
           /\ call[t].at = "compare" =>
                 PhaseOf(t) = IF call[t].seen = identity THEN "looked" ELSE "asked"
           /\ call[t].at \notin {"idle", "stat", "read", "compare"} => PhaseOf(t) = "looked"
           /\ call'[t].at = "idle" => PhaseOf(t)' = "idle"
           /\ call'[t].at \in {"stat", "read"} => PhaseOf(t)' = "asked"
           /\ call'[t].at = "compare" =>
                 PhaseOf(t)' = IF call'[t].seen = identity' THEN "looked" ELSE "asked"
           /\ call'[t].at \notin {"idle", "stat", "read", "compare"} => PhaseOf(t)' = "looked"
  BY DEF PhaseOf, At

\* The one thread's part of what the promise is about is all of it.
LEMMA OnlyOne ==
    ASSUME Alone, NEW t \in Threads
    PROVE  /\ [u \in Threads |-> PhaseOf(u)'] =
                 [[u \in Threads |-> PhaseOf(u)] EXCEPT ![t] = PhaseOf(t)']
           /\ [u \in Threads |-> ToldOf(u)'] =
                 [[u \in Threads |-> ToldOf(u)] EXCEPT ![t] = ToldOf(t)']
  BY DEF Alone

\* A step the promise does not speak of.
LEMMA Unseen ==
    ASSUME Alone, NEW t \in Threads, Path' = Path, Held' = Held,
           PhaseOf(t)' = PhaseOf(t), ToldOf(t)' = ToldOf(t)
    PROVE  UNCHANGED Provider!valueVars
  BY OnlyOne DEF Provider!valueVars, Alone

\* A step at which a call sees the path.
LEMMA Looks ==
    ASSUME Alone, NEW t \in Threads, Path' = Path,
           Held' = IF Path # NoText THEN Path ELSE Held,
           PhaseOf(t) = "asked", PhaseOf(t)' = "looked", ToldOf(t)' = ToldOf(t)
    PROVE  Provider!Look(t)
<1>1. [u \in Threads |-> ToldOf(u)'] = [u \in Threads |-> ToldOf(u)]
  BY DEF Alone
<1> QED
  BY <1>1, OnlyOne DEF Provider!Look

\* A thread's step leaves the path alone.
LEMMA ServeFrame ==
    ASSUME NEW t \in Threads, Serve(t)
    PROVE  Path' = Path
<1>1. file' = file
  BY DEF Serve, Refresh, Enter, StatPath, CompareIdentity, CheckAccess, ReadText, JudgeChange,
     StoreValue, StoreIdentity, DiscardDegraded, CountRotation, StoreRotations, Register,
     MarkDegraded, LogRaces, FetchValue, ReportState, environment
<1> QED
  BY <1>1 DEF Path, Healthy

\* A call begins.
LEMMA EnterAsks ==
    ASSUME Alone, TypeOK, NEW t \in Threads, Enter(t)
    PROVE  Provider!Ask(t)
<1>1. call[t].at = "idle" /\ call'[t].at = "stat" /\ value' = value /\ Path' = Path
  BY EnterMove, ServeFrame DEF Enter, At, provider, Serve
<1>2. Held' = Held
  BY <1>1, HeldNow, HeldNext DEF Carries
<1>3. PhaseOf(t) = "idle" /\ PhaseOf(t)' = "asked" /\ ToldOf(t)' = Quiet
  BY <1>1, Phases, ToldDuring
<1> QED
  BY <1>1, <1>2, <1>3, OnlyOne DEF Provider!Ask, Provider!Silence, Quiet

\* stat sees the path where it finds nothing, or the file that is held; a file it
\* has not seen is left to the read.
LEMMA StatLooks ==
    ASSUME Alone, TypeOK, FileInv, KnownInv, NEW t \in Threads, StatPath(t)
    PROVE  Provider!Look(t) \/ UNCHANGED Provider!valueVars
<1>0. call[t].at = "stat" /\ value' = value /\ identity' = identity
  BY DEF StatPath, At, provider
<1>1. PhaseOf(t) = "asked" /\ Path' = Path
  BY <1>0, Phases, ServeFrame DEF Serve, Refresh
<1>2. call'[t].at \in {"mark", "compare"}
  BY StatPathMove
<1>3. Held = value /\ Held' = value
  BY <1>0, <1>1, <1>2, HeldNow, HeldNext DEF Carries
<1>4. ToldOf(t)' = ToldOf(t)
  BY <1>0, <1>1, <1>2, ToldDuring
<1>5. CASE file.state = "absent"
  <2>1. Path = NoText /\ PhaseOf(t)' = "looked"
    BY <1>5, StatPathMove, Phases DEF Path, Healthy
  <2> QED
    BY <1>0, <1>1, <1>3, <1>4, <2>1, Looks
<1>6. CASE file.state # "absent" /\ file.version = identity
  <2>1. call'[t].at = "compare" /\ call'[t].seen = identity'
    BY <1>0, <1>1, <1>6, StatPathMove
  <2>2. PhaseOf(t)' = "looked"
    BY <2>1, Phases
  <2>3. value = file.text
    BY <1>6 DEF FileInv, KnownInv, TypeOK, File
  <2>4. value = IF Path # NoText THEN Path ELSE value
    BY <2>3 DEF Path
  <2> QED
    BY <1>0, <1>1, <1>3, <1>4, <2>2, <2>4, Looks
<1>7. CASE file.state # "absent" /\ file.version # identity
  <2>1. call'[t].at = "compare" /\ call'[t].seen # identity'
    BY <1>0, <1>1, <1>7, StatPathMove
  <2>2. PhaseOf(t)' = "asked"
    BY <2>1, Phases
  <2> QED
    BY <1>0, <1>1, <1>3, <1>4, <2>2, Unseen
<1> QED
  BY <1>5, <1>6, <1>7

\* The read sees the path, unless what is there does not decode.
LEMMA ReadLooks ==
    ASSUME Alone, TypeOK, FileInv, NEW t \in Threads, ReadText(t)
    PROVE  Provider!Look(t) \/ Provider!Raise(t)
<1>0. call[t].at = "read" /\ value' = value
  BY DEF ReadText, At, provider
<1>1. PhaseOf(t) = "asked" /\ Path' = Path
  BY <1>0, Phases, ServeFrame DEF Serve, Refresh
<1>2. Held = value
  BY <1>0, <1>1, HeldNow DEF Carries
<1>3. CASE ~Healthy /\ call'[t].at = "mark"
  <2>1. Path = NoText /\ Held' = value /\ PhaseOf(t)' = "looked" /\ ToldOf(t)' = ToldOf(t)
    BY <1>0, <1>1, <1>3, HeldNext, Phases, ToldDuring DEF Path, Carries
  <2> QED
    BY <1>0, <1>1, <1>2, <2>1, Looks
<1>4. CASE /\ file.state = "text" /\ file.readable /\ call'[t].at = "judge"
           /\ call'[t].text = file.text
  <2>1. Path = file.text /\ file.text # NoText
    BY <1>4 DEF Path, Healthy, FileInv
  <2>2. Held' = file.text /\ PhaseOf(t)' = "looked" /\ ToldOf(t)' = ToldOf(t)
    BY <1>0, <1>1, <1>4, HeldNext, Phases, ToldDuring DEF Carries
  <2> QED
    BY <1>0, <1>1, <2>1, <2>2, Looks
<1>5. CASE file.state = "garbled" /\ call'[t].at = "idle" /\ call'[t].answer = "raised"
  <2>1. "garbled" \in Mishaps
    BY <1>5 DEF FileInv
  <2>2. /\ Held' = value /\ PhaseOf(t)' = "idle"
        /\ ToldOf(t)' = [answer |-> "raised", given |-> NoText]
    BY <1>0, <1>1, <1>5, HeldNext, Phases, ToldAtTheEnd DEF Carries
  <2> QED
    BY <1>0, <1>1, <1>2, <2>1, <2>2, OnlyOne DEF Provider!Raise, Provider!End
<1> QED
  BY <1>3, <1>4, <1>5, ReadTextMove

\* The other steps of a refresh are invisible.
LEMMA RefreshUnseen ==
    ASSUME Alone, TypeOK, NEW t \in Threads, Refresh(t),
           ~StatPath(t), ~ReadText(t), ~LogRaces(t)
    PROVE  UNCHANGED Provider!valueVars
<1>1. Path' = Path
  BY ServeFrame DEF Serve
<1>2. CASE CompareIdentity(t)
  <2>1. call[t].at = "compare" /\ identity' = identity /\ value' = value
    BY <1>2 DEF CompareIdentity, At, provider
  <2>2. PhaseOf(t)' = PhaseOf(t) /\ ToldOf(t)' = ToldOf(t)
    BY <1>2, <2>1, CompareIdentityMove, Phases, ToldDuring
  <2>3. Held' = Held
    BY <1>2, <2>1, CompareIdentityMove, HeldNow, HeldNext DEF Carries
  <2> QED
    BY <1>1, <2>2, <2>3, Unseen
<1>3. CASE JudgeChange(t)
  <2>1. call[t].at = "judge"
    BY <1>3 DEF JudgeChange, At
  <2>2. call'[t].at = "value" /\ call'[t].text = call[t].text
    BY <1>3, JudgeChangeMove DEF SameFind
  <2> QED
    BY <1>1, <2>1, <2>2, Phases, ToldDuring, HeldNow, HeldNext, Unseen DEF Carries
<1>4. CASE StoreValue(t)
  <2>1. call[t].at = "value" /\ call'[t].at = "identity" /\ value' = call[t].text
    BY <1>4, StoreValueMove DEF StoreValue, At
  <2> QED
    BY <1>1, <2>1, Phases, ToldDuring, HeldNow, HeldNext, Unseen DEF Carries
<1>5. CASE \/ CheckAccess(t) \/ StoreIdentity(t) \/ DiscardDegraded(t) \/ CountRotation(t)
           \/ StoreRotations(t) \/ Register(t) \/ MarkDegraded(t)
  <2> DEFINE Late == {"access", "identity", "loaded", "clear", "count", "tally", "register",
                      "mark", "answer"}
  <2>1. call[t].at \in Late /\ value' = value
    BY <1>5 DEF CheckAccess, StoreIdentity, DiscardDegraded, CountRotation, StoreRotations,
       Register, MarkDegraded, At, provider
  <2>2. call'[t].at \in Late
    BY <1>5, CheckAccessMove, StoreIdentityMove, DiscardDegradedMove, CountRotationMove,
       StoreRotationsMove, RegisterMove, MarkDegradedMove
  <2>3. PhaseOf(t)' = PhaseOf(t) /\ ToldOf(t)' = ToldOf(t)
    BY <2>1, <2>2, Phases, ToldDuring
  <2>4. Held' = Held
    BY <2>1, <2>2, HeldNow, HeldNext DEF Carries
  <2> QED
    BY <1>1, <2>3, <2>4, Unseen
<1> QED
  BY <1>2, <1>3, <1>4, <1>5 DEF Refresh

\* A call is answered with what is held, or raises.
LEMMA AnswersHeld ==
    ASSUME Alone, TypeOK, NEW t \in Threads, FetchValue(t) \/ ReportState(t) \/ LogRaces(t)
    PROVE  Provider!AnswerHeld(t) \/ Provider!AnswerMissing(t) \/ Provider!Raise(t)
<1>0. call[t].at \in {"answer", "mark", "register"} /\ value' = value
  BY DEF FetchValue, ReportState, LogRaces, At, provider
<1>1. call'[t].at = "idle" /\ Path' = Path
  BY FetchValueMove, ReportStateMove, LogRacesMove, ServeFrame DEF Serve, Refresh
<1>2. Held = value /\ Held' = value /\ PhaseOf(t) = "looked" /\ PhaseOf(t)' = "idle"
  BY <1>0, <1>1, HeldNow, HeldNext, Phases DEF Carries
<1>3. CASE FetchValue(t)
  <2>1. ToldOf(t)' = IF value = NoText THEN [answer |-> "unavailable", given |-> NoText]
                                       ELSE [answer |-> "value", given |-> value]
    BY <1>0, <1>1, <1>3, FetchValueMove, ToldAtTheEnd
  <2> QED
    BY <1>0, <1>1, <1>2, <2>1, OnlyOne
       DEF Provider!AnswerHeld, Provider!AnswerMissing, Provider!End
<1>4. CASE ReportState(t)
  <2>1. ToldOf(t)' = IF value = NoText THEN [answer |-> "unavailable", given |-> NoText]
                                       ELSE [answer |-> "available", given |-> NoText]
    BY <1>0, <1>1, <1>4, ReportStateMove, ToldAtTheEnd
  <2> QED
    BY <1>0, <1>1, <1>2, <2>1, OnlyOne
       DEF Provider!AnswerHeld, Provider!AnswerMissing, Provider!End
<1>5. CASE LogRaces(t)
  <2>1. ToldOf(t)' = [answer |-> "raised", given |-> NoText] /\ "race" \in Mishaps
    BY <1>0, <1>1, <1>5, LogRacesMove, ToldAtTheEnd
  <2> QED
    BY <1>0, <1>1, <1>2, <2>1, OnlyOne DEF Provider!Raise, Provider!End
<1> QED
  BY <1>3, <1>4, <1>5

\* Whatever the operator does changes the path at most.
LEMMA OperatorChanges ==
    ASSUME TypeOK, FileInv, Operator
    PROVE  Provider!Change
<1>1. FileInv' /\ UNCHANGED <<value, identity, call>>
  BY OperatorFrame
<1>2. Path' \in Texts \cup {NoText}
  BY <1>1 DEF FileInv, Path, Healthy
<1> QED
  BY <1>1, <1>2 DEF Provider!Change, Held, Carrying, PhaseOf, ToldOf, Answered, At

\* A provider that has loaded nothing promises nothing yet.
LEMMA InitKnowsNothing == Init => Provider!LastKnownValueInit
<1> SUFFICES ASSUME Init PROVE Provider!LastKnownValueInit
  OBVIOUS
<1>0. \A t \in Threads : call[t] = NoCallYet
  BY DEF Init
<1>1. \A t \in Threads : call[t].at = "idle" /\ call[t].answer = "none"
  <2>1. NoCallYet.at = "idle" /\ NoCallYet.answer = "none"
    BY DEF NoCallYet
  <2> QED
    BY <1>0, <2>1
<1>2. Path \in Texts \cup {NoText}
  BY DEF Init, Path, Healthy, Texts
<1>3. Held = NoText
  BY <1>1 DEF Init, Held, Carrying
<1>4. \A t \in Threads : PhaseOf(t) = "idle" /\ ToldOf(t) = Quiet
  <2> SUFFICES ASSUME NEW t \in Threads PROVE PhaseOf(t) = "idle" /\ ToldOf(t) = Quiet
    OBVIOUS
  <2>1. At(t, "idle") /\ ~Answered(t)
    BY <1>1 DEF At, Answered
  <2>2. PhaseOf(t) = "idle"
    BY <1>1, Phases
  <2>3. ToldOf(t) = Quiet
    BY <2>1 DEF ToldOf, Quiet
  <2> QED
    BY <2>2, <2>3
<1> QED
  BY <1>2, <1>3, <1>4 DEF Provider!LastKnownValueInit, Provider!Silence, Quiet

\* Made one at a time, calls are answered as if each had looked at the path once, at
\* a moment of its own, and the last value that could be read were kept, however the
\* file is renamed, rewritten or removed between the system calls of a refresh.
THEOREM OneLookPerCall ==
    ASSUME Alone
    PROVE  Spec => ImplementsLastKnownValue
<1>1. Init => Provider!LastKnownValueInit
  BY InitKnowsNothing
<1>2. IInv /\ AloneInv /\ [Next]_vars =>
         [Provider!LastKnownValueNext]_(Provider!valueVars)
  <2> SUFFICES ASSUME IInv, AloneInv, [Next]_vars
               PROVE  [Provider!LastKnownValueNext]_(Provider!valueVars)
    OBVIOUS
  <2>1. TypeOK /\ FileInv /\ KnownInv
    BY DEF IInv, AloneInv
  <2>2. CASE Operator
    BY <2>1, <2>2, OperatorChanges DEF Provider!LastKnownValueNext
  <2>3. ASSUME NEW t \in Threads, Serve(t)
        PROVE  [Provider!LastKnownValueNext]_(Provider!valueVars)
    <3>1. CASE Enter(t)
      BY <2>1, <3>1, EnterAsks DEF Provider!LastKnownValueNext
    <3>2. CASE StatPath(t)
      BY <2>1, <3>2, StatLooks DEF Provider!LastKnownValueNext
    <3>3. CASE ReadText(t)
      BY <2>1, <3>3, ReadLooks DEF Provider!LastKnownValueNext
    <3>4. CASE FetchValue(t) \/ ReportState(t) \/ LogRaces(t)
      BY <2>1, <3>4, AnswersHeld DEF Provider!LastKnownValueNext
    <3>5. CASE Refresh(t) /\ ~StatPath(t) /\ ~ReadText(t) /\ ~LogRaces(t)
      BY <2>1, <3>5, RefreshUnseen
    <3> QED
      BY <2>3, <3>1, <3>2, <3>3, <3>4, <3>5 DEF Serve
  <2>4. CASE UNCHANGED vars
    BY <2>4 DEF vars, Provider!valueVars, Path, Healthy, Held, Carrying, PhaseOf, ToldOf,
       Answered, At
  <2> QED
    BY <2>2, <2>3, <2>4 DEF Next
<1> QED
  BY <1>1, <1>2, Invariance, AloneInvariance, PTL
     DEF Spec, ImplementsLastKnownValue, Provider!LastKnownValueSpec
=============================================================================
