---------------------------- MODULE McpProbeProofs ----------------------------
(***************************************************************************)
(* Theorems about McpProbe for every list of calls, every choice of faults *)
(* and pipes of any capacity: each call is judged on its own answer, exit  *)
(* code 0 is earned, and no server is left running.  One lemma per part of *)
(* the inductive invariant, one step per action.                           *)
(***************************************************************************)
EXTENDS McpProbeInvariant, TLAPS

LEMMA CallsFacts ==
    /\ Len(Calls) \in Nat
    /\ \A n \in Requests : n \in Nat \ {0} /\ n <= Len(Calls) + 2
    /\ 1 \in Requests /\ 2 \in Requests
    /\ \A n \in Nat \ {0} : n <= Len(Calls) + 2 => n \in Requests
  BY CallsAssumption DEF Requests

\* What the proofs need of the types.
Typed ==
  /\ step \in Nat \ {0} /\ serving \in Nat /\ intruded \in Nat /\ step <= Len(Calls) + 2
  /\ exit = 3 <=> pc # "done"
  /\ Len(stdin) \in Nat /\ Len(stdout) \in Nat
  /\ \A i \in 1..Len(stdin) : stdin[i] \in Nat \ {0}
  /\ \A i \in 1..Len(stdout) : stdout[i].id \in Nat

TypedOutcomes ==
  /\ Len(outcomes) \in Nat
  /\ DOMAIN outcomes = 1..Len(outcomes)
  /\ \A i \in 1..Len(outcomes) : outcomes[i].id \in Nat /\ outcomes[i].ok \in BOOLEAN

LEMMA TypedFacts ==
  ASSUME TypeOK PROVE Typed /\ TypedOutcomes
<1>1. /\ step \in Requests /\ serving \in Requests \cup {0} /\ intruded \in Nat
      /\ stdin \in Seq(Requests) /\ stdout \in Seq(Messages)
      /\ outcomes \in Seq([id : Requests \cup {0}, ok : BOOLEAN])
      /\ exit = 3 <=> pc # "done"
  BY DEF TypeOK
<1>2. \A m \in Messages : m.id \in Nat  BY CallsFacts DEF Messages
<1>3. /\ DOMAIN outcomes = 1..Len(outcomes) /\ Len(outcomes) \in Nat
      /\ \A i \in 1..Len(outcomes) : outcomes[i].id \in Nat /\ outcomes[i].ok \in BOOLEAN
  <2>1. PICK O : O = [id : Requests \cup {0}, ok : BOOLEAN]  OBVIOUS
  <2>2. \A o \in O : o.id \in Nat /\ o.ok \in BOOLEAN  BY <2>1, CallsFacts
  <2>3. outcomes \in Seq(O)  BY <1>1, <2>1
  <2>4. /\ DOMAIN outcomes = 1..Len(outcomes) /\ Len(outcomes) \in Nat
        /\ \A i \in 1..Len(outcomes) : outcomes[i] \in O
    BY <2>3
  <2>. QED  BY <2>2, <2>4
<1>4. /\ Len(stdin) \in Nat /\ \A i \in 1..Len(stdin) : stdin[i] \in Nat \ {0}
  BY <1>1, CallsFacts
<1>5. /\ Len(stdout) \in Nat /\ \A i \in 1..Len(stdout) : stdout[i].id \in Nat
  BY <1>1, <1>2
<1>. QED  BY <1>1, <1>3, <1>4, <1>5, CallsFacts DEF Typed, TypedOutcomes

LEMMA KindFacts ==
    /\ \A k \in {"text", "notification"} \cup Unasked : k \notin AllKinds
    /\ \A k \in {"met", "unmet", "error", "error_met", "null"} : k \in AllKinds
    /\ \A k \in AllKinds : k \in {"met", "unmet", "error", "error_met", "null"}
  BY DEF AllKinds, Unasked

\* What is written is the last line in the pipe; the others stay where they are.
Written(line) ==
  /\ Len(stdout') = Len(stdout) + 1
  /\ \A i \in 1..Len(stdout) : stdout'[i] = stdout[i]
  /\ stdout'[Len(stdout) + 1] = line
  /\ server = "up"
  /\ UNCHANGED <<pc, late, failure, exit, step, tools, outcomes, intruded, stdin, stderr,
                 server, signal>>

LEMMA WriteFacts ==
  ASSUME TypeOK, NEW line \in Messages, Write(line)
  PROVE  Written(line)
  BY DEF TypeOK, Write, conversation, Written

LEMMA AfterWrite ==
  ASSUME TypeOK, NEW line \in Messages, Write(line)
  PROVE  stdout' \in Seq(Messages)
  BY DEF TypeOK, Write

Answered(kind) ==
  /\ Written([kind |-> kind, id |-> serving])
  /\ serving \in Requests /\ serving # 0 /\ serving' = 0
  /\ kind \in AllKinds
  /\ serving = 1 => kind \in {"met", "error"}
  /\ \A n \in Requests : answered'[n] = IF n = serving THEN kind ELSE answered[n]

LEMMA AnswerFacts ==
  ASSUME TypeOK, NEW kind \in AllKinds, Answer(kind)
  PROVE  Answered(kind)
<1>1. serving \in Requests /\ serving # 0 /\ answered \in [Requests -> AllKinds \cup {"none"}]
  BY DEF TypeOK, Answer
<1>2. [kind |-> kind, id |-> serving] \in Messages  BY <1>1 DEF Messages
<1>3. Written([kind |-> kind, id |-> serving])  BY <1>2, WriteFacts DEF Answer
<1>4. serving = 1 => kind \in {"met", "error"}  BY DEF Answer, Kinds
<1>. QED  BY <1>1, <1>3, <1>4 DEF Answer, Answered

Noted ==
  \E kind \in {"text", "notification"} \cup Unasked :
      /\ Written([kind |-> kind, id |-> 0])
      /\ kind \notin AllKinds
      /\ UNCHANGED <<serving, answered>>

LEMMA NoteFacts ==
  ASSUME TypeOK, Notify \/ WriteUnasked
  PROVE  Noted
<1>1. PICK kind \in {"text", "notification"} \cup Unasked : Write([kind |-> kind, id |-> 0])
  BY DEF Notify, WriteUnasked
<1>2. [kind |-> kind, id |-> 0] \in Messages  BY DEF Messages
<1>3. Written([kind |-> kind, id |-> 0])  BY <1>1, <1>2, WriteFacts
<1>4. kind \notin AllKinds  BY DEF AllKinds, Unasked
<1>. QED  BY <1>3, <1>4 DEF Noted, Notify, WriteUnasked

\* A line that is read is the first in the pipe; the others move up.
MovedUp ==
  /\ Line = stdout[1] /\ Len(stdout) >= 1
  /\ Len(stdout') = Len(stdout) - 1
  /\ \A i \in 1..Len(stdout') : stdout'[i] = stdout[i + 1] /\ i + 1 \in 1..Len(stdout)

LEMMA ReadFacts ==
  ASSUME TypeOK, stdout # <<>>, stdout' = Tail(stdout)
  PROVE  MovedUp
  BY DEF TypeOK, Line, MovedUp

Received(n) ==
  /\ pc = "reading" /\ step = n
  /\ MovedUp
  /\ Line.kind \in AllKinds \cup Unasked
  /\ Line.id \in Requests \cup {0}
  /\ intruded' = IF Line.kind \in Unasked THEN intruded + 1 ELSE intruded
  /\ UNCHANGED <<late, exit, stdin, stderr, server, signal, serving, answered>>

LEMMA ReceiveFacts ==
  ASSUME TypeOK, NEW n \in Requests, Receive(n)
  PROVE  Received(n)
<1>1. stdout # <<>> /\ stdout' = Tail(stdout)  BY DEF Receive
<1>2. MovedUp  BY <1>1, ReadFacts
<1>3. Line.kind \in AllKinds \cup Unasked /\ Line.id \in Requests \cup {0}
  <2>1. Line \in Messages  BY <1>1 DEF Line, TypeOK
  <2>. QED  BY <2>1 DEF Receive, HasId, Messages
<1>. QED  BY <1>2, <1>3 DEF Receive, process, Received

\* A request is added behind those that are waiting.
Queued ==
  /\ Len(stdin') = Len(stdin) + 1
  /\ \A i \in 1..Len(stdin) : stdin'[i] = stdin[i]
  /\ stdin'[Len(stdin) + 1] = step

LEMMA SendFacts ==
  ASSUME TypeOK, stdin' = Append(stdin, step)
  PROVE  Queued
<1>1. stdin \in Seq(Requests) /\ step \in Requests  BY DEF TypeOK
<1>2. /\ stdin' \in Seq(Requests) /\ Len(stdin') = Len(stdin) + 1
      /\ \A i \in 1..Len(stdin) : stdin'[i] = stdin[i]
      /\ stdin'[Len(stdin) + 1] = step
  BY <1>1
<1>. QED  BY <1>2 DEF Queued

LEMMA AfterSend ==
  ASSUME TypeOK, stdin' = Append(stdin, step)
  PROVE  stdin' \in Seq(Requests)
<1>1. stdin \in Seq(Requests) /\ step \in Requests  BY DEF TypeOK
<1>. QED  BY <1>1

Outcomes == [id : Requests \cup {0}, ok : BOOLEAN]

\* A call adds one outcome, of the line that was read, or ends the conversation.
Judged(n) ==
  /\ n > 2 /\ Received(n) /\ UNCHANGED tools
  /\ \/ /\ Line.kind = "null" /\ failure' = "AttributeError" /\ pc' = "ending"
        /\ UNCHANGED <<step, outcomes>>
     \/ /\ Line.kind # "null"
        /\ UNCHANGED failure
        /\ \/ n + 1 \in Requests /\ step' = n + 1 /\ pc' = "sending"
           \/ n + 1 \notin Requests /\ UNCHANGED step /\ pc' = "ending"
        /\ outcomes' \in Seq(Outcomes)
        /\ Len(outcomes') = Len(outcomes) + 1
        /\ \A i \in 1..Len(outcomes) : outcomes'[i] = outcomes[i]
        /\ outcomes'[Len(outcomes) + 1].id = Line.id
        /\ outcomes'[Len(outcomes) + 1].ok => Line.kind \notin Unasked
        /\ outcomes'[Len(outcomes) + 1].ok /\ Line.id = n
              => Line.kind \in {"met", "error_met"}

LEMMA JudgeFacts ==
  ASSUME TypeOK, NEW n \in Requests, Judge(n)
  PROVE  Judged(n)
<1>1. n > 2 /\ Received(n) /\ UNCHANGED tools  BY ReceiveFacts DEF Judge
<1>2. CASE Line.kind = "null"  BY <1>1, <1>2 DEF Judge, Raise, Judged
<1>3. CASE Line.kind # "null"
  <2>1. PICK ok \in Judgements(n) : outcomes' = Append(outcomes, [id |-> Line.id, ok |-> ok])
    BY <1>3 DEF Judge
  <2>2. /\ ok \in BOOLEAN
        /\ ok => Line.kind \notin Unasked
        /\ ok /\ Line.id = n => Line.kind \in {"met", "error_met"}
    <3>1. CASE Line.kind \in Unasked
      <4>1. Judgements(n) = {FALSE}  BY <3>1 DEF Judgements
      <4>. QED  BY <4>1
    <3>2. CASE Line.kind \notin Unasked /\ Line.id # n
      <4>1. Judgements(n) = BOOLEAN  BY <3>2 DEF Judgements
      <4>. QED  BY <3>2, <4>1
    <3>3. CASE Line.kind \notin Unasked /\ Line.id = n
      <4>1. Judgements(n) = {Line.kind \in {"met", "error_met"}}  BY <3>3 DEF Judgements
      <4>2. ok = (Line.kind \in {"met", "error_met"})  BY <4>1, Zenon
      <4>3. ok \in BOOLEAN  BY <4>1
      <4>4. ok => Line.kind \in {"met", "error_met"}  BY <4>2, Zenon
      <4>. QED  BY <3>3, <4>3, <4>4
    <3>. QED  BY <3>1, <3>2, <3>3
  <2>3. [id |-> Line.id, ok |-> ok] \in Outcomes  BY <1>1, <2>2 DEF Outcomes, Received
  <2>4. outcomes \in Seq(Outcomes)  BY DEF TypeOK, Outcomes
  <2>5. /\ outcomes' \in Seq(Outcomes)
        /\ Len(outcomes') = Len(outcomes) + 1
        /\ \A i \in 1..Len(outcomes) : outcomes'[i] = outcomes[i]
        /\ outcomes'[Len(outcomes) + 1] = [id |-> Line.id, ok |-> ok]
    BY <2>1, <2>3, <2>4
  <2>6. UNCHANGED failure /\ Proceed(n)  BY <1>3 DEF Judge, Proceed
  <2>. QED  BY <1>1, <1>3, <2>2, <2>5, <2>6 DEF Judged, Proceed
<1>. QED  BY <1>2, <1>3

(***************************************************************************)
(* What a write and a read do to what waits in the pipe.                   *)
(***************************************************************************)
NoteEffect ==
  /\ NoAnswer => NoAnswer'
  /\ AnswerWaits => AnswerWaits'
  /\ FirstWaits => FirstWaits'
  /\ StdoutBounded => StdoutBounded'
  /\ AsAnswered => AsAnswered'
  /\ UNCHANGED <<pc, late, failure, exit, step, tools, outcomes, intruded, stdin, stderr,
                 server, signal, serving, answered>>

LEMMA NotedKeeps ==
  ASSUME Typed, Noted
  PROVE  NoteEffect
<1>1. PICK kind : /\ Written([kind |-> kind, id |-> 0])
                  /\ kind \notin AllKinds
                  /\ UNCHANGED <<serving, answered>>
  BY DEF Noted
<1>2. /\ Len(stdout) \in Nat /\ step \in Nat /\ Len(stdout') = Len(stdout) + 1 /\ step' = step
      /\ \A i \in 1..Len(stdout) : stdout'[i] = stdout[i]
      /\ stdout'[Len(stdout) + 1].kind \notin AllKinds /\ stdout'[Len(stdout) + 1].id = 0
      /\ answered' = answered
  BY <1>1 DEF Written, Typed
<1>3. NoAnswer => NoAnswer'  BY <1>2 DEF NoAnswer, IsAnswer
<1>4. AnswerWaits => AnswerWaits'  BY <1>2 DEF AnswerWaits, IsAnswer
<1>5. FirstWaits => FirstWaits'
  <2>. SUFFICES ASSUME FirstWaits PROVE FirstWaits'  OBVIOUS
  <2>1. PICK i \in 1..Len(stdout) :
            /\ IsAnswer(stdout[i]) /\ stdout[i].id = 1
            /\ \A j \in 1..(i - 1) : ~IsAnswer(stdout[j])
    BY DEF FirstWaits
  <2>2. /\ i \in 1..Len(stdout') /\ stdout'[i] = stdout[i]
        /\ \A j \in 1..(i - 1) : stdout'[j] = stdout[j]
    BY <1>2, <2>1
  <2>. QED  BY <2>1, <2>2 DEF FirstWaits, IsAnswer
<1>6. StdoutBounded => StdoutBounded'  BY <1>2 DEF StdoutBounded
<1>7. AsAnswered => AsAnswered'  BY <1>2 DEF AsAnswered, IsAnswer
<1>. QED  BY <1>1, <1>3, <1>4, <1>5, <1>6, <1>7 DEF Written, NoteEffect

AnswerEffect ==
  /\ NoAnswer /\ serving = step => AnswerWaits'
  /\ NoAnswer /\ serving = 1 => FirstWaits'
  /\ FirstWaits => FirstWaits'
  /\ StdoutBounded /\ serving <= step => StdoutBounded'
  /\ NoAnswer => AsAnswered'

LEMMA AnsweredKeeps ==
  ASSUME Typed, NEW kind \in AllKinds, Answered(kind)
  PROVE  AnswerEffect
<1>1. /\ Len(stdout) \in Nat /\ step \in Nat /\ Len(stdout') = Len(stdout) + 1 /\ step' = step
      /\ \A i \in 1..Len(stdout) : stdout'[i] = stdout[i]
      /\ stdout'[Len(stdout) + 1].kind = kind /\ stdout'[Len(stdout) + 1].id = serving
      /\ serving \in Requests => answered'[serving] = kind
  BY DEF Answered, Written, Typed
<1>2. NoAnswer /\ serving = step => AnswerWaits'  BY <1>1 DEF NoAnswer, AnswerWaits, IsAnswer
<1>3. NoAnswer /\ serving = 1 => FirstWaits'
  <2>. SUFFICES ASSUME NoAnswer, serving = 1 PROVE FirstWaits'  OBVIOUS
  <2>. DEFINE i == Len(stdout) + 1
  <2>1. /\ i \in 1..Len(stdout') /\ stdout'[i].kind \in AllKinds /\ stdout'[i].id = 1
        /\ \A j \in 1..(i - 1) : stdout'[j].kind \notin AllKinds
    BY <1>1 DEF NoAnswer, IsAnswer
  <2>. QED  BY <2>1 DEF FirstWaits, IsAnswer
<1>4. FirstWaits => FirstWaits'
  <2>. SUFFICES ASSUME FirstWaits PROVE FirstWaits'  OBVIOUS
  <2>1. PICK i \in 1..Len(stdout) :
            /\ IsAnswer(stdout[i]) /\ stdout[i].id = 1
            /\ \A j \in 1..(i - 1) : ~IsAnswer(stdout[j])
    BY DEF FirstWaits
  <2>2. /\ i \in 1..Len(stdout') /\ stdout'[i] = stdout[i]
        /\ \A j \in 1..(i - 1) : stdout'[j] = stdout[j]
    BY <1>1, <2>1
  <2>. QED  BY <2>1, <2>2 DEF FirstWaits, IsAnswer
<1>5. StdoutBounded /\ serving <= step => StdoutBounded'  BY <1>1 DEF StdoutBounded
<1>6. NoAnswer => AsAnswered'
  <2>1. serving \in Requests  BY DEF Answered
  <2>. QED  BY <1>1, <2>1 DEF NoAnswer, AsAnswered, IsAnswer
<1>. QED  BY <1>2, <1>3, <1>4, <1>5, <1>6 DEF AnswerEffect

ReadEffect ==
  /\ NoAnswer => NoAnswer' /\ ~IsAnswer(Line)
  /\ AnswerWaits /\ step' = step /\ ~IsAnswer(Line) => AnswerWaits'
  /\ AnswerWaits /\ IsAnswer(Line) => NoAnswer' /\ Line.id = step
  /\ FirstWaits /\ ~IsAnswer(Line) => FirstWaits'
  /\ FirstWaits /\ IsAnswer(Line) => Line.id = 1
  /\ StdoutBounded => Line.id <= step
  /\ StdoutBounded /\ step' \in Nat /\ step' >= step => StdoutBounded'
  /\ AsAnswered /\ answered' = answered => AsAnswered'
  /\ AsAnswered /\ IsAnswer(Line) => Line.kind = answered[Line.id]

LEMMA ReadKeeps ==
  ASSUME Typed, MovedUp
  PROVE  ReadEffect
<1>1. /\ Len(stdout) \in Nat /\ Len(stdout) >= 1 /\ Line = stdout[1] /\ step \in Nat
      /\ Len(stdout') = Len(stdout) - 1
      /\ \A i \in 1..Len(stdout') : stdout'[i] = stdout[i + 1] /\ i + 1 \in 1..Len(stdout)
      /\ \A i \in 1..Len(stdout) : stdout[i].id \in Nat
  BY DEF MovedUp, Typed
<1>2. ASSUME NoAnswer
      PROVE  NoAnswer' /\ ~IsAnswer(Line)
  <2>1. ~IsAnswer(Line)
    <3>1. 1 \in 1..Len(stdout)  BY <1>1
    <3>. QED  BY <1>1, <1>2, <3>1 DEF NoAnswer
  <2>2. \A i \in 1..Len(stdout') : ~IsAnswer(stdout'[i])  BY <1>1, <1>2 DEF NoAnswer
  <2>. QED  BY <2>1, <2>2 DEF NoAnswer, IsAnswer
<1>3. ASSUME AnswerWaits
      PROVE  /\ step' = step /\ ~IsAnswer(Line) => AnswerWaits'
             /\ IsAnswer(Line) => NoAnswer' /\ Line.id = step
  <2>1. PICK i \in 1..Len(stdout) :
            /\ IsAnswer(stdout[i]) /\ stdout[i].id = step
            /\ \A j \in (1..Len(stdout)) \ {i} : ~IsAnswer(stdout[j])
    BY <1>3 DEF AnswerWaits
  <2>2. CASE IsAnswer(Line)
    <3>1. 1 \in 1..Len(stdout) /\ IsAnswer(stdout[1])  BY <1>1, <2>2
    <3>2. i = 1  BY <2>1, <3>1
    <3>. QED  BY <1>1, <2>1, <2>2, <3>2 DEF NoAnswer, IsAnswer
  <2>3. CASE ~IsAnswer(Line) /\ step' = step
    <3>. DEFINE k == i - 1
    <3>1. i # 1  BY <1>1, <2>1, <2>3
    <3>2. k \in 1..Len(stdout') /\ stdout'[k] = stdout[i]  BY <1>1, <2>1, <3>1
    <3>3. \A j \in (1..Len(stdout')) \ {k} : ~IsAnswer(stdout'[j])
      <4>. TAKE j \in (1..Len(stdout')) \ {k}
      <4>1. stdout'[j] = stdout[j + 1] /\ j + 1 \in (1..Len(stdout)) \ {i}  BY <1>1
      <4>. QED  BY <2>1, <4>1
    <3>. HIDE DEF k
    <3>. QED  BY <2>1, <2>3, <3>2, <3>3 DEF AnswerWaits, IsAnswer
  <2>. QED  BY <2>2, <2>3
<1>4. ASSUME FirstWaits
      PROVE  (~IsAnswer(Line) => FirstWaits') /\ (IsAnswer(Line) => Line.id = 1)
  <2>1. PICK i \in 1..Len(stdout) :
            /\ IsAnswer(stdout[i]) /\ stdout[i].id = 1
            /\ \A j \in 1..(i - 1) : ~IsAnswer(stdout[j])
    BY <1>4 DEF FirstWaits
  <2>2. CASE IsAnswer(Line)
    <3>1. i = 1  BY <1>1, <2>1, <2>2
    <3>. QED  BY <1>1, <2>1, <2>2, <3>1
  <2>3. CASE ~IsAnswer(Line)
    <3>. DEFINE k == i - 1
    <3>1. i # 1  BY <1>1, <2>1, <2>3
    <3>2. k \in 1..Len(stdout') /\ stdout'[k] = stdout[i]  BY <1>1, <2>1, <3>1
    <3>3. \A j \in 1..(k - 1) : ~IsAnswer(stdout'[j])
      <4>. TAKE j \in 1..(k - 1)
      <4>1. stdout'[j] = stdout[j + 1] /\ j + 1 \in 1..(i - 1)  BY <1>1, <2>1
      <4>. QED  BY <2>1, <4>1
    <3>. HIDE DEF k
    <3>. QED  BY <2>1, <2>3, <3>2, <3>3 DEF FirstWaits, IsAnswer
  <2>. QED  BY <2>2, <2>3
<1>5. /\ StdoutBounded => Line.id <= step
      /\ StdoutBounded /\ step' \in Nat /\ step' >= step => StdoutBounded'
  BY <1>1 DEF StdoutBounded
<1>6. AsAnswered /\ answered' = answered => AsAnswered'  BY <1>1 DEF AsAnswered, IsAnswer
<1>7. AsAnswered /\ IsAnswer(Line) => Line.kind = answered[Line.id]  BY <1>1 DEF AsAnswered
<1>. QED  BY <1>2, <1>3, <1>4, <1>5, <1>6, <1>7 DEF ReadEffect

LEMMA TheFirst == Typed /\ AnswerWaits /\ step = 1 => FirstWaits
<1>. SUFFICES ASSUME Typed, AnswerWaits, step = 1 PROVE FirstWaits  OBVIOUS
<1>1. PICK i \in 1..Len(stdout) :
          /\ IsAnswer(stdout[i]) /\ stdout[i].id = step
          /\ \A j \in (1..Len(stdout)) \ {i} : ~IsAnswer(stdout[j])
  BY DEF AnswerWaits
<1>2. \A j \in 1..(i - 1) : j \in (1..Len(stdout)) \ {i}  BY <1>1 DEF Typed
<1>. QED  BY <1>1, <1>2 DEF FirstWaits

\* The pipe is left alone.
StillEffect ==
  /\ NoAnswer => NoAnswer'
  /\ FirstWaits => FirstWaits'
  /\ AsAnswered => AsAnswered'
  /\ step' = step /\ AnswerWaits => AnswerWaits'
  /\ step' = step /\ StdoutBounded => StdoutBounded'

LEMMA PipeUnchanged ==
  ASSUME UNCHANGED <<stdout, answered>>
  PROVE  StillEffect
  BY DEF StillEffect, NoAnswer, FirstWaits, AsAnswered, AnswerWaits, StdoutBounded, IsAnswer

\* Every action leaves every variable its type.
LEMMA TypeStep ==
  ASSUME TypeOK, [Next]_vars
  PROVE  TypeOK'
<1>1. ASSUME ReadConfiguration PROVE TypeOK'
    BY <1>1, CallsFacts DEF ReadConfiguration, conversation, pipes, process, TypeOK,
       Messages, AllKinds
<1>2. ASSUME Launch PROVE TypeOK'
    BY <1>2, CallsFacts DEF Launch, conversation, pipes, TypeOK, Messages, AllKinds
<1>3. ASSUME Send PROVE TypeOK'
  <2>1. stdin' \in Seq(Requests)  BY <1>3, AfterSend DEF Send, TypeOK
  <2>. QED  BY <1>3, <2>1 DEF Send, Raise, conversation, process, TypeOK
<1>4. ASSUME CheckDeadline PROVE TypeOK'
    BY <1>4, CallsFacts DEF CheckDeadline, Raise, conversation, pipes, process, TypeOK,
       Messages, AllKinds
<1>5. ASSUME ReadEnd PROVE TypeOK'
    BY <1>5, CallsFacts DEF ReadEnd, Raise, conversation, pipes, process, TypeOK, Messages,
       AllKinds
<1>6. ASSUME SkipLine PROVE TypeOK'
    BY <1>6 DEF SkipLine, conversation, process, TypeOK
<1>7. ASSUME Initialised PROVE TypeOK'
    BY <1>7, CallsFacts DEF Initialised, Receive, Raise, process, TypeOK
<1>8. ASSUME Listed PROVE TypeOK'
    BY <1>8, CallsFacts DEF Listed, Receive, Raise, Proceed, process, TypeOK
<1>9. ASSUME NEW n \in Requests, Judge(n) PROVE TypeOK'
  <2>1. Judged(n)  BY <1>9, JudgeFacts
  <2>2. stdout' \in Seq(Messages)  BY <1>9 DEF Judge, Receive, TypeOK
  <2>3. outcomes' \in Seq(Outcomes)  BY <2>1 DEF Judged, Outcomes, TypeOK
  <2>4. /\ step' \in Requests /\ intruded' \in Nat /\ pc # "done"
        /\ pc' \in {"sending", "ending"}
        /\ failure' \in {"none", "ProbeError", "OSError", "AttributeError"}
    BY <2>1 DEF Judged, Received, TypeOK
  <2>5. UNCHANGED <<late, exit, stdin, stderr, server, signal, serving, answered, tools>>
    BY <2>1 DEF Judged, Received
  <2>. QED  BY <2>2, <2>3, <2>4, <2>5 DEF Outcomes, TypeOK
<1>10. ASSUME Terminate PROVE TypeOK'
    BY <1>10, CallsFacts DEF Terminate, conversation, pipes, TypeOK, Messages, AllKinds
<1>11. ASSUME AwaitServer PROVE TypeOK'
    BY <1>11, CallsFacts DEF AwaitServer, conversation, pipes, TypeOK, Messages, AllKinds
<1>12. ASSUME Report PROVE TypeOK'
    BY <1>12, CallsFacts DEF Report, conversation, pipes, process, TypeOK, Messages, AllKinds
<1>13. ASSUME Clock PROVE TypeOK'
    BY <1>13, CallsFacts DEF Clock, conversation, pipes, process, TypeOK, Messages, AllKinds
<1>14. ASSUME TakeRequest PROVE TypeOK'
    BY <1>14, CallsFacts DEF TakeRequest, conversation, TypeOK, Messages, AllKinds
<1>15. ASSUME NEW kind \in AllKinds, Answer(kind) PROVE TypeOK'
  <2>1. serving \in Requests /\ [kind |-> kind, id |-> serving] \in Messages
    BY <1>15 DEF Answer, TypeOK, Messages
  <2>2. stdout' \in Seq(Messages)  BY <1>15, <2>1, AfterWrite DEF Answer
  <2>. QED  BY <1>15, <2>1, <2>2 DEF Answer, Write, conversation, TypeOK
<1>16. ASSUME EndLogging PROVE TypeOK'
    BY <1>16, CallsFacts DEF EndLogging, conversation, TypeOK, Messages, AllKinds
<1>17. ASSUME Notify PROVE TypeOK'
  <2>1. PICK line \in Messages : Write(line)
    BY <1>17 DEF Notify, Messages
  <2>2. stdout' \in Seq(Messages)  BY <2>1, AfterWrite
  <2>. QED  BY <1>17, <2>1, <2>2 DEF Notify, Write, conversation, TypeOK
<1>18. ASSUME WriteUnasked PROVE TypeOK'
  <2>1. PICK line \in Messages : Write(line)
    BY <1>18 DEF WriteUnasked, Messages
  <2>2. stdout' \in Seq(Messages)  BY <2>1, AfterWrite
  <2>. QED  BY <1>18, <2>1, <2>2 DEF WriteUnasked, Write, conversation, TypeOK
<1>19. ASSUME BeginLogging PROVE TypeOK'
    BY <1>19, CallsFacts DEF BeginLogging, conversation, pipes, TypeOK, Messages, AllKinds
<1>20. ASSUME Exit PROVE TypeOK'
    BY <1>20, CallsFacts DEF Exit, Leave, conversation, pipes, TypeOK, Messages, AllKinds
<1>21. ASSUME Die PROVE TypeOK'
    BY <1>21, CallsFacts DEF Die, Leave, conversation, pipes, TypeOK, Messages, AllKinds
<1>22. ASSUME Finished PROVE TypeOK'
    BY <1>22, CallsFacts DEF Finished, vars, TypeOK, Messages, AllKinds
<1>23. ASSUME UNCHANGED vars PROVE TypeOK'
    BY <1>23 DEF vars, TypeOK, Messages, AllKinds
<1>q. QED
    BY <1>1, <1>2, <1>3, <1>4, <1>5, <1>6, <1>7, <1>8, <1>9, <1>10, <1>11, <1>12, <1>13,
       <1>14, <1>15, <1>16, <1>17, <1>18, <1>19, <1>20, <1>21, <1>22, <1>23 DEF Next, Probe,
       Converse, Serve, Intrude

\* What is known of each phase of the probe survives every action.
LEMMA PhasesStep ==
  ASSUME TypeOK, Phases, [Next]_vars
  PROVE  Phases'
<1>t. Typed /\ TypedOutcomes  BY TypedFacts
<1>1. ASSUME ReadConfiguration PROVE Phases'
    BY <1>1, <1>t DEF ReadConfiguration, conversation, pipes, process, Typed, TypedOutcomes,
       Phases, Conversing
<1>2. ASSUME Launch PROVE Phases'
    BY <1>2, <1>t DEF Launch, conversation, pipes, Typed, TypedOutcomes, Phases, Conversing
<1>3. ASSUME Send PROVE Phases'
  <2>1. CASE server = "gone"
    BY <1>3, <2>1, <1>t DEF Send, Raise, conversation, process, Typed, TypedOutcomes,
       Phases, Conversing
  <2>2. CASE server # "gone"
    <3>1. Queued  BY <1>3, <2>2, SendFacts DEF Send
    <3>. QED
      BY <1>3, <2>2, <3>1, <1>t DEF Send, Queued, conversation, process, Typed,
         TypedOutcomes, Phases, Conversing
  <2>. QED  BY <2>1, <2>2
<1>4. ASSUME CheckDeadline PROVE Phases'
    BY <1>4, <1>t DEF CheckDeadline, Raise, conversation, pipes, process, Typed,
       TypedOutcomes, Phases, Conversing
<1>5. ASSUME ReadEnd PROVE Phases'
    BY <1>5, <1>t DEF ReadEnd, Raise, conversation, pipes, process, Typed, TypedOutcomes,
       Phases, Conversing
<1>6. ASSUME SkipLine PROVE Phases'
    BY <1>6, <1>t DEF SkipLine, HasId, Line, conversation, process, Typed, TypedOutcomes,
       Phases, Conversing
<1>7. ASSUME Initialised PROVE Phases'
  <2>1. Received(1)  BY <1>7, CallsFacts, ReceiveFacts DEF Initialised
  <2>. QED  BY <1>7, <2>1, CallsFacts, KindFacts, <1>t DEF Initialised, IsError, Raise,
               Received, Typed, TypedOutcomes, Phases, Conversing
<1>8. ASSUME Listed PROVE Phases'
  <2>1. Received(2)  BY <1>8, CallsFacts, ReceiveFacts DEF Listed
  <2>2. /\ pc = "reading" /\ step = 2 /\ UNCHANGED <<exit, server, signal, outcomes>>
        /\ \/ failure' \in {"ProbeError", "AttributeError"} /\ pc' = "ending" /\ UNCHANGED step
              /\ UNCHANGED tools
           \/ UNCHANGED failure /\ 3 \in Requests /\ step' = 3 /\ pc' = "sending"
           \/ UNCHANGED failure /\ 3 \notin Requests /\ UNCHANGED step /\ pc' = "ending"
    BY <1>8, <2>1 DEF Listed, Raise, Proceed, Received
  <2>. QED  BY <2>1, <2>2, CallsFacts, <1>t DEF Received, Typed, TypedOutcomes, Phases,
               Conversing
<1>9. ASSUME NEW n \in Requests, Judge(n) PROVE Phases'
  <2>1. Judged(n) /\ Received(n)  BY <1>9, JudgeFacts DEF Judged
  <2>2. /\ pc = "reading" /\ step = n /\ n > 2 /\ UNCHANGED <<exit, server, signal, tools>>
        /\ \/ failure' = "AttributeError" /\ pc' = "ending" /\ UNCHANGED <<step, outcomes>>
           \/ /\ UNCHANGED failure /\ Len(outcomes') = Len(outcomes) + 1
              /\ \/ n + 1 \in Requests /\ step' = n + 1 /\ pc' = "sending"
                 \/ n + 1 \notin Requests /\ UNCHANGED step /\ pc' = "ending"
    BY <2>1 DEF Judged, Received
  <2>3. n \in Nat /\ n <= Len(Calls) + 2 /\ (n + 1 \notin Requests => n = Len(Calls) + 2)
    BY CallsFacts
  <2>4. failure = "none" /\ server # "none" /\ Len(outcomes) = n - 3
    BY <2>2, <2>3, <1>t DEF Phases, Conversing, Typed, TypedOutcomes
  <2>. QED  BY <2>2, <2>3, <2>4, <1>t DEF Typed, TypedOutcomes, Phases, Conversing
<1>10. ASSUME Terminate PROVE Phases'
    BY <1>10, <1>t DEF Terminate, conversation, pipes, Typed, TypedOutcomes, Phases,
       Conversing
<1>11. ASSUME AwaitServer PROVE Phases'
    BY <1>11, <1>t DEF AwaitServer, conversation, pipes, Typed, TypedOutcomes, Phases,
       Conversing
<1>12. ASSUME Report PROVE Phases'
    BY <1>12, <1>t DEF Report, conversation, pipes, process, Typed, TypedOutcomes, Phases,
       Conversing
<1>13. ASSUME Clock PROVE Phases'
    BY <1>13, <1>t DEF Clock, conversation, pipes, process, Typed, TypedOutcomes, Phases,
       Conversing
<1>14. ASSUME TakeRequest PROVE Phases'
    BY <1>14, <1>t DEF TakeRequest, conversation, Typed, TypedOutcomes, Phases, Conversing
<1>15. ASSUME NEW kind \in AllKinds, Answer(kind) PROVE Phases'
  <2>1. Answered(kind)  BY <1>15, AnswerFacts
  <2>. QED  BY <2>1, <1>t DEF Answered, Written, Typed, TypedOutcomes, Phases, Conversing
<1>16. ASSUME EndLogging PROVE Phases'
    BY <1>16, <1>t DEF EndLogging, conversation, Typed, TypedOutcomes, Phases, Conversing
<1>17. ASSUME Notify PROVE Phases'
  <2>1. NoteEffect  BY <1>17, <1>t, NoteFacts, NotedKeeps
  <2>. QED  BY <2>1, <1>t DEF NoteEffect, Typed, TypedOutcomes, Phases, Conversing
<1>18. ASSUME WriteUnasked PROVE Phases'
  <2>1. NoteEffect  BY <1>18, <1>t, NoteFacts, NotedKeeps
  <2>. QED  BY <2>1, <1>t DEF NoteEffect, Typed, TypedOutcomes, Phases, Conversing
<1>19. ASSUME BeginLogging PROVE Phases'
    BY <1>19, <1>t DEF BeginLogging, conversation, pipes, Typed, TypedOutcomes, Phases,
       Conversing
<1>20. ASSUME Exit PROVE Phases'
    BY <1>20, <1>t DEF Exit, Leave, conversation, pipes, Typed, TypedOutcomes, Phases,
       Conversing
<1>21. ASSUME Die PROVE Phases'
    BY <1>21, <1>t DEF Die, Leave, conversation, pipes, Typed, TypedOutcomes, Phases,
       Conversing
<1>22. ASSUME Finished PROVE Phases'
    BY <1>22, <1>t DEF Finished, vars, Typed, TypedOutcomes, Phases, Conversing
<1>23. ASSUME UNCHANGED vars PROVE Phases'
    BY <1>23, <1>t DEF vars, Typed, TypedOutcomes, Phases, Conversing
<1>q. QED
    BY <1>1, <1>2, <1>3, <1>4, <1>5, <1>6, <1>7, <1>8, <1>9, <1>10, <1>11, <1>12, <1>13,
       <1>14, <1>15, <1>16, <1>17, <1>18, <1>19, <1>20, <1>21, <1>22, <1>23 DEF Next, Probe,
       Converse, Serve, Intrude

\* No action puts into the pipes what was not asked.
LEMMA AheadStep ==
  ASSUME TypeOK, Phases, NothingAhead, [Next]_vars
  PROVE  NothingAhead'
<1>t. Typed /\ TypedOutcomes  BY TypedFacts
<1>1. ASSUME ReadConfiguration PROVE NothingAhead'
  <2>1. StillEffect  BY <1>1, PipeUnchanged DEF ReadConfiguration, conversation, pipes,
                        process
  <2>. QED  BY <1>1, <2>1, <1>t DEF ReadConfiguration, conversation, pipes, process,
               StillEffect, Typed, NothingAhead, StdinBounded
<1>2. ASSUME Launch PROVE NothingAhead'
  <2>1. StillEffect  BY <1>2, PipeUnchanged DEF Launch, conversation, pipes
  <2>. QED  BY <1>2, <2>1, <1>t DEF Launch, conversation, pipes, StillEffect, Typed,
               NothingAhead, StdinBounded
<1>3. ASSUME Send PROVE NothingAhead'
  <2>0. StillEffect  BY <1>3, PipeUnchanged DEF Send, conversation, process
  <2>1. CASE server = "gone"
    BY <1>3, <2>0, <2>1, <1>t DEF Send, Raise, conversation, process, StillEffect, Typed,
       NothingAhead, StdinBounded
  <2>2. CASE server # "gone"
    <3>1. Queued  BY <1>3, <2>2, SendFacts DEF Send
    <3>. QED
      BY <1>3, <2>0, <2>2, <3>1, <1>t DEF Send, Queued, conversation, process, StillEffect,
         Typed, NothingAhead, StdinBounded
  <2>. QED  BY <2>1, <2>2
<1>4. ASSUME CheckDeadline PROVE NothingAhead'
  <2>1. StillEffect  BY <1>4, PipeUnchanged DEF CheckDeadline, Raise, conversation, pipes,
                        process
  <2>. QED  BY <1>4, <2>1, <1>t DEF CheckDeadline, Raise, conversation, pipes, process,
               StillEffect, Typed, NothingAhead, StdinBounded
<1>5. ASSUME ReadEnd PROVE NothingAhead'
  <2>1. StillEffect  BY <1>5, PipeUnchanged DEF ReadEnd, Raise, conversation, pipes, process
  <2>. QED  BY <1>5, <2>1, <1>t DEF ReadEnd, Raise, conversation, pipes, process,
               StillEffect, Typed, NothingAhead, StdinBounded
<1>6. ASSUME SkipLine PROVE NothingAhead'
  <2>1. MovedUp /\ ~IsAnswer(Line)
    BY <1>6, ReadFacts, KindFacts DEF SkipLine, HasId, IsAnswer
  <2>2. ReadEffect  BY <2>1, <1>t, ReadKeeps
  <2>. QED
    BY <1>6, <2>1, <2>2, <1>t DEF SkipLine, conversation, process, ReadEffect, Typed,
       NothingAhead, StdinBounded
<1>7. ASSUME Initialised PROVE NothingAhead'
  <2>1. Received(1)  BY <1>7, CallsFacts, ReceiveFacts DEF Initialised
  <2>2. ReadEffect  BY <2>1, <1>t, ReadKeeps DEF Received
  <2>. QED  BY <1>7, <2>1, <2>2, <1>t DEF Initialised, IsError, Raise, Received, ReadEffect,
               Typed, NothingAhead, StdinBounded
<1>8. ASSUME Listed PROVE NothingAhead'
  <2>1. Received(2)  BY <1>8, CallsFacts, ReceiveFacts DEF Listed
  <2>2. ReadEffect  BY <2>1, <1>t, ReadKeeps DEF Received
  <2>. QED  BY <1>8, <2>1, <2>2, <1>t DEF Listed, IsError, Raise, Proceed, Received,
               ReadEffect, Typed, NothingAhead, StdinBounded
<1>9. ASSUME NEW n \in Requests, Judge(n) PROVE NothingAhead'
  <2>1. Judged(n) /\ Received(n)  BY <1>9, JudgeFacts DEF Judged
  <2>2. ReadEffect  BY <2>1, <1>t, ReadKeeps DEF Received
  <2>. QED  BY <2>1, <2>2, <1>t DEF Judged, Received, ReadEffect, Typed, NothingAhead,
               StdinBounded
<1>10. ASSUME Terminate PROVE NothingAhead'
  <2>1. StillEffect  BY <1>10, PipeUnchanged DEF Terminate, conversation, pipes
  <2>. QED  BY <1>10, <2>1, <1>t DEF Terminate, conversation, pipes, StillEffect, Typed,
               NothingAhead, StdinBounded
<1>11. ASSUME AwaitServer PROVE NothingAhead'
  <2>1. StillEffect  BY <1>11, PipeUnchanged DEF AwaitServer, conversation, pipes
  <2>. QED  BY <1>11, <2>1, <1>t DEF AwaitServer, conversation, pipes, StillEffect, Typed,
               NothingAhead, StdinBounded
<1>12. ASSUME Report PROVE NothingAhead'
  <2>1. StillEffect  BY <1>12, PipeUnchanged DEF Report, conversation, pipes, process
  <2>. QED  BY <1>12, <2>1, <1>t DEF Report, conversation, pipes, process, StillEffect,
               Typed, NothingAhead, StdinBounded
<1>13. ASSUME Clock PROVE NothingAhead'
  <2>1. StillEffect  BY <1>13, PipeUnchanged DEF Clock, conversation, pipes, process
  <2>. QED  BY <1>13, <2>1, <1>t DEF Clock, conversation, pipes, process, StillEffect,
               Typed, NothingAhead, StdinBounded
<1>14. ASSUME TakeRequest PROVE NothingAhead'
  <2>1. StillEffect  BY <1>14, PipeUnchanged DEF TakeRequest, conversation
  <2>. QED  BY <1>14, <2>1, <1>t DEF TakeRequest, conversation, StillEffect, Typed,
               NothingAhead, StdinBounded
<1>15. ASSUME NEW kind \in AllKinds, Answer(kind) PROVE NothingAhead'
  <2>1. Answered(kind)  BY <1>15, AnswerFacts
  <2>2. AnswerEffect  BY <2>1, <1>t, AnsweredKeeps
  <2>. QED  BY <2>1, <2>2, <1>t DEF Answered, Written, AnswerEffect, Typed, NothingAhead,
               StdinBounded
<1>16. ASSUME EndLogging PROVE NothingAhead'
  <2>1. StillEffect  BY <1>16, PipeUnchanged DEF EndLogging, conversation
  <2>. QED  BY <1>16, <2>1, <1>t DEF EndLogging, conversation, StillEffect, Typed,
               NothingAhead, StdinBounded
<1>17. ASSUME Notify PROVE NothingAhead'
  <2>1. NoteEffect  BY <1>17, <1>t, NoteFacts, NotedKeeps
  <2>. QED  BY <2>1, <1>t DEF NoteEffect, Typed, NothingAhead, StdinBounded
<1>18. ASSUME WriteUnasked PROVE NothingAhead'
  <2>1. NoteEffect  BY <1>18, <1>t, NoteFacts, NotedKeeps
  <2>. QED  BY <2>1, <1>t DEF NoteEffect, Typed, NothingAhead, StdinBounded
<1>19. ASSUME BeginLogging PROVE NothingAhead'
  <2>1. StillEffect  BY <1>19, PipeUnchanged DEF BeginLogging, conversation, pipes
  <2>. QED  BY <1>19, <2>1, <1>t DEF BeginLogging, conversation, pipes, StillEffect, Typed,
               NothingAhead, StdinBounded
<1>20. ASSUME Exit PROVE NothingAhead'
  <2>1. StillEffect  BY <1>20, PipeUnchanged DEF Exit, Leave, conversation, pipes
  <2>. QED  BY <1>20, <2>1, <1>t DEF Exit, Leave, conversation, pipes, StillEffect, Typed,
               NothingAhead, StdinBounded
<1>21. ASSUME Die PROVE NothingAhead'
  <2>1. StillEffect  BY <1>21, PipeUnchanged DEF Die, Leave, conversation, pipes
  <2>. QED  BY <1>21, <2>1, <1>t DEF Die, Leave, conversation, pipes, StillEffect, Typed,
               NothingAhead, StdinBounded
<1>22. ASSUME Finished PROVE NothingAhead'
  <2>1. StillEffect  BY <1>22, PipeUnchanged DEF Finished, vars
  <2>. QED  BY <1>22, <2>1, <1>t DEF Finished, vars, StillEffect, Typed, NothingAhead,
               StdinBounded
<1>23. ASSUME UNCHANGED vars PROVE NothingAhead'
  <2>1. StillEffect  BY <1>23, PipeUnchanged DEF vars
  <2>. QED  BY <1>23, <2>1, <1>t DEF vars, StillEffect, Typed, NothingAhead, StdinBounded
<1>q. QED
    BY <1>1, <1>2, <1>3, <1>4, <1>5, <1>6, <1>7, <1>8, <1>9, <1>10, <1>11, <1>12, <1>13,
       <1>14, <1>15, <1>16, <1>17, <1>18, <1>19, <1>20, <1>21, <1>22, <1>23 DEF Next, Probe,
       Converse, Serve, Intrude

\* The request under way stays the only one.
LEMMA OneInFlightStep ==
  ASSUME TypeOK, Phases, OneInFlight, [Next]_vars
  PROVE  OneInFlight'
<1>t. Typed /\ TypedOutcomes  BY TypedFacts
<1>1. ASSUME ReadConfiguration PROVE OneInFlight'
  <2>1. StillEffect  BY <1>1, PipeUnchanged DEF ReadConfiguration, conversation, pipes,
                        process
  <2>. QED  BY <1>1, <2>1, <1>t DEF ReadConfiguration, conversation, pipes, process,
               StillEffect, Typed, OneInFlight, Waiting, Asked, Idle, IsAnswer, Phases,
               Conversing
<1>2. ASSUME Launch PROVE OneInFlight'
  <2>1. StillEffect  BY <1>2, PipeUnchanged DEF Launch, conversation, pipes
  <2>. QED  BY <1>2, <2>1, <1>t DEF Launch, conversation, pipes, StillEffect, Typed,
               OneInFlight, Waiting, Asked, Idle, IsAnswer, Phases, Conversing
<1>3. ASSUME Send PROVE OneInFlight'
  <2>0. StillEffect  BY <1>3, PipeUnchanged DEF Send, conversation, process
  <2>1. CASE server = "gone"
    BY <1>3, <2>0, <2>1, <1>t DEF Send, Raise, conversation, process, StillEffect, Typed,
       OneInFlight, Waiting, Asked, Idle, IsAnswer, Phases, Conversing
  <2>2. CASE server # "gone"
    <3>1. Queued  BY <1>3, <2>2, SendFacts DEF Send
    <3>. QED
      BY <1>3, <2>0, <2>2, <3>1, <1>t DEF Send, Queued, conversation, process, StillEffect,
         Typed, OneInFlight, Waiting, Asked, Idle, IsAnswer, Phases, Conversing
  <2>. QED  BY <2>1, <2>2
<1>4. ASSUME CheckDeadline PROVE OneInFlight'
  <2>1. StillEffect  BY <1>4, PipeUnchanged DEF CheckDeadline, Raise, conversation, pipes,
                        process
  <2>. QED  BY <1>4, <2>1, <1>t DEF CheckDeadline, Raise, conversation, pipes, process,
               StillEffect, Typed, OneInFlight, Waiting, Asked, Idle, IsAnswer, Phases,
               Conversing
<1>5. ASSUME ReadEnd PROVE OneInFlight'
  <2>1. StillEffect  BY <1>5, PipeUnchanged DEF ReadEnd, Raise, conversation, pipes, process
  <2>. QED  BY <1>5, <2>1, <1>t DEF ReadEnd, Raise, conversation, pipes, process,
               StillEffect, Typed, OneInFlight, Waiting, Asked, Idle, IsAnswer, Phases,
               Conversing
<1>6. ASSUME SkipLine PROVE OneInFlight'
  <2>1. MovedUp /\ ~IsAnswer(Line)
    BY <1>6, ReadFacts, KindFacts DEF SkipLine, HasId, IsAnswer
  <2>2. ReadEffect  BY <2>1, <1>t, ReadKeeps
  <2>. QED
    BY <1>6, <2>1, <2>2, <1>t DEF SkipLine, conversation, process, ReadEffect, Typed,
       OneInFlight, Waiting, Asked, Idle, IsAnswer, Phases, Conversing
<1>7. ASSUME Initialised PROVE OneInFlight'
  <2>1. Received(1)  BY <1>7, CallsFacts, ReceiveFacts DEF Initialised
  <2>2. ReadEffect  BY <2>1, <1>t, ReadKeeps DEF Received
  <2>. QED  BY <1>7, <2>1, <2>2, KindFacts, <1>t DEF Initialised, IsError, Raise, Received,
               ReadEffect, Typed, OneInFlight, Waiting, Asked, Idle, IsAnswer, Phases,
               Conversing
<1>8. ASSUME Listed PROVE OneInFlight'
  <2>1. Received(2)  BY <1>8, CallsFacts, ReceiveFacts DEF Listed
  <2>2. ReadEffect  BY <2>1, <1>t, ReadKeeps DEF Received
  <2>. QED  BY <1>8, <2>1, <2>2, KindFacts, <1>t DEF Listed, IsError, Raise, Proceed,
               Received, ReadEffect, Typed, OneInFlight, Waiting, Asked, Idle, IsAnswer,
               Phases, Conversing
<1>9. ASSUME NEW n \in Requests, Judge(n) PROVE OneInFlight'
  <2>1. Judged(n) /\ Received(n)  BY <1>9, JudgeFacts DEF Judged
  <2>2. ReadEffect  BY <2>1, <1>t, ReadKeeps DEF Received
  <2>. QED  BY <2>1, <2>2, KindFacts, <1>t DEF Judged, Received, ReadEffect, Typed,
               OneInFlight, Waiting, Asked, Idle, IsAnswer, Phases, Conversing
<1>10. ASSUME Terminate PROVE OneInFlight'
  <2>1. StillEffect  BY <1>10, PipeUnchanged DEF Terminate, conversation, pipes
  <2>. QED  BY <1>10, <2>1, <1>t DEF Terminate, conversation, pipes, StillEffect, Typed,
               OneInFlight, Waiting, Asked, Idle, IsAnswer, Phases, Conversing
<1>11. ASSUME AwaitServer PROVE OneInFlight'
  <2>1. StillEffect  BY <1>11, PipeUnchanged DEF AwaitServer, conversation, pipes
  <2>. QED  BY <1>11, <2>1, <1>t DEF AwaitServer, conversation, pipes, StillEffect, Typed,
               OneInFlight, Waiting, Asked, Idle, IsAnswer, Phases, Conversing
<1>12. ASSUME Report PROVE OneInFlight'
  <2>1. StillEffect  BY <1>12, PipeUnchanged DEF Report, conversation, pipes, process
  <2>. QED  BY <1>12, <2>1, <1>t DEF Report, conversation, pipes, process, StillEffect,
               Typed, OneInFlight, Waiting, Asked, Idle, IsAnswer, Phases, Conversing
<1>13. ASSUME Clock PROVE OneInFlight'
  <2>1. StillEffect  BY <1>13, PipeUnchanged DEF Clock, conversation, pipes, process
  <2>. QED  BY <1>13, <2>1, <1>t DEF Clock, conversation, pipes, process, StillEffect,
               Typed, OneInFlight, Waiting, Asked, Idle, IsAnswer, Phases, Conversing
<1>14. ASSUME TakeRequest PROVE OneInFlight'
  <2>1. StillEffect  BY <1>14, PipeUnchanged DEF TakeRequest, conversation
  <2>. QED  BY <1>14, <2>1, <1>t DEF TakeRequest, conversation, StillEffect, Typed,
               OneInFlight, Waiting, Asked, Idle, IsAnswer, Phases, Conversing
<1>15. ASSUME NEW kind \in AllKinds, Answer(kind) PROVE OneInFlight'
  <2>1. Answered(kind)  BY <1>15, AnswerFacts
  <2>2. AnswerEffect  BY <2>1, <1>t, AnsweredKeeps
  <2>. QED  BY <2>1, <2>2, <1>t DEF Answered, Written, AnswerEffect, Typed, OneInFlight,
               Waiting, Asked, Idle, IsAnswer, Phases, Conversing
<1>16. ASSUME EndLogging PROVE OneInFlight'
  <2>1. StillEffect  BY <1>16, PipeUnchanged DEF EndLogging, conversation
  <2>. QED  BY <1>16, <2>1, <1>t DEF EndLogging, conversation, StillEffect, Typed,
               OneInFlight, Waiting, Asked, Idle, IsAnswer, Phases, Conversing
<1>17. ASSUME Notify PROVE OneInFlight'
  <2>1. NoteEffect  BY <1>17, <1>t, NoteFacts, NotedKeeps
  <2>. QED  BY <2>1, <1>t DEF NoteEffect, Typed, OneInFlight, Waiting, Asked, Idle,
               IsAnswer, Phases, Conversing
<1>18. ASSUME WriteUnasked PROVE OneInFlight'
  <2>1. NoteEffect  BY <1>18, <1>t, NoteFacts, NotedKeeps
  <2>. QED  BY <2>1, <1>t DEF NoteEffect, Typed, OneInFlight, Waiting, Asked, Idle,
               IsAnswer, Phases, Conversing
<1>19. ASSUME BeginLogging PROVE OneInFlight'
  <2>1. StillEffect  BY <1>19, PipeUnchanged DEF BeginLogging, conversation, pipes
  <2>. QED  BY <1>19, <2>1, <1>t DEF BeginLogging, conversation, pipes, StillEffect, Typed,
               OneInFlight, Waiting, Asked, Idle, IsAnswer, Phases, Conversing
<1>20. ASSUME Exit PROVE OneInFlight'
  <2>1. StillEffect  BY <1>20, PipeUnchanged DEF Exit, Leave, conversation, pipes
  <2>. QED  BY <1>20, <2>1, <1>t DEF Exit, Leave, conversation, pipes, StillEffect, Typed,
               OneInFlight, Waiting, Asked, Idle, IsAnswer, Phases, Conversing
<1>21. ASSUME Die PROVE OneInFlight'
  <2>1. StillEffect  BY <1>21, PipeUnchanged DEF Die, Leave, conversation, pipes
  <2>. QED  BY <1>21, <2>1, <1>t DEF Die, Leave, conversation, pipes, StillEffect, Typed,
               OneInFlight, Waiting, Asked, Idle, IsAnswer, Phases, Conversing
<1>22. ASSUME Finished PROVE OneInFlight'
  <2>1. StillEffect  BY <1>22, PipeUnchanged DEF Finished, vars
  <2>. QED  BY <1>22, <2>1, <1>t DEF Finished, vars, StillEffect, Typed, OneInFlight,
               Waiting, Asked, Idle, IsAnswer, Phases, Conversing
<1>23. ASSUME UNCHANGED vars PROVE OneInFlight'
  <2>1. StillEffect  BY <1>23, PipeUnchanged DEF vars
  <2>. QED  BY <1>23, <2>1, <1>t DEF vars, StillEffect, Typed, OneInFlight, Waiting, Asked,
               Idle, IsAnswer, Phases, Conversing
<1>q. QED
    BY <1>1, <1>2, <1>3, <1>4, <1>5, <1>6, <1>7, <1>8, <1>9, <1>10, <1>11, <1>12, <1>13,
       <1>14, <1>15, <1>16, <1>17, <1>18, <1>19, <1>20, <1>21, <1>22, <1>23 DEF Next, Probe,
       Converse, Serve, Intrude

\* An answer that was passed over stays the next.
LEMMA ShiftedStep ==
  ASSUME TypeOK, Phases, OneInFlight, Shifted, [Next]_vars
  PROVE  Shifted'
<1>t. Typed /\ TypedOutcomes  BY TypedFacts
<1>1. ASSUME ReadConfiguration PROVE Shifted'
  <2>1. StillEffect  BY <1>1, PipeUnchanged DEF ReadConfiguration, conversation, pipes,
                        process
  <2>. QED  BY <1>1, <2>1, <1>t DEF ReadConfiguration, conversation, pipes, process,
               StillEffect, Typed, Shifted, FirstNext, Conversing, OneInFlight, Asked, Idle,
               Waiting, IsAnswer, Phases
<1>2. ASSUME Launch PROVE Shifted'
  <2>1. StillEffect  BY <1>2, PipeUnchanged DEF Launch, conversation, pipes
  <2>. QED  BY <1>2, <2>1, <1>t DEF Launch, conversation, pipes, StillEffect, Typed,
               Shifted, FirstNext, Conversing, OneInFlight, Asked, Idle, Waiting, IsAnswer,
               Phases
<1>3. ASSUME Send PROVE Shifted'
  <2>0. StillEffect  BY <1>3, PipeUnchanged DEF Send, conversation, process
  <2>1. CASE server = "gone"
    BY <1>3, <2>0, <2>1, <1>t DEF Send, Raise, conversation, process, StillEffect, Typed,
       Shifted, FirstNext, Conversing, OneInFlight, Asked, Idle, Waiting, IsAnswer, Phases
  <2>2. CASE server # "gone"
    <3>1. Queued  BY <1>3, <2>2, SendFacts DEF Send
    <3>. QED
      BY <1>3, <2>0, <2>2, <3>1, <1>t DEF Send, Queued, conversation, process, StillEffect,
         Typed, Shifted, FirstNext, Conversing, OneInFlight, Asked, Idle, Waiting, IsAnswer,
         Phases
  <2>. QED  BY <2>1, <2>2
<1>4. ASSUME CheckDeadline PROVE Shifted'
  <2>1. StillEffect  BY <1>4, PipeUnchanged DEF CheckDeadline, Raise, conversation, pipes,
                        process
  <2>. QED  BY <1>4, <2>1, <1>t DEF CheckDeadline, Raise, conversation, pipes, process,
               StillEffect, Typed, Shifted, FirstNext, Conversing, OneInFlight, Asked, Idle,
               Waiting, IsAnswer, Phases
<1>5. ASSUME ReadEnd PROVE Shifted'
  <2>1. StillEffect  BY <1>5, PipeUnchanged DEF ReadEnd, Raise, conversation, pipes, process
  <2>. QED  BY <1>5, <2>1, <1>t DEF ReadEnd, Raise, conversation, pipes, process,
               StillEffect, Typed, Shifted, FirstNext, Conversing, OneInFlight, Asked, Idle,
               Waiting, IsAnswer, Phases
<1>6. ASSUME SkipLine PROVE Shifted'
  <2>1. MovedUp /\ ~IsAnswer(Line)
    BY <1>6, ReadFacts, KindFacts DEF SkipLine, HasId, IsAnswer
  <2>2. ReadEffect  BY <2>1, <1>t, ReadKeeps
  <2>. QED
    BY <1>6, <2>1, <2>2, <1>t DEF SkipLine, conversation, process, ReadEffect, Typed,
       Shifted, FirstNext, Conversing, OneInFlight, Asked, Idle, Waiting, IsAnswer, Phases
<1>7. ASSUME Initialised PROVE Shifted'
  <2>1. Received(1)  BY <1>7, CallsFacts, ReceiveFacts DEF Initialised
  <2>2. ReadEffect  BY <2>1, <1>t, ReadKeeps DEF Received
  <2>3. AnswerWaits => FirstWaits  BY <2>1, <1>t, TheFirst DEF Received
  <2>. SUFFICES ASSUME step' = 2, Conversing', intruded' > 0 PROVE FirstNext'  BY DEF Shifted
  <2>4. intruded = 0 /\ failure = "none" /\ Waiting /\ Line.kind \in Unasked
    BY <1>7, <2>1, <1>t DEF Initialised, Received, Typed, Phases, Conversing, Waiting, Raise
  <2>5. Asked /\ ~IsAnswer(Line)  BY <2>4, KindFacts DEF OneInFlight, IsAnswer
  <2>6. step = 1 /\ UNCHANGED <<stdin, serving>>  BY <2>1 DEF Received
  <2>. QED  BY <2>2, <2>3, <2>5, <2>6 DEF Asked, FirstNext, ReadEffect
<1>8. ASSUME Listed PROVE Shifted'
  <2>1. Received(2)  BY <1>8, CallsFacts, ReceiveFacts DEF Listed
  <2>2. ReadEffect  BY <2>1, <1>t, ReadKeeps DEF Received
  <2>. QED  BY <1>8, <2>1, <2>2, KindFacts, <1>t DEF Listed, IsError, Raise, Proceed,
               Received, ReadEffect, Typed, Shifted, FirstNext, Conversing, OneInFlight,
               Asked, Idle, Waiting, IsAnswer, Phases
<1>9. ASSUME NEW n \in Requests, Judge(n) PROVE Shifted'
  <2>1. Judged(n) /\ Received(n)  BY <1>9, JudgeFacts DEF Judged
  <2>2. ReadEffect  BY <2>1, <1>t, ReadKeeps DEF Received
  <2>. QED  BY <2>1, <2>2, KindFacts, <1>t DEF Judged, Received, ReadEffect, Typed, Shifted,
               FirstNext, Conversing, OneInFlight, Asked, Idle, Waiting, IsAnswer, Phases
<1>10. ASSUME Terminate PROVE Shifted'
  <2>1. StillEffect  BY <1>10, PipeUnchanged DEF Terminate, conversation, pipes
  <2>. QED  BY <1>10, <2>1, <1>t DEF Terminate, conversation, pipes, StillEffect, Typed,
               Shifted, FirstNext, Conversing, OneInFlight, Asked, Idle, Waiting, IsAnswer,
               Phases
<1>11. ASSUME AwaitServer PROVE Shifted'
  <2>1. StillEffect  BY <1>11, PipeUnchanged DEF AwaitServer, conversation, pipes
  <2>. QED  BY <1>11, <2>1, <1>t DEF AwaitServer, conversation, pipes, StillEffect, Typed,
               Shifted, FirstNext, Conversing, OneInFlight, Asked, Idle, Waiting, IsAnswer,
               Phases
<1>12. ASSUME Report PROVE Shifted'
  <2>1. StillEffect  BY <1>12, PipeUnchanged DEF Report, conversation, pipes, process
  <2>. QED  BY <1>12, <2>1, <1>t DEF Report, conversation, pipes, process, StillEffect,
               Typed, Shifted, FirstNext, Conversing, OneInFlight, Asked, Idle, Waiting,
               IsAnswer, Phases
<1>13. ASSUME Clock PROVE Shifted'
  <2>1. StillEffect  BY <1>13, PipeUnchanged DEF Clock, conversation, pipes, process
  <2>. QED  BY <1>13, <2>1, <1>t DEF Clock, conversation, pipes, process, StillEffect,
               Typed, Shifted, FirstNext, Conversing, OneInFlight, Asked, Idle, Waiting,
               IsAnswer, Phases
<1>14. ASSUME TakeRequest PROVE Shifted'
  <2>1. StillEffect  BY <1>14, PipeUnchanged DEF TakeRequest, conversation
  <2>. QED  BY <1>14, <2>1, <1>t DEF TakeRequest, conversation, StillEffect, Typed, Shifted,
               FirstNext, Conversing, OneInFlight, Asked, Idle, Waiting, IsAnswer, Phases
<1>15. ASSUME NEW kind \in AllKinds, Answer(kind) PROVE Shifted'
  <2>1. Answered(kind)  BY <1>15, AnswerFacts
  <2>2. AnswerEffect  BY <2>1, <1>t, AnsweredKeeps
  <2>. QED  BY <2>1, <2>2, <1>t DEF Answered, Written, AnswerEffect, Typed, Shifted,
               FirstNext, Conversing, OneInFlight, Asked, Idle, Waiting, IsAnswer, Phases
<1>16. ASSUME EndLogging PROVE Shifted'
  <2>1. StillEffect  BY <1>16, PipeUnchanged DEF EndLogging, conversation
  <2>. QED  BY <1>16, <2>1, <1>t DEF EndLogging, conversation, StillEffect, Typed, Shifted,
               FirstNext, Conversing, OneInFlight, Asked, Idle, Waiting, IsAnswer, Phases
<1>17. ASSUME Notify PROVE Shifted'
  <2>1. NoteEffect  BY <1>17, <1>t, NoteFacts, NotedKeeps
  <2>. QED  BY <2>1, <1>t DEF NoteEffect, Typed, Shifted, FirstNext, Conversing,
               OneInFlight, Asked, Idle, Waiting, IsAnswer, Phases
<1>18. ASSUME WriteUnasked PROVE Shifted'
  <2>1. NoteEffect  BY <1>18, <1>t, NoteFacts, NotedKeeps
  <2>. QED  BY <2>1, <1>t DEF NoteEffect, Typed, Shifted, FirstNext, Conversing,
               OneInFlight, Asked, Idle, Waiting, IsAnswer, Phases
<1>19. ASSUME BeginLogging PROVE Shifted'
  <2>1. StillEffect  BY <1>19, PipeUnchanged DEF BeginLogging, conversation, pipes
  <2>. QED  BY <1>19, <2>1, <1>t DEF BeginLogging, conversation, pipes, StillEffect, Typed,
               Shifted, FirstNext, Conversing, OneInFlight, Asked, Idle, Waiting, IsAnswer,
               Phases
<1>20. ASSUME Exit PROVE Shifted'
  <2>1. StillEffect  BY <1>20, PipeUnchanged DEF Exit, Leave, conversation, pipes
  <2>. QED  BY <1>20, <2>1, <1>t DEF Exit, Leave, conversation, pipes, StillEffect, Typed,
               Shifted, FirstNext, Conversing, OneInFlight, Asked, Idle, Waiting, IsAnswer,
               Phases
<1>21. ASSUME Die PROVE Shifted'
  <2>1. StillEffect  BY <1>21, PipeUnchanged DEF Die, Leave, conversation, pipes
  <2>. QED  BY <1>21, <2>1, <1>t DEF Die, Leave, conversation, pipes, StillEffect, Typed,
               Shifted, FirstNext, Conversing, OneInFlight, Asked, Idle, Waiting, IsAnswer,
               Phases
<1>22. ASSUME Finished PROVE Shifted'
  <2>1. StillEffect  BY <1>22, PipeUnchanged DEF Finished, vars
  <2>. QED  BY <1>22, <2>1, <1>t DEF Finished, vars, StillEffect, Typed, Shifted, FirstNext,
               Conversing, OneInFlight, Asked, Idle, Waiting, IsAnswer, Phases
<1>23. ASSUME UNCHANGED vars PROVE Shifted'
  <2>1. StillEffect  BY <1>23, PipeUnchanged DEF vars
  <2>. QED  BY <1>23, <2>1, <1>t DEF vars, StillEffect, Typed, Shifted, FirstNext,
               Conversing, OneInFlight, Asked, Idle, Waiting, IsAnswer, Phases
<1>q. QED
    BY <1>1, <1>2, <1>3, <1>4, <1>5, <1>6, <1>7, <1>8, <1>9, <1>10, <1>11, <1>12, <1>13,
       <1>14, <1>15, <1>16, <1>17, <1>18, <1>19, <1>20, <1>21, <1>22, <1>23 DEF Next, Probe,
       Converse, Serve, Intrude

\* What is in the pipe stays what was answered.
LEMMA RecordedStep ==
  ASSUME TypeOK, OneInFlight, Recorded, [Next]_vars
  PROVE  Recorded'
<1>t. Typed /\ TypedOutcomes  BY TypedFacts
<1>1. ASSUME ReadConfiguration PROVE Recorded'
  <2>1. StillEffect  BY <1>1, PipeUnchanged DEF ReadConfiguration, conversation, pipes,
                        process
  <2>. QED  BY <1>1, <2>1, <1>t DEF ReadConfiguration, conversation, pipes, process,
               StillEffect, Typed, Recorded, OneInFlight, Asked, Idle, Waiting, IsAnswer
<1>2. ASSUME Launch PROVE Recorded'
  <2>1. StillEffect  BY <1>2, PipeUnchanged DEF Launch, conversation, pipes
  <2>. QED  BY <1>2, <2>1, <1>t DEF Launch, conversation, pipes, StillEffect, Typed,
               Recorded, OneInFlight, Asked, Idle, Waiting, IsAnswer
<1>3. ASSUME Send PROVE Recorded'
  <2>0. StillEffect  BY <1>3, PipeUnchanged DEF Send, conversation, process
  <2>1. CASE server = "gone"
    BY <1>3, <2>0, <2>1, <1>t DEF Send, Raise, conversation, process, StillEffect, Typed,
       Recorded, OneInFlight, Asked, Idle, Waiting, IsAnswer
  <2>2. CASE server # "gone"
    <3>1. Queued  BY <1>3, <2>2, SendFacts DEF Send
    <3>. QED
      BY <1>3, <2>0, <2>2, <3>1, <1>t DEF Send, Queued, conversation, process, StillEffect,
         Typed, Recorded, OneInFlight, Asked, Idle, Waiting, IsAnswer
  <2>. QED  BY <2>1, <2>2
<1>4. ASSUME CheckDeadline PROVE Recorded'
  <2>1. StillEffect  BY <1>4, PipeUnchanged DEF CheckDeadline, Raise, conversation, pipes,
                        process
  <2>. QED  BY <1>4, <2>1, <1>t DEF CheckDeadline, Raise, conversation, pipes, process,
               StillEffect, Typed, Recorded, OneInFlight, Asked, Idle, Waiting, IsAnswer
<1>5. ASSUME ReadEnd PROVE Recorded'
  <2>1. StillEffect  BY <1>5, PipeUnchanged DEF ReadEnd, Raise, conversation, pipes, process
  <2>. QED  BY <1>5, <2>1, <1>t DEF ReadEnd, Raise, conversation, pipes, process,
               StillEffect, Typed, Recorded, OneInFlight, Asked, Idle, Waiting, IsAnswer
<1>6. ASSUME SkipLine PROVE Recorded'
  <2>1. MovedUp /\ ~IsAnswer(Line)
    BY <1>6, ReadFacts, KindFacts DEF SkipLine, HasId, IsAnswer
  <2>2. ReadEffect  BY <2>1, <1>t, ReadKeeps
  <2>. QED
    BY <1>6, <2>1, <2>2, <1>t DEF SkipLine, conversation, process, ReadEffect, Typed,
       Recorded, OneInFlight, Asked, Idle, Waiting, IsAnswer
<1>7. ASSUME Initialised PROVE Recorded'
  <2>1. Received(1)  BY <1>7, CallsFacts, ReceiveFacts DEF Initialised
  <2>2. ReadEffect  BY <2>1, <1>t, ReadKeeps DEF Received
  <2>. QED  BY <1>7, <2>1, <2>2, CallsFacts, KindFacts, <1>t DEF Initialised, IsError,
               Raise, Received, ReadEffect, Typed, Recorded, OneInFlight, Asked, Idle,
               Waiting, IsAnswer
<1>8. ASSUME Listed PROVE Recorded'
  <2>1. Received(2)  BY <1>8, CallsFacts, ReceiveFacts DEF Listed
  <2>2. ReadEffect  BY <2>1, <1>t, ReadKeeps DEF Received
  <2>. QED  BY <1>8, <2>1, <2>2, CallsFacts, KindFacts, <1>t DEF Listed, IsError, Raise,
               Proceed, Received, ReadEffect, Typed, Recorded, OneInFlight, Asked, Idle,
               Waiting, IsAnswer
<1>9. ASSUME NEW n \in Requests, Judge(n) PROVE Recorded'
  <2>1. Judged(n) /\ Received(n)  BY <1>9, JudgeFacts DEF Judged
  <2>2. ReadEffect  BY <2>1, <1>t, ReadKeeps DEF Received
  <2>. QED  BY <2>1, <2>2, CallsFacts, KindFacts, <1>t DEF Judged, Received, ReadEffect,
               Typed, Recorded, OneInFlight, Asked, Idle, Waiting, IsAnswer
<1>10. ASSUME Terminate PROVE Recorded'
  <2>1. StillEffect  BY <1>10, PipeUnchanged DEF Terminate, conversation, pipes
  <2>. QED  BY <1>10, <2>1, <1>t DEF Terminate, conversation, pipes, StillEffect, Typed,
               Recorded, OneInFlight, Asked, Idle, Waiting, IsAnswer
<1>11. ASSUME AwaitServer PROVE Recorded'
  <2>1. StillEffect  BY <1>11, PipeUnchanged DEF AwaitServer, conversation, pipes
  <2>. QED  BY <1>11, <2>1, <1>t DEF AwaitServer, conversation, pipes, StillEffect, Typed,
               Recorded, OneInFlight, Asked, Idle, Waiting, IsAnswer
<1>12. ASSUME Report PROVE Recorded'
  <2>1. StillEffect  BY <1>12, PipeUnchanged DEF Report, conversation, pipes, process
  <2>. QED  BY <1>12, <2>1, <1>t DEF Report, conversation, pipes, process, StillEffect,
               Typed, Recorded, OneInFlight, Asked, Idle, Waiting, IsAnswer
<1>13. ASSUME Clock PROVE Recorded'
  <2>1. StillEffect  BY <1>13, PipeUnchanged DEF Clock, conversation, pipes, process
  <2>. QED  BY <1>13, <2>1, <1>t DEF Clock, conversation, pipes, process, StillEffect,
               Typed, Recorded, OneInFlight, Asked, Idle, Waiting, IsAnswer
<1>14. ASSUME TakeRequest PROVE Recorded'
  <2>1. StillEffect  BY <1>14, PipeUnchanged DEF TakeRequest, conversation
  <2>. QED  BY <1>14, <2>1, <1>t DEF TakeRequest, conversation, StillEffect, Typed,
               Recorded, OneInFlight, Asked, Idle, Waiting, IsAnswer
<1>15. ASSUME NEW kind \in AllKinds, Answer(kind) PROVE Recorded'
  <2>1. Answered(kind)  BY <1>15, AnswerFacts
  <2>2. AnswerEffect  BY <2>1, <1>t, AnsweredKeeps
  <2>. QED  BY <2>1, <2>2, CallsFacts, <1>t DEF Answered, Written, AnswerEffect, Typed,
               Recorded, OneInFlight, Asked, Idle, Waiting, IsAnswer
<1>16. ASSUME EndLogging PROVE Recorded'
  <2>1. StillEffect  BY <1>16, PipeUnchanged DEF EndLogging, conversation
  <2>. QED  BY <1>16, <2>1, <1>t DEF EndLogging, conversation, StillEffect, Typed, Recorded,
               OneInFlight, Asked, Idle, Waiting, IsAnswer
<1>17. ASSUME Notify PROVE Recorded'
  <2>1. NoteEffect  BY <1>17, <1>t, NoteFacts, NotedKeeps
  <2>. QED  BY <2>1, <1>t DEF NoteEffect, Typed, Recorded, OneInFlight, Asked, Idle,
               Waiting, IsAnswer
<1>18. ASSUME WriteUnasked PROVE Recorded'
  <2>1. NoteEffect  BY <1>18, <1>t, NoteFacts, NotedKeeps
  <2>. QED  BY <2>1, <1>t DEF NoteEffect, Typed, Recorded, OneInFlight, Asked, Idle,
               Waiting, IsAnswer
<1>19. ASSUME BeginLogging PROVE Recorded'
  <2>1. StillEffect  BY <1>19, PipeUnchanged DEF BeginLogging, conversation, pipes
  <2>. QED  BY <1>19, <2>1, <1>t DEF BeginLogging, conversation, pipes, StillEffect, Typed,
               Recorded, OneInFlight, Asked, Idle, Waiting, IsAnswer
<1>20. ASSUME Exit PROVE Recorded'
  <2>1. StillEffect  BY <1>20, PipeUnchanged DEF Exit, Leave, conversation, pipes
  <2>. QED  BY <1>20, <2>1, <1>t DEF Exit, Leave, conversation, pipes, StillEffect, Typed,
               Recorded, OneInFlight, Asked, Idle, Waiting, IsAnswer
<1>21. ASSUME Die PROVE Recorded'
  <2>1. StillEffect  BY <1>21, PipeUnchanged DEF Die, Leave, conversation, pipes
  <2>. QED  BY <1>21, <2>1, <1>t DEF Die, Leave, conversation, pipes, StillEffect, Typed,
               Recorded, OneInFlight, Asked, Idle, Waiting, IsAnswer
<1>22. ASSUME Finished PROVE Recorded'
  <2>1. StillEffect  BY <1>22, PipeUnchanged DEF Finished, vars
  <2>. QED  BY <1>22, <2>1, <1>t DEF Finished, vars, StillEffect, Typed, Recorded,
               OneInFlight, Asked, Idle, Waiting, IsAnswer
<1>23. ASSUME UNCHANGED vars PROVE Recorded'
  <2>1. StillEffect  BY <1>23, PipeUnchanged DEF vars
  <2>. QED  BY <1>23, <2>1, <1>t DEF vars, StillEffect, Typed, Recorded, OneInFlight, Asked,
               Idle, Waiting, IsAnswer
<1>q. QED
    BY <1>1, <1>2, <1>3, <1>4, <1>5, <1>6, <1>7, <1>8, <1>9, <1>10, <1>11, <1>12, <1>13,
       <1>14, <1>15, <1>16, <1>17, <1>18, <1>19, <1>20, <1>21, <1>22, <1>23 DEF Next, Probe,
       Converse, Serve, Intrude

\* Every judgement is earned when it is made, and stays so.
LEMMA EarnedStep ==
  ASSUME TypeOK, Phases, OneInFlight, Shifted, Recorded, Earned, [Next]_vars
  PROVE  Earned'
<1>t. Typed /\ TypedOutcomes  BY TypedFacts
<1>1. ASSUME ReadConfiguration PROVE Earned'
  <2>1. StillEffect  BY <1>1, PipeUnchanged DEF ReadConfiguration, conversation, pipes,
                        process
  <2>. QED  BY <1>1, <2>1, <1>t DEF ReadConfiguration, conversation, pipes, process,
               StillEffect, Typed, TypedOutcomes, Recorded, OneInFlight, Shifted, FirstNext,
               Conversing, Asked, Idle, Waiting, IsAnswer, Phases, Earned
<1>2. ASSUME Launch PROVE Earned'
  <2>1. StillEffect  BY <1>2, PipeUnchanged DEF Launch, conversation, pipes
  <2>. QED  BY <1>2, <2>1, <1>t DEF Launch, conversation, pipes, StillEffect, Typed,
               TypedOutcomes, Recorded, OneInFlight, Shifted, FirstNext, Conversing, Asked,
               Idle, Waiting, IsAnswer, Phases, Earned
<1>3. ASSUME Send PROVE Earned'
  <2>0. StillEffect  BY <1>3, PipeUnchanged DEF Send, conversation, process
  <2>1. CASE server = "gone"
    BY <1>3, <2>0, <2>1, <1>t DEF Send, Raise, conversation, process, StillEffect, Typed,
       TypedOutcomes, Recorded, OneInFlight, Shifted, FirstNext, Conversing, Asked, Idle,
       Waiting, IsAnswer, Phases, Earned
  <2>2. CASE server # "gone"
    <3>1. Queued  BY <1>3, <2>2, SendFacts DEF Send
    <3>. QED
      BY <1>3, <2>0, <2>2, <3>1, <1>t DEF Send, Queued, conversation, process, StillEffect,
         Typed, TypedOutcomes, Recorded, OneInFlight, Shifted, FirstNext, Conversing, Asked,
         Idle, Waiting, IsAnswer, Phases, Earned
  <2>. QED  BY <2>1, <2>2
<1>4. ASSUME CheckDeadline PROVE Earned'
  <2>1. StillEffect  BY <1>4, PipeUnchanged DEF CheckDeadline, Raise, conversation, pipes,
                        process
  <2>. QED  BY <1>4, <2>1, <1>t DEF CheckDeadline, Raise, conversation, pipes, process,
               StillEffect, Typed, TypedOutcomes, Recorded, OneInFlight, Shifted, FirstNext,
               Conversing, Asked, Idle, Waiting, IsAnswer, Phases, Earned
<1>5. ASSUME ReadEnd PROVE Earned'
  <2>1. StillEffect  BY <1>5, PipeUnchanged DEF ReadEnd, Raise, conversation, pipes, process
  <2>. QED  BY <1>5, <2>1, <1>t DEF ReadEnd, Raise, conversation, pipes, process,
               StillEffect, Typed, TypedOutcomes, Recorded, OneInFlight, Shifted, FirstNext,
               Conversing, Asked, Idle, Waiting, IsAnswer, Phases, Earned
<1>6. ASSUME SkipLine PROVE Earned'
  <2>1. MovedUp /\ ~IsAnswer(Line)
    BY <1>6, ReadFacts, KindFacts DEF SkipLine, HasId, IsAnswer
  <2>2. ReadEffect  BY <2>1, <1>t, ReadKeeps
  <2>. QED
    BY <1>6, <2>1, <2>2, <1>t DEF SkipLine, conversation, process, ReadEffect, Typed,
       TypedOutcomes, Recorded, OneInFlight, Shifted, FirstNext, Conversing, Asked, Idle,
       Waiting, IsAnswer, Phases, Earned
<1>7. ASSUME Initialised PROVE Earned'
  <2>1. Received(1)  BY <1>7, CallsFacts, ReceiveFacts DEF Initialised
  <2>2. ReadEffect  BY <2>1, <1>t, ReadKeeps DEF Received
  <2>. QED  BY <1>7, <2>1, <2>2, CallsFacts, KindFacts, <1>t DEF Initialised, IsError,
               Raise, Received, ReadEffect, Typed, TypedOutcomes, Recorded, OneInFlight,
               Shifted, FirstNext, Conversing, Asked, Idle, Waiting, IsAnswer, Phases, Earned
<1>8. ASSUME Listed PROVE Earned'
  <2>1. Received(2)  BY <1>8, CallsFacts, ReceiveFacts DEF Listed
  <2>2. ReadEffect  BY <2>1, <1>t, ReadKeeps DEF Received
  <2>. QED  BY <1>8, <2>1, <2>2, CallsFacts, KindFacts, <1>t DEF Listed, IsError, Raise,
               Proceed, Received, ReadEffect, Typed, TypedOutcomes, Recorded, OneInFlight,
               Shifted, FirstNext, Conversing, Asked, Idle, Waiting, IsAnswer, Phases, Earned
<1>9. ASSUME NEW n \in Requests, Judge(n) PROVE Earned'
  <2>1. Judged(n) /\ Received(n)  BY <1>9, JudgeFacts DEF Judged
  <2>2. ReadEffect  BY <2>1, <1>t, ReadKeeps DEF Received
  <2>. SUFFICES ASSUME failure' = "none" PROVE Earned'  BY DEF Earned
  <2>3. /\ failure = "none" /\ UNCHANGED <<tools, answered>> /\ step > 1
        /\ intruded \in Nat /\ (intruded' = 0 => intruded = 0)
        /\ Line.kind \notin Unasked => intruded' = intruded
    BY <2>1, <1>t DEF Judged, Received, Typed
  <2>4. /\ Len(outcomes') = Len(outcomes) + 1 /\ DOMAIN outcomes' = 1..(Len(outcomes) + 1)
        /\ Len(outcomes) \in Nat /\ DOMAIN outcomes = 1..Len(outcomes)
        /\ \A i \in 1..Len(outcomes) : outcomes'[i] = outcomes[i]
        /\ outcomes'[Len(outcomes) + 1].ok => Line.kind \notin Unasked
        /\ outcomes'[Len(outcomes) + 1].ok /\ Line.id = n
              => Line.kind \in {"met", "error_met"}
    BY <2>1, <2>3, <1>t DEF Judged, TypedOutcomes
  <2>5. Len(outcomes) + 1 + 2 = n
    BY <2>1, <1>t DEF Judged, Received, Typed, TypedOutcomes, Phases, Conversing
  <2>6. intruded' = 0 => Line.id = n /\ Line.kind = answered[n]
    BY <2>1, <2>2, <2>3 DEF Received, ReadEffect, OneInFlight, Asked, Waiting, Recorded,
       IsAnswer
  <2>7. ASSUME tools' = "enough", \A i \in DOMAIN outcomes' : outcomes'[i].ok
        PROVE  intruded' = 0
    <3>1. \A i \in DOMAIN outcomes : outcomes[i].ok  BY <2>4, <2>7
    <3>2. outcomes'[Len(outcomes) + 1].ok  BY <2>4, <2>7
    <3>. QED  BY <2>3, <2>4, <2>7, <3>1, <3>2 DEF Earned
  <2>8. ASSUME intruded' = 0, NEW i \in DOMAIN outcomes', outcomes'[i].ok
        PROVE  answered'[i + 2] \in {"met", "error_met"}
    <3>1. CASE i = Len(outcomes) + 1  BY <2>3, <2>4, <2>5, <2>6, <2>8, <3>1
    <3>2. CASE i \in 1..Len(outcomes)  BY <2>3, <2>4, <2>8, <3>2 DEF Earned
    <3>. QED  BY <2>4, <3>1, <3>2
  <2>9. intruded' = 0 => answered'[1] = "met" /\ (tools' = "enough" => answered'[2] = "met")
    BY <2>3 DEF Earned
  <2>. QED  BY <2>7, <2>8, <2>9 DEF Earned
<1>10. ASSUME Terminate PROVE Earned'
  <2>1. StillEffect  BY <1>10, PipeUnchanged DEF Terminate, conversation, pipes
  <2>. QED  BY <1>10, <2>1, <1>t DEF Terminate, conversation, pipes, StillEffect, Typed,
               TypedOutcomes, Recorded, OneInFlight, Shifted, FirstNext, Conversing, Asked,
               Idle, Waiting, IsAnswer, Phases, Earned
<1>11. ASSUME AwaitServer PROVE Earned'
  <2>1. StillEffect  BY <1>11, PipeUnchanged DEF AwaitServer, conversation, pipes
  <2>. QED  BY <1>11, <2>1, <1>t DEF AwaitServer, conversation, pipes, StillEffect, Typed,
               TypedOutcomes, Recorded, OneInFlight, Shifted, FirstNext, Conversing, Asked,
               Idle, Waiting, IsAnswer, Phases, Earned
<1>12. ASSUME Report PROVE Earned'
  <2>1. StillEffect  BY <1>12, PipeUnchanged DEF Report, conversation, pipes, process
  <2>. QED  BY <1>12, <2>1, <1>t DEF Report, conversation, pipes, process, StillEffect,
               Typed, TypedOutcomes, Recorded, OneInFlight, Shifted, FirstNext, Conversing,
               Asked, Idle, Waiting, IsAnswer, Phases, Earned
<1>13. ASSUME Clock PROVE Earned'
  <2>1. StillEffect  BY <1>13, PipeUnchanged DEF Clock, conversation, pipes, process
  <2>. QED  BY <1>13, <2>1, <1>t DEF Clock, conversation, pipes, process, StillEffect,
               Typed, TypedOutcomes, Recorded, OneInFlight, Shifted, FirstNext, Conversing,
               Asked, Idle, Waiting, IsAnswer, Phases, Earned
<1>14. ASSUME TakeRequest PROVE Earned'
  <2>1. StillEffect  BY <1>14, PipeUnchanged DEF TakeRequest, conversation
  <2>. QED  BY <1>14, <2>1, <1>t DEF TakeRequest, conversation, StillEffect, Typed,
               TypedOutcomes, Recorded, OneInFlight, Shifted, FirstNext, Conversing, Asked,
               Idle, Waiting, IsAnswer, Phases, Earned
<1>15. ASSUME NEW kind \in AllKinds, Answer(kind) PROVE Earned'
  <2>1. Answered(kind)  BY <1>15, AnswerFacts
  <2>. SUFFICES ASSUME failure' = "none" PROVE Earned'  BY DEF Earned
  <2>2. failure = "none" /\ UNCHANGED <<pc, step, tools, outcomes, intruded>>
    BY <2>1 DEF Answered, Written
  <2>3. ASSUME intruded = 0 PROVE Waiting /\ serving = step
    BY <2>1, <2>2, <2>3 DEF Answered, OneInFlight, Asked, Idle
  <2>4. ASSUME intruded = 0, NEW n \in Requests, n # step PROVE answered'[n] = answered[n]
    BY <2>1, <2>3, <2>4 DEF Answered
  <2>5. ASSUME intruded = 0 PROVE step > 1 => answered'[1] = "met"
    BY <2>2, <2>4, <2>5, CallsFacts DEF Earned
  <2>6. ASSUME intruded = 0 PROVE tools = "enough" => answered'[2] = "met"
    BY <2>2, <2>3, <2>4, <2>6, CallsFacts DEF Earned, Phases, Waiting, Conversing
  <2>7. ASSUME intruded = 0, NEW i \in DOMAIN outcomes, outcomes[i].ok
        PROVE  answered'[i + 2] \in {"met", "error_met"}
    <3>1. i \in 1..Len(outcomes) /\ Len(outcomes) = IF step <= 3 THEN 0 ELSE step - 3
      BY <2>3, <2>7, <1>t DEF TypedOutcomes, Phases, Waiting, Conversing
    <3>2. i + 2 \in Requests /\ i + 2 # step
      BY <3>1, <1>t, CallsFacts DEF Typed, TypedOutcomes
    <3>. QED  BY <2>2, <2>4, <2>7, <3>2 DEF Earned
  <2>. QED  BY <2>2, <2>5, <2>6, <2>7 DEF Earned
<1>16. ASSUME EndLogging PROVE Earned'
  <2>1. StillEffect  BY <1>16, PipeUnchanged DEF EndLogging, conversation
  <2>. QED  BY <1>16, <2>1, <1>t DEF EndLogging, conversation, StillEffect, Typed,
               TypedOutcomes, Recorded, OneInFlight, Shifted, FirstNext, Conversing, Asked,
               Idle, Waiting, IsAnswer, Phases, Earned
<1>17. ASSUME Notify PROVE Earned'
  <2>1. NoteEffect  BY <1>17, <1>t, NoteFacts, NotedKeeps
  <2>. QED  BY <2>1, <1>t DEF NoteEffect, Typed, TypedOutcomes, Recorded, OneInFlight,
               Shifted, FirstNext, Conversing, Asked, Idle, Waiting, IsAnswer, Phases, Earned
<1>18. ASSUME WriteUnasked PROVE Earned'
  <2>1. NoteEffect  BY <1>18, <1>t, NoteFacts, NotedKeeps
  <2>. QED  BY <2>1, <1>t DEF NoteEffect, Typed, TypedOutcomes, Recorded, OneInFlight,
               Shifted, FirstNext, Conversing, Asked, Idle, Waiting, IsAnswer, Phases, Earned
<1>19. ASSUME BeginLogging PROVE Earned'
  <2>1. StillEffect  BY <1>19, PipeUnchanged DEF BeginLogging, conversation, pipes
  <2>. QED  BY <1>19, <2>1, <1>t DEF BeginLogging, conversation, pipes, StillEffect, Typed,
               TypedOutcomes, Recorded, OneInFlight, Shifted, FirstNext, Conversing, Asked,
               Idle, Waiting, IsAnswer, Phases, Earned
<1>20. ASSUME Exit PROVE Earned'
  <2>1. StillEffect  BY <1>20, PipeUnchanged DEF Exit, Leave, conversation, pipes
  <2>. QED  BY <1>20, <2>1, <1>t DEF Exit, Leave, conversation, pipes, StillEffect, Typed,
               TypedOutcomes, Recorded, OneInFlight, Shifted, FirstNext, Conversing, Asked,
               Idle, Waiting, IsAnswer, Phases, Earned
<1>21. ASSUME Die PROVE Earned'
  <2>1. StillEffect  BY <1>21, PipeUnchanged DEF Die, Leave, conversation, pipes
  <2>. QED  BY <1>21, <2>1, <1>t DEF Die, Leave, conversation, pipes, StillEffect, Typed,
               TypedOutcomes, Recorded, OneInFlight, Shifted, FirstNext, Conversing, Asked,
               Idle, Waiting, IsAnswer, Phases, Earned
<1>22. ASSUME Finished PROVE Earned'
  <2>1. StillEffect  BY <1>22, PipeUnchanged DEF Finished, vars
  <2>. QED  BY <1>22, <2>1, <1>t DEF Finished, vars, StillEffect, Typed, TypedOutcomes,
               Recorded, OneInFlight, Shifted, FirstNext, Conversing, Asked, Idle, Waiting,
               IsAnswer, Phases, Earned
<1>23. ASSUME UNCHANGED vars PROVE Earned'
  <2>1. StillEffect  BY <1>23, PipeUnchanged DEF vars
  <2>. QED  BY <1>23, <2>1, <1>t DEF vars, StillEffect, Typed, TypedOutcomes, Recorded,
               OneInFlight, Shifted, FirstNext, Conversing, Asked, Idle, Waiting, IsAnswer,
               Phases, Earned
<1>q. QED
    BY <1>1, <1>2, <1>3, <1>4, <1>5, <1>6, <1>7, <1>8, <1>9, <1>10, <1>11, <1>12, <1>13,
       <1>14, <1>15, <1>16, <1>17, <1>18, <1>19, <1>20, <1>21, <1>22, <1>23 DEF Next, Probe,
       Converse, Serve, Intrude

\* The exit code keeps saying what happened.
LEMMA ReportedStep ==
  ASSUME TypeOK, Phases, Reported, [Next]_vars
  PROVE  Reported'
<1>t. Typed /\ TypedOutcomes  BY TypedFacts
<1>1. ASSUME ReadConfiguration PROVE Reported'
    BY <1>1, <1>t DEF ReadConfiguration, conversation, pipes, process, Typed, TypedOutcomes,
       Reported, Passed, Phases
<1>2. ASSUME Launch PROVE Reported'
    BY <1>2, <1>t DEF Launch, conversation, pipes, Typed, TypedOutcomes, Reported, Passed,
       Phases
<1>3. ASSUME Send PROVE Reported'
  <2>1. CASE server = "gone"
    BY <1>3, <2>1, <1>t DEF Send, Raise, conversation, process, Typed, TypedOutcomes,
       Reported, Passed, Phases
  <2>2. CASE server # "gone"
    <3>1. Queued  BY <1>3, <2>2, SendFacts DEF Send
    <3>. QED
      BY <1>3, <2>2, <3>1, <1>t DEF Send, Queued, conversation, process, Typed,
         TypedOutcomes, Reported, Passed, Phases
  <2>. QED  BY <2>1, <2>2
<1>4. ASSUME CheckDeadline PROVE Reported'
    BY <1>4, <1>t DEF CheckDeadline, Raise, conversation, pipes, process, Typed,
       TypedOutcomes, Reported, Passed, Phases
<1>5. ASSUME ReadEnd PROVE Reported'
    BY <1>5, <1>t DEF ReadEnd, Raise, conversation, pipes, process, Typed, TypedOutcomes,
       Reported, Passed, Phases
<1>6. ASSUME SkipLine PROVE Reported'
    BY <1>6, <1>t DEF SkipLine, HasId, Line, conversation, process, Typed, TypedOutcomes,
       Reported, Passed, Phases
<1>7. ASSUME Initialised PROVE Reported'
  <2>1. Received(1)  BY <1>7, CallsFacts, ReceiveFacts DEF Initialised
  <2>2. exit = 3 /\ exit' = 3  BY <2>1, <1>t DEF Received, Typed
  <2>. QED  BY <2>2 DEF Reported
<1>8. ASSUME Listed PROVE Reported'
  <2>1. Received(2)  BY <1>8, CallsFacts, ReceiveFacts DEF Listed
  <2>2. exit = 3 /\ exit' = 3  BY <2>1, <1>t DEF Received, Typed
  <2>. QED  BY <2>2 DEF Reported
<1>9. ASSUME NEW n \in Requests, Judge(n) PROVE Reported'
  <2>1. Judged(n) /\ Received(n)  BY <1>9, JudgeFacts DEF Judged
  <2>2. exit = 3 /\ exit' = 3  BY <2>1, <1>t DEF Received, Typed
  <2>. QED  BY <2>2 DEF Reported
<1>10. ASSUME Terminate PROVE Reported'
    BY <1>10, <1>t DEF Terminate, conversation, pipes, Typed, TypedOutcomes, Reported,
       Passed, Phases
<1>11. ASSUME AwaitServer PROVE Reported'
    BY <1>11, <1>t DEF AwaitServer, conversation, pipes, Typed, TypedOutcomes, Reported,
       Passed, Phases
<1>12. ASSUME Report PROVE Reported'
    BY <1>12, <1>t DEF Report, conversation, pipes, process, Typed, TypedOutcomes, Reported,
       Passed, Phases
<1>13. ASSUME Clock PROVE Reported'
    BY <1>13, <1>t DEF Clock, conversation, pipes, process, Typed, TypedOutcomes, Reported,
       Passed, Phases
<1>14. ASSUME TakeRequest PROVE Reported'
    BY <1>14, <1>t DEF TakeRequest, conversation, Typed, TypedOutcomes, Reported, Passed,
       Phases
<1>15. ASSUME NEW kind \in AllKinds, Answer(kind) PROVE Reported'
  <2>1. Answered(kind)  BY <1>15, AnswerFacts
  <2>. QED  BY <2>1, <1>t DEF Answered, Written, Typed, TypedOutcomes, Reported, Passed,
               Phases
<1>16. ASSUME EndLogging PROVE Reported'
    BY <1>16, <1>t DEF EndLogging, conversation, Typed, TypedOutcomes, Reported, Passed,
       Phases
<1>17. ASSUME Notify PROVE Reported'
  <2>1. NoteEffect  BY <1>17, <1>t, NoteFacts, NotedKeeps
  <2>. QED  BY <2>1, <1>t DEF NoteEffect, Typed, TypedOutcomes, Reported, Passed, Phases
<1>18. ASSUME WriteUnasked PROVE Reported'
  <2>1. NoteEffect  BY <1>18, <1>t, NoteFacts, NotedKeeps
  <2>. QED  BY <2>1, <1>t DEF NoteEffect, Typed, TypedOutcomes, Reported, Passed, Phases
<1>19. ASSUME BeginLogging PROVE Reported'
    BY <1>19, <1>t DEF BeginLogging, conversation, pipes, Typed, TypedOutcomes, Reported,
       Passed, Phases
<1>20. ASSUME Exit PROVE Reported'
    BY <1>20, <1>t DEF Exit, Leave, conversation, pipes, Typed, TypedOutcomes, Reported,
       Passed, Phases
<1>21. ASSUME Die PROVE Reported'
    BY <1>21, <1>t DEF Die, Leave, conversation, pipes, Typed, TypedOutcomes, Reported,
       Passed, Phases
<1>22. ASSUME Finished PROVE Reported'
    BY <1>22, <1>t DEF Finished, vars, Typed, TypedOutcomes, Reported, Passed, Phases
<1>23. ASSUME UNCHANGED vars PROVE Reported'
    BY <1>23, <1>t DEF vars, Typed, TypedOutcomes, Reported, Passed, Phases
<1>q. QED
    BY <1>1, <1>2, <1>3, <1>4, <1>5, <1>6, <1>7, <1>8, <1>9, <1>10, <1>11, <1>12, <1>13,
       <1>14, <1>15, <1>16, <1>17, <1>18, <1>19, <1>20, <1>21, <1>22, <1>23 DEF Next, Probe,
       Converse, Serve, Intrude

\* Each judgement is of the call's own answer.
LEMMA JudgedStep ==
  ASSUME TypeOK, Phases, NothingAhead, OneInFlight, JudgedOnOwnAnswer, [Next]_vars
  PROVE  JudgedOnOwnAnswer'
<1>t. Typed /\ TypedOutcomes  BY TypedFacts
<1>1. ASSUME ReadConfiguration PROVE JudgedOnOwnAnswer'
  <2>1. StillEffect  BY <1>1, PipeUnchanged DEF ReadConfiguration, conversation, pipes,
                        process
  <2>. QED  BY <1>1, <2>1, <1>t DEF ReadConfiguration, conversation, pipes, process,
               StillEffect, Typed, TypedOutcomes, Phases, NothingAhead, Conversing,
               OneInFlight, Asked, Idle, Waiting, IsAnswer, JudgedOnOwnAnswer
<1>2. ASSUME Launch PROVE JudgedOnOwnAnswer'
  <2>1. StillEffect  BY <1>2, PipeUnchanged DEF Launch, conversation, pipes
  <2>. QED  BY <1>2, <2>1, <1>t DEF Launch, conversation, pipes, StillEffect, Typed,
               TypedOutcomes, Phases, NothingAhead, Conversing, OneInFlight, Asked, Idle,
               Waiting, IsAnswer, JudgedOnOwnAnswer
<1>3. ASSUME Send PROVE JudgedOnOwnAnswer'
  <2>0. StillEffect  BY <1>3, PipeUnchanged DEF Send, conversation, process
  <2>1. CASE server = "gone"
    BY <1>3, <2>0, <2>1, <1>t DEF Send, Raise, conversation, process, StillEffect, Typed,
       TypedOutcomes, Phases, NothingAhead, Conversing, OneInFlight, Asked, Idle, Waiting,
       IsAnswer, JudgedOnOwnAnswer
  <2>2. CASE server # "gone"
    <3>1. Queued  BY <1>3, <2>2, SendFacts DEF Send
    <3>. QED
      BY <1>3, <2>0, <2>2, <3>1, <1>t DEF Send, Queued, conversation, process, StillEffect,
         Typed, TypedOutcomes, Phases, NothingAhead, Conversing, OneInFlight, Asked, Idle,
         Waiting, IsAnswer, JudgedOnOwnAnswer
  <2>. QED  BY <2>1, <2>2
<1>4. ASSUME CheckDeadline PROVE JudgedOnOwnAnswer'
  <2>1. StillEffect  BY <1>4, PipeUnchanged DEF CheckDeadline, Raise, conversation, pipes,
                        process
  <2>. QED  BY <1>4, <2>1, <1>t DEF CheckDeadline, Raise, conversation, pipes, process,
               StillEffect, Typed, TypedOutcomes, Phases, NothingAhead, Conversing,
               OneInFlight, Asked, Idle, Waiting, IsAnswer, JudgedOnOwnAnswer
<1>5. ASSUME ReadEnd PROVE JudgedOnOwnAnswer'
  <2>1. StillEffect  BY <1>5, PipeUnchanged DEF ReadEnd, Raise, conversation, pipes, process
  <2>. QED  BY <1>5, <2>1, <1>t DEF ReadEnd, Raise, conversation, pipes, process,
               StillEffect, Typed, TypedOutcomes, Phases, NothingAhead, Conversing,
               OneInFlight, Asked, Idle, Waiting, IsAnswer, JudgedOnOwnAnswer
<1>6. ASSUME SkipLine PROVE JudgedOnOwnAnswer'
  <2>1. MovedUp /\ ~IsAnswer(Line)
    BY <1>6, ReadFacts, KindFacts DEF SkipLine, HasId, IsAnswer
  <2>2. ReadEffect  BY <2>1, <1>t, ReadKeeps
  <2>. QED
    BY <1>6, <2>1, <2>2, <1>t DEF SkipLine, conversation, process, ReadEffect, Typed,
       TypedOutcomes, Phases, NothingAhead, Conversing, OneInFlight, Asked, Idle, Waiting,
       IsAnswer, JudgedOnOwnAnswer
<1>7. ASSUME Initialised PROVE JudgedOnOwnAnswer'
  <2>1. Received(1)  BY <1>7, CallsFacts, ReceiveFacts DEF Initialised
  <2>2. ReadEffect  BY <2>1, <1>t, ReadKeeps DEF Received
  <2>. QED  BY <1>7, <2>1, <2>2, KindFacts, <1>t DEF Initialised, IsError, Raise, Received,
               ReadEffect, Typed, TypedOutcomes, Phases, NothingAhead, Conversing,
               OneInFlight, Asked, Idle, Waiting, IsAnswer, JudgedOnOwnAnswer
<1>8. ASSUME Listed PROVE JudgedOnOwnAnswer'
  <2>1. Received(2)  BY <1>8, CallsFacts, ReceiveFacts DEF Listed
  <2>2. ReadEffect  BY <2>1, <1>t, ReadKeeps DEF Received
  <2>. QED  BY <1>8, <2>1, <2>2, KindFacts, <1>t DEF Listed, IsError, Raise, Proceed,
               Received, ReadEffect, Typed, TypedOutcomes, Phases, NothingAhead, Conversing,
               OneInFlight, Asked, Idle, Waiting, IsAnswer, JudgedOnOwnAnswer
<1>9. ASSUME NEW n \in Requests, Judge(n) PROVE JudgedOnOwnAnswer'
  <2>1. Judged(n) /\ Received(n)  BY <1>9, JudgeFacts DEF Judged
  <2>2. ReadEffect  BY <2>1, <1>t, ReadKeeps DEF Received
  <2>3. Line.id <= n /\ (intruded' = 0 => Line.id = n)
    BY <2>1, <2>2, <1>t DEF Received, ReadEffect, Typed, NothingAhead, OneInFlight, Asked,
       Waiting,
       Phases, Conversing, IsAnswer
  <2>4. CASE UNCHANGED outcomes
    BY <2>1, <2>4, <1>t DEF Received, Typed, JudgedOnOwnAnswer
  <2>5. CASE outcomes' # outcomes
    <3>1. /\ Len(outcomes') = Len(outcomes) + 1 /\ DOMAIN outcomes' = 1..(Len(outcomes) + 1)
          /\ \A i \in 1..Len(outcomes) : outcomes'[i] = outcomes[i]
          /\ outcomes'[Len(outcomes) + 1].id = Line.id
      BY <2>1, <2>5 DEF Judged
    <3>2. Len(outcomes) + 1 + 2 = n
      BY <2>1, <1>t DEF Judged, Received, Typed, TypedOutcomes, Phases, Conversing
    <3>3. intruded' = 0 => intruded = 0  BY <2>1, <1>t DEF Received, Typed
    <3>4. ASSUME NEW i \in DOMAIN outcomes'
          PROVE  outcomes'[i].id <= i + 2 /\ (intruded' = 0 => outcomes'[i].id = i + 2)
      <4>1. CASE i = Len(outcomes) + 1  BY <2>3, <3>1, <3>2, <4>1
      <4>2. CASE i \in 1..Len(outcomes)
        BY <3>1, <3>3, <4>2, <1>t DEF JudgedOnOwnAnswer, TypedOutcomes
      <4>. QED  BY <3>1, <4>1, <4>2, <1>t DEF TypedOutcomes
    <3>. QED  BY <3>4 DEF JudgedOnOwnAnswer
  <2>. QED  BY <2>4, <2>5
<1>10. ASSUME Terminate PROVE JudgedOnOwnAnswer'
  <2>1. StillEffect  BY <1>10, PipeUnchanged DEF Terminate, conversation, pipes
  <2>. QED  BY <1>10, <2>1, <1>t DEF Terminate, conversation, pipes, StillEffect, Typed,
               TypedOutcomes, Phases, NothingAhead, Conversing, OneInFlight, Asked, Idle,
               Waiting, IsAnswer, JudgedOnOwnAnswer
<1>11. ASSUME AwaitServer PROVE JudgedOnOwnAnswer'
  <2>1. StillEffect  BY <1>11, PipeUnchanged DEF AwaitServer, conversation, pipes
  <2>. QED  BY <1>11, <2>1, <1>t DEF AwaitServer, conversation, pipes, StillEffect, Typed,
               TypedOutcomes, Phases, NothingAhead, Conversing, OneInFlight, Asked, Idle,
               Waiting, IsAnswer, JudgedOnOwnAnswer
<1>12. ASSUME Report PROVE JudgedOnOwnAnswer'
  <2>1. StillEffect  BY <1>12, PipeUnchanged DEF Report, conversation, pipes, process
  <2>. QED  BY <1>12, <2>1, <1>t DEF Report, conversation, pipes, process, StillEffect,
               Typed, TypedOutcomes, Phases, NothingAhead, Conversing, OneInFlight, Asked,
               Idle, Waiting, IsAnswer, JudgedOnOwnAnswer
<1>13. ASSUME Clock PROVE JudgedOnOwnAnswer'
  <2>1. StillEffect  BY <1>13, PipeUnchanged DEF Clock, conversation, pipes, process
  <2>. QED  BY <1>13, <2>1, <1>t DEF Clock, conversation, pipes, process, StillEffect,
               Typed, TypedOutcomes, Phases, NothingAhead, Conversing, OneInFlight, Asked,
               Idle, Waiting, IsAnswer, JudgedOnOwnAnswer
<1>14. ASSUME TakeRequest PROVE JudgedOnOwnAnswer'
  <2>1. StillEffect  BY <1>14, PipeUnchanged DEF TakeRequest, conversation
  <2>. QED  BY <1>14, <2>1, <1>t DEF TakeRequest, conversation, StillEffect, Typed,
               TypedOutcomes, Phases, NothingAhead, Conversing, OneInFlight, Asked, Idle,
               Waiting, IsAnswer, JudgedOnOwnAnswer
<1>15. ASSUME NEW kind \in AllKinds, Answer(kind) PROVE JudgedOnOwnAnswer'
  <2>1. Answered(kind)  BY <1>15, AnswerFacts
  <2>2. AnswerEffect  BY <2>1, <1>t, AnsweredKeeps
  <2>. QED  BY <2>1, <2>2, <1>t DEF Answered, Written, AnswerEffect, Typed, TypedOutcomes,
               Phases, NothingAhead, Conversing, OneInFlight, Asked, Idle, Waiting,
               IsAnswer, JudgedOnOwnAnswer
<1>16. ASSUME EndLogging PROVE JudgedOnOwnAnswer'
  <2>1. StillEffect  BY <1>16, PipeUnchanged DEF EndLogging, conversation
  <2>. QED  BY <1>16, <2>1, <1>t DEF EndLogging, conversation, StillEffect, Typed,
               TypedOutcomes, Phases, NothingAhead, Conversing, OneInFlight, Asked, Idle,
               Waiting, IsAnswer, JudgedOnOwnAnswer
<1>17. ASSUME Notify PROVE JudgedOnOwnAnswer'
  <2>1. NoteEffect  BY <1>17, <1>t, NoteFacts, NotedKeeps
  <2>. QED  BY <2>1, <1>t DEF NoteEffect, Typed, TypedOutcomes, Phases, NothingAhead,
               Conversing, OneInFlight, Asked, Idle, Waiting, IsAnswer, JudgedOnOwnAnswer
<1>18. ASSUME WriteUnasked PROVE JudgedOnOwnAnswer'
  <2>1. NoteEffect  BY <1>18, <1>t, NoteFacts, NotedKeeps
  <2>. QED  BY <2>1, <1>t DEF NoteEffect, Typed, TypedOutcomes, Phases, NothingAhead,
               Conversing, OneInFlight, Asked, Idle, Waiting, IsAnswer, JudgedOnOwnAnswer
<1>19. ASSUME BeginLogging PROVE JudgedOnOwnAnswer'
  <2>1. StillEffect  BY <1>19, PipeUnchanged DEF BeginLogging, conversation, pipes
  <2>. QED  BY <1>19, <2>1, <1>t DEF BeginLogging, conversation, pipes, StillEffect, Typed,
               TypedOutcomes, Phases, NothingAhead, Conversing, OneInFlight, Asked, Idle,
               Waiting, IsAnswer, JudgedOnOwnAnswer
<1>20. ASSUME Exit PROVE JudgedOnOwnAnswer'
  <2>1. StillEffect  BY <1>20, PipeUnchanged DEF Exit, Leave, conversation, pipes
  <2>. QED  BY <1>20, <2>1, <1>t DEF Exit, Leave, conversation, pipes, StillEffect, Typed,
               TypedOutcomes, Phases, NothingAhead, Conversing, OneInFlight, Asked, Idle,
               Waiting, IsAnswer, JudgedOnOwnAnswer
<1>21. ASSUME Die PROVE JudgedOnOwnAnswer'
  <2>1. StillEffect  BY <1>21, PipeUnchanged DEF Die, Leave, conversation, pipes
  <2>. QED  BY <1>21, <2>1, <1>t DEF Die, Leave, conversation, pipes, StillEffect, Typed,
               TypedOutcomes, Phases, NothingAhead, Conversing, OneInFlight, Asked, Idle,
               Waiting, IsAnswer, JudgedOnOwnAnswer
<1>22. ASSUME Finished PROVE JudgedOnOwnAnswer'
  <2>1. StillEffect  BY <1>22, PipeUnchanged DEF Finished, vars
  <2>. QED  BY <1>22, <2>1, <1>t DEF Finished, vars, StillEffect, Typed, TypedOutcomes,
               Phases, NothingAhead, Conversing, OneInFlight, Asked, Idle, Waiting,
               IsAnswer, JudgedOnOwnAnswer
<1>23. ASSUME UNCHANGED vars PROVE JudgedOnOwnAnswer'
  <2>1. StillEffect  BY <1>23, PipeUnchanged DEF vars
  <2>. QED  BY <1>23, <2>1, <1>t DEF vars, StillEffect, Typed, TypedOutcomes, Phases,
               NothingAhead, Conversing, OneInFlight, Asked, Idle, Waiting, IsAnswer,
               JudgedOnOwnAnswer
<1>q. QED
    BY <1>1, <1>2, <1>3, <1>4, <1>5, <1>6, <1>7, <1>8, <1>9, <1>10, <1>11, <1>12, <1>13,
       <1>14, <1>15, <1>16, <1>17, <1>18, <1>19, <1>20, <1>21, <1>22, <1>23 DEF Next, Probe,
       Converse, Serve, Intrude

LEMMA InvInit == Init => Inv
<1>. SUFFICES ASSUME Init PROVE Inv  OBVIOUS
<1>1. /\ Len(stdin) = 0 /\ Len(stdout) = 0 /\ Len(outcomes) = 0 /\ DOMAIN outcomes = {}
  BY DEF Init
<1>2. TypeOK
  <2>1. /\ stdin \in Seq(Requests) /\ stdout \in Seq(Messages)
        /\ outcomes \in Seq([id : Requests \cup {0}, ok : BOOLEAN])
    BY DEF Init
  <2>2. answered \in [Requests -> AllKinds \cup {"none"}]  BY DEF Init
  <2>3. step \in Requests /\ serving \in Requests \cup {0} /\ exit \in 0..3
        /\ (exit = 3 <=> pc # "done")
    BY CallsFacts DEF Init
  <2>. QED  BY <2>1, <2>2, <2>3 DEF Init, TypeOK
<1>3. Phases  BY <1>1, CallsFacts DEF Init, Phases, Conversing
<1>4. NothingAhead  BY <1>1 DEF Init, NothingAhead, StdinBounded, StdoutBounded
<1>5. OneInFlight  BY <1>1 DEF Init, OneInFlight, Waiting, Idle, NoAnswer
<1>6. Shifted  BY DEF Init, Shifted
<1>7. Recorded  BY <1>1, CallsFacts DEF Init, Recorded, AsAnswered
<1>8. Earned  BY <1>1 DEF Init, Earned
<1>9. Reported /\ JudgedOnOwnAnswer  BY <1>1 DEF Init, Reported, JudgedOnOwnAnswer
<1>. QED  BY <1>2, <1>3, <1>4, <1>5, <1>6, <1>7, <1>8, <1>9 DEF Inv

LEMMA InvStep == Inv /\ [Next]_vars => Inv'
  BY TypeStep, PhasesStep, AheadStep, OneInFlightStep, ShiftedStep, RecordedStep, EarnedStep,
     ReportedStep, JudgedStep DEF Inv

LEMMA InvHolds == Spec => []Inv
  BY InvInit, InvStep, PTL DEF Spec

\* The probe's state keeps its type, for any calls and any server.
THEOREM ProbeTypeCorrect == Spec => []TypeOK
<1>1. Inv => TypeOK  BY DEF Inv
<1>. QED  BY <1>1, InvHolds, PTL

\* Any number of calls, any noise: each is judged on its own answer while the server
\* asks nothing of the client, and never on an answer to a later one.
THEOREM CallsJudgedOnOwnAnswers == Spec => []JudgedOnOwnAnswer
<1>1. Inv => JudgedOnOwnAnswer  BY DEF Inv
<1>. QED  BY <1>1, InvHolds, PTL

\* Exit code 0 means that every request was answered as expected, whatever else the
\* server wrote, requests of its own included.
THEOREM SuccessEarned == Spec => []SuccessIsEarned
<1>1. ASSUME Inv PROVE SuccessIsEarned
  <2>. SUFFICES ASSUME exit = 0 PROVE SuccessIsEarned  BY DEF SuccessIsEarned
  <2>1. Passed /\ Len(outcomes) = Len(Calls) /\ step = Len(Calls) + 2
    BY <1>1 DEF Inv, Reported
  <2>2. intruded = 0 /\ answered[1] = "met" /\ answered[2] = "met"
    BY <1>1, <2>1, CallsFacts DEF Inv, Earned, Passed
  <2>3. ASSUME NEW n \in Requests, n > 2 PROVE answered[n] \in {"met", "error_met"}
    <3>1. n - 2 \in DOMAIN outcomes /\ (n - 2) + 2 = n
      BY <1>1, <2>1, <2>3, CallsFacts DEF Inv, TypeOK, Requests
    <3>2. outcomes[n - 2].ok  BY <2>1, <3>1 DEF Passed
    <3>. QED  BY <1>1, <2>1, <2>2, <3>1, <3>2 DEF Inv, Earned, Passed
  <2>. QED  BY <2>2, <2>3, CallsFacts DEF SuccessIsEarned, Requests
<1>. QED  BY <1>1, InvHolds, PTL

\* The finally block: the probe never exits before its server ended or was killed.
THEOREM ServerNeverLeftRunning == Spec => []NoServerLeftRunning
<1>1. Inv => NoServerLeftRunning  BY DEF Inv, Phases, NoServerLeftRunning
<1>. QED  BY <1>1, InvHolds, PTL
=============================================================================
