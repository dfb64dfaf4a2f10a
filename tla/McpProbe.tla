------------------------------- MODULE McpProbe -------------------------------
(***************************************************************************)
(* tools/mcp_probe.py: a client that launches a tool server, speaks to it  *)
(* over its standard streams, one request at a time, and ends it again.    *)
(* Request n is initialize (1), tools/list (2) or the tool call n - 2.     *)
(*                                                                         *)
(* The server is whatever the command launches: this repository's own      *)
(* (__main__.py, mcp_server.py) or another.  It answers each request at    *)
(* most once, and may log to standard error, whose pipe nobody drains,     *)
(* write what is no protocol message to standard output, notify, send      *)
(* requests of its own, complain that it could not read one, refuse, exit, *)
(* or ignore SIGTERM.  At least one tool is asked for (--min-tools).       *)
(* A definition marked Variant is a fault the checks are tried against; no *)
(* specification uses it.                                                  *)
(***************************************************************************)
EXTENDS Naturals, Sequences

CONSTANTS
    Calls,           \* the tool calls to make: whether each expects an error
    Faults,          \* what may go wrong: see FaultsAssumption
    StdoutCapacity,  \* lines the pipe behind standard output holds
    StderrCapacity   \* lines the pipe behind standard error holds

ASSUME CallsAssumption == Calls \in Seq(BOOLEAN)
ASSUME FaultsAssumption ==
    Faults \subseteq {"config",    \* no usable launch command in the configuration
                      "launch",    \* the command cannot be run
                      "refusal",   \* answers that are errors, or not as expected
                      "null",      \* answers whose result is null
                      "noise",     \* lines that are no responses
                      "unasked",   \* messages with an id that answer nothing: see Unasked
                      "chatter",   \* logging more than the pipe behind standard error holds
                      "exit",      \* the server ends of its own accord
                      "stubborn"}  \* SIGTERM is ignored
ASSUME CapacityAssumption == StdoutCapacity \in Nat \ {0} /\ StderrCapacity \in Nat

Requests == 1..(Len(Calls) + 2)

VARIABLES
    pc,        \* where the probe is
    late,      \* whether the deadline has passed
    step,      \* the request under way
    failure,   \* the exception that ended the conversation, if any
    tools,     \* whether enough tools were advertised
    outcomes,  \* one entry per call made: the message judged, and the judgement
    exit,      \* the exit code; 3 while there is none
    server,    \* the server process: none, up, logging, gone
    signal,    \* what it was sent: none, term, kill
    serving,   \* the request it is working on; 0 for none
    stdin,     \* requests written and not read yet
    stdout,    \* lines written and not read yet
    stderr,    \* lines in the pipe behind standard error
    answered,  \* history: how the server answered each request
    intruded   \* history: messages that answer nothing and were taken for answers

conversation == <<step, tools, outcomes, intruded>>
pipes == <<stdin, stdout, stderr>>
process == <<server, signal, serving, answered>>
vars == <<pc, late, step, failure, tools, outcomes, exit, server, signal, serving,
          stdin, stdout, stderr, answered, intruded>>

Init ==
    /\ pc = "configuring"
    /\ late = FALSE
    /\ step = 1
    /\ failure = "none"
    /\ tools = "few"
    /\ outcomes = <<>>
    /\ exit = 3
    /\ server = "none"
    /\ signal = "none"
    /\ serving = 0
    /\ stdin = <<>>
    /\ stdout = <<>>
    /\ stderr = 0
    /\ answered = [n \in Requests |-> "none"]
    /\ intruded = 0

(***************************************************************************)
(* The probe.                                                              *)
(***************************************************************************)

\* Any exception leaves through the finally block, which ends the server.
Raise(exception) ==
    /\ failure' = exception
    /\ pc' = "ending"

\* main: a configuration that names no server is exit code 2.
ReadConfiguration ==
    /\ pc = "configuring"
    /\ \/ pc' = "launching" /\ UNCHANGED exit
       \/ "config" \in Faults /\ pc' = "done" /\ exit' \in {1, 2}
    /\ UNCHANGED <<late, failure, conversation, pipes, process>>

\* Popen: the server starts, or there is none.
Launch ==
    /\ pc = "launching"
    /\ \/ /\ server' = "up"
          /\ pc' = "sending"
          /\ UNCHANGED <<failure, exit>>
       \/ /\ "launch" \in Faults
          /\ failure' = "OSError"
          /\ pc' = "done"
          /\ exit' = 1
          /\ UNCHANGED server
    /\ UNCHANGED <<late, conversation, pipes, signal, serving, answered>>

\* _send.  The second request is preceded by a notification nobody answers.
Send ==
    /\ pc = "sending"
    /\ \/ /\ server = "gone"
          /\ Raise("OSError")
          /\ UNCHANGED stdin
       \/ /\ server # "gone"
          /\ stdin' = Append(stdin, step)
          /\ pc' = "checking"
          /\ UNCHANGED failure
    /\ UNCHANGED <<late, exit, conversation, stdout, stderr, process>>

\* Variant: the deadline is looked at once, not before every line.
CheckDeadline_Once ==
    /\ pc = "checking"
    /\ pc' = "reading"
    /\ UNCHANGED <<late, failure, exit, conversation, pipes, process>>

\* _receive: the deadline is checked before a line is waited for.
CheckDeadline ==
    /\ pc = "checking"
    /\ \/ late /\ Raise("ProbeError")
       \/ ~late /\ pc' = "reading" /\ UNCHANGED failure
    /\ UNCHANGED <<late, exit, conversation, pipes, process>>

\* readline returns nothing only at the end of the stream.
ReadEnd ==
    /\ pc = "reading"
    /\ stdout = <<>> /\ server = "gone"
    /\ Raise("ProbeError")
    /\ UNCHANGED <<late, exit, conversation, pipes, process>>

Line == Head(stdout)

\* Messages with an "id" that answer nothing: a request of the server's own, and a
\* complaint, the error with a null id of a server that could not read a request.
Unasked == {"request", "complaint"}

\* Variant: whatever is JSON is taken for the response.
HasId_Json == Line.kind # "text"

\* Whether a line is a JSON object with an "id": anything else is skipped.
HasId == Line.kind \notin {"text", "notification"}

SkipLine ==
    /\ pc = "reading"
    /\ stdout # <<>> /\ ~HasId
    /\ stdout' = Tail(stdout)
    /\ pc' = "checking"
    /\ UNCHANGED <<late, failure, exit, conversation, stdin, stderr, process>>

\* A message is returned to the request under way, whatever its identifier.
Receive(n) ==
    /\ pc = "reading" /\ step = n
    /\ stdout # <<>> /\ HasId
    /\ stdout' = Tail(stdout)
    /\ intruded' = IF Line.kind \in Unasked THEN intruded + 1 ELSE intruded
    /\ UNCHANGED <<late, exit, stdin, stderr, process>>

IsError == Line.kind \in {"error", "error_met", "complaint"}

Initialised ==
    /\ Receive(1)
    /\ \/ IsError /\ Raise("ProbeError") /\ UNCHANGED step
       \/ ~IsError /\ pc' = "sending" /\ step' = 2 /\ UNCHANGED failure
    /\ UNCHANGED <<tools, outcomes>>

\* What follows request n: the next one, or the end of the conversation.
Proceed(n) ==
    /\ UNCHANGED failure
    /\ \/ n + 1 \in Requests /\ step' = n + 1 /\ pc' = "sending"
       \/ n + 1 \notin Requests /\ UNCHANGED step /\ pc' = "ending"

Listed ==
    /\ Receive(2)
    /\ \/ IsError /\ Raise("ProbeError") /\ UNCHANGED <<step, tools>>
       \/ Line.kind = "null" /\ Raise("AttributeError") /\ UNCHANGED <<step, tools>>
       \/ /\ ~IsError /\ Line.kind # "null"
          /\ tools' = IF Line.kind = "met" /\ Line.id = 2 THEN "enough" ELSE "few"
          /\ Proceed(2)
    /\ UNCHANGED outcomes

\* _judge.  An answer to another request may look like this one's, but what the
\* server asks or complains of holds none of the text a call expects.
Judgements(n) ==
    CASE Line.kind \in Unasked -> {FALSE}
      [] Line.kind \notin Unasked /\ Line.id # n -> BOOLEAN
      [] OTHER -> {Line.kind \in {"met", "error_met"}}

Judge(n) ==
    /\ n > 2
    /\ Receive(n)
    /\ \/ Line.kind = "null" /\ Raise("AttributeError") /\ UNCHANGED <<step, outcomes>>
       \/ /\ Line.kind # "null"
          /\ \E ok \in Judgements(n) : outcomes' = Append(outcomes, [id |-> Line.id, ok |-> ok])
          /\ Proceed(n)
    /\ UNCHANGED tools

\* Variant: an exception leaves the server running.
Terminate_OnSuccess ==
    /\ pc = "ending"
    /\ IF failure = "none" THEN signal' = "term" ELSE UNCHANGED signal
    /\ pc' = IF failure = "none" THEN "waiting" ELSE "reporting"
    /\ UNCHANGED <<late, failure, exit, conversation, pipes, server, serving, answered>>

Terminate ==
    /\ pc = "ending"
    /\ signal' = "term"
    /\ pc' = "waiting"
    /\ UNCHANGED <<late, failure, exit, conversation, pipes, server, serving, answered>>

\* wait(timeout=5), and the kill after it that is not waited for.
AwaitServer ==
    /\ pc = "waiting"
    /\ \/ server = "gone" /\ UNCHANGED signal
       \/ server # "gone" /\ signal' = "kill"
    /\ pc' = "reporting"
    /\ UNCHANGED <<late, failure, exit, conversation, pipes, server, serving, answered>>

\* Variant: the number of tools is not looked at.
Passed_AnyTools ==
    failure = "none" /\ \A i \in DOMAIN outcomes : outcomes[i].ok

Passed ==
    /\ failure = "none"
    /\ tools = "enough"
    /\ \A i \in DOMAIN outcomes : outcomes[i].ok

\* Variant: the exit code of a failed conversation is forgotten.
Report_NoCode ==
    /\ pc = "reporting"
    /\ exit' = IF Passed THEN 0 ELSE 3
    /\ pc' = "done"
    /\ UNCHANGED <<late, failure, conversation, pipes, process>>

Report ==
    /\ pc = "reporting"
    /\ exit' = IF Passed THEN 0 ELSE 1
    /\ pc' = "done"
    /\ UNCHANGED <<late, failure, conversation, pipes, process>>

\* Time passes, whatever the probe waits for; the deadline counts from Popen.
Clock ==
    /\ ~late /\ pc \notin {"configuring", "done"}
    /\ late' = TRUE
    /\ UNCHANGED <<pc, failure, exit, conversation, pipes, process>>

(***************************************************************************)
(* The server.  One thread: while it waits for room behind standard error  *)
(* it does nothing else.                                                   *)
(***************************************************************************)
Write(line) ==
    /\ server = "up"
    /\ Len(stdout) < StdoutCapacity
    /\ stdout' = Append(stdout, line)
    /\ UNCHANGED <<pc, late, failure, exit, conversation, stdin, stderr, server, signal>>

TakeRequest ==
    /\ server = "up" /\ serving = 0 /\ stdin # <<>>
    /\ serving' = Head(stdin)
    /\ stdin' = Tail(stdin)
    /\ UNCHANGED <<pc, late, failure, exit, conversation, stdout, stderr, server, signal,
                   answered>>

\* How request n may be answered: a result as expected or not, a null result, a
\* protocol error, or one whose text holds all that a call expecting an error looks for.
Kinds(n) ==
    {"met"}
        \cup (IF "refusal" \in Faults THEN {"error"} ELSE {})
        \cup (IF "refusal" \in Faults /\ n > 1 THEN {"unmet"} ELSE {})
        \cup (IF "refusal" \in Faults /\ n > 2 /\ Calls[n - 2] THEN {"error_met"} ELSE {})
        \cup (IF "null" \in Faults /\ n > 1 THEN {"null"} ELSE {})

Answer(kind) ==
    /\ serving # 0
    /\ kind \in Kinds(serving)
    /\ Write([kind |-> kind, id |-> serving])
    /\ answered' = [answered EXCEPT ![serving] = kind]
    /\ serving' = 0

Notify ==
    /\ "noise" \in Faults
    /\ \E kind \in {"text", "notification"} : Write([kind |-> kind, id |-> 0])
    /\ UNCHANGED <<serving, answered>>

WriteUnasked ==
    /\ "unasked" \in Faults
    /\ \E kind \in Unasked : Write([kind |-> kind, id |-> 0])
    /\ UNCHANGED <<serving, answered>>

\* A log line is written before anything else goes on; log.py writes them so.
BeginLogging ==
    /\ stderr < StderrCapacity \/ "chatter" \in Faults
    /\ server = "up"
    /\ server' = "logging"
    /\ UNCHANGED <<pc, late, failure, exit, conversation, pipes, signal, serving, answered>>

EndLogging ==
    /\ server = "logging"
    /\ stderr < StderrCapacity
    /\ stderr' = stderr + 1
    /\ server' = "up"
    /\ UNCHANGED <<pc, late, failure, exit, conversation, stdin, stdout, signal, serving,
                   answered>>

Leave ==
    /\ server' = "gone"
    /\ UNCHANGED <<pc, late, failure, exit, conversation, pipes, signal, serving, answered>>

Exit == "exit" \in Faults /\ server = "up" /\ Leave

\* Either signal ends it, but for SIGTERM where that is ignored.
Die ==
    /\ server \in {"up", "logging"}
    /\ signal = "kill" \/ (signal = "term" /\ "stubborn" \notin Faults)
    /\ Leave

AllKinds == {"met", "unmet", "error", "error_met", "null"}

Converse ==
    \/ Send \/ CheckDeadline \/ ReadEnd \/ SkipLine
    \/ Initialised \/ Listed \/ (\E n \in Requests : Judge(n))

Probe ==
    \/ ReadConfiguration \/ Launch
    \/ Converse
    \/ Terminate \/ AwaitServer \/ Report

Serve == TakeRequest \/ (\E kind \in AllKinds : Answer(kind)) \/ EndLogging

Intrude == Notify \/ WriteUnasked \/ BeginLogging \/ Exit

Finished == pc = "done" /\ server \in {"none", "gone"} /\ UNCHANGED vars

Next == Probe \/ Clock \/ Serve \/ Intrude \/ Die \/ Finished

Spec == Init /\ [][Next]_vars

\* The operating system runs the probe and ends what was killed; time passes; and
\* the server gets on with what it is asked.  Nothing makes it do anything else.
FairSpec == Spec /\ WF_vars(Probe) /\ WF_vars(Clock) /\ WF_vars(Die) /\ WF_vars(Serve)
-----------------------------------------------------------------------------
(* Properties *)

Messages == [kind : AllKinds \cup Unasked \cup {"text", "notification"},
             id : Requests \cup {0}]

\* Every variable keeps its type; in particular the probe ends with one of its
\* three exit codes.
TypeOK ==
    /\ pc \in {"configuring", "launching", "sending", "checking", "reading", "ending",
               "waiting", "reporting", "done"}
    /\ late \in BOOLEAN
    /\ step \in Requests
    /\ failure \in {"none", "ProbeError", "OSError", "AttributeError"}
    /\ tools \in {"few", "enough"}
    /\ outcomes \in Seq([id : Requests \cup {0}, ok : BOOLEAN])
    /\ exit \in 0..3
    /\ server \in {"none", "up", "logging", "gone"}
    /\ signal \in {"none", "term", "kill"}
    /\ serving \in Requests \cup {0}
    /\ stdin \in Seq(Requests)
    /\ stdout \in Seq(Messages)
    /\ stderr \in Nat
    /\ answered \in [Requests -> AllKinds \cup {"none"}]
    /\ intruded \in Nat
    /\ exit = 3 <=> pc # "done"

\* The probe does not compare identifiers; still, each call is judged on its own
\* answer as long as no message that answers nothing, a request of the server or a
\* complaint, is taken for an answer, however many lines without an "id" it writes
\* and whatever is still unread.  After such a message every later judgement may be
\* an answer late, but none is ever of an answer to come.
JudgedOnOwnAnswer ==
    \A i \in DOMAIN outcomes :
        /\ outcomes[i].id <= i + 2
        /\ intruded = 0 => outcomes[i].id = i + 2

\* Exit code 0 is earned: the server answered every request, the list with tools
\* enough and each call as expected (or with a protocol error that says what was
\* expected), even if it interrupts with messages that are taken for answers.
SuccessIsEarned ==
    exit = 0 => /\ answered[1] = "met" /\ answered[2] = "met"
                /\ \A n \in Requests : answered[n] \in {"met", "error_met"}

\* However the conversation ended, no server is left running: the probe exits
\* after the server has ended, or has been killed.
NoServerLeftRunning == pc = "done" => server \in {"none", "gone"} \/ signal = "kill"

\* A server that keeps working on what it is asked, and whose log fits in its pipe,
\* is probed to an end however much it writes that is no response, and though it
\* exits or ignores SIGTERM.
ProbeEnds == <>(pc = "done")
-----------------------------------------------------------------------------
(* What the repository says of the program and the code does not keep up.  *)

\* _receive is given a deadline "after which to give up" and says it raises when
\* the server "never answers".  It waits in readline, which knows no deadline.
GivesUpAtTheDeadline == <>(pc \in {"ending", "waiting", "reporting", "done"})
=============================================================================
