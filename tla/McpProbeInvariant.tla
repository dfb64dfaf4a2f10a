--------------------------- MODULE McpProbeInvariant ---------------------------
(***************************************************************************)
(* The inductive invariant behind the theorems of McpProbeProofs, checked  *)
(* by TLC as an invariant before it is proved.                             *)
(***************************************************************************)
EXTENDS McpProbe

Conversing == pc \in {"sending", "checking", "reading"}
Waiting == pc \in {"checking", "reading"}

\* Where the probe is says what there is to clean up and what it has seen.
Phases ==
    /\ Conversing => failure = "none" /\ server # "none"
    /\ pc \in {"configuring", "launching"} =>
          failure = "none" /\ server = "none" /\ step = 1
    /\ step = 1 /\ (Conversing \/ server = "none") => intruded = 0
    /\ step <= 2 /\ (Conversing \/ server = "none") => tools = "few"
    /\ Conversing \/ server = "none" =>
          Len(outcomes) = IF step <= 3 THEN 0 ELSE step - 3
    /\ failure = "none" /\ pc \in {"ending", "waiting", "reporting"} =>
          Len(outcomes) = Len(Calls) /\ step = Len(Calls) + 2
    /\ pc = "reporting" => server \in {"none", "gone"} \/ signal = "kill"
    /\ pc = "done" => server \in {"none", "gone"} \/ signal = "kill"

StdinBounded == \A i \in 1..Len(stdin) : stdin[i] <= step
StdoutBounded == \A i \in 1..Len(stdout) : stdout[i].id <= step

\* Nothing is in the pipes, or with the server, that was not asked yet.
NothingAhead ==
    /\ serving <= step
    /\ StdinBounded /\ StdoutBounded

IsAnswer(line) == line.kind \in AllKinds
NoAnswer == \A i \in 1..Len(stdout) : ~IsAnswer(stdout[i])

Idle == Len(stdin) = 0 /\ serving = 0 /\ NoAnswer

\* The answer to the request under way is the only one that waits to be read.
AnswerWaits ==
    \E i \in 1..Len(stdout) :
        /\ IsAnswer(stdout[i]) /\ stdout[i].id = step
        /\ \A j \in (1..Len(stdout)) \ {i} : ~IsAnswer(stdout[j])

Asked ==
    \/ Len(stdin) = 1 /\ stdin[1] = step /\ serving = 0 /\ NoAnswer
    \/ Len(stdin) = 0 /\ serving = step /\ NoAnswer
    \/ Len(stdin) = 0 /\ serving = 0 /\ AnswerWaits

\* While nothing was taken for an answer that is none, the request under way is
\* the only one that is in a pipe or with the server, once.
OneInFlight ==
    intruded = 0 /\ failure = "none" => IF Waiting THEN Asked ELSE Idle

\* The answer to the first request is the first that waits to be read.
FirstWaits ==
    \E i \in 1..Len(stdout) :
        /\ IsAnswer(stdout[i]) /\ stdout[i].id = 1
        /\ \A j \in 1..(i - 1) : ~IsAnswer(stdout[j])

\* The first request is the next to be answered.
FirstNext ==
    \/ serving = 0 /\ NoAnswer /\ Len(stdin) > 0 /\ stdin[1] = 1
    \/ serving = 1 /\ NoAnswer
    \/ FirstWaits

\* A message that answers nothing, taken for the answer to initialize, leaves that
\* answer to be read as the list of tools.
Shifted == step = 2 /\ Conversing /\ intruded > 0 => FirstNext

AsAnswered ==
    \A i \in 1..Len(stdout) : IsAnswer(stdout[i]) => stdout[i].kind = answered[stdout[i].id]

\* What is in the pipe is what the server answered.
Recorded ==
    /\ answered[1] \in {"none", "met", "error"}
    /\ intruded = 0 /\ failure = "none" => AsAnswered

\* The judgements so far were earned.
Earned ==
    failure = "none" =>
        /\ tools = "enough" /\ (\A i \in DOMAIN outcomes : outcomes[i].ok) => intruded = 0
        /\ intruded = 0 =>
              /\ step > 1 => answered[1] = "met"
              /\ tools = "enough" => answered[2] = "met"
              /\ \A i \in DOMAIN outcomes :
                    outcomes[i].ok => answered[i + 2] \in {"met", "error_met"}

\* The exit code says what happened.
Reported ==
    exit = 0 => Passed /\ Len(outcomes) = Len(Calls) /\ step = Len(Calls) + 2

Inv ==
    /\ TypeOK
    /\ Phases
    /\ NothingAhead
    /\ OneInFlight
    /\ Shifted
    /\ Recorded
    /\ Earned
    /\ Reported
    /\ JudgedOnOwnAnswer
=============================================================================
