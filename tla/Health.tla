-------------------------------- MODULE Health --------------------------------
(***************************************************************************)
(* Readiness, and who asks for it: health.py, the probes of runtime.py,    *)
(* and the health command of __main__.py, which is another process than    *)
(* the server whose health is in question.  Each process has a secrets     *)
(* provider of its own.                                                    *)
(*                                                                         *)
(* A probe first refreshes its secret and then reads the state, and the    *)
(* files may change, and the server's requests refresh, between any two    *)
(* steps.  SecretsProvider has the system calls of a refresh; here it      *)
(* looks while the file may change, acts later on anything the file was    *)
(* meanwhile, and clears the degraded flag in a step of its own.  That is  *)
(* whatever its stat, access and read may have found, each at a moment of  *)
(* its own, and more.                                                      *)
(***************************************************************************)
EXTENDS Naturals, Sequences

CONSTANTS
    Names,      \* the secrets that are mounted
    Required,   \* those given to build_runtime, in order; main gives none
    Workers,    \* the server's worker threads, each serving requests
    LinesRace   \* whether a log line may raise over the redaction registry

Processes == {"server", "command"}

\* Who refreshes: a readiness call of either process, and the server's workers.
Threads == Processes \cup Workers
Requests == Workers \ Processes
Owner(t) == IF t \in Processes THEN t ELSE "server"

\* A mounted file: usable text, nothing but white space, bytes that are not UTF-8,
\* or absent or closed to the process.
States == {"text", "blank", "undecodable", "gone"}
Accessible == {"text", "blank", "undecodable"}

VARIABLES
    file,       \* the state of each mounted file
    held,       \* for each process, the secrets it holds a value of
    degraded,   \* ... and its _degraded
    stage,      \* where each thread is in a refresh: see Stages
    about,      \* the secret it refreshes
    met,        \* the states that secret's file has had while it looked
    at,         \* what each process's readiness is doing: idle, asking, answered
    results,    \* the results of the probes run so far
    status,     \* the last answer
    heldFirst,  \* history: what was held when the readiness call began
    seen,       \* history: the states each file has had since
    lately      \* history: those, and what refreshes then under way had met

refresh == <<stage, about, met>>
knowledge == <<held, degraded>>
readiness == <<at, results, status>>
history == <<heldFirst, seen, lately>>
vars == <<file, held, degraded, stage, about, met, at, results, status, heldFirst, seen,
          lately>>

Stages == {"idle",
           "looking",   \* between the first and the last system call
           "clearing",  \* the value is held; the degraded flag is yet to be cleared
           "rotated",   \* ... and a line that reports a rotation is logged then
           "looked"}    \* a probe's refresh is over, its state is yet to be read

Init ==
    /\ file \in [Names -> {"text", "gone"}]
    /\ held = [p \in Processes |-> {}]
    /\ degraded = [p \in Processes |-> {}]
    /\ stage = [t \in Threads |-> "idle"]
    /\ about = [t \in Threads |-> "none"]
    /\ met = [t \in Threads |-> {}]
    /\ at = [p \in Processes |-> "idle"]
    /\ results = [p \in Processes |-> <<>>]
    /\ status = [p \in Processes |-> "none"]
    /\ heldFirst = [p \in Processes |-> {}]
    /\ seen = [p \in Processes |-> [n \in Names |-> {}]]
    /\ lately = [p \in Processes |-> [n \in Names |-> {}]]

\* The mounted file is rewritten, removed, closed or comes back.
Mount(n, state) ==
    /\ file' = [file EXCEPT ![n] = state]
    /\ met' = [t \in Threads |->
                  met[t] \cup (IF stage[t] = "looking" /\ about[t] = n THEN {state} ELSE {})]
    /\ seen' = [p \in Processes |-> [seen[p] EXCEPT ![n] = @ \cup {state}]]
    /\ lately' = [p \in Processes |-> [lately[p] EXCEPT ![n] = @ \cup {state}]]
    /\ UNCHANGED <<knowledge, stage, about, readiness, heldFirst>>

(***************************************************************************)
(* A refresh, by a request of the server or by a probe.                    *)
(***************************************************************************)
Look(t, n) ==
    /\ stage[t] = "idle"
    /\ stage' = [stage EXCEPT ![t] = "looking"]
    /\ about' = [about EXCEPT ![t] = n]
    /\ met' = [met EXCEPT ![t] = {file[n]}]
    /\ UNCHANGED <<file, knowledge, readiness, history>>

\* Every request of a store resolves its key.
ServeRequest(t, n) == t \in Requests /\ Look(t, n)

RunProbe(p) ==
    /\ at[p] = "asking"
    /\ Len(results[p]) < Len(Required)
    /\ Look(p, Required[Len(results[p]) + 1])

Report(p, result) == results' = [results EXCEPT ![p] = Append(@, result)]

\* The refresh is over: a request goes on, a probe reads the state next.
Over(t) ==
    /\ stage' = [stage EXCEPT ![t] = IF t \in Processes THEN "looked" ELSE "idle"]
    /\ UNCHANGED results

\* The refresh raises: a request fails, and so has a probe.
Raise(t) ==
    /\ stage' = [stage EXCEPT ![t] = "idle"]
    /\ IF t \in Processes THEN Report(t, "failed") ELSE UNCHANGED results

\* The server has other threads, which register secrets while a line is scrubbed.
LogRaces(t) == LinesRace /\ Owner(t) = "server"

\* Text was read, and is held from here on; over another value it may be a rotation.
Load(t) ==
    /\ stage[t] = "looking"
    /\ "text" \in met[t]
    /\ held' = [held EXCEPT ![Owner(t)] = @ \cup {about[t]}]
    /\ \E next \in {"clearing"} \cup
                   (IF about[t] \in held[Owner(t)] THEN {"rotated"} ELSE {}) :
          stage' = [stage EXCEPT ![t] = next]
    /\ UNCHANGED <<file, degraded, about, met, readiness, history>>

\* The identity is the one held, and os.access lets the file pass.
Confirm(t) ==
    /\ stage[t] = "looking"
    /\ about[t] \in held[Owner(t)]
    /\ \E state \in Accessible : state \in met[t]
    /\ stage' = [stage EXCEPT ![t] = "clearing"]
    /\ UNCHANGED <<file, knowledge, about, met, readiness, history>>

\* However long ago it looked, and whatever others found meanwhile.
DiscardDegraded(t) ==
    /\ stage[t] \in {"clearing", "rotated"}
    /\ degraded' = [degraded EXCEPT ![Owner(t)] = @ \ {about[t]}]
    /\ Over(t) \/ (stage[t] = "rotated" /\ LogRaces(t) /\ Raise(t))
    /\ UNCHANGED <<file, held, about, met, at, status, history>>

\* Not there, not readable or empty.  It is logged by who found it unmarked, and
\* another thread may have marked it since: nothing is asked of the flag here.
MarkDegraded(t) ==
    /\ stage[t] = "looking"
    /\ "gone" \in met[t] \/ "blank" \in met[t]
    /\ degraded' = [degraded EXCEPT ![Owner(t)] = @ \cup {about[t]}]
    /\ Over(t) \/ (LogRaces(t) /\ Raise(t))
    /\ UNCHANGED <<file, held, about, met, at, status, history>>

\* UnicodeDecodeError is no OSError: it leaves _refresh.
DecodeFails(t) ==
    /\ stage[t] = "looking"
    /\ "undecodable" \in met[t]
    /\ Raise(t)
    /\ UNCHANGED <<file, knowledge, about, met, at, status, history>>

(***************************************************************************)
(* A readiness call: its probes one after the other.                       *)
(***************************************************************************)

\* What refreshes of p's that are under way have met of n's file.
UnderWay(p, n) ==
    UNION {met[t] : t \in {u \in Threads : /\ Owner(u) = p /\ stage[u] # "idle"
                                           /\ about[u] = n}}

\* A readiness call of the server's own, or a run of the command, which is a new
\* process and holds nothing yet.
Ask(p) ==
    /\ at[p] # "asking"
    /\ at' = [at EXCEPT ![p] = "asking"]
    /\ results' = [results EXCEPT ![p] = <<>>]
    /\ held' = IF p = "command" THEN [held EXCEPT ![p] = {}] ELSE held
    /\ degraded' = IF p = "command" THEN [degraded EXCEPT ![p] = {}] ELSE degraded
    /\ heldFirst' = [heldFirst EXCEPT ![p] = held'[p]]
    /\ seen' = [seen EXCEPT ![p] = [n \in Names |-> {file[n]}]]
    /\ lately' = [lately EXCEPT ![p] = [n \in Names |-> {file[n]} \cup UnderWay(p, n)]]
    /\ UNCHANGED <<file, refresh, status>>

\* What _secret_probe makes of a state.
Judgement(p, n) ==
    CASE n \notin held[p] -> "failed"
      [] n \in held[p] /\ n \in degraded[p] -> "degraded"
      [] OTHER -> "ok"

\* state() reads _values and then _degraded.  Values are never removed, so a probe
\* that fails for the want of one is judged at its first read, any other at its second.
ReadState(p) ==
    /\ stage[p] = "looked"
    /\ stage' = [stage EXCEPT ![p] = "idle"]
    /\ Report(p, Judgement(p, about[p]))
    /\ UNCHANGED <<file, knowledge, about, met, at, status, history>>

Verdict(found) ==
    CASE \E i \in DOMAIN found : found[i] = "failed" -> "not_ready"
      [] (\A i \in DOMAIN found : found[i] # "failed")
            /\ (\E i \in DOMAIN found : found[i] = "degraded") -> "degraded"
      [] OTHER -> "ready"

Answer(p) ==
    /\ at[p] = "asking"
    /\ stage[p] = "idle" /\ Len(results[p]) = Len(Required)
    /\ status' = [status EXCEPT ![p] = Verdict(results[p])]
    /\ at' = [at EXCEPT ![p] = "answered"]
    /\ UNCHANGED <<file, knowledge, refresh, results, history>>

Refresh(t) ==
    Load(t) \/ Confirm(t) \/ DiscardDegraded(t) \/ MarkDegraded(t) \/ DecodeFails(t)

Next ==
    \/ \E n \in Names : \E state \in States : Mount(n, state)
    \/ \E t \in Threads : Refresh(t) \/ \E n \in Names : ServeRequest(t, n)
    \/ \E p \in Processes : Ask(p) \/ RunProbe(p) \/ ReadState(p) \/ Answer(p)

Spec == Init /\ [][Next]_vars
-----------------------------------------------------------------------------
(* Properties *)

\* Every variable keeps its type.
TypeOK ==
    /\ file \in [Names -> States]
    /\ held \in [Processes -> SUBSET Names]
    /\ degraded \in [Processes -> SUBSET Names]
    /\ stage \in [Threads -> Stages]
    /\ about \in [Threads -> Names \cup {"none"}]
    /\ met \in [Threads -> SUBSET States]
    /\ at \in [Processes -> {"idle", "asking", "answered"}]
    /\ results \in [Processes -> Seq({"ok", "degraded", "failed"})]
    /\ status \in [Processes -> {"none", "ready", "degraded", "not_ready"}]
    /\ heldFirst \in [Processes -> SUBSET Names]
    /\ seen \in [Processes -> [Names -> SUBSET States]]
    /\ lately \in [Processes -> [Names -> SUBSET States]]

RequiredNames == {Required[i] : i \in DOMAIN Required}

\* A process is taken out of service only over a secret it held no value of when it
\* was asked, or one whose file did not decode meanwhile: files that go and come
\* back under the probes never do it to one that holds its secrets, whatever the
\* server's requests do, unless a log line races.
UnreadyForCause ==
    \A p \in Processes :
        (at[p] = "answered" /\ status[p] = "not_ready") =>
            \E n \in RequiredNames : n \notin heldFirst[p] \/ "undecodable" \in seen[p][n]

\* Ready without a reservation is said only if a value of every required secret is
\* held and its file was accessible during the call, or else while a request that
\* was in the middle of refreshing it when the call began had been at it: the flag
\* such a request clears late is the only way to be told "ready" of a file that was
\* gone all along.  No more is promised of the file: os.access may pass another file
\* than the one identified, and that one may be blank or not decode.
ReadyIsFresh ==
    \A p \in Processes :
        (at[p] = "answered" /\ status[p] = "ready") =>
            \A n \in RequiredNames :
                n \in held[p] /\ \E state \in Accessible : state \in lately[p][n]

\* The health command, a new process of one thread, does read what it vouches for:
\* the file of every required secret held usable text at a moment of the call.
CommandHasRead ==
    (at["command"] = "answered" /\ status["command"] = "ready") =>
        \A n \in RequiredNames : "text" \in seen["command"][n]
-----------------------------------------------------------------------------
(* What the repository says of the program and the code does not keep up.  *)

\* The operations guide promises that a server which works on the last value it
\* read, its file being unreadable, reports itself degraded through readiness.
\* What is asked is the health command, and that knows neither the server's
\* values nor, since main registers no probe, the secrets.
OutageIsReported ==
    (/\ at["command"] = "answered"
     /\ \E n \in held["server"] \cap degraded["server"] :
           seen["command"][n] = {"gone"})
        => status["command"] = "degraded"
=============================================================================
