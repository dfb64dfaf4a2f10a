----------------------- MODULE SecretsProviderInvariant -----------------------
(***************************************************************************)
(* The inductive invariant of SecretsProvider, for any number of threads,  *)
(* and what is inductive besides when calls are made one at a time.        *)
(***************************************************************************)
EXTENDS SecretsProvider

Stored == {"identity", "loaded", "count", "tally", "register"}
Loading == {"judge", "value"} \cup Stored

\* A file that exists has a version, and text where it says so.
FileInv ==
    /\ file.version <= changes
    /\ file.state # "absent" => file.version > 0
    /\ file.state = "text" => file.text \in Texts
    /\ file.state = "garbled" => "garbled" \in Mishaps

\* What a thread has learned by where it is.
LoadInv ==
    \A t \in Threads :
        /\ call[t].at \in {"compare", "access", "read"} \cup Loading => call[t].seen > 0
        /\ call[t].at \in Loading => call[t].text \in Texts
        /\ call[t].at \in {"access", "clear"} \cup Stored => value # NoText
        /\ call[t].held => value # NoText

\* Over a still and healthy file a thread is not on its way to a failure.
StillOf(t) ==
    /\ call[t].began <= changes
    /\ (Still(t) /\ Healthy) =>
          /\ call[t].at # "mark"
          /\ call[t].at = "answer" => value # NoText
          /\ Answered(t) => \/ call[t].answer \notin Failures
                            \/ "race" \in Mishaps /\ call[t].answer = "raised"

StillInv == \A t \in Threads : StillOf(t)

\* Only bytes that do not decode, or a raced log line, fail a call that began with a value held.
HeldInv ==
    \A t \in Threads : Answered(t) =>
        /\ call[t].held => call[t].answer \notin {"unavailable", "probe_failed"}
        /\ call[t].answer = "raised" => Mishaps \cap {"garbled", "race"} # {}

\* An unregistered value has a thread on its way to register it.
PendingInv ==
    ("race" \notin Mishaps /\ value # NoText /\ value \notin registered) =>
        \E t \in Threads : call[t].at \in Stored /\ call[t].text = value

IInv ==
    /\ TypeOK
    /\ FileInv
    /\ LoadInv
    /\ StillInv
    /\ HeldInv
    /\ PendingInv
-----------------------------------------------------------------------------
(* Calls made one at a time *)

\* There is one worker thread.
Alone == \A t, u \in Threads : t = u

Reading == {"compare", "read", "judge", "value", "identity"}
Loaded == {"loaded", "count", "tally", "register"}

\* An identity is that of a file the provider has seen; if the file still has it,
\* the value is what the file says.
KnownInv ==
    /\ identity <= file.version
    /\ (identity # 0 /\ identity = file.version) => file.state = "text" /\ value = file.text

\* What the call has seen of the file is no older than the identity, and newer
\* once it reads; and what it read is what the file says, if that is still the
\* file it saw.
SightOf(t) ==
    /\ call[t].at \in Reading \cup {"access"} =>
          identity <= call[t].seen /\ call[t].seen <= file.version
    /\ call[t].at = "access" => identity = call[t].seen
    /\ call[t].at \in Reading \ {"compare"} => identity < call[t].seen
    /\ (call[t].at \in {"judge", "value", "identity"} /\ call[t].seen = file.version) =>
          file.state = "text" /\ call[t].text = file.text
    /\ call[t].at = "identity" => value = call[t].text

SightInv == \A t \in Threads : SightOf(t)

\* Over a file that has been still since it began, a call is on its way to the
\* right answer: it loads a healthy file, and marks any other.
SettledOf(t) ==
    Still(t) =>
        /\ call[t].at \in Reading \cup {"access"} => call[t].seen = file.version
        /\ call[t].at \in Loading \cup {"clear"} => Healthy
        /\ call[t].at \in Loaded \cup {"clear"} => identity = file.version
        /\ call[t].at \in Loaded \ {"loaded"} => ~degraded
        /\ call[t].at = "mark" => ~Healthy
        /\ (call[t].at = "answer" /\ Healthy) => identity = file.version /\ ~degraded
        /\ (call[t].at = "answer" /\ ~Healthy) => degraded

SettledInv == \A t \in Threads : SettledOf(t)

\* Every rotation counted is a load of a newer file over a value already held.
CountOf(t) ==
    /\ (value # NoText /\ call[t].at # "identity") => identity # 0
    /\ (call[t].at \in {"value", "identity"} /\ call[t].rotated) => identity # 0
    /\ (call[t].at = "loaded" /\ call[t].rotated) => rotations + 1 < identity
    /\ call[t].at = "count" => rotations + 1 < identity
    /\ call[t].at = "tally" => call[t].tally < identity

CountInv ==
    /\ rotations = 0 \/ rotations < identity
    /\ \A t \in Threads : CountOf(t)

AloneInv ==
    /\ KnownInv
    /\ SightInv
    /\ SettledInv
    /\ StillFileSettles
    /\ CountInv
=============================================================================
