--------------------------- MODULE SecretsProvider ---------------------------
(***************************************************************************)
(* One secret of secrets_provider.py: the file an operator rotates, and    *)
(* the worker threads that re-check it on every call.  The provider keeps  *)
(* plain dictionaries and has no lock, so each dictionary operation and    *)
(* each system call of _refresh is a step of its own, and other threads    *)
(* and the operator may act between any two.                               *)
(*                                                                         *)
(* A file's identity, (inode, mtime_ns, size), is taken to be fresh after  *)
(* every change of its content: `version' stands for it.  Secrets are      *)
(* assumed long enough for the registry to accept them.                    *)
(* A definition marked Variant is a fault the checks are tried against; no *)
(* specification uses it.                                                  *)
(***************************************************************************)
EXTENDS Naturals

CONSTANTS
    Threads,     \* worker threads
    Secrets,     \* the values an operator may rotate to
    Fragments,   \* what a half-written file may hold
    NoText,      \* no value held
    Mishaps,     \* what may befall the file besides a rename: see MishapsAssumption
    MaxChanges   \* bound: how often the file may change

Texts == Secrets \cup Fragments

ASSUME TextsAssumption == NoText \notin Texts
ASSUME MishapsAssumption ==
    Mishaps \subseteq {"in_place",     \* truncated and written without a rename
                       "fragment",     \* ... in more than one write
                       "removed",
                       "permissions",
                       "garbled",      \* bytes that are not UTF-8
                       "race"}         \* another secret is registered under a log line
ASSUME MaxChangesAssumption == MaxChanges \in Nat

VARIABLES
    file,        \* what the path leads to
    changes,     \* how often that has changed
    value,       \* _values
    identity,    \* _identities, by version; 0 for none
    degraded,    \* membership of _degraded
    rotations,   \* _rotations
    registered,  \* the values secret_registry knows
    call         \* the call each thread is in, or was last in

provider == <<value, identity, degraded, rotations, registered>>
environment == <<file, changes>>
vars == <<file, changes, value, identity, degraded, rotations, registered, call>>

NoCallYet ==
    [at |-> "idle", seen |-> 0, text |-> NoText, rotated |-> FALSE, tally |-> 0,
     answer |-> "none", given |-> NoText,
     began |-> 0,        \* history: the file changes there had been when it began
     held |-> FALSE]     \* history: whether a value was held when it began

Init ==
    /\ \/ file = [state |-> "absent", text |-> NoText, version |-> 0, readable |-> TRUE]
       \/ \E s \in Secrets :
             file = [state |-> "text", text |-> s, version |-> 1, readable |-> TRUE]
    /\ changes = file.version
    /\ value = NoText
    /\ identity = 0
    /\ degraded = FALSE
    /\ rotations = 0
    /\ registered = {}
    /\ call = [t \in Threads |-> NoCallYet]

Become(t, frame) == call' = [call EXCEPT ![t] = frame]
Goto(t, to) == Become(t, [call[t] EXCEPT !.at = to])
At(t, place) == call[t].at = place

(***************************************************************************)
(* The operator, and whatever else writes to the mounted directory.        *)
(***************************************************************************)
Change(state, text) ==
    /\ changes < MaxChanges
    /\ changes' = changes + 1
    /\ file' = [state |-> state, text |-> text, version |-> changes + 1, readable |-> TRUE]
    /\ UNCHANGED <<provider, call>>

\* A rename over the old file, a symlink swap, or the first file there is.
Rename(s) == Change("text", s)

Truncate ==
    /\ "in_place" \in Mishaps
    /\ file.state = "text"
    /\ Change("empty", NoText)

WriteFragment(f) ==
    /\ "fragment" \in Mishaps
    /\ file.state = "empty"
    /\ Change("text", f)

WriteRest(s) ==
    /\ "in_place" \in Mishaps
    /\ file.state = "empty" \/ file.text \in Fragments
    /\ Change("text", s)

Remove ==
    /\ "removed" \in Mishaps
    /\ Change("absent", NoText)

Garble ==
    /\ "garbled" \in Mishaps
    /\ Change("garbled", NoText)

\* Permissions change nothing the identity is made of.
Chmod ==
    /\ "permissions" \in Mishaps
    /\ file.state # "absent"
    /\ changes < MaxChanges
    /\ changes' = changes + 1
    /\ file' = [file EXCEPT !.readable = ~file.readable]
    /\ UNCHANGED <<provider, call>>

(***************************************************************************)
(* A call of get() or state(): _refresh first, whichever it is.            *)
(***************************************************************************)
Enter(t) ==
    /\ At(t, "idle")
    /\ Become(t, [NoCallYet EXCEPT !.at = "stat", !.began = changes, !.held = value # NoText])
    /\ UNCHANGED <<environment, provider>>

StatPath(t) ==
    /\ At(t, "stat")
    /\ \/ file.state = "absent" /\ Goto(t, "mark")
       \/ /\ file.state # "absent"
          /\ Become(t, [call[t] EXCEPT !.at = "compare", !.seen = file.version])
    /\ UNCHANGED <<environment, provider>>

\* Variant: once loaded, never looked at again.
CompareIdentity_Cached(t) ==
    /\ At(t, "compare")
    /\ Goto(t, IF identity # 0 THEN "access" ELSE "read")
    /\ UNCHANGED <<environment, provider>>

CompareIdentity(t) ==
    /\ At(t, "compare")
    /\ Goto(t, IF identity = call[t].seen THEN "access" ELSE "read")
    /\ UNCHANGED <<environment, provider>>

\* Unchanged, but a file nobody can read will hide the next rotation.
CheckAccess(t) ==
    /\ At(t, "access")
    /\ Goto(t, IF file.state # "absent" /\ file.readable THEN "clear" ELSE "mark")
    /\ UNCHANGED <<environment, provider>>

\* Variant: the identity recorded as soon as the file was read.
ReadText_IdentityFirst(t) ==
    /\ At(t, "read")
    /\ file.state = "text" /\ file.readable
    /\ identity' = call[t].seen
    /\ Become(t, [call[t] EXCEPT !.at = "judge", !.text = file.text])
    /\ UNCHANGED <<environment, value, degraded, rotations, registered>>

\* An OSError or an empty file degrades; bytes that do not decode raise through.
ReadText(t) ==
    /\ At(t, "read")
    /\ \/ /\ ~file.readable \/ file.state \in {"absent", "empty"}
          /\ Goto(t, "mark")
       \/ /\ file.readable /\ file.state = "garbled"
          /\ Become(t, [call[t] EXCEPT !.at = "idle", !.answer = "raised"])
       \/ /\ file.readable /\ file.state = "text"
          /\ Become(t, [call[t] EXCEPT !.at = "judge", !.text = file.text])
    /\ UNCHANGED <<environment, provider>>

\* Variant: the first value counts as a rotation.
JudgeChange_FirstLoad(t) ==
    /\ At(t, "judge")
    /\ Become(t, [call[t] EXCEPT !.at = "value", !.rotated = value # call[t].text])
    /\ UNCHANGED <<environment, provider>>

JudgeChange(t) ==
    /\ At(t, "judge")
    /\ Become(t, [call[t] EXCEPT !.at = "value",
                                 !.rotated = value # NoText /\ value # call[t].text])
    /\ UNCHANGED <<environment, provider>>

StoreValue(t) ==
    /\ At(t, "value")
    /\ value' = call[t].text
    /\ Goto(t, "identity")
    /\ UNCHANGED <<environment, identity, degraded, rotations, registered>>

StoreIdentity(t) ==
    /\ At(t, "identity")
    /\ identity' = call[t].seen
    /\ Goto(t, "loaded")
    /\ UNCHANGED <<environment, value, degraded, rotations, registered>>

\* Both a load and an unchanged, readable file end a degraded spell.
DiscardDegraded(t) ==
    /\ At(t, "loaded") \/ At(t, "clear")
    /\ degraded' = FALSE
    /\ Goto(t, CASE At(t, "clear") -> "answer"
                 [] At(t, "loaded") /\ call[t].rotated -> "count"
                 [] OTHER -> "register")
    /\ UNCHANGED <<environment, value, identity, rotations, registered>>

\* The count is read in one step and written back in another.
CountRotation(t) ==
    /\ At(t, "count")
    /\ Become(t, [call[t] EXCEPT !.at = "tally", !.tally = rotations + 1])
    /\ UNCHANGED <<environment, provider>>

StoreRotations(t) ==
    /\ At(t, "tally")
    /\ rotations' = call[t].tally
    /\ Goto(t, "register")
    /\ UNCHANGED <<environment, value, identity, degraded, registered>>

\* Variant: only a rotated value is registered.
Register_RotatedOnly(t) ==
    /\ At(t, "register")
    /\ registered' = IF call[t].rotated THEN registered \cup {call[t].text} ELSE registered
    /\ Goto(t, "answer")
    /\ UNCHANGED <<environment, value, identity, degraded, rotations>>

Register(t) ==
    /\ At(t, "register")
    /\ registered' = registered \cup {call[t].text}
    /\ Goto(t, "answer")
    /\ UNCHANGED <<environment, value, identity, degraded, rotations>>

\* Variant: a value whose source is unreadable is dropped.
MarkDegraded_Drops(t) ==
    /\ At(t, "mark")
    /\ degraded' = TRUE
    /\ value' = NoText
    /\ Goto(t, "answer")
    /\ UNCHANGED <<environment, identity, rotations, registered>>

MarkDegraded(t) ==
    /\ At(t, "mark")
    /\ degraded' = TRUE
    /\ Goto(t, "answer")
    /\ UNCHANGED <<environment, value, identity, rotations, registered>>

\* Only a first degradation and a rotation are logged, the rotation before its
\* value is registered.  The filter of the line iterates over the registry: if
\* another thread registers a secret meanwhile, its RuntimeError ends the call.
LogRaces(t) ==
    /\ "race" \in Mishaps
    /\ \/ At(t, "mark") /\ ~degraded /\ degraded' = TRUE
       \/ At(t, "register") /\ call[t].rotated /\ UNCHANGED degraded
    /\ Become(t, [call[t] EXCEPT !.at = "idle", !.answer = "raised"])
    /\ UNCHANGED <<environment, value, identity, rotations, registered>>

\* get(): the value held, or SecretUnavailableError.
FetchValue(t) ==
    /\ At(t, "answer")
    /\ Become(t, [call[t] EXCEPT !.at = "idle", !.given = value,
                                 !.answer = IF value = NoText THEN "unavailable" ELSE "value"])
    /\ UNCHANGED <<environment, provider>>

\* state(), as the readiness probe reads it.
ReportState(t) ==
    /\ At(t, "answer")
    /\ Become(t, [call[t] EXCEPT !.at = "idle",
                                 !.answer = CASE value = NoText -> "probe_failed"
                                              [] value # NoText /\ degraded -> "probe_degraded"
                                              [] OTHER -> "probe_ok"])
    /\ UNCHANGED <<environment, provider>>

Operator ==
    \/ \E s \in Secrets : Rename(s) \/ WriteRest(s)
    \/ \E f \in Fragments : WriteFragment(f)
    \/ Truncate
    \/ Remove
    \/ Garble
    \/ Chmod

Refresh(t) ==
    \/ StatPath(t)
    \/ CompareIdentity(t)
    \/ CheckAccess(t)
    \/ ReadText(t)
    \/ JudgeChange(t)
    \/ StoreValue(t)
    \/ StoreIdentity(t)
    \/ DiscardDegraded(t)
    \/ CountRotation(t)
    \/ StoreRotations(t)
    \/ Register(t)
    \/ MarkDegraded(t)
    \/ LogRaces(t)

Serve(t) == Enter(t) \/ Refresh(t) \/ FetchValue(t) \/ ReportState(t)

Next == Operator \/ \E t \in Threads : Serve(t)

Spec == Init /\ [][Next]_vars

\* Calls keep coming and threads are scheduled; nobody has to touch the file.
FairSpec == Spec /\ \A t \in Threads : WF_vars(Serve(t))
-----------------------------------------------------------------------------
(* Properties *)

Places == {"idle", "stat", "compare", "access", "read", "judge", "value", "identity",
           "loaded", "clear", "count", "tally", "register", "mark", "answer"}
Answers == {"none", "raised", "value", "unavailable", "probe_ok", "probe_degraded",
            "probe_failed"}

File == [state : {"absent", "empty", "garbled", "text"}, text : Texts \cup {NoText},
         version : Nat, readable : BOOLEAN]
Call == [at : Places, seen : Nat, text : Texts \cup {NoText}, rotated : BOOLEAN,
         tally : Nat, answer : Answers, given : Texts \cup {NoText}, began : Nat,
         held : BOOLEAN]

\* Every variable keeps its type; and an identity is held only with a value, or
\* a thread that finds the file unchanged would have nothing to return.
TypeOK ==
    /\ file \in File
    /\ changes \in Nat
    /\ value \in Texts \cup {NoText}
    /\ identity \in Nat
    /\ degraded \in BOOLEAN
    /\ rotations \in Nat
    /\ registered \subseteq Texts
    /\ call \in [Threads -> Call]
    /\ identity # 0 => value # NoText

Healthy == file.state = "text" /\ file.readable

\* The file has not changed since this thread's last call began.
Still(t) == call[t].began = changes

Answered(t) == At(t, "idle") /\ call[t].answer # "none"

Failures == {"unavailable", "probe_failed", "raised"}

\* A call over a file that was readable and still from its beginning to its end
\* never fails, whatever other threads are in the middle of.
AvailableWhenHealthy ==
    \A t \in Threads : (Answered(t) /\ Still(t) /\ Healthy) => call[t].answer \notin Failures

\* When no call is under way, the value held is one the redaction registry knows.
RegisteredAtRest ==
    ((\A t \in Threads : At(t, "idle")) /\ value # NoText) => value \in registered

\* The last known good value: a call that began while a value was held is never
\* told there is none, and no readiness probe turns it into a failure.
HeldValueNeverFails ==
    \A t \in Threads : (Answered(t) /\ call[t].held) => call[t].answer \notin Failures

\* Calls made one at a time: one call over a still file settles the provider.  A
\* healthy file is what is held, and what is returned and reported unless a log
\* line raced; any other is degraded, unless it does not decode and the call raised.
StillFileSettles ==
    \A t \in Threads : (Answered(t) /\ Still(t)) =>
        /\ Healthy => /\ value = file.text
                      /\ identity = file.version
                      /\ \/ call[t].answer = "probe_ok" \/ call[t].given = file.text
                         \/ "race" \in Mishaps /\ call[t].answer = "raised"
        /\ ~Healthy => \/ degraded /\ call[t].answer # "probe_ok"
                       \/ call[t].answer = "raised"

\* Calls made one at a time: no more rotations are reported than there were
\* changes to observe, and the first load is none.
RotationsAreObserved == rotations > 0 => rotations < changes

\* Calls made one at a time: if the file comes to rest in a healthy state, the
\* provider comes to hold what it says, and stays with it.
EventuallyCurrent == <>[](Healthy => value = file.text /\ ~degraded)

-----------------------------------------------------------------------------
(* What the repository says of the program and the code does not keep up.  *)

\* get() promises that a rotation takes effect on the next request.  A thread
\* that read the old file may store its value after another stored the new one,
\* and before the other stores the identity: with every call over, the old value
\* is served under the new identity, and no later request will look again.
RotationTakesEffect ==
    \A t \in Threads :
        (/\ Answered(t) /\ call[t].answer = "value"
         /\ Still(t) /\ Healthy
         /\ identity = file.version
         /\ \A u \in Threads : At(u, "idle"))
            => call[t].given = file.text

-----------------------------------------------------------------------------
(* Refinement, for calls made one at a time: the moment a call looks at the *)
(* path is its stat where that finds the identity that is held, or nothing, *)
(* and its read where the identity is new.  From the read on, what the call *)
(* carries to the dictionary is what the provider holds.                    *)

Carrying == {t \in Threads : call[t].at \in {"judge", "value"}}

Held == IF Carrying = {} THEN value ELSE call[CHOOSE t \in Carrying : TRUE].text

Path == IF Healthy THEN file.text ELSE NoText

PhaseOf(t) ==
    CASE At(t, "idle") -> "idle"
      [] call[t].at \in {"stat", "read"} -> "asked"
      [] At(t, "compare") /\ call[t].seen # identity -> "asked"
      [] OTHER -> "looked"

ToldOf(t) ==
    [answer |-> CASE ~Answered(t) -> "nothing"
                  [] Answered(t) /\ call[t].answer \in {"value", "raised"} ->
                        call[t].answer
                  [] Answered(t) /\ call[t].answer \in {"unavailable", "probe_failed"} ->
                        "unavailable"
                  [] OTHER -> "available",
     given |-> IF Answered(t) /\ call[t].answer = "value" THEN call[t].given ELSE NoText]

Provider == INSTANCE LastKnownValue WITH
    CallsMayRaise <- Mishaps \cap {"garbled", "race"} # {},
    path <- Path,
    held <- Held,
    phase <- [t \in Threads |-> PhaseOf(t)],
    told <- [t \in Threads |-> ToldOf(t)]

\* Calls made one at a time: though stat, access and read are calls of the system
\* between which the operator renames, rewrites or removes the file, each call
\* answers as if it had looked at the path once, at a moment of its own, and kept
\* the last value that could be read.  Measurement relies on it (Served).
ImplementsLastKnownValue == Provider!LastKnownValueSpec
=============================================================================
