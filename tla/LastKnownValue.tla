--------------------------- MODULE LastKnownValue ---------------------------
(***************************************************************************)
(* What a secrets provider promises, without system calls or dictionaries: *)
(* a call looks at the path once, at one moment between its beginning and  *)
(* its end; what it sees there, if it can be read, is held from then on,   *)
(* and the call is answered with what is held.  Nothing but a call that    *)
(* sees a newer value replaces a value that is held, and nothing drops it. *)
(***************************************************************************)
CONSTANTS
    Threads,       \* who calls
    Texts,         \* what a path may hold
    NoText,        \* nothing that can be read, nothing held
    CallsMayRaise  \* whether a call may end with no answer at all

VARIABLES
    path,   \* what a read of the path would give; NoText if nothing can be read
    held,   \* the last known good value; NoText before there is one
    phase,  \* of each thread's call: idle, asked, looked
    told    \* what each thread's last call was told; "nothing" during a call

valueVars == <<path, held, phase, told>>

Silence == [answer |-> "nothing", given |-> NoText]

LastKnownValueInit ==
    /\ path \in Texts \cup {NoText}
    /\ held = NoText
    /\ phase = [t \in Threads |-> "idle"]
    /\ told = [t \in Threads |-> Silence]

\* The path changes: another value, or nothing that can be read.
Change ==
    /\ path' \in Texts \cup {NoText}
    /\ UNCHANGED <<held, phase, told>>

Ask(t) ==
    /\ phase[t] = "idle"
    /\ phase' = [phase EXCEPT ![t] = "asked"]
    /\ told' = [told EXCEPT ![t] = Silence]
    /\ UNCHANGED <<path, held>>

\* The one moment at which a call sees the path.
Look(t) ==
    /\ phase[t] = "asked"
    /\ held' = IF path # NoText THEN path ELSE held
    /\ phase' = [phase EXCEPT ![t] = "looked"]
    /\ UNCHANGED <<path, told>>

End(t, answer, given) ==
    /\ phase' = [phase EXCEPT ![t] = "idle"]
    /\ told' = [told EXCEPT ![t] = [answer |-> answer, given |-> given]]
    /\ UNCHANGED <<path, held>>

\* get() is given the value, state() only that there is one.
AnswerHeld(t) ==
    /\ phase[t] = "looked"
    /\ held # NoText
    /\ End(t, "value", held) \/ End(t, "available", NoText)

AnswerMissing(t) ==
    /\ phase[t] = "looked"
    /\ held = NoText
    /\ End(t, "unavailable", NoText)

Raise(t) ==
    /\ CallsMayRaise
    /\ phase[t] # "idle"
    /\ End(t, "raised", NoText)

LastKnownValueNext ==
    \/ Change
    \/ \E t \in Threads : Ask(t) \/ Look(t) \/ AnswerHeld(t) \/ AnswerMissing(t) \/ Raise(t)

LastKnownValueSpec == LastKnownValueInit /\ [][LastKnownValueNext]_valueVars
=============================================================================
