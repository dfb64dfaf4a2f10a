----------------------------- MODULE MCMcpProbe -----------------------------
(* Small instances of McpProbe for TLC. *)
EXTENDS McpProbeInvariant

\* One call that is to succeed and one that is to fail, as in DEMONSTRATION_CALLS.
TwoCalls == <<FALSE, TRUE>>

Chatter == {"chatter"}

AllButChatter ==
    {"config", "launch", "refusal", "null", "noise", "unasked", "exit", "stubborn"}

=============================================================================
