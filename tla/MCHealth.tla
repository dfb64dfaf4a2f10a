------------------------------- MODULE MCHealth -------------------------------
(* The instance of Health that the entry point builds: main requires nothing. *)
EXTENDS HealthInvariant

NoneRequired == <<>>
===============================================================================
