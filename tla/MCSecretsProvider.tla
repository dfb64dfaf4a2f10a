-------------------------- MODULE MCSecretsProvider --------------------------
(* Small instances of SecretsProvider for TLC. *)
EXTENDS SecretsProviderInvariant, TLC

\* All that may befall the file, except bytes that do not decode and raced log lines.
DecodableMishaps == {"in_place", "fragment", "removed", "permissions"}

AllMishaps == DecodableMishaps \cup {"garbled", "race"}
SecretSymmetry == Permutations(Threads) \cup Permutations(Secrets)
=============================================================================
