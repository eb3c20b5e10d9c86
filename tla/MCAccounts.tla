------------------------------ MODULE MCAccounts ------------------------------
(* Small instances of Accounts for TLC. *)
EXTENDS Accounts, TLC

\* Every call runs the same code; users and secrets are only compared.
Interchangeable == Permutations(Handlers) \cup Permutations(Users) \cup Permutations(Secrets)

=============================================================================
