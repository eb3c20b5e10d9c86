------------------------------ MODULE MCSessions ------------------------------
(* Small instances of Sessions for TLC. *)
EXTENDS Sessions, TLC

\* Every call runs the same code; links are only compared.
Interchangeable == Permutations(Handlers) \cup Permutations(Links)

=============================================================================
