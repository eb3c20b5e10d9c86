----------------------------- MODULE MCSubmission -----------------------------
(* Small instances of Submission for TLC. *)
EXTENDS Submission, TLC

\* Every call runs the same code; clients and keys are only compared.
Interchangeable == Permutations(Calls) \cup Permutations(Clients) \cup Permutations(Keys)

=============================================================================
