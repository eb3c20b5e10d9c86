----------------------------- MODULE MCRequests -----------------------------
(* Small instances of Requests for TLC. *)
EXTENDS Requests, TLC

\* Handlers and requests are only compared.
Interchangeable == Permutations(Handlers) \cup Permutations(RequestIds)

=============================================================================
