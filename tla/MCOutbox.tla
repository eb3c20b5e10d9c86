------------------------------ MODULE MCOutbox ------------------------------
(* Small instances of Outbox for TLC; no symmetry, as liveness is checked. *)
EXTENDS Outbox

=============================================================================
