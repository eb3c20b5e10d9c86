---------------------------- MODULE MCNotifications ----------------------------
(* A small instance of Notifications for TLC. *)
EXTENDS Notifications, TLC

CONSTANT u1

\* The notification there is; users are otherwise alike.
OneForU1 == [n \in Notes |-> u1]

=============================================================================
