----------------------------- MODULE Lifecycle ------------------------------
(***************************************************************************)
(* What a request promises its student and its office, with no database,   *)
(* no handlers in flight and no SLA markers: a request is filed, waits at  *)
(* the office or at the student, and closes once.  The office is given     *)
(* Budget working hours; they run only while the request is at the office  *)
(* and are kept, to the hour, across every return to the student.          *)
(*                                                                         *)
(* Requests.tla is shown to implement this specification.                  *)
(***************************************************************************)
EXTENDS Naturals

CONSTANTS
  Cases,      \* the requests
  Budget      \* working hours the office has for one request

VARIABLES
  phase,      \* where each request is
  left        \* working hours the office still has for it

lifecycleVars == <<phase, left>>

Phases == {"unfiled", "office", "student", "closed"}

Move(c, from, to) ==
  /\ phase[c] \in from
  /\ phase' = [phase EXCEPT ![c] = to]

\* Requests that predate this workflow may already be open or closed.
LInit ==
  /\ phase \in [Cases -> {"unfiled", "office", "closed"}]
  /\ left = [c \in Cases |-> Budget]

\* A service may answer a request the moment it is filed.
File(c) ==
  /\ \/ Move(c, {"unfiled"}, "office")
     \/ Move(c, {"unfiled"}, "closed")
  /\ UNCHANGED left

Return(c) == Move(c, {"office"}, "student") /\ UNCHANGED left

Resume(c) == Move(c, {"student"}, "office") /\ UNCHANGED left

\* The final answer, the only way out, whoever the request waits for.
Close(c) == Move(c, {"office", "student"}, "closed") /\ UNCHANGED left

\* One working hour: charged to the requests at the office, to no other.
Hour ==
  /\ left' = [c \in Cases |->
                IF phase[c] = "office" /\ left[c] > 0 THEN left[c] - 1 ELSE left[c]]
  /\ UNCHANGED phase

LNext ==
  \/ \E c \in Cases : File(c) \/ Return(c) \/ Resume(c) \/ Close(c)
  \/ Hour

LSpec == LInit /\ [][LNext]_lifecycleVars

=============================================================================
