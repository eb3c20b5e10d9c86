------------------------------- MODULE Accounts -------------------------------
(***************************************************************************)
(* The accounts themselves: who may sign in and with what, the second      *)
(* factor, and what administrators change.                                 *)
(*                                                                         *)
(* A handler loads a row, decides, talks to Redis and commits.  The ORM    *)
(* writes only the columns whose value differs from the loaded copy, so    *)
(* handlers that overlap on a row mix their columns.  A flush takes the    *)
(* row's lock until the commit, and a SELECT in between sees what others   *)
(* committed and what its own transaction wrote (READ COMMITTED).          *)
(*                                                                         *)
(* Time is counted in steps of the one-time codes; a code is the pair of   *)
(* the secret and the step that made it.  What a sign-in mints, and which  *)
(* sessions an administrator's reset ends, is in Sessions.                 *)
(***************************************************************************)
EXTENDS Integers, FiniteSets

CONSTANTS
  Users,        \* rows of the table, the free ones included
  Roles,        \* roles that are given
  Secrets,      \* secrets of authenticator apps
  Handlers,     \* calls that may be in flight at the same time
  None,
  Drift,        \* DRIFT_STEPS
  BurnSteps,    \* life of totp:used, in steps: 120 s in the code
  Lockout,      \* login_lockout_attempts
  IpBudget,     \* login_max_attempts_per_ip
  MaxStep,      \* bound on time
  MaxCalls      \* bound on the calls made

ASSUME AccountsAssumption ==
  /\ None \notin Secrets
  /\ {"admin", "staff"} \subseteq Roles
  /\ Roles \subseteq {"student", "registrator", "staff", "admin", "leadership"}
  /\ Drift \in Nat /\ MaxStep \in Nat /\ MaxStep >= Drift /\ MaxCalls \in Nat
  /\ Lockout \in Nat \ {0} /\ IpBudget \in Nat \ {0}
  \* A burnt code is remembered for longer than it can match.
  /\ BurnSteps \in Nat /\ BurnSteps > 2 * Drift

VARIABLES
  users,        \* committed rows, None where there is none
  fails,        \* login:fail:user:<identity>
  ipfails,      \* login:fail:ip:<ip> of the one address there is
  burnt,        \* totp:used:<user>:<step>
  step,         \* the current time step
  mfa,          \* users who passed the password step
  calls,        \* the calls in flight, or None
  accepted,     \* history: how often the code of a step was accepted
  proven,       \* history: secrets a code of which was accepted
  mixed,        \* history: users whose factor was written over a newer one
  skewed,       \* history: two administrators' checks overlapped
  begun

vars == <<users, fails, ipfails, burnt, step, mfa, calls, accepted, proven, mixed,
          skewed, begun>>

Row == [role : Roles, active : BOOLEAN, secret : Secrets \cup {None}, enabled : BOOLEAN]
Identity == {"login", "factor"} \X Users
Code == [secret : Secrets, step : 0 .. MaxStep + Drift]
NoChange == [f \in {} |-> None]

\* What a call may set: an administrator's PATCH, of what matters here, or a
\* step of the second factor.
Updates ==
  {[role |-> r] : r \in Roles} \cup {[active |-> b] : b \in BOOLEAN}
  \cup {[enabled |-> FALSE, secret |-> None]}
Factor == {[secret |-> s] : s \in Secrets} \cup {[enabled |-> TRUE]}
          \cup {[enabled |-> FALSE, secret |-> None]}
Call == [op : {"login", "factor", "setup", "enable", "disable", "admin"},
         stage : {"budget", "password", "failure", "clear", "code", "flush", "commit"},
         actor : Users \cup {None}, u : Users, copy : Row \cup {None},
         code : Code \cup {None}, wanted : Updates \cup Factor \cup {NoChange}]
ASSUME NullAssumption == None \notin Row /\ None \notin Code

Fresh == [op |-> "login", stage |-> "budget", actor |-> None, u |-> None, copy |-> None,
          code |-> None, wanted |-> NoChange]

Exists(u)       == users[u] # None
Stage(h, stage) == calls[h] # None /\ calls[h].stage = stage
To(h, stage)    == calls' = [calls EXCEPT ![h].stage = stage]
Ends(h)         == calls' = [calls EXCEPT ![h] = None]
Begin(h, call)  ==
  /\ calls[h] = None
  /\ begun < MaxCalls
  /\ begun' = begun + 1
  /\ calls' = [calls EXCEPT ![h] = call]

\* What the ORM writes: the columns that differ from the copy.
Dirty(copy, wanted) ==
  [f \in {g \in DOMAIN wanted : wanted[g] # copy[g]} |-> wanted[f]]
Merge(row, changes) ==
  [f \in DOMAIN row |-> IF f \in DOMAIN changes THEN changes[f] ELSE row[f]]

\* A transaction between its flush and its commit holds the row.
Locked(u, h) == \E g \in Handlers \ {h} : Stage(g, "commit") /\ calls[g].op = "admin"
                                            /\ calls[g].u = u

-----------------------------------------------------------------------------
(* The budget for guessing *)

\* check_brute_force reads both counters at once; the delay below the lockout
\* only lets more happen before the next step.
CheckBruteForce(h) ==
  /\ Stage(h, "budget")
  /\ LET c == calls[h] IN
     IF ipfails >= IpBudget \/ fails[<<c.op, c.u>>] >= Lockout
     THEN Ends(h)
     ELSE To(h, IF c.op = "login" THEN "password" ELSE "code")
  /\ UNCHANGED <<users, fails, ipfails, burnt, step, mfa, accepted, proven, mixed, skewed, begun>>

\* The pipeline increments the first key twice.
RecordOneKey(h) ==
  /\ Stage(h, "failure")
  /\ fails' = [fails EXCEPT ![<<calls[h].op, calls[h].u>>] = @ + 2]
  /\ Ends(h)
  /\ UNCHANGED <<users, ipfails, burnt, step, mfa, accepted, proven, mixed, skewed, begun>>

RecordLoginFailure(h) ==
  /\ Stage(h, "failure")
  /\ fails' = [fails EXCEPT ![<<calls[h].op, calls[h].u>>] = @ + 1]
  /\ ipfails' = ipfails + 1
  /\ Ends(h)
  /\ UNCHANGED <<users, burnt, step, mfa, accepted, proven, mixed, skewed, begun>>

\* clear_login_failures, and what follows it: the password alone opens a
\* session only for an account without a second factor.
ClearLoginFailures(h) ==
  /\ Stage(h, "clear")
  /\ LET c == calls[h] IN
     /\ fails' = [fails EXCEPT ![<<c.op, c.u>>] = 0]
     /\ ipfails' = 0
     /\ mfa' = IF c.op = "login" /\ c.copy.enabled THEN mfa \cup {c.u} ELSE mfa
  /\ Ends(h)
  /\ UNCHANGED <<users, burnt, step, accepted, proven, mixed, skewed, begun>>

\* The window passes without a new failure and Redis drops the counters.
WindowPasses ==
  /\ \E i \in Identity : fails[i] > 0
  /\ fails' = [i \in Identity |-> 0]
  /\ ipfails' = 0
  /\ UNCHANGED <<users, burnt, step, mfa, calls, accepted, proven, mixed, skewed, begun>>

-----------------------------------------------------------------------------
(* Signing in *)

Login(h, u) ==
  /\ Begin(h, [Fresh EXCEPT !.u = u])
  /\ UNCHANGED <<users, fails, ipfails, burnt, step, mfa, accepted, proven, mixed, skewed>>

\* authenticate_local: no such row, inactive, or the wrong password, or the
\* right one.
AuthenticateLocal(h) ==
  /\ Stage(h, "password")
  /\ LET row == users[calls[h].u] IN
     \/ To(h, "failure")
     \/ /\ row # None /\ row.active
        /\ calls' = [calls EXCEPT ![h].copy = row, ![h].stage = "clear"]
  /\ UNCHANGED <<users, fails, ipfails, burnt, step, mfa, accepted, proven, mixed, skewed, begun>>

\* login_second_factor: the token proves the password step, however long ago.
LoginSecondFactor(h, u, code) ==
  /\ u \in mfa
  /\ users[u].active /\ users[u].enabled
  /\ Begin(h, [Fresh EXCEPT !.op = "factor", !.u = u, !.copy = users[u], !.code = code])
  /\ UNCHANGED <<users, fails, ipfails, burnt, step, mfa, accepted, proven, mixed, skewed>>

\* matching_step
Matches(row, code) ==
  /\ code # None /\ row.secret = code.secret
  /\ code.step \in step - Drift .. step + Drift

\* Remembered for one step: long enough for the code of now, too short for the
\* code of a clock that is ahead.
IsBurntBriefly(u, s) == \E b \in burnt : b.u = u /\ b.step = s /\ step < b.until - BurnSteps + 2

IsBurnt(u, s) == \E b \in burnt : b.u = u /\ b.step = s /\ step < b.until

\* SET nx: of two calls that bring the same code one sets the key.
Burns(u, s) == ~IsBurnt(u, s)

\* _consume_totp, and where each caller goes on from it.
ConsumeTotp(h) ==
  /\ Stage(h, "code")
  /\ LET c == calls[h]
         ok == Matches(c.copy, c.code) /\ Burns(c.u, c.code.step)
     IN
     /\ IF ok
        THEN /\ burnt' = burnt \cup {[u |-> c.u, step |-> c.code.step, until |-> step + BurnSteps]}
             /\ accepted' = [accepted EXCEPT ![<<c.u, c.code.step>>] = @ + 1]
             /\ proven' = proven \cup {<<c.u, c.copy.secret>>}
             /\ calls' = [calls EXCEPT ![h].stage = IF c.op = "factor" THEN "clear" ELSE "commit",
                                       ![h].code = None]
        ELSE /\ IF c.op = "factor"
                THEN calls' = [calls EXCEPT ![h].stage = "failure", ![h].code = None,
                                            ![h].copy = None]
                ELSE Ends(h)
             /\ UNCHANGED <<burnt, accepted, proven>>
  /\ UNCHANGED <<users, fails, ipfails, step, mfa, mixed, skewed, begun>>

Tick ==
  /\ step < MaxStep
  /\ step' = step + 1
  /\ UNCHANGED <<users, fails, ipfails, burnt, mfa, calls, accepted, proven, mixed, skewed, begun>>

-----------------------------------------------------------------------------
(* The second factor of a signed-in user: enrolment, proof, removal        *)

MaySetUp(row) == row # None /\ row.active /\ ~row.enabled

TotpSetup(h, u, secret) ==
  /\ MaySetUp(users[u])
  /\ Begin(h, [Fresh EXCEPT !.op = "setup", !.stage = "commit", !.u = u, !.copy = users[u],
                            !.wanted = [secret |-> secret]])
  /\ UNCHANGED <<users, fails, ipfails, burnt, step, mfa, accepted, proven, mixed, skewed>>

\* Enabled without asking for a code.
TotpEnableUnproven(h, u, code) ==
  /\ MaySetUp(users[u])
  /\ users[u].secret # None
  /\ Begin(h, [Fresh EXCEPT !.op = "enable", !.stage = "commit", !.u = u, !.copy = users[u],
                            !.code = code, !.wanted = [enabled |-> TRUE]])
  /\ UNCHANGED <<users, fails, ipfails, burnt, step, mfa, accepted, proven, mixed, skewed>>

TotpEnable(h, u, code) ==
  /\ MaySetUp(users[u])
  /\ Begin(h, [Fresh EXCEPT !.op = "enable", !.stage = "code", !.u = u, !.copy = users[u],
                            !.code = code, !.wanted = [enabled |-> TRUE]])
  /\ UNCHANGED <<users, fails, ipfails, burnt, step, mfa, accepted, proven, mixed, skewed>>

TotpDisable(h, u, code) ==
  /\ Exists(u) /\ users[u].active /\ users[u].enabled
  /\ Begin(h, [Fresh EXCEPT !.op = "disable", !.stage = "code", !.u = u, !.copy = users[u],
                            !.code = code, !.wanted = [enabled |-> FALSE, secret |-> None]])
  /\ UNCHANGED <<users, fails, ipfails, burnt, step, mfa, accepted, proven, mixed, skewed>>

-----------------------------------------------------------------------------
(* User administration *)

IsAdmin(row) == row # None /\ row.active /\ row.role = "admin"
Admins(rows) == {u \in Users : IsAdmin(rows[u])}

\* Nobody demotes or deactivates himself.
SpareSelf(actor, u, wanted) ==
  u = actor => /\ "active" \in DOMAIN wanted => wanted.active
               /\ "role" \in DOMAIN wanted => wanted.role = "admin"

UpdateUser(h, actor, u, wanted) ==
  /\ IsAdmin(users[actor]) /\ Exists(u)
  /\ SpareSelf(actor, u, wanted)
  /\ Begin(h, [Fresh EXCEPT !.op = "admin", !.stage = "flush", !.actor = actor, !.u = u,
                            !.copy = users[u], !.wanted = wanted])
  /\ UNCHANGED <<users, fails, ipfails, burnt, step, mfa, accepted, proven, mixed, skewed>>

DeleteUser(h, actor, u) ==
  /\ IsAdmin(users[actor]) /\ Exists(u) /\ u # actor
  /\ Begin(h, [Fresh EXCEPT !.op = "admin", !.stage = "flush", !.actor = actor, !.u = u,
                            !.copy = users[u], !.wanted = [active |-> FALSE]])
  /\ UNCHANGED <<users, fails, ipfails, burnt, step, mfa, accepted, proven, mixed, skewed>>

\* The check counts the rows before they are written.
FlushUncounted(h) ==
  /\ Stage(h, "flush")
  /\ ~Locked(calls[h].u, h)
  /\ IF Admins(users) = {} THEN Ends(h) ELSE To(h, "commit")
  /\ skewed' = (skewed \/ \E g \in Handlers \ {h} : Stage(g, "commit") /\ calls[g].op = "admin")
  /\ UNCHANGED <<users, fails, ipfails, burnt, step, mfa, accepted, proven, mixed, begun>>

\* Flush, then _assert_admin_remains counts what this transaction sees.
Flush(h) ==
  /\ Stage(h, "flush")
  /\ ~Locked(calls[h].u, h)
  /\ LET c == calls[h]
         sees == [users EXCEPT ![c.u] = Merge(@, Dirty(c.copy, c.wanted))]
     IN IF Admins(sees) = {} THEN Ends(h) ELSE To(h, "commit")
  /\ skewed' = (skewed \/ \E g \in Handlers \ {h} : Stage(g, "commit") /\ calls[g].op = "admin")
  /\ UNCHANGED <<users, fails, ipfails, burnt, step, mfa, accepted, proven, mixed, begun>>

\* create_user: the email is unique, so a row is taken once.
CreateUser(actor, u, role) ==
  /\ begun < MaxCalls
  /\ begun' = begun + 1
  /\ IsAdmin(users[actor]) /\ ~Exists(u)
  /\ users' = [users EXCEPT ![u] = [role |-> role, active |-> TRUE, secret |-> None,
                                    enabled |-> FALSE]]
  /\ UNCHANGED <<fails, ipfails, burnt, step, mfa, calls, accepted, proven, mixed, skewed>>

Commit(h) ==
  /\ Stage(h, "commit")
  /\ ~Locked(calls[h].u, h)
  /\ LET c == calls[h]
         stale == users[c.u].secret # c.copy.secret \/ users[c.u].enabled # c.copy.enabled
     IN
     /\ users' = [users EXCEPT ![c.u] = Merge(@, Dirty(c.copy, c.wanted))]
     /\ mixed' = IF stale /\ DOMAIN c.wanted \cap {"secret", "enabled"} # {}
                 THEN mixed \cup {c.u} ELSE mixed
  /\ Ends(h)
  /\ UNCHANGED <<fails, ipfails, burnt, step, mfa, accepted, proven, skewed, begun>>

-----------------------------------------------------------------------------
\* An administrator without a second factor, and possibly a colleague who has
\* one enrolled or in use.
First         == [role |-> "admin", active |-> TRUE, secret |-> None, enabled |-> FALSE]
Second(s, on) == [role |-> "admin", active |-> TRUE, secret |-> s, enabled |-> on]

Init ==
  /\ \E a \in Users :
       \/ /\ users = [u \in Users |-> IF u = a THEN First ELSE None]
          /\ proven = {}
       \/ \E b \in Users \ {a}, s \in Secrets, on \in BOOLEAN :
            /\ users = [u \in Users |-> IF u = a THEN First
                                      ELSE IF u = b THEN Second(s, on) ELSE None]
            /\ proven = IF on THEN {<<b, s>>} ELSE {}
  /\ fails = [i \in Identity |-> 0] /\ ipfails = 0
  /\ burnt = {} /\ step = Drift /\ mfa = {}
  /\ calls = [h \in Handlers |-> None]
  /\ accepted = [p \in Users \X (0 .. MaxStep + Drift) |-> 0]
  /\ mixed = {} /\ skewed = FALSE /\ begun = 0

\* Codes anybody might type: of some app, for about now.
Typed == [secret : Secrets, step : step - Drift .. step + Drift]

Work(h) ==
  \/ CheckBruteForce(h) \/ RecordLoginFailure(h) \/ ClearLoginFailures(h)
  \/ AuthenticateLocal(h) \/ ConsumeTotp(h) \/ Flush(h) \/ Commit(h)

Next ==
  \/ \E h \in Handlers, u \in Users :
       \/ Login(h, u)
       \/ \E secret \in Secrets : TotpSetup(h, u, secret)
       \/ \E code \in Typed :
            LoginSecondFactor(h, u, code) \/ TotpEnable(h, u, code) \/ TotpDisable(h, u, code)
       \/ \E actor \in Users :
            DeleteUser(h, actor, u) \/ \E wanted \in Updates : UpdateUser(h, actor, u, wanted)
  \/ \E h \in Handlers : Work(h)
  \/ \E actor, u \in Users, role \in Roles : CreateUser(actor, u, role)
  \/ WindowPasses \/ Tick

Spec == Init /\ [][Next]_vars

-----------------------------------------------------------------------------
(* Every variable keeps its type. *)
TypeOK ==
  /\ users \in [Users -> Row \cup {None}]
  /\ fails \in [Identity -> Nat] /\ ipfails \in Nat
  /\ burnt \subseteq [u : Users, step : 0 .. MaxStep + Drift,
                      until : BurnSteps .. MaxStep + BurnSteps]
  /\ step \in Drift .. MaxStep /\ mfa \subseteq Users
  /\ accepted \in [Users \X (0 .. MaxStep + Drift) -> Nat]
  /\ proven \subseteq Users \X Secrets /\ mixed \subseteq Users
  /\ skewed \in BOOLEAN /\ begun \in 0 .. MaxCalls
  /\ calls \in [Handlers -> Call \cup {None}]

(* "Check a code and burn it, so the same code cannot be replayed": the    *)
(* code of one step is accepted once, by whichever of the calls that bring *)
(* it, and the key outlives every moment the code could still match.       *)
CodeUsedOnce == \A p \in DOMAIN accepted : accepted[p] <= 1

(* "Proving a code before enabling means a mistyped secret can never lock  *)
(* the user out": a factor in force has a secret a code of which was       *)
(* accepted, unless a call wrote over a factor newer than its copy.        *)
EnabledIsProven ==
  \A u \in Users \ mixed : Exists(u) /\ users[u].enabled => <<u, users[u].secret>> \in proven

(* The budget is checked before an attempt and counted after it: calls in  *)
(* flight together overrun the lockout by no more than their number.       *)
LockoutHolds == \A i \in Identity : fails[i] <= Lockout + Cardinality(Handlers) - 1

(* The last administrator stays, unless two of their checks overlapped.    *)
AdminRemains == skewed \/ Admins(users) # {}

(* "Guard the 'at least one active admin' invariant", whatever overlaps.   *)
AlwaysAnAdmin == Admins(users) # {}

=============================================================================
