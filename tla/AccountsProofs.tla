----------------------------- MODULE AccountsProofs -----------------------------
(***************************************************************************)
(* Theorems about Accounts for every set of users, secrets and handlers,   *)
(* every drift of the clocks, and every life of a burnt code that is       *)
(* longer than the code can match.                                         *)
(***************************************************************************)
EXTENDS Accounts, FiniteSetTheorems, TLAPS

\* The calls that change a row, and what each has become so far.
Writing == {"setup", "enable", "disable", "admin"}

Shape(c) ==
  /\ c.op = "login"   => c.stage \in {"budget", "password", "failure", "clear"}
  /\ c.op = "factor"  => /\ c.stage \in {"budget", "code", "failure", "clear"}
                         /\ c.stage = "budget" => c.code \in Code
  /\ c.op = "setup"   => c.stage = "commit" /\ c.wanted \in {[secret |-> s] : s \in Secrets}
  /\ c.op = "enable"  => c.stage \in {"code", "commit"} /\ c.wanted = [enabled |-> TRUE]
  /\ c.op = "disable" => /\ c.stage \in {"code", "commit"}
                         /\ c.wanted = [enabled |-> FALSE, secret |-> None]
  /\ c.op = "admin"   => c.stage \in {"flush", "commit"} /\ c.wanted \in Updates
  /\ c.op \in Writing => c.copy \in Row /\ users[c.u] # None
  /\ c.op \in {"setup", "enable"} => ~c.copy.enabled
  /\ c.stage = "code" => c.code \in Code

Shapes == \A h \in Handlers : calls[h] # None => Shape(calls[h])

TypeInv == TypeOK /\ Shapes

-----------------------------------------------------------------------------
(* Lemmas about what is written *)

(* Writing what differs from a copy leaves a row of the table, in which    *)
(* only the columns that were asked for may have changed.                  *)
LEMMA MergeRow ==
  ASSUME NEW row \in Row, NEW copy \in Row, NEW wanted \in Updates \cup Factor
  PROVE  LET after == Merge(row, Dirty(copy, wanted)) IN
         /\ after \in Row
         /\ after.role = IF "role" \in DOMAIN wanted /\ wanted.role # copy.role
                         THEN wanted.role ELSE row.role
         /\ after.active = IF "active" \in DOMAIN wanted /\ wanted.active # copy.active
                           THEN wanted.active ELSE row.active
         /\ after.secret = IF "secret" \in DOMAIN wanted /\ wanted.secret # copy.secret
                           THEN wanted.secret ELSE row.secret
         /\ after.enabled = IF "enabled" \in DOMAIN wanted /\ wanted.enabled # copy.enabled
                            THEN wanted.enabled ELSE row.enabled
<1> DEFINE changes == Dirty(copy, wanted)
<1>1. changes = [f \in {g \in DOMAIN wanted : wanted[g] # copy[g]} |-> wanted[f]]
  BY DEF Dirty
<1>2. Merge(row, changes) =
        [f \in DOMAIN row |-> IF f \in DOMAIN wanted /\ wanted[f] # copy[f]
                              THEN wanted[f] ELSE row[f]]
  BY <1>1 DEF Merge
<1>3. DOMAIN row = {"role", "active", "secret", "enabled"}
  BY DEF Row
<1>4. /\ "role" \in DOMAIN wanted => wanted.role \in Roles
      /\ "active" \in DOMAIN wanted => wanted.active \in BOOLEAN
      /\ "secret" \in DOMAIN wanted => wanted.secret \in Secrets \cup {None}
      /\ "enabled" \in DOMAIN wanted => wanted.enabled \in BOOLEAN
  <2>1. CASE wanted \in {[role |-> r] : r \in Roles}
    BY <2>1
  <2>2. CASE wanted \in {[active |-> b] : b \in BOOLEAN}
    BY <2>2
  <2>3. CASE wanted \in {[secret |-> s] : s \in Secrets}
    BY <2>3
  <2>4. CASE wanted = [enabled |-> TRUE]
    BY <2>4
  <2>5. CASE wanted = [enabled |-> FALSE, secret |-> None]
    BY <2>5
  <2> QED  BY <2>1, <2>2, <2>3, <2>4, <2>5 DEF Updates, Factor
<1>5. PICK after : after = Merge(row, changes)
  OBVIOUS
<1>6. /\ DOMAIN after = {"role", "active", "secret", "enabled"}
      /\ after = [f \in DOMAIN after |-> after[f]]
      /\ after.role = IF "role" \in DOMAIN wanted /\ wanted.role # copy.role
                      THEN wanted.role ELSE row.role
      /\ after.active = IF "active" \in DOMAIN wanted /\ wanted.active # copy.active
                        THEN wanted.active ELSE row.active
      /\ after.secret = IF "secret" \in DOMAIN wanted /\ wanted.secret # copy.secret
                        THEN wanted.secret ELSE row.secret
      /\ after.enabled = IF "enabled" \in DOMAIN wanted /\ wanted.enabled # copy.enabled
                         THEN wanted.enabled ELSE row.enabled
  BY <1>2, <1>3, <1>5
<1>7. after.role \in Roles /\ after.active \in BOOLEAN
      /\ after.secret \in Secrets \cup {None} /\ after.enabled \in BOOLEAN
  BY <1>4, <1>6 DEF Row
<1>8. after = [role |-> after.role, active |-> after.active,
               secret |-> after.secret, enabled |-> after.enabled]
  BY <1>6
<1>9. after \in Row
  BY <1>7, <1>8 DEF Row
<1> QED  BY <1>5, <1>6, <1>9

-----------------------------------------------------------------------------
(* Types *)

(* A step of one call that leaves the rows alone keeps every call's shape. *)
LEMMA OneCall ==
  ASSUME TypeInv, NEW h \in Handlers, NEW c \in Call \cup {None},
         c # None => Shape(c), users' = users, calls' = [calls EXCEPT ![h] = c]
  PROVE  calls' \in [Handlers -> Call \cup {None}] /\ Shapes'
<1>1. calls' \in [Handlers -> Call \cup {None}]
  BY DEF TypeInv, TypeOK
<1>2. ASSUME NEW g \in Handlers, calls'[g] # None PROVE Shape(calls[g])'
  <2>1. CASE g = h
    <3>1. calls'[g] = c
      BY <2>1 DEF TypeInv, TypeOK
    <3> QED  BY <1>2, <3>1 DEF Shape
  <2>2. CASE g # h
    <3>1. calls'[g] = calls[g]
      BY <2>2 DEF TypeInv, TypeOK
    <3> QED  BY <1>2, <3>1 DEF TypeInv, Shapes, Shape
  <2> QED  BY <2>1, <2>2
<1> QED  BY <1>1, <1>2 DEF Shapes

(* A call in flight is a record of its type and shape. *)
LEMMA InFlight ==
  ASSUME TypeInv, NEW h \in Handlers, calls[h] # None
  PROVE  calls[h] \in Call /\ Shape(calls[h])
BY DEF TypeInv, TypeOK, Shapes

(* A call that moves to its next stage. *)
LEMMA Moved ==
  ASSUME NEW c \in Call, Shape(c), NEW stage,
         \/ c.op = "login" /\ stage \in {"password", "failure"}
         \/ c.op = "factor" /\ stage \in {"failure", "clear"}
         \/ c.op = "factor" /\ stage = "code" /\ c.code # None
         \/ c.op \in {"enable", "disable", "admin"} /\ stage = "commit"
  PROVE  [c EXCEPT !.stage = stage] \in Call /\ Shape([c EXCEPT !.stage = stage])
<1>1. PICK d : d = [c EXCEPT !.stage = stage]
  OBVIOUS
<1>2. /\ d.stage = stage /\ d.op = c.op /\ d.actor = c.actor /\ d.u = c.u
      /\ d.copy = c.copy /\ d.code = c.code /\ d.wanted = c.wanted
  BY <1>1 DEF Call
<1>3. d \in Call
  BY <1>1 DEF Call
<1>4. c.code # None => c.code \in Code
  BY DEF Call
<1>5. Shape(d)
  BY <1>2, <1>4 DEF Shape, Writing
<1> QED  BY <1>1, <1>3, <1>5

LEMMA InitialTypes == Init => TypeInv
<1> SUFFICES ASSUME Init PROVE TypeInv
  OBVIOUS
<1> USE DEF Init
<1>1. PICK a \in Users :
        \/ users = [u \in Users |-> IF u = a THEN First ELSE None] /\ proven = {}
        \/ \E b \in Users \ {a}, s \in Secrets, on \in BOOLEAN :
             /\ users = [u \in Users |-> IF u = a THEN First
                                       ELSE IF u = b THEN Second(s, on) ELSE None]
             /\ proven = IF on THEN {<<b, s>>} ELSE {}
  OBVIOUS
<1>2. First \in Row /\ \A s \in Secrets, on \in BOOLEAN : Second(s, on) \in Row
  BY AccountsAssumption DEF First, Second, Row
<1>3. users \in [Users -> Row \cup {None}] /\ proven \subseteq Users \X Secrets
  BY <1>1, <1>2
<1>4. /\ fails \in [Identity -> Nat] /\ ipfails \in Nat /\ mfa \subseteq Users
      /\ burnt = {} /\ accepted \in [Users \X (0 .. MaxStep + Drift) -> Nat]
      /\ mixed \subseteq Users /\ skewed \in BOOLEAN
  OBVIOUS
<1>5. step \in Drift .. MaxStep /\ begun \in 0 .. MaxCalls
  BY AccountsAssumption
<1>6. calls \in [Handlers -> Call \cup {None}] /\ Shapes
  BY DEF Shapes
<1> QED  BY <1>3, <1>4, <1>5, <1>6 DEF TypeInv, TypeOK

(* Starting: a call of its shape, and one call more made. *)
LEMMA Begun ==
  ASSUME TypeInv, NEW h \in Handlers, NEW c \in Call, Shape(c), Begin(h, c),
         UNCHANGED <<users, fails, ipfails, burnt, step, mfa, accepted, proven, mixed, skewed>>
  PROVE  TypeInv'
<1>1. calls' \in [Handlers -> Call \cup {None}] /\ Shapes'
  BY OneCall DEF Begin
<1>2. begun' \in 0 .. MaxCalls
  BY AccountsAssumption DEF Begin, TypeInv, TypeOK
<1> QED  BY <1>1, <1>2 DEF TypeInv, TypeOK

(* The codes that may be typed have their type. *)
LEMMA TypedCodes == TypeInv => Typed \subseteq Code
<1> SUFFICES ASSUME TypeInv, NEW code \in Typed PROVE code \in Code
  OBVIOUS
<1>1. PICK t \in step - Drift .. step + Drift, s \in Secrets : code = [secret |-> s, step |-> t]
  BY DEF Typed
<1>2. t \in 0 .. MaxStep + Drift
  BY AccountsAssumption DEF TypeInv, TypeOK
<1> QED  BY <1>1, <1>2 DEF Code

LEMMA BeginningKeepsTypes ==
  ASSUME TypeInv, NEW h \in Handlers, NEW u \in Users,
         \/ Login(h, u)
         \/ \E secret \in Secrets : TotpSetup(h, u, secret)
         \/ \E code \in Typed :
              LoginSecondFactor(h, u, code) \/ TotpEnable(h, u, code) \/ TotpDisable(h, u, code)
         \/ \E actor \in Users :
              DeleteUser(h, actor, u) \/ \E wanted \in Updates : UpdateUser(h, actor, u, wanted)
  PROVE  TypeInv'
<1> USE DEF Fresh, Call, Shape, Writing
<1>0. users[u] # None => users[u] \in Row
  BY DEF TypeInv, TypeOK
<1>1. CASE Login(h, u)
  <2> DEFINE c == [Fresh EXCEPT !.u = u]
  <2>1. c \in Call /\ Shape(c)
    OBVIOUS
  <2> QED  BY <1>1, <2>1, Begun DEF Login
<1>2. ASSUME NEW secret \in Secrets, TotpSetup(h, u, secret) PROVE TypeInv'
  <2> DEFINE c == [Fresh EXCEPT !.op = "setup", !.stage = "commit", !.u = u, !.copy = users[u],
                                !.wanted = [secret |-> secret]]
  <2>1. users[u] # None /\ ~users[u].enabled
    BY <1>2 DEF TotpSetup, MaySetUp
  <2>2. [secret |-> secret] \in Factor
    BY DEF Factor
  <2>3. c \in Call
    BY <1>0, <2>1, <2>2
  <2>4. Shape(c)
    BY <1>0, <2>1, <2>2
  <2> QED  BY <1>2, <2>3, <2>4, Begun DEF TotpSetup
<1>3. ASSUME NEW code \in Typed, LoginSecondFactor(h, u, code) PROVE TypeInv'
  <2> DEFINE c == [Fresh EXCEPT !.op = "factor", !.u = u, !.copy = users[u], !.code = code]
  <2>1. c \in Call
    BY <1>0, TypedCodes DEF TypeInv, TypeOK
  <2>2. Shape(c)
    BY TypedCodes
  <2> QED  BY <1>3, <2>1, <2>2, Begun DEF LoginSecondFactor
<1>4. ASSUME NEW code \in Typed, TotpEnable(h, u, code) PROVE TypeInv'
  <2> DEFINE c == [Fresh EXCEPT !.op = "enable", !.stage = "code", !.u = u, !.copy = users[u],
                                !.code = code, !.wanted = [enabled |-> TRUE]]
  <2>1. users[u] # None /\ ~users[u].enabled
    BY <1>4 DEF TotpEnable, MaySetUp
  <2>2. [enabled |-> TRUE] \in Factor /\ code \in Code
    BY TypedCodes DEF Factor
  <2>3. c \in Call
    BY <1>0, <2>1, <2>2
  <2>4. Shape(c)
    BY <1>0, <2>1, <2>2
  <2> QED  BY <1>4, <2>3, <2>4, Begun DEF TotpEnable
<1>5. ASSUME NEW code \in Typed, TotpDisable(h, u, code) PROVE TypeInv'
  <2> DEFINE c == [Fresh EXCEPT !.op = "disable", !.stage = "code", !.u = u, !.copy = users[u],
                                !.code = code, !.wanted = [enabled |-> FALSE, secret |-> None]]
  <2>1. users[u] # None
    BY <1>5 DEF TotpDisable, Exists
  <2>2. [enabled |-> FALSE, secret |-> None] \in Factor /\ code \in Code
    BY TypedCodes DEF Factor
  <2>3. c \in Call
    BY <1>0, <2>1, <2>2
  <2>4. Shape(c)
    BY <1>0, <2>1, <2>2
  <2> QED  BY <1>5, <2>3, <2>4, Begun DEF TotpDisable
<1>6. ASSUME NEW actor \in Users, NEW wanted \in Updates, UpdateUser(h, actor, u, wanted)
      PROVE  TypeInv'
  <2> DEFINE c == [Fresh EXCEPT !.op = "admin", !.stage = "flush", !.actor = actor, !.u = u,
                                !.copy = users[u], !.wanted = wanted]
  <2>1. users[u] # None
    BY <1>6 DEF UpdateUser, Exists
  <2>2. c \in Call
    BY <1>0, <2>1
  <2>3. Shape(c)
    BY <1>0, <2>1
  <2> QED  BY <1>6, <2>2, <2>3, Begun DEF UpdateUser
<1>7. ASSUME NEW actor \in Users, DeleteUser(h, actor, u) PROVE TypeInv'
  <2> DEFINE c == [Fresh EXCEPT !.op = "admin", !.stage = "flush", !.actor = actor, !.u = u,
                                !.copy = users[u], !.wanted = [active |-> FALSE]]
  <2>1. users[u] # None
    BY <1>7 DEF DeleteUser, Exists
  <2>2. [active |-> FALSE] \in Updates
    BY DEF Updates
  <2>3. c \in Call
    BY <1>0, <2>1, <2>2
  <2>4. Shape(c)
    BY <1>0, <2>1, <2>2
  <2> QED  BY <1>7, <2>3, <2>4, Begun DEF DeleteUser
<1> QED  BY <1>1, <1>2, <1>3, <1>4, <1>5, <1>6, <1>7

(* The row of a call that writes is still there when it does, and so is    *)
(* every other: rows are never deleted.                                    *)
LEMMA RowsStay ==
  ASSUME TypeInv, users' \in [Users -> Row \cup {None}],
         \A u \in Users : users[u] # None => users'[u] # None,
         NEW c \in Call, Shape(c)
  PROVE  Shape(c)'
BY DEF Shape, Call

\* The stages a call may go on to without anything else changing in it.
Onward(c, stage) ==
  \/ c.op = "login" /\ stage \in {"password", "failure"}
  \/ c.op = "factor" /\ stage \in {"failure", "clear"}
  \/ c.op = "factor" /\ stage = "code" /\ c.code # None
  \/ c.op \in {"enable", "disable", "admin"} /\ stage = "commit"

LEMMA GoesOn ==
  ASSUME TypeInv, NEW h \in Handlers, calls[h] # None, users' = users,
         NEW stage, Onward(calls[h], stage), To(h, stage)
  PROVE  calls' \in [Handlers -> Call \cup {None}] /\ Shapes'
<1>1. PICK c : c = calls[h]
  OBVIOUS
<1>2. c \in Call /\ Shape(c)
  BY <1>1, InFlight
<1>3. PICK d : d = [c EXCEPT !.stage = stage]
  OBVIOUS
<1>4. d \in Call /\ Shape(d)
  BY <1>1, <1>2, <1>3, Moved DEF Onward
<1>5. calls' = [calls EXCEPT ![h] = d]
  BY <1>1, <1>3 DEF To
<1> QED  BY <1>4, <1>5, OneCall

LEMMA WorkKeepsTypes ==
  ASSUME TypeInv, NEW h \in Handlers, Work(h)
  PROVE  TypeInv'
<1>0. calls[h] # None
  BY DEF Work, CheckBruteForce, RecordLoginFailure, ClearLoginFailures, AuthenticateLocal,
         ConsumeTotp, Flush, Commit, Stage
<1> DEFINE c == calls[h]
<1>c. c \in Call /\ Shape(c)
  BY <1>0, InFlight
<1>e. ASSUME Ends(h), users' = users
      PROVE  calls' \in [Handlers -> Call \cup {None}] /\ Shapes'
  BY <1>e, OneCall DEF Ends
<1>1. CASE CheckBruteForce(h)
  <2>1. c.op \in {"login", "factor"}
    BY <1>1, <1>c DEF CheckBruteForce, Stage, Shape, Call
  <2>2. c.op = "factor" => c.code # None
    BY <1>1, <1>c, NullAssumption DEF CheckBruteForce, Stage, Shape
  <2>3. CASE Ends(h)
    BY <1>1, <1>e, <2>3 DEF CheckBruteForce, TypeInv, TypeOK
  <2>4. CASE c.op = "login" /\ To(h, "password")
    <3>1. Onward(calls[h], "password")
      BY <2>4 DEF Onward
    <3>2. calls' \in [Handlers -> Call \cup {None}] /\ Shapes'
      <4>1. users' = users
        BY <1>1 DEF CheckBruteForce
      <4> QED  BY <1>0, <2>4, <3>1, <4>1, GoesOn, Zenon
    <3> QED  BY <1>1, <3>2 DEF CheckBruteForce, TypeInv, TypeOK
  <2>5. CASE c.op = "factor" /\ To(h, "code")
    <3>1. Onward(calls[h], "code")
      BY <2>2, <2>5 DEF Onward
    <3>2. calls' \in [Handlers -> Call \cup {None}] /\ Shapes'
      <4>1. users' = users
        BY <1>1 DEF CheckBruteForce
      <4> QED  BY <1>0, <2>5, <3>1, <4>1, GoesOn, Zenon
    <3> QED  BY <1>1, <3>2 DEF CheckBruteForce, TypeInv, TypeOK
  <2> QED  BY <1>1, <2>1, <2>3, <2>4, <2>5 DEF CheckBruteForce
<1>2. CASE RecordLoginFailure(h)
  <2>1. calls' \in [Handlers -> Call \cup {None}] /\ Shapes'
    BY <1>2, <1>e DEF RecordLoginFailure
  <2>2. c.op \in {"login", "factor"} /\ c.u \in Users
    BY <1>2, <1>c DEF RecordLoginFailure, Stage, Shape, Call
  <2>3. <<c.op, c.u>> \in Identity
    BY <2>2 DEF Identity
  <2>4. fails' \in [Identity -> Nat] /\ ipfails' \in Nat
    BY <1>2, <2>3 DEF RecordLoginFailure, TypeInv, TypeOK
  <2> QED  BY <1>2, <2>1, <2>4 DEF RecordLoginFailure, TypeInv, TypeOK
<1>3. CASE ClearLoginFailures(h)
  <2>1. calls' \in [Handlers -> Call \cup {None}] /\ Shapes'
    BY <1>3, <1>e DEF ClearLoginFailures
  <2>2. fails' \in [Identity -> Nat] /\ ipfails' \in Nat /\ mfa' \subseteq Users
    BY <1>3, <1>c DEF ClearLoginFailures, TypeInv, TypeOK, Call
  <2> QED  BY <1>3, <2>1, <2>2 DEF ClearLoginFailures, TypeInv, TypeOK
<1>4. CASE AuthenticateLocal(h)
  <2>1. c.op = "login"
    BY <1>4, <1>c DEF AuthenticateLocal, Stage, Shape, Call
  <2>2. CASE To(h, "failure")
    <3>1. calls' \in [Handlers -> Call \cup {None}] /\ Shapes'
      <4>1. users' = users
        BY <1>4 DEF AuthenticateLocal
      <4>2. Onward(calls[h], "failure")
        BY <2>1 DEF Onward
      <4> QED  BY <1>0, <2>2, <4>1, <4>2, GoesOn, Zenon
    <3> QED  BY <1>4, <3>1 DEF AuthenticateLocal, TypeInv, TypeOK
  <2>3. CASE /\ users[c.u] # None
             /\ calls' = [calls EXCEPT ![h].copy = users[c.u], ![h].stage = "clear"]
    <3>1. users[c.u] \in Row
      BY <1>c, <2>3 DEF TypeInv, TypeOK, Call
    <3>2. PICK d : d = [calls[h] EXCEPT !.copy = users[c.u], !.stage = "clear"]
      OBVIOUS
    <3>3. d \in Call
      BY <1>c, <3>1, <3>2 DEF Call
    <3>4. d.op = "login" /\ d.stage = "clear"
      BY <1>c, <2>1, <3>2 DEF Call
    <3>5. Shape(d)
      BY <3>4 DEF Shape, Writing
    <3>6. calls' = [calls EXCEPT ![h] = d]
      BY <2>3, <3>2
    <3>7. calls' \in [Handlers -> Call \cup {None}] /\ Shapes'
      BY <1>4, <3>3, <3>5, <3>6, OneCall DEF AuthenticateLocal
    <3> QED  BY <1>4, <3>7 DEF AuthenticateLocal, TypeInv, TypeOK
  <2> QED  BY <1>4, <2>2, <2>3 DEF AuthenticateLocal
<1>5. CASE ConsumeTotp(h)
  <2>1. c.op \in {"factor", "enable", "disable"} /\ c.code \in Code
    BY <1>5, <1>c DEF ConsumeTotp, Stage, Shape, Call
  <2>2. CASE /\ Matches(c.copy, c.code) /\ Burns(c.u, c.code.step)
    <3> DEFINE stage == IF c.op = "factor" THEN "clear" ELSE "commit"
    <3>1. /\ burnt' = burnt \cup {[u |-> c.u, step |-> c.code.step, until |-> step + BurnSteps]}
          /\ accepted' = [accepted EXCEPT ![<<c.u, c.code.step>>] = @ + 1]
          /\ proven' = proven \cup {<<c.u, c.copy.secret>>}
          /\ calls' = [calls EXCEPT ![h].stage = stage, ![h].code = None]
      BY <1>5, <2>2 DEF ConsumeTotp
    <3>2. c.u \in Users /\ c.code.step \in 0 .. MaxStep + Drift /\ c.code.secret \in Secrets
      BY <1>c, <2>1 DEF Call, Code
    <3>3. step + BurnSteps \in BurnSteps .. MaxStep + BurnSteps
      BY AccountsAssumption DEF TypeInv, TypeOK
    <3>4. burnt' \subseteq [u : Users, step : 0 .. MaxStep + Drift,
                           until : BurnSteps .. MaxStep + BurnSteps]
      BY <3>1, <3>2, <3>3 DEF TypeInv, TypeOK
    <3>5. accepted' \in [Users \X (0 .. MaxStep + Drift) -> Nat]
      BY <3>1, <3>2 DEF TypeInv, TypeOK
    <3>6. proven' \subseteq Users \X Secrets
      BY <2>2, <3>1, <3>2 DEF Matches, TypeInv, TypeOK
    <3>7. PICK d : d = [calls[h] EXCEPT !.stage = stage, !.code = None]
      OBVIOUS
    <3>8. d \in Call /\ d.op = c.op /\ d.stage = stage /\ d.u = c.u /\ d.copy = c.copy
          /\ d.wanted = c.wanted
      BY <1>c, <3>7 DEF Call
    <3>9. Shape(d)
      BY <1>c, <2>1, <3>8 DEF Shape, Writing
    <3>10. calls' = [calls EXCEPT ![h] = d]
      BY <3>1, <3>7
    <3>11. calls' \in [Handlers -> Call \cup {None}] /\ Shapes'
      BY <1>5, <3>8, <3>9, <3>10, OneCall DEF ConsumeTotp
    <3> QED  BY <1>5, <3>4, <3>5, <3>6, <3>11 DEF ConsumeTotp, TypeInv, TypeOK
  <2>3. CASE ~(Matches(c.copy, c.code) /\ Burns(c.u, c.code.step)) /\ c.op = "factor"
    <3>1. calls' = [calls EXCEPT ![h].stage = "failure", ![h].code = None, ![h].copy = None]
      BY <1>5, <2>3 DEF ConsumeTotp
    <3>2. PICK d : d = [calls[h] EXCEPT !.stage = "failure", !.code = None, !.copy = None]
      OBVIOUS
    <3>3. d \in Call /\ d.op = "factor" /\ d.stage = "failure"
      BY <1>c, <2>3, <3>2 DEF Call
    <3>4. Shape(d)
      BY <3>3 DEF Shape, Writing
    <3>5. calls' = [calls EXCEPT ![h] = d]
      BY <3>1, <3>2
    <3>6. calls' \in [Handlers -> Call \cup {None}] /\ Shapes'
      BY <1>5, <3>3, <3>4, <3>5, OneCall DEF ConsumeTotp
    <3> QED  BY <1>5, <2>3, <3>6 DEF ConsumeTotp, TypeInv, TypeOK
  <2>4. CASE ~(Matches(c.copy, c.code) /\ Burns(c.u, c.code.step)) /\ c.op # "factor"
    <3>1. calls' \in [Handlers -> Call \cup {None}] /\ Shapes'
      BY <1>5, <1>e, <2>4 DEF ConsumeTotp
    <3> QED  BY <1>5, <2>4, <3>1 DEF ConsumeTotp, TypeInv, TypeOK
  <2> QED  BY <2>2, <2>3, <2>4
<1>6. CASE Flush(h)
  <2>1. c.op = "admin"
    BY <1>6, <1>c DEF Flush, Stage, Shape, Call
  <2>2. calls' \in [Handlers -> Call \cup {None}] /\ Shapes'
    <3>1. CASE Ends(h)
      BY <1>6, <1>e, <3>1 DEF Flush
    <3>2. CASE To(h, "commit")
      <4>1. users' = users
        BY <1>6 DEF Flush
      <4>2. Onward(calls[h], "commit")
        BY <2>1 DEF Onward
      <4> QED  BY <1>0, <3>2, <4>1, <4>2, GoesOn, Zenon
    <3> QED  BY <1>6, <3>1, <3>2 DEF Flush
  <2>3. skewed' \in BOOLEAN
    BY <1>6 DEF Flush, TypeInv, TypeOK
  <2> QED  BY <1>6, <2>2, <2>3 DEF Flush, TypeInv, TypeOK
<1>7. CASE Commit(h)
  <2>1. c.op \in Writing /\ c.copy \in Row /\ users[c.u] \in Row /\ c.u \in Users
        /\ c.wanted \in Updates \cup Factor
    BY <1>7, <1>c DEF Commit, Stage, Shape, Call, Writing, TypeInv, TypeOK, Factor
  <2>2. PICK row : row = Merge(users[c.u], Dirty(c.copy, c.wanted))
    OBVIOUS
  <2>3. row \in Row
    BY <2>1, <2>2, MergeRow
  <2>4. users' = [users EXCEPT ![c.u] = row]
    BY <1>7, <2>2 DEF Commit
  <2>5. /\ users' \in [Users -> Row \cup {None}]
        /\ \A u \in Users : users[u] # None => users'[u] # None
    BY <2>1, <2>3, <2>4, NullAssumption DEF TypeInv, TypeOK
  <2>6. calls' \in [Handlers -> Call \cup {None}]
    BY <1>7 DEF Commit, Ends, TypeInv, TypeOK
  <2>7. ASSUME NEW g \in Handlers, calls'[g] # None PROVE Shape(calls[g])'
    <3>1. calls'[g] = calls[g]
      BY <1>7, <2>7 DEF Commit, Ends, TypeInv, TypeOK
    <3>2. PICK d : d = calls[g]
      OBVIOUS
    <3>3. d \in Call /\ Shape(d)
      BY <2>7, <3>1, <3>2, InFlight
    <3>4. Shape(d)'
      BY <2>5, <3>3, RowsStay
    <3> QED  BY <3>1, <3>2, <3>4 DEF Shape
  <2>8. mixed' \subseteq Users
    BY <1>7, <2>1 DEF Commit, TypeInv, TypeOK
  <2> QED  BY <1>7, <2>5, <2>6, <2>7, <2>8 DEF Commit, TypeInv, TypeOK, Shapes
<1> QED  BY <1>1, <1>2, <1>3, <1>4, <1>5, <1>6, <1>7 DEF Work

LEMMA OthersKeepTypes ==
  ASSUME TypeInv,
         \/ \E actor, u \in Users, role \in Roles : CreateUser(actor, u, role)
         \/ WindowPasses \/ Tick \/ UNCHANGED vars
  PROVE  TypeInv'
<1>1. ASSUME NEW actor \in Users, NEW u \in Users, NEW role \in Roles, CreateUser(actor, u, role)
      PROVE  TypeInv'
  <2>1. PICK row : row = [role |-> role, active |-> TRUE, secret |-> None, enabled |-> FALSE]
    OBVIOUS
  <2>2. row \in Row /\ users' = [users EXCEPT ![u] = row]
    BY <1>1, <2>1 DEF Row, CreateUser
  <2>3. /\ users' \in [Users -> Row \cup {None}]
        /\ \A v \in Users : users[v] # None => users'[v] # None
    BY <2>2, NullAssumption DEF TypeInv, TypeOK
  <2>4. ASSUME NEW g \in Handlers, calls'[g] # None PROVE Shape(calls[g])'
    <3>1. PICK d : d = calls[g]
      OBVIOUS
    <3>2. calls'[g] = d
      BY <1>1, <3>1 DEF CreateUser
    <3>3. d \in Call /\ Shape(d)
      BY <2>4, <3>1, <3>2, InFlight
    <3>4. Shape(d)'
      BY <2>3, <3>3, RowsStay
    <3> QED  BY <3>2, <3>4 DEF Shape
  <2>5. begun' \in 0 .. MaxCalls
    BY <1>1, AccountsAssumption DEF CreateUser, TypeInv, TypeOK
  <2> QED  BY <1>1, <2>3, <2>4, <2>5 DEF CreateUser, TypeInv, TypeOK, Shapes
<1>2. CASE WindowPasses
  BY <1>2 DEF WindowPasses, TypeInv, TypeOK, Shapes, Shape
<1>3. CASE Tick
  <2>1. step' \in Drift .. MaxStep
    BY <1>3, AccountsAssumption DEF Tick, TypeInv, TypeOK
  <2> QED  BY <1>3, <2>1 DEF Tick, TypeInv, TypeOK, Shapes, Shape
<1>4. CASE UNCHANGED vars
  BY <1>4 DEF vars, TypeInv, TypeOK, Shapes, Shape
<1> QED  BY <1>1, <1>2, <1>3, <1>4

LEMMA StepKeepsTypes == TypeInv /\ [Next]_vars => TypeInv'
BY BeginningKeepsTypes, WorkKeepsTypes, OthersKeepTypes DEF Next

(* Every variable of Accounts keeps its type, the calls in flight and      *)
(* their copies included, whatever is written over whatever.               *)
THEOREM AccountsTypeCorrect == Spec => []TypeOK
<1>1. Init => TypeInv
  BY InitialTypes
<1>2. TypeInv /\ [Next]_vars => TypeInv'
  BY StepKeepsTypes
<1>3. TypeInv => TypeOK
  BY DEF TypeInv
<1> QED  BY <1>1, <1>2, <1>3, PTL DEF Spec

-----------------------------------------------------------------------------
(* A code is accepted once *)

\* A code that was accepted is burnt until it can no longer match.
Burning ==
  \A u \in Users, s \in 0 .. MaxStep + Drift :
    accepted[<<u, s>>] > 0 =>
      /\ accepted[<<u, s>>] = 1
      /\ \E b \in burnt : b.u = u /\ b.step = s /\ b.until > s + Drift

LEMMA StepKeepsBurning == TypeInv /\ Burning /\ [Next]_vars => Burning'
<1> SUFFICES ASSUME TypeInv, Burning, [Next]_vars PROVE Burning'
  OBVIOUS
<1>1. ASSUME NEW h \in Handlers, ConsumeTotp(h), ~UNCHANGED <<accepted, burnt>>
      PROVE  Burning'
  <2>1. PICK c : c = calls[h]
    OBVIOUS
  <2>2. c \in Call /\ Shape(c) /\ c.stage = "code"
    BY <1>1, <2>1, InFlight DEF ConsumeTotp, Stage
  <2>3. c.u \in Users /\ c.code \in Code
    BY <2>2 DEF Call, Shape
  <2>4. PICK s \in 0 .. MaxStep + Drift : s = c.code.step
    BY <2>3 DEF Code
  <2>5. /\ Matches(c.copy, c.code) /\ Burns(c.u, s)
        /\ burnt' = burnt \cup {[u |-> c.u, step |-> s, until |-> step + BurnSteps]}
        /\ accepted' = [accepted EXCEPT ![<<c.u, s>>] = @ + 1]
    BY <1>1, <2>1, <2>4 DEF ConsumeTotp
  <2>6. PICK b : b = [u |-> c.u, step |-> s, until |-> step + BurnSteps]
    OBVIOUS
  <2>7. step \in Nat /\ s \in step - Drift .. step + Drift
    BY <2>4, <2>5, AccountsAssumption DEF Matches, TypeInv, TypeOK
  <2>8. b.u = c.u /\ b.step = s /\ b.until > s + Drift /\ b \in burnt'
    BY <2>5, <2>6, <2>7, AccountsAssumption
  <2>9. accepted[<<c.u, s>>] = 0
    <3>1. SUFFICES ASSUME accepted[<<c.u, s>>] > 0 PROVE FALSE
      BY <2>3 DEF TypeInv, TypeOK
    <3>2. PICK old \in burnt : old.u = c.u /\ old.step = s /\ old.until > s + Drift
      BY <2>3, <3>1 DEF Burning
    <3>3. old.until \in Nat /\ step <= s + Drift
      BY <2>7, AccountsAssumption DEF TypeInv, TypeOK
    <3>4. step < old.until
      BY <2>7, <3>2, <3>3, AccountsAssumption
    <3> QED  BY <2>5, <3>2, <3>4 DEF Burns, IsBurnt
  <2>10. ASSUME NEW u \in Users, NEW t \in 0 .. MaxStep + Drift, accepted'[<<u, t>>] > 0
         PROVE  /\ accepted'[<<u, t>>] = 1
                /\ \E x \in burnt' : x.u = u /\ x.step = t /\ x.until > t + Drift
    <3>1. CASE u = c.u /\ t = s
      <4>1. accepted'[<<u, t>>] = 1
        BY <2>3, <2>5, <2>9, <3>1 DEF TypeInv, TypeOK
      <4> QED  BY <2>8, <3>1, <4>1
    <3>2. CASE ~(u = c.u /\ t = s)
      <4>1. <<u, t>> # <<c.u, s>>
        BY <3>2
      <4>2. accepted'[<<u, t>>] = accepted[<<u, t>>]
        BY <2>3, <2>5, <4>1 DEF TypeInv, TypeOK
      <4>3. PICK x \in burnt : x.u = u /\ x.step = t /\ x.until > t + Drift
        BY <2>10, <4>2 DEF Burning
      <4>4. accepted[<<u, t>>] = 1
        BY <2>10, <4>2 DEF Burning
      <4> QED  BY <2>5, <4>2, <4>3, <4>4
    <3> QED  BY <3>1, <3>2
  <2> QED  BY <2>10 DEF Burning
<1>2. CASE UNCHANGED <<accepted, burnt>>
  BY <1>2 DEF Burning
<1>3. UNCHANGED <<accepted, burnt>> \/ \E h \in Handlers : ConsumeTotp(h)
  <2>1. ASSUME NEW h \in Handlers, Work(h), ~ConsumeTotp(h) PROVE UNCHANGED <<accepted, burnt>>
    BY <2>1 DEF Work, CheckBruteForce, RecordLoginFailure, ClearLoginFailures,
                AuthenticateLocal, Flush, Commit
  <2>2. ASSUME NEW h \in Handlers, NEW u \in Users,
               \/ Login(h, u)
               \/ \E secret \in Secrets : TotpSetup(h, u, secret)
               \/ \E code \in Typed :
                    LoginSecondFactor(h, u, code) \/ TotpEnable(h, u, code)
                      \/ TotpDisable(h, u, code)
        PROVE  UNCHANGED <<accepted, burnt>>
    BY <2>2 DEF Login, TotpSetup, LoginSecondFactor, TotpEnable, TotpDisable
  <2>3. ASSUME NEW h \in Handlers, NEW u \in Users, NEW actor \in Users,
               DeleteUser(h, actor, u) \/ \E wanted \in Updates : UpdateUser(h, actor, u, wanted)
        PROVE  UNCHANGED <<accepted, burnt>>
    BY <2>3 DEF DeleteUser, UpdateUser
  <2>4. ASSUME \/ \E actor, u \in Users, role \in Roles : CreateUser(actor, u, role)
               \/ WindowPasses \/ Tick \/ UNCHANGED vars
        PROVE  UNCHANGED <<accepted, burnt>>
    BY <2>4 DEF CreateUser, WindowPasses, Tick, vars
  <2> QED  BY <2>1, <2>2, <2>3, <2>4 DEF Next
<1> QED  BY <1>1, <1>2, <1>3

(* The code of one step signs in, enables or disables once, however many   *)
(* calls bring it and however far apart, as long as a burnt code is        *)
(* remembered for longer than it matches (_consume_totp).                  *)
THEOREM CodeIsUsedOnce == Spec => []CodeUsedOnce
<1>1. Init => TypeInv
  BY InitialTypes
<1>2. Init => Burning
  BY DEF Init, Burning
<1>3. TypeInv /\ Burning /\ [Next]_vars => TypeInv' /\ Burning'
  BY StepKeepsTypes, StepKeepsBurning
<1>4. TypeInv /\ Burning => CodeUsedOnce
  <2> SUFFICES ASSUME TypeInv, Burning, NEW p \in DOMAIN accepted PROVE accepted[p] <= 1
    BY DEF CodeUsedOnce
  <2>1. PICK u \in Users, s \in 0 .. MaxStep + Drift : p = <<u, s>>
    BY DEF TypeInv, TypeOK
  <2>2. accepted[p] \in Nat
    BY DEF TypeInv, TypeOK
  <2> QED  BY <2>1, <2>2 DEF Burning
<1> QED  BY <1>1, <1>2, <1>3, <1>4, PTL DEF Spec

-----------------------------------------------------------------------------
(* The last administrator *)

\* A call that counted the administrators and has not committed; what it
\* counted, with the table as it is now.
Checked(c) == c # None /\ c.stage = "commit" /\ c.op = "admin"
Sees(c)    == [users EXCEPT ![c.u] = Merge(@, Dirty(c.copy, c.wanted))]

AdminInv ==
  \/ skewed
  \/ /\ Admins(users) # {}
     /\ \A h \in Handlers : Checked(calls[h]) =>
          Admins(Sees(calls[h])) # {} /\ \A g \in Handlers \ {h} : ~Checked(calls[g])

(* Nobody ceases to be an administrator whose role and active flag stay.   *)
LEMMA StillAdmins ==
  ASSUME NEW rows \in [Users -> Row \cup {None}], NEW after \in [Users -> Row \cup {None}],
         \A u \in Users : rows[u] # None =>
           after[u] # None /\ after[u].role = rows[u].role /\ after[u].active = rows[u].active,
         Admins(rows) # {}
  PROVE  Admins(after) # {}
BY DEF Admins, IsAdmin

(* What a call will write, while others write other columns of that row or *)
(* other rows.                                                             *)
LEMMA StillSeen ==
  ASSUME TypeInv, NEW c \in Call, Shape(c), Checked(c), users' \in [Users -> Row \cup {None}],
         \A u \in Users : users[u] # None =>
           /\ users'[u] # None
           /\ users'[u].role = users[u].role /\ users'[u].active = users[u].active,
         Admins(Sees(c)) # {}
  PROVE  Admins(Sees(c))' # {}
<1>1. c.u \in Users /\ c.copy \in Row /\ c.wanted \in Updates \cup Factor
      /\ users[c.u] \in Row /\ users'[c.u] \in Row
  BY DEF Checked, Shape, Call, Writing, TypeInv, TypeOK
<1>2. PICK now : now = Merge(users[c.u], Dirty(c.copy, c.wanted))
  OBVIOUS
<1>3. PICK later : later = Merge(users'[c.u], Dirty(c.copy, c.wanted))
  OBVIOUS
<1>4. now \in Row /\ later \in Row /\ later.role = now.role /\ later.active = now.active
  <2>1. PICK row \in Row, row2 \in Row, copy \in Row, wanted \in Updates \cup Factor :
          row = users[c.u] /\ row2 = users'[c.u] /\ copy = c.copy /\ wanted = c.wanted
    BY <1>1
  <2>2. row2.role = row.role /\ row2.active = row.active
    BY <1>1, <2>1, NullAssumption
  <2>3. now = Merge(row, Dirty(copy, wanted)) /\ later = Merge(row2, Dirty(copy, wanted))
    BY <1>2, <1>3, <2>1
  <2>4. /\ now \in Row
        /\ now.role = IF "role" \in DOMAIN wanted /\ wanted.role # copy.role
                      THEN wanted.role ELSE row.role
        /\ now.active = IF "active" \in DOMAIN wanted /\ wanted.active # copy.active
                        THEN wanted.active ELSE row.active
    BY <2>3, MergeRow, Zenon
  <2>5. /\ later \in Row
        /\ later.role = IF "role" \in DOMAIN wanted /\ wanted.role # copy.role
                        THEN wanted.role ELSE row2.role
        /\ later.active = IF "active" \in DOMAIN wanted /\ wanted.active # copy.active
                          THEN wanted.active ELSE row2.active
    BY <2>3, MergeRow, Zenon
  <2> QED  BY <2>2, <2>4, <2>5
<1>5. PICK rows : rows = [users EXCEPT ![c.u] = now]
  OBVIOUS
<1>6. PICK after : after = [users' EXCEPT ![c.u] = later]
  OBVIOUS
<1>7. rows = Sees(c) /\ after = Sees(c)'
  BY <1>2, <1>3, <1>5, <1>6 DEF Sees
<1>8. rows \in [Users -> Row \cup {None}] /\ after \in [Users -> Row \cup {None}]
  BY <1>4, <1>5, <1>6 DEF TypeInv, TypeOK
<1>9. \A u \in Users : rows[u] # None =>
         after[u] # None /\ after[u].role = rows[u].role /\ after[u].active = rows[u].active
  BY <1>1, <1>4, <1>5, <1>6, NullAssumption DEF TypeInv, TypeOK
<1>10. Admins(rows) # {}
  BY <1>7
<1>11. Admins(after) # {}
  BY <1>8, <1>9, <1>10, StillAdmins
<1> QED  BY <1>7, <1>11 DEF Admins

(* A step that leaves everybody's role and flag alone, and lets no call    *)
(* pass its check.                                                         *)
LEMMA AdminsLeftAlone ==
  ASSUME TypeInv, TypeInv', AdminInv, skewed' = skewed,
         \A u \in Users : users[u] # None =>
           /\ users'[u] # None
           /\ users'[u].role = users[u].role /\ users'[u].active = users[u].active,
         \A g \in Handlers : calls'[g] = calls[g] \/ ~Checked(calls[g])'
  PROVE  AdminInv'
<1>1. CASE skewed
  BY <1>1 DEF AdminInv
<1>2. CASE ~skewed
  <2>1. users \in [Users -> Row \cup {None}] /\ users' \in [Users -> Row \cup {None}]
    BY DEF TypeInv, TypeOK
  <2>2. Admins(users)' # {}
    <3>1. Admins(users) # {}
      BY <1>2 DEF AdminInv
    <3>2. PICK after : after = users'
      OBVIOUS
    <3>3. Admins(after) # {}
      BY <2>1, <3>1, <3>2, StillAdmins
    <3> QED  BY <3>2, <3>3 DEF Admins
  <2>3. ASSUME NEW h \in Handlers, Checked(calls[h])'
        PROVE  Admins(Sees(calls[h]))' # {} /\ \A g \in Handlers \ {h} : ~Checked(calls[g])'
    <3>1. PICK c : c = calls[h]
      OBVIOUS
    <3>2. calls'[h] = c
      BY <2>3, <3>1
    <3>3. Checked(c) /\ c \in Call /\ Shape(c)
      BY <2>3, <3>1, <3>2, InFlight DEF Checked
    <3>4. Admins(Sees(c)) # {} /\ \A g \in Handlers \ {h} : ~Checked(calls[g])
      BY <1>2, <3>1, <3>3 DEF AdminInv
    <3>5. Admins(Sees(c))' # {}
      BY <2>1, <3>3, <3>4, StillSeen
    <3>6. Admins(Sees(calls[h]))' # {}
      BY <3>2, <3>5 DEF Admins, Sees
    <3>7. \A g \in Handlers \ {h} : ~Checked(calls[g])'
      BY <3>4 DEF Checked
    <3> QED  BY <3>6, <3>7
  <2> QED  BY <1>2, <2>2, <2>3 DEF AdminInv
<1> QED  BY <1>1, <1>2

(* What a commit makes of the row.                                         *)
LEMMA CommittedRow ==
  ASSUME TypeInv, NEW h \in Handlers, Commit(h)
  PROVE  /\ calls[h] \in Call /\ Shape(calls[h]) /\ calls[h].u \in Users
         /\ calls[h].stage = "commit" /\ calls[h].op \in Writing
         /\ users[calls[h].u] \in Row /\ calls[h].copy \in Row
         /\ calls[h].wanted \in Updates \cup Factor
         /\ \E row \in Row :
              /\ row = Merge(users[calls[h].u], Dirty(calls[h].copy, calls[h].wanted))
              /\ users' = [users EXCEPT ![calls[h].u] = row]
<1>1. PICK c : c = calls[h]
  OBVIOUS
<1>2. c \in Call /\ Shape(c) /\ c.stage = "commit"
  BY <1>1, InFlight DEF Commit, Stage
<1>3. c.op \in Writing /\ c.u \in Users /\ c.copy \in Row /\ c.wanted \in Updates \cup Factor
      /\ users[c.u] \in Row
  BY <1>2 DEF Shape, Call, Writing, TypeInv, TypeOK, Factor
<1>4. PICK row : row = Merge(users[c.u], Dirty(c.copy, c.wanted))
  OBVIOUS
<1>5. row \in Row
  BY <1>3, <1>4, MergeRow
<1>6. users' = [users EXCEPT ![c.u] = row]
  BY <1>1, <1>4 DEF Commit
<1> QED  BY <1>1, <1>2, <1>3, <1>4, <1>5, <1>6

LEMMA StepKeepsAdmins == TypeInv /\ TypeInv' /\ AdminInv /\ [Next]_vars => AdminInv'
<1> SUFFICES ASSUME TypeInv, TypeInv', AdminInv, [Next]_vars PROVE AdminInv'
  OBVIOUS
<1> USE DEF TypeInv
<1>1. ASSUME NEW h \in Handlers, Flush(h) PROVE AdminInv'
  <2>1. PICK c : c = calls[h]
    OBVIOUS
  <2>2. c.stage = "flush" /\ c \in Call /\ c # None
    BY <1>1, <2>1, InFlight DEF Flush, Stage
  <2>3. CASE Ends(h)
    <3>1. \A g \in Handlers : calls'[g] = calls[g] \/ ~Checked(calls[g])'
      BY <2>3 DEF Ends, TypeOK, Checked
    <3>2. CASE skewed' = skewed
      BY <1>1, <3>1, <3>2, AdminsLeftAlone DEF Flush
    <3>3. CASE skewed'
      BY <3>3 DEF AdminInv
    <3> QED  BY <1>1, <3>2, <3>3 DEF Flush, TypeOK
  <2>4. CASE skewed'
    BY <2>4 DEF AdminInv
  <2>5. CASE ~skewed' /\ To(h, "commit") /\ Admins(Sees(c)) # {}
    <3>1. ~skewed /\ \A g \in Handlers \ {h} : ~Checked(calls[g])
      BY <1>1, <2>5 DEF Flush, Stage, Checked
    <3>2. Admins(users) # {} /\ users' = users
      BY <1>1, <3>1 DEF AdminInv, Flush
    <3>3. \A g \in Handlers \ {h} : calls'[g] = calls[g]
      BY <2>5 DEF To, TypeOK
    <3>4. \A g \in Handlers \ {h} : ~Checked(calls[g])'
      BY <3>1, <3>3 DEF Checked
    <3>5. PICK d : d = [c EXCEPT !.stage = "commit"]
      OBVIOUS
    <3>6. calls'[h] = d
      BY <2>1, <2>5, <3>5 DEF To, TypeOK
    <3>7. d.u = c.u /\ d.copy = c.copy /\ d.wanted = c.wanted
      BY <2>2, <3>5 DEF Call
    <3>8. Sees(calls[h])' = Sees(c)
      BY <3>2, <3>6, <3>7 DEF Sees
    <3>9. Admins(Sees(calls[h]))' # {}
      BY <2>5, <3>8 DEF Admins
    <3>10. Admins(users)' # {}
      BY <3>2 DEF Admins
    <3>11. \A g \in Handlers : Checked(calls[g])' =>
             Admins(Sees(calls[g]))' # {} /\ \A f \in Handlers \ {g} : ~Checked(calls[f])'
      BY <3>4, <3>9
    <3> QED  BY <2>5, <3>10, <3>11 DEF AdminInv
  <2>6. Ends(h) \/ (To(h, "commit") /\ Admins(Sees(c)) # {})
    BY <1>1, <2>1 DEF Flush, Sees
  <2>7. skewed' \in BOOLEAN
    BY DEF TypeOK
  <2> QED  BY <2>3, <2>4, <2>5, <2>6, <2>7
<1>2. ASSUME NEW h \in Handlers, Commit(h) PROVE AdminInv'
  <2>1. PICK c : c = calls[h]
    OBVIOUS
  <2>2. PICK row \in Row : /\ row = Merge(users[c.u], Dirty(c.copy, c.wanted))
                          /\ users' = [users EXCEPT ![c.u] = row]
    BY <1>2, <2>1, CommittedRow
  <2>3. /\ c \in Call /\ Shape(c) /\ c.u \in Users /\ c.stage = "commit" /\ c.op \in Writing
        /\ users[c.u] \in Row /\ c.copy \in Row /\ c.wanted \in Updates \cup Factor
    BY <1>2, <2>1, CommittedRow
  <2>4. \A g \in Handlers : calls'[g] = calls[g] \/ ~Checked(calls[g])'
    BY <1>2 DEF Commit, Ends, TypeOK, Checked
  <2>5. skewed' = skewed
    BY <1>2 DEF Commit
  <2>6. CASE c.op # "admin"
    <3>1. c.wanted \in {[secret |-> s] : s \in Secrets} \cup {[enabled |-> TRUE]}
                      \cup {[enabled |-> FALSE, secret |-> None]}
      BY <2>3, <2>6 DEF Shape, Writing
    <3>2. "role" \notin DOMAIN c.wanted /\ "active" \notin DOMAIN c.wanted
      BY <3>1
    <3>3. PICK before \in Row, copy \in Row, wanted \in Updates \cup Factor :
            before = users[c.u] /\ copy = c.copy /\ wanted = c.wanted
      BY <2>3
    <3>4. row = Merge(before, Dirty(copy, wanted))
      BY <2>2, <3>3
    <3>5. /\ row.role = IF "role" \in DOMAIN wanted /\ wanted.role # copy.role
                       THEN wanted.role ELSE before.role
          /\ row.active = IF "active" \in DOMAIN wanted /\ wanted.active # copy.active
                         THEN wanted.active ELSE before.active
      BY <3>4, MergeRow, Zenon
    <3>6. row.role = users[c.u].role /\ row.active = users[c.u].active
      BY <3>2, <3>3, <3>5
    <3>7. \A u \in Users : users[u] # None =>
            /\ users'[u] # None
            /\ users'[u].role = users[u].role /\ users'[u].active = users[u].active
      BY <2>2, <2>3, <3>6, NullAssumption DEF TypeOK
    <3> QED  BY <2>4, <2>5, <3>7, AdminsLeftAlone
  <2>7. CASE c.op = "admin"
    <3>1. CASE skewed
      BY <2>5, <3>1 DEF AdminInv
    <3>2. CASE ~skewed
      <4>1. Checked(c)
        BY <1>2, <2>1, <2>3, <2>7 DEF Checked, Commit, Stage
      <4>2. Admins(Sees(c)) # {} /\ \A g \in Handlers \ {h} : ~Checked(calls[g])
        BY <2>1, <3>2, <4>1 DEF AdminInv
      <4>3. users' = Sees(c)
        BY <2>2 DEF Sees
      <4>4. Admins(users)' # {}
        BY <4>2, <4>3 DEF Admins
      <4>5. \A g \in Handlers : ~Checked(calls[g])'
        BY <1>2, <4>2 DEF Commit, Ends, TypeOK, Checked
      <4> QED  BY <4>4, <4>5 DEF AdminInv
    <3> QED  BY <3>1, <3>2
  <2> QED  BY <2>6, <2>7
<1>3. ASSUME NEW actor \in Users, NEW u \in Users, NEW role \in Roles, CreateUser(actor, u, role)
      PROVE  AdminInv'
  <2>1. PICK row : row = [role |-> role, active |-> TRUE, secret |-> None, enabled |-> FALSE]
    OBVIOUS
  <2>2. users[u] = None /\ users' = [users EXCEPT ![u] = row]
    BY <1>3, <2>1 DEF CreateUser, Exists
  <2>3. \A v \in Users : users[v] # None => users'[v] = users[v]
    BY <2>2 DEF TypeOK
  <2>4. skewed' = skewed /\ calls' = calls
    BY <1>3 DEF CreateUser
  <2> QED  BY <2>3, <2>4, AdminsLeftAlone
<1>4. ASSUME NEW h \in Handlers, NEW c, Begin(h, c), ~Checked(c), users' = users, skewed' = skewed
      PROVE  AdminInv'
  <2>1. \A g \in Handlers : calls'[g] = calls[g] \/ ~Checked(calls[g])'
    BY <1>4 DEF Begin, TypeOK, Checked
  <2> QED  BY <1>4, <2>1, AdminsLeftAlone
<1>5. ASSUME NEW h \in Handlers, NEW u \in Users,
             \/ Login(h, u)
             \/ \E secret \in Secrets : TotpSetup(h, u, secret)
             \/ \E code \in Typed :
                  LoginSecondFactor(h, u, code) \/ TotpEnable(h, u, code) \/ TotpDisable(h, u, code)
             \/ \E actor \in Users :
                  DeleteUser(h, actor, u) \/ \E wanted \in Updates : UpdateUser(h, actor, u, wanted)
      PROVE  AdminInv'
  <2>1. CASE Login(h, u)
    <3> DEFINE c == [Fresh EXCEPT !.u = u]
    <3>1. ~Checked(c)
      BY DEF Fresh, Checked
    <3> QED  BY <2>1, <3>1, <1>4 DEF Login
  <2>2. ASSUME NEW secret \in Secrets, TotpSetup(h, u, secret) PROVE AdminInv'
    <3> DEFINE c == [Fresh EXCEPT !.op = "setup", !.stage = "commit", !.u = u, !.copy = users[u],
                                  !.wanted = [secret |-> secret]]
    <3>1. ~Checked(c)
      BY DEF Fresh, Checked
    <3> QED  BY <2>2, <3>1, <1>4 DEF TotpSetup
  <2>3. ASSUME NEW code \in Typed, LoginSecondFactor(h, u, code) PROVE AdminInv'
    <3> DEFINE c == [Fresh EXCEPT !.op = "factor", !.u = u, !.copy = users[u], !.code = code]
    <3>1. ~Checked(c)
      BY DEF Fresh, Checked
    <3> QED  BY <2>3, <3>1, <1>4 DEF LoginSecondFactor
  <2>4. ASSUME NEW code \in Typed, TotpEnable(h, u, code) PROVE AdminInv'
    <3> DEFINE c == [Fresh EXCEPT !.op = "enable", !.stage = "code", !.u = u, !.copy = users[u],
                                  !.code = code, !.wanted = [enabled |-> TRUE]]
    <3>1. ~Checked(c)
      BY DEF Fresh, Checked
    <3> QED  BY <2>4, <3>1, <1>4 DEF TotpEnable
  <2>5. ASSUME NEW code \in Typed, TotpDisable(h, u, code) PROVE AdminInv'
    <3> DEFINE c == [Fresh EXCEPT !.op = "disable", !.stage = "code", !.u = u, !.copy = users[u],
                                  !.code = code, !.wanted = [enabled |-> FALSE, secret |-> None]]
    <3>1. ~Checked(c)
      BY DEF Fresh, Checked
    <3> QED  BY <2>5, <3>1, <1>4 DEF TotpDisable
  <2>6. ASSUME NEW actor \in Users, DeleteUser(h, actor, u) PROVE AdminInv'
    <3> DEFINE c == [Fresh EXCEPT !.op = "admin", !.stage = "flush", !.actor = actor, !.u = u,
                                  !.copy = users[u], !.wanted = [active |-> FALSE]]
    <3>1. ~Checked(c)
      BY DEF Fresh, Checked
    <3> QED  BY <2>6, <3>1, <1>4 DEF DeleteUser
  <2>7. ASSUME NEW actor \in Users, NEW wanted \in Updates, UpdateUser(h, actor, u, wanted)
        PROVE  AdminInv'
    <3> DEFINE c == [Fresh EXCEPT !.op = "admin", !.stage = "flush", !.actor = actor, !.u = u,
                                  !.copy = users[u], !.wanted = wanted]
    <3>1. ~Checked(c)
      BY DEF Fresh, Checked
    <3> QED  BY <2>7, <3>1, <1>4 DEF UpdateUser
  <2> QED  BY <1>5, <2>1, <2>2, <2>3, <2>4, <2>5, <2>6, <2>7
<1>6. ASSUME NEW h \in Handlers, Work(h), ~Flush(h), ~Commit(h) PROVE AdminInv'
  <2>1. users' = users /\ skewed' = skewed
    BY <1>6 DEF Work, CheckBruteForce, RecordLoginFailure, ClearLoginFailures, AuthenticateLocal,
                ConsumeTotp
  <2>2. \A g \in Handlers \ {h} : calls'[g] = calls[g]
    BY <1>6 DEF Work, CheckBruteForce, RecordLoginFailure, ClearLoginFailures, AuthenticateLocal,
                ConsumeTotp, Ends, To, TypeOK
  <2>3. calls[h] # None /\ (calls[h].stage \in {"budget", "failure", "clear", "password", "code"})
    BY <1>6 DEF Work, CheckBruteForce, RecordLoginFailure, ClearLoginFailures, AuthenticateLocal,
                ConsumeTotp, Stage
  <2>4. calls[h] \in Call /\ calls[h].op # "admin"
    BY <2>3, InFlight DEF Shape
  <2>5. calls'[h] = None \/ calls'[h].op = calls[h].op
    BY <1>6, <2>4 DEF Work, CheckBruteForce, RecordLoginFailure, ClearLoginFailures,
         AuthenticateLocal, ConsumeTotp, Ends, To, TypeOK, Call
  <2>6. ~Checked(calls[h])'
    BY <2>4, <2>5 DEF Checked
  <2> QED  BY <2>1, <2>2, <2>6, AdminsLeftAlone
<1>7. CASE WindowPasses \/ Tick \/ UNCHANGED vars
  <2>1. users' = users /\ skewed' = skewed /\ calls' = calls
    BY <1>7 DEF WindowPasses, Tick, vars
  <2> QED  BY <2>1, AdminsLeftAlone
<1> QED  BY <1>1, <1>2, <1>3, <1>5, <1>6, <1>7 DEF Next

(* As long as no two administrators' checks overlap, an active             *)
(* administrator is left, whatever else is in flight: the count a call     *)
(* makes after its own flush stays true until it commits, because nothing  *)
(* but another such call changes a role or a flag (_assert_admin_remains). *)
THEOREM AnAdminRemains == Spec => []AdminRemains
<1>1. Init => TypeInv
  BY InitialTypes
<1>2. Init => AdminInv
  <2> SUFFICES ASSUME Init PROVE AdminInv
    OBVIOUS
  <2>1. PICK a \in Users : users[a] = First
    BY DEF Init
  <2>2. First \in Row
    BY AccountsAssumption DEF First, Row
  <2>3. First # None
    BY <2>2, NullAssumption
  <2>4. a \in Admins(users)
    BY <2>1, <2>3 DEF Admins, IsAdmin, First
  <2> QED  BY <2>4 DEF Init, AdminInv, Checked
<1>3. TypeInv /\ AdminInv /\ [Next]_vars => TypeInv' /\ AdminInv'
  BY StepKeepsTypes, StepKeepsAdmins
<1>4. AdminInv => AdminRemains
  BY DEF AdminInv, AdminRemains
<1> QED  BY <1>1, <1>2, <1>3, <1>4, PTL DEF Spec

-----------------------------------------------------------------------------
(* A factor in force was proven *)

\* A call that is about to enable a factor had a code of its secret accepted.
FactorInv ==
  /\ EnabledIsProven
  /\ \A h \in Handlers :
       calls[h] # None /\ calls[h].op = "enable" /\ calls[h].stage = "commit" =>
         <<calls[h].u, calls[h].copy.secret>> \in proven

LEMMA StepKeepsFactors == TypeInv /\ TypeInv' /\ FactorInv /\ [Next]_vars => FactorInv'
<1> SUFFICES ASSUME TypeInv, TypeInv', FactorInv, [Next]_vars PROVE FactorInv'
  OBVIOUS
<1> USE DEF TypeInv
<1>0. ASSUME \A u \in Users : users'[u] = users[u] \/ ~users'[u].enabled, mixed' = mixed,
             proven \subseteq proven',
             \A h \in Handlers : \/ calls'[h] = calls[h] \/ calls'[h] = None
                                \/ calls'[h].op # "enable" \/ calls'[h].stage # "commit"
      PROVE  FactorInv'
  <2>1. EnabledIsProven'
    BY <1>0 DEF EnabledIsProven, FactorInv, Exists
  <2> QED  BY <1>0, <2>1 DEF FactorInv
<1>1. ASSUME NEW h \in Handlers, ConsumeTotp(h) PROVE FactorInv'
  <2>1. PICK c : c = calls[h]
    OBVIOUS
  <2>2. c \in Call /\ c # None
    BY <1>1, <2>1, InFlight DEF ConsumeTotp, Stage
  <2>3. EnabledIsProven'
    BY <1>1 DEF ConsumeTotp, FactorInv, EnabledIsProven, Exists
  <2>4. ASSUME NEW g \in Handlers, calls'[g] # None, calls'[g].op = "enable",
               calls'[g].stage = "commit"
        PROVE  <<calls'[g].u, calls'[g].copy.secret>> \in proven'
    <3>1. CASE calls'[g] = calls[g]
      BY <1>1, <2>4, <3>1 DEF ConsumeTotp, FactorInv
    <3>2. CASE calls'[g] # calls[g]
      <4>1. g = h
        BY <1>1, <3>2 DEF ConsumeTotp, Ends, TypeOK
      <4>2. CASE calls'[h] = [c EXCEPT !.stage = "commit", !.code = None]
                 /\ proven' = proven \cup {<<c.u, c.copy.secret>>}
        BY <2>2, <4>1, <4>2 DEF Call
      <4>3. CASE calls'[h] = [c EXCEPT !.stage = "clear", !.code = None]
        BY <2>2, <2>4, <4>1, <4>3 DEF Call
      <4>4. CASE calls'[h] = [c EXCEPT !.stage = "failure", !.code = None, !.copy = None]
        BY <2>2, <2>4, <4>1, <4>4 DEF Call
      <4>5. CASE calls'[h] = None
        BY <2>4, <4>1, <4>5
      <4> QED  BY <1>1, <2>1, <4>2, <4>3, <4>4, <4>5 DEF ConsumeTotp, Ends, TypeOK
    <3> QED  BY <3>1, <3>2
  <2> QED  BY <2>3, <2>4 DEF FactorInv
<1>2. ASSUME NEW h \in Handlers, Commit(h) PROVE FactorInv'
  <2>1. PICK c : c = calls[h]
    OBVIOUS
  <2>2. PICK row \in Row : /\ row = Merge(users[c.u], Dirty(c.copy, c.wanted))
                          /\ users' = [users EXCEPT ![c.u] = row]
    BY <1>2, <2>1, CommittedRow
  <2>3. /\ c \in Call /\ Shape(c) /\ c.u \in Users /\ c.stage = "commit" /\ c.op \in Writing
        /\ users[c.u] \in Row /\ c.copy \in Row /\ c.wanted \in Updates \cup Factor
    BY <1>2, <2>1, CommittedRow
  <2>4. /\ proven' = proven /\ mixed \subseteq mixed'
        /\ c.u \notin mixed' => \/ DOMAIN c.wanted \cap {"secret", "enabled"} = {}
                               \/ /\ users[c.u].secret = c.copy.secret
                                  /\ users[c.u].enabled = c.copy.enabled
    BY <1>2, <2>1 DEF Commit
  <2>5. PICK before \in Row, copy \in Row, wanted \in Updates \cup Factor :
          before = users[c.u] /\ copy = c.copy /\ wanted = c.wanted
    BY <2>3
  <2>6. row = Merge(before, Dirty(copy, wanted))
    BY <2>2, <2>5
  <2>7. /\ row.secret = IF "secret" \in DOMAIN wanted /\ wanted.secret # copy.secret
                       THEN wanted.secret ELSE before.secret
        /\ row.enabled = IF "enabled" \in DOMAIN wanted /\ wanted.enabled # copy.enabled
                        THEN wanted.enabled ELSE before.enabled
    BY <2>6, MergeRow, Zenon
  <2>8. ASSUME c.u \notin mixed', row.enabled PROVE <<c.u, row.secret>> \in proven
    <3>1. c.u \notin mixed /\ users[c.u] # None
      BY <2>3, <2>4, <2>8, NullAssumption
    <3>2. CASE "secret" \notin DOMAIN wanted /\ "enabled" \notin DOMAIN wanted
      <4>1. row.secret = before.secret /\ row.enabled = before.enabled
        BY <2>7, <3>2
      <4> QED  BY <2>3, <2>5, <2>8, <3>1, <4>1 DEF FactorInv, EnabledIsProven, Exists
    <3>3. CASE wanted \in {[secret |-> s] : s \in Secrets}
      <4>1. "enabled" \notin DOMAIN wanted /\ "secret" \in DOMAIN wanted
        BY <3>3
      <4>2. before.enabled = copy.enabled
        BY <2>4, <2>5, <2>8, <4>1
      <4>3. c.op = "setup"
        <5>1. c.op # "enable" /\ c.op # "disable"
          BY <2>3, <2>5, <4>1 DEF Shape
        <5>2. wanted \notin Updates
          BY <4>1 DEF Updates
        <5> QED  BY <2>3, <2>5, <5>1, <5>2 DEF Shape, Writing
      <4> QED  BY <2>3, <2>5, <2>7, <2>8, <4>1, <4>2, <4>3 DEF Shape
    <3>4. CASE wanted = [enabled |-> TRUE]
      <4>1. "enabled" \in DOMAIN wanted /\ "secret" \notin DOMAIN wanted
        BY <3>4
      <4>2. row.secret = copy.secret
        BY <2>4, <2>5, <2>7, <2>8, <4>1
      <4>3. c.op = "enable"
        <5>1. wanted \notin Updates /\ wanted \notin {[secret |-> s] : s \in Secrets}
          BY <4>1 DEF Updates
        <5>2. wanted # [enabled |-> FALSE, secret |-> None]
          BY <4>1
        <5> QED  BY <2>3, <2>5, <5>1, <5>2 DEF Shape, Writing
      <4>4. c # None
        BY <1>2, <2>1 DEF Commit, Stage
      <4> QED  BY <2>1, <2>3, <2>5, <4>2, <4>3, <4>4 DEF FactorInv
    <3>5. CASE wanted = [enabled |-> FALSE, secret |-> None]
      <4>1. "enabled" \in DOMAIN wanted /\ "secret" \in DOMAIN wanted /\ wanted.enabled = FALSE
        BY <3>5
      <4>2. before.enabled = copy.enabled
        BY <2>4, <2>5, <2>8, <4>1
      <4>3. row.enabled = FALSE
        BY <2>7, <4>1, <4>2 DEF Row
      <4> QED  BY <2>8, <4>3
    <3>6. CASE wanted \in {[role |-> r] : r \in Roles} \cup {[active |-> b] : b \in BOOLEAN}
      BY <3>2, <3>6
    <3> QED  BY <3>3, <3>4, <3>5, <3>6 DEF Updates, Factor
  <2>9. EnabledIsProven'
    <3> SUFFICES ASSUME NEW u \in Users, u \notin mixed', users'[u] # None, users'[u].enabled
                 PROVE  <<u, users'[u].secret>> \in proven'
      BY DEF EnabledIsProven, Exists
    <3>1. CASE u = c.u
      BY <2>2, <2>3, <2>4, <2>8, <3>1 DEF TypeOK
    <3>2. CASE u # c.u
      BY <2>2, <2>4, <3>2 DEF TypeOK, FactorInv, EnabledIsProven, Exists
    <3> QED  BY <3>1, <3>2
  <2>10. \A g \in Handlers : calls'[g] = None \/ calls'[g] = calls[g]
    BY <1>2 DEF Commit, Ends, TypeOK
  <2> QED  BY <2>4, <2>9, <2>10 DEF FactorInv
<1>3. ASSUME NEW actor \in Users, NEW u \in Users, NEW role \in Roles, CreateUser(actor, u, role)
      PROVE  FactorInv'
  <2>1. PICK row : row = [role |-> role, active |-> TRUE, secret |-> None, enabled |-> FALSE]
    OBVIOUS
  <2>2. users' = [users EXCEPT ![u] = row] /\ ~row.enabled
    BY <1>3, <2>1 DEF CreateUser
  <2>3. \A v \in Users : users'[v] = users[v] \/ ~users'[v].enabled
    BY <2>2 DEF TypeOK
  <2>4. mixed' = mixed /\ proven' = proven /\ calls' = calls
    BY <1>3 DEF CreateUser
  <2> QED  BY <1>0, <2>3, <2>4
<1>4. ASSUME NEW h \in Handlers, NEW c, Begin(h, c), c.op # "enable" \/ c.stage # "commit",
             UNCHANGED <<users, mixed, proven>>
      PROVE  FactorInv'
  <2>1. \A g \in Handlers : \/ calls'[g] = calls[g] \/ calls'[g] = None
                            \/ calls'[g].op # "enable" \/ calls'[g].stage # "commit"
    BY <1>4 DEF Begin, TypeOK
  <2> QED  BY <1>0, <1>4, <2>1
<1>5. ASSUME NEW h \in Handlers, NEW u \in Users,
             \/ Login(h, u)
             \/ \E secret \in Secrets : TotpSetup(h, u, secret)
             \/ \E code \in Typed :
                  LoginSecondFactor(h, u, code) \/ TotpEnable(h, u, code) \/ TotpDisable(h, u, code)
             \/ \E actor \in Users :
                  DeleteUser(h, actor, u) \/ \E wanted \in Updates : UpdateUser(h, actor, u, wanted)
      PROVE  FactorInv'
  <2>1. CASE Login(h, u)
    <3> DEFINE c == [Fresh EXCEPT !.u = u]
    <3>1. c.op # "enable" \/ c.stage # "commit"
      BY DEF Fresh
    <3> QED  BY <2>1, <3>1, <1>4 DEF Login
  <2>2. ASSUME NEW secret \in Secrets, TotpSetup(h, u, secret) PROVE FactorInv'
    <3> DEFINE c == [Fresh EXCEPT !.op = "setup", !.stage = "commit", !.u = u, !.copy = users[u],
                                  !.wanted = [secret |-> secret]]
    <3>1. c.op # "enable" \/ c.stage # "commit"
      BY DEF Fresh
    <3> QED  BY <2>2, <3>1, <1>4 DEF TotpSetup
  <2>3. ASSUME NEW code \in Typed, LoginSecondFactor(h, u, code) PROVE FactorInv'
    <3> DEFINE c == [Fresh EXCEPT !.op = "factor", !.u = u, !.copy = users[u], !.code = code]
    <3>1. c.op # "enable" \/ c.stage # "commit"
      BY DEF Fresh
    <3> QED  BY <2>3, <3>1, <1>4 DEF LoginSecondFactor
  <2>4. ASSUME NEW code \in Typed, TotpEnable(h, u, code) PROVE FactorInv'
    <3> DEFINE c == [Fresh EXCEPT !.op = "enable", !.stage = "code", !.u = u, !.copy = users[u],
                                  !.code = code, !.wanted = [enabled |-> TRUE]]
    <3>1. c.op # "enable" \/ c.stage # "commit"
      BY DEF Fresh
    <3> QED  BY <2>4, <3>1, <1>4 DEF TotpEnable
  <2>5. ASSUME NEW code \in Typed, TotpDisable(h, u, code) PROVE FactorInv'
    <3> DEFINE c == [Fresh EXCEPT !.op = "disable", !.stage = "code", !.u = u, !.copy = users[u],
                                  !.code = code, !.wanted = [enabled |-> FALSE, secret |-> None]]
    <3>1. c.op # "enable" \/ c.stage # "commit"
      BY DEF Fresh
    <3> QED  BY <2>5, <3>1, <1>4 DEF TotpDisable
  <2>6. ASSUME NEW actor \in Users, DeleteUser(h, actor, u) PROVE FactorInv'
    <3> DEFINE c == [Fresh EXCEPT !.op = "admin", !.stage = "flush", !.actor = actor, !.u = u,
                                  !.copy = users[u], !.wanted = [active |-> FALSE]]
    <3>1. c.op # "enable" \/ c.stage # "commit"
      BY DEF Fresh
    <3> QED  BY <2>6, <3>1, <1>4 DEF DeleteUser
  <2>7. ASSUME NEW actor \in Users, NEW wanted \in Updates, UpdateUser(h, actor, u, wanted)
        PROVE  FactorInv'
    <3> DEFINE c == [Fresh EXCEPT !.op = "admin", !.stage = "flush", !.actor = actor, !.u = u,
                                  !.copy = users[u], !.wanted = wanted]
    <3>1. c.op # "enable" \/ c.stage # "commit"
      BY DEF Fresh
    <3> QED  BY <2>7, <3>1, <1>4 DEF UpdateUser
  <2> QED  BY <1>5, <2>1, <2>2, <2>3, <2>4, <2>5, <2>6, <2>7
<1>6. ASSUME NEW h \in Handlers, Work(h), ~ConsumeTotp(h), ~Commit(h) PROVE FactorInv'
  <2>1. UNCHANGED <<users, mixed, proven>>
    BY <1>6 DEF Work, CheckBruteForce, RecordLoginFailure, ClearLoginFailures, AuthenticateLocal,
                Flush
  <2>2. \A g \in Handlers \ {h} : calls'[g] = calls[g]
    BY <1>6 DEF Work, CheckBruteForce, RecordLoginFailure, ClearLoginFailures, AuthenticateLocal,
                Flush, Ends, To, TypeOK
  <2>3. calls[h] # None /\ calls[h].stage \in {"budget", "failure", "clear", "password", "flush"}
    BY <1>6 DEF Work, CheckBruteForce, RecordLoginFailure, ClearLoginFailures, AuthenticateLocal,
                Flush, Stage
  <2>4. calls[h] \in Call /\ calls[h].op # "enable"
    BY <2>3, InFlight DEF Shape
  <2>5. calls'[h] = None \/ calls'[h].op = calls[h].op
    BY <1>6, <2>4 DEF Work, CheckBruteForce, RecordLoginFailure, ClearLoginFailures,
         AuthenticateLocal, Flush, Ends, To, TypeOK, Call
  <2> QED  BY <1>0, <2>1, <2>2, <2>4, <2>5
<1>7. CASE WindowPasses \/ Tick \/ UNCHANGED vars
  <2>1. UNCHANGED <<users, mixed, proven, calls>>
    BY <1>7 DEF WindowPasses, Tick, vars
  <2> QED  BY <1>0, <2>1
<1> QED  BY <1>1, <1>2, <1>3, <1>5, <1>6, <1>7 DEF Next

(* A second factor in force has a secret a code of which was accepted,     *)
(* unless a call wrote its columns over a factor newer than the copy it    *)
(* decided on (totp_setup, totp_enable, totp_disable, the reset).          *)
THEOREM EnabledWasProven == Spec => []EnabledIsProven
<1>1. Init => TypeInv
  BY InitialTypes
<1>2. Init => FactorInv
  <2> SUFFICES ASSUME Init PROVE FactorInv
    OBVIOUS
  <2>1. EnabledIsProven
    BY DEF Init, EnabledIsProven, Exists, First, Second
  <2> QED  BY <2>1 DEF Init, FactorInv
<1>3. TypeInv /\ FactorInv /\ [Next]_vars => TypeInv' /\ FactorInv'
  BY StepKeepsTypes, StepKeepsFactors
<1>4. FactorInv => EnabledIsProven
  BY DEF FactorInv
<1> QED  BY <1>1, <1>2, <1>3, <1>4, PTL DEF Spec

-----------------------------------------------------------------------------
(* The budget: an attempt that was let through counts from then on, as one *)
(* in flight until it has failed.                                          *)
Past(h, i) ==
  /\ calls[h] # None /\ calls[h].op \in {"login", "factor"} /\ <<calls[h].op, calls[h].u>> = i
  /\ calls[h].stage \in {"password", "code", "failure", "clear"}
Attempts(i) == {h \in Handlers : Past(h, i)}

BudgetInv ==
  \A i \in Identity : fails[i] + Cardinality(Attempts(i)) <= Lockout + Cardinality(Handlers) - 1

(* The three ways a step bears on one counter.                             *)
Lapses(i) == fails'[i] \in {0, fails[i]} /\ Attempts(i)' \subseteq Attempts(i)
Counts(i) == /\ fails'[i] = fails[i] + 1
             /\ \E h \in Attempts(i) : Attempts(i)' \subseteq Attempts(i) \ {h}
Admits(i) == fails'[i] = fails[i] /\ fails[i] < Lockout

LEMMA AttemptsAreFew ==
  ASSUME IsFiniteSet(Handlers), NEW i
  PROVE  /\ IsFiniteSet(Attempts(i)) /\ Cardinality(Attempts(i)) \in Nat
         /\ Cardinality(Attempts(i)) <= Cardinality(Handlers) /\ Cardinality(Handlers) \in Nat
<1>1. Attempts(i) \in SUBSET Handlers
  BY DEF Attempts
<1> QED  BY <1>1, FS_Subset, FS_CardinalityType

LEMMA BudgetStep ==
  ASSUME IsFiniteSet(Handlers), TypeInv, TypeInv', BudgetInv,
         \A i \in Identity : Lapses(i) \/ Counts(i) \/ Admits(i)
  PROVE  BudgetInv'
<1> SUFFICES ASSUME NEW i \in Identity
             PROVE  fails'[i] + Cardinality(Attempts(i)') <= Lockout + Cardinality(Handlers) - 1
  BY DEF BudgetInv
<1>1. fails[i] \in Nat /\ fails'[i] \in Nat /\ Lockout \in Nat
  BY AccountsAssumption DEF TypeInv, TypeOK
<1>2. PICK before : before = Attempts(i)
  OBVIOUS
<1>3. PICK after : after = Attempts(i)'
  OBVIOUS
<1>4. /\ IsFiniteSet(before) /\ Cardinality(before) \in Nat /\ Cardinality(Handlers) \in Nat
      /\ fails[i] + Cardinality(before) <= Lockout + Cardinality(Handlers) - 1
  BY <1>2, AttemptsAreFew DEF BudgetInv
<1>5. after \in SUBSET Handlers
  BY <1>3 DEF Attempts
<1>6. Cardinality(after) \in Nat /\ Cardinality(after) <= Cardinality(Handlers)
  BY <1>5, FS_Subset, FS_CardinalityType
<1>7. CASE Lapses(i)
  <2>1. after \in SUBSET before /\ fails'[i] <= fails[i]
    BY <1>1, <1>2, <1>3, <1>7 DEF Lapses
  <2>2. Cardinality(after) <= Cardinality(before)
    BY <1>4, <2>1, FS_Subset
  <2> QED  BY <1>1, <1>3, <1>4, <1>6, <2>1, <2>2
<1>8. CASE Counts(i)
  <2>1. PICK h \in before : after \in SUBSET (before \ {h})
    BY <1>2, <1>3, <1>8 DEF Counts
  <2>2. IsFiniteSet(before \ {h}) /\ Cardinality(before \ {h}) = Cardinality(before) - 1
    BY <1>4, <2>1, FS_RemoveElement
  <2>3. Cardinality(after) <= Cardinality(before) - 1
    BY <2>1, <2>2, FS_Subset
  <2>4. fails'[i] = fails[i] + 1
    BY <1>8 DEF Counts
  <2> QED  BY <1>1, <1>3, <1>4, <1>6, <2>3, <2>4
<1>9. CASE Admits(i)
  <2>1. fails'[i] = fails[i] /\ fails[i] < Lockout
    BY <1>9 DEF Admits
  <2> QED  BY <1>1, <1>3, <1>4, <1>6, <2>1
<1> QED  BY <1>7, <1>8, <1>9

(* A step of one call that lets nothing through.                           *)
LEMMA NobodyAdmitted ==
  ASSUME TypeInv, NEW h \in Handlers, NEW c, calls' = [calls EXCEPT ![h] = c],
         NEW i \in Identity,
         \/ c = None \/ c.op \notin {"login", "factor"} \/ c.stage \in {"budget", "commit"}
         \/ calls[h] # None /\ c.op = calls[h].op /\ c.u = calls[h].u
              /\ calls[h].stage \in {"password", "code"}
  PROVE  /\ Attempts(i)' \subseteq Attempts(i)
         /\ c = None => h \notin Attempts(i)'
<1>1. calls'[h] = c /\ \A g \in Handlers \ {h} : calls'[g] = calls[g]
  BY DEF TypeInv, TypeOK
<1>2. Attempts(i)' = {g \in Handlers : Past(g, i)'}
  BY DEF Attempts
<1>3. ASSUME NEW g \in Handlers, Past(g, i)' PROVE Past(g, i) /\ (g = h => c # None)
  <2>1. CASE g = h
    BY <1>1, <1>3, <2>1 DEF Past
  <2>2. CASE g # h
    BY <1>1, <1>3, <2>2 DEF Past
  <2> QED  BY <2>1, <2>2
<1> QED  BY <1>1, <1>2, <1>3 DEF Attempts

LEMMA BeginningsAdmitNobody ==
  ASSUME TypeInv, NEW h \in Handlers, NEW u \in Users, NEW i \in Identity,
         \/ Login(h, u)
         \/ \E secret \in Secrets : TotpSetup(h, u, secret)
         \/ \E code \in Typed :
              LoginSecondFactor(h, u, code) \/ TotpEnable(h, u, code) \/ TotpDisable(h, u, code)
         \/ \E actor \in Users :
              DeleteUser(h, actor, u) \/ \E wanted \in Updates : UpdateUser(h, actor, u, wanted)
  PROVE  Lapses(i)
<1>0. Fresh = [op |-> "login", stage |-> "budget", actor |-> None, u |-> None, copy |-> None,
               code |-> None, wanted |-> NoChange]
  BY DEF Fresh
<1>1. PICK c : Begin(h, c) /\ (c.stage \in {"budget", "commit"} \/ c.op \notin {"login", "factor"})
  <2>1. CASE Login(h, u)
    <3> DEFINE c == [Fresh EXCEPT !.u = u]
    <3>1. c.stage = "budget"
      BY <1>0
    <3> QED  BY <2>1, <3>1 DEF Login
  <2>2. ASSUME NEW secret \in Secrets, TotpSetup(h, u, secret)
        PROVE  \E c : Begin(h, c) /\ c.stage = "commit"
    <3> DEFINE c == [Fresh EXCEPT !.op = "setup", !.stage = "commit", !.u = u, !.copy = users[u],
                                  !.wanted = [secret |-> secret]]
    <3>1. c.stage = "commit"
      BY <1>0
    <3> QED  BY <2>2, <3>1 DEF TotpSetup
  <2>3. ASSUME NEW code \in Typed, LoginSecondFactor(h, u, code)
        PROVE  \E c : Begin(h, c) /\ c.stage = "budget"
    <3> DEFINE c == [Fresh EXCEPT !.op = "factor", !.u = u, !.copy = users[u], !.code = code]
    <3>1. c.stage = "budget"
      BY <1>0
    <3> QED  BY <2>3, <3>1 DEF LoginSecondFactor
  <2>4. ASSUME NEW code \in Typed, TotpEnable(h, u, code)
        PROVE  \E c : Begin(h, c) /\ c.op = "enable"
    <3> DEFINE c == [Fresh EXCEPT !.op = "enable", !.stage = "code", !.u = u, !.copy = users[u],
                                  !.code = code, !.wanted = [enabled |-> TRUE]]
    <3>1. c.op = "enable"
      BY <1>0
    <3> QED  BY <2>4, <3>1 DEF TotpEnable
  <2>5. ASSUME NEW code \in Typed, TotpDisable(h, u, code)
        PROVE  \E c : Begin(h, c) /\ c.op = "disable"
    <3> DEFINE c == [Fresh EXCEPT !.op = "disable", !.stage = "code", !.u = u, !.copy = users[u],
                                  !.code = code, !.wanted = [enabled |-> FALSE, secret |-> None]]
    <3>1. c.op = "disable"
      BY <1>0
    <3> QED  BY <2>5, <3>1 DEF TotpDisable
  <2>6. ASSUME NEW actor \in Users, DeleteUser(h, actor, u)
        PROVE  \E c : Begin(h, c) /\ c.op = "admin"
    <3> DEFINE c == [Fresh EXCEPT !.op = "admin", !.stage = "flush", !.actor = actor, !.u = u,
                                  !.copy = users[u], !.wanted = [active |-> FALSE]]
    <3>1. c.op = "admin"
      BY <1>0
    <3> QED  BY <2>6, <3>1 DEF DeleteUser
  <2>7. ASSUME NEW actor \in Users, NEW wanted \in Updates, UpdateUser(h, actor, u, wanted)
        PROVE  \E c : Begin(h, c) /\ c.op = "admin"
    <3> DEFINE c == [Fresh EXCEPT !.op = "admin", !.stage = "flush", !.actor = actor, !.u = u,
                                  !.copy = users[u], !.wanted = wanted]
    <3>1. c.op = "admin"
      BY <1>0
    <3> QED  BY <2>7, <3>1 DEF UpdateUser
  <2> QED  BY <2>1, <2>2, <2>3, <2>4, <2>5, <2>6, <2>7
<1>2. Attempts(i)' \subseteq Attempts(i)
  BY <1>1, NobodyAdmitted DEF Begin
<1>3. fails' = fails
  BY DEF Login, TotpSetup, LoginSecondFactor, TotpEnable, TotpDisable, DeleteUser, UpdateUser
<1> QED  BY <1>2, <1>3 DEF Lapses

LEMMA WorkKeepsBudget ==
  ASSUME TypeInv, NEW h \in Handlers, Work(h), NEW i \in Identity
  PROVE  Lapses(i) \/ Counts(i) \/ Admits(i)
<1>1. PICK c \in Call : c = calls[h] /\ c # None /\ Shape(c)
  BY InFlight DEF Work, CheckBruteForce, RecordLoginFailure, ClearLoginFailures, AuthenticateLocal,
     ConsumeTotp, Flush, Commit, Stage
<1>2. ASSUME Ends(h) PROVE Attempts(i)' \subseteq Attempts(i) \ {h}
  <2>1. calls' = [calls EXCEPT ![h] = None]
    BY <1>2 DEF Ends
  <2> QED  BY <2>1, NobodyAdmitted
<1>3. CASE CheckBruteForce(h)
  <2>1. fails' = fails
    BY <1>3 DEF CheckBruteForce
  <2>2. c.op \in {"login", "factor"} /\ c.stage = "budget"
    BY <1>1, <1>3 DEF CheckBruteForce, Stage, Shape, Call
  <2>3. CASE Ends(h)
    BY <1>2, <2>1, <2>3 DEF Lapses
  <2>4. CASE fails[<<c.op, c.u>>] < Lockout /\ i = <<c.op, c.u>>
    BY <2>1, <2>4 DEF Admits
  <2>5. CASE i # <<c.op, c.u>> /\ ~Ends(h)
    <3>1. PICK x \in {"password", "code"} : calls' = [calls EXCEPT ![h].stage = x]
      BY <1>1, <1>3, <2>5 DEF CheckBruteForce, To
    <3>2. PICK d : d = [c EXCEPT !.stage = x]
      OBVIOUS
    <3>3. d.op = c.op /\ d.u = c.u
      BY <3>2 DEF Call
    <3>4. calls'[h] = d /\ \A g \in Handlers \ {h} : calls'[g] = calls[g]
      BY <1>1, <3>1, <3>2 DEF TypeInv, TypeOK
    <3>5. ASSUME NEW g \in Handlers, Past(g, i)' PROVE Past(g, i)
      BY <2>5, <3>3, <3>4, <3>5 DEF Past
    <3>6. Attempts(i)' \subseteq Attempts(i)
      BY <3>5 DEF Attempts
    <3> QED  BY <2>1, <3>6 DEF Lapses
  <2>6. Ends(h) \/ fails[<<c.op, c.u>>] < Lockout
    <3>1. fails[<<c.op, c.u>>] \in Nat /\ Lockout \in Nat
      BY <2>2, AccountsAssumption DEF TypeInv, TypeOK, Identity, Call
    <3> QED  BY <1>1, <1>3, <3>1 DEF CheckBruteForce
  <2> QED  BY <2>3, <2>4, <2>5, <2>6
<1>4. CASE RecordLoginFailure(h)
  <2>1. Ends(h) /\ fails' = [fails EXCEPT ![<<c.op, c.u>>] = @ + 1] /\ c.stage = "failure"
    BY <1>1, <1>4 DEF RecordLoginFailure, Stage
  <2>2. c.op \in {"login", "factor"}
    BY <1>1, <2>1 DEF Shape, Call
  <2>3. CASE i = <<c.op, c.u>>
    <3>1. h \in Attempts(i)
      BY <1>1, <2>1, <2>2, <2>3 DEF Attempts, Past
    <3>2. fails'[i] = fails[i] + 1
      BY <2>1, <2>3 DEF TypeInv, TypeOK
    <3> QED  BY <1>2, <2>1, <3>1, <3>2 DEF Counts
  <2>4. CASE i # <<c.op, c.u>>
    <3>1. fails'[i] = fails[i]
      BY <2>1, <2>4 DEF TypeInv, TypeOK
    <3> QED  BY <1>2, <2>1, <3>1 DEF Lapses
  <2> QED  BY <2>3, <2>4
<1>5. CASE ClearLoginFailures(h)
  <2>1. Ends(h) /\ fails' = [fails EXCEPT ![<<c.op, c.u>>] = 0]
    BY <1>1, <1>5 DEF ClearLoginFailures
  <2>2. fails'[i] \in {0, fails[i]}
    BY <2>1 DEF TypeInv, TypeOK
  <2> QED  BY <1>2, <2>1, <2>2 DEF Lapses
<1>6. CASE AuthenticateLocal(h)
  <2>1. c.stage = "password" /\ fails' = fails
    BY <1>1, <1>6 DEF AuthenticateLocal, Stage
  <2>2. CASE To(h, "failure")
    <3>1. PICK d : d = [c EXCEPT !.stage = "failure"]
      OBVIOUS
    <3>2. d.op = c.op /\ d.u = c.u
      BY <3>1 DEF Call
    <3>3. calls' = [calls EXCEPT ![h] = d]
      BY <1>1, <2>2, <3>1 DEF To
    <3> QED  BY <1>1, <2>1, <3>2, <3>3, NobodyAdmitted DEF Lapses
  <2>3. CASE calls' = [calls EXCEPT ![h].copy = users[c.u], ![h].stage = "clear"]
    <3>1. PICK d : d = [c EXCEPT !.copy = users[c.u], !.stage = "clear"]
      OBVIOUS
    <3>2. d.op = c.op /\ d.u = c.u
      BY <3>1 DEF Call
    <3>3. calls' = [calls EXCEPT ![h] = d]
      BY <1>1, <2>3, <3>1
    <3> QED  BY <1>1, <2>1, <3>2, <3>3, NobodyAdmitted DEF Lapses
  <2> QED  BY <1>1, <1>6, <2>2, <2>3 DEF AuthenticateLocal
<1>7. CASE ConsumeTotp(h)
  <2>1. c.stage = "code" /\ fails' = fails
    BY <1>1, <1>7 DEF ConsumeTotp, Stage
  <2>2. CASE Ends(h)
    BY <1>2, <2>1, <2>2 DEF Lapses
  <2>3. ASSUME NEW x, calls' = [calls EXCEPT ![h].stage = x, ![h].code = None] PROVE Lapses(i)
    <3>1. PICK d : d = [c EXCEPT !.stage = x, !.code = None]
      OBVIOUS
    <3>2. d.op = c.op /\ d.u = c.u
      BY <3>1 DEF Call
    <3>3. calls' = [calls EXCEPT ![h] = d]
      BY <1>1, <2>3, <3>1
    <3> QED  BY <1>1, <2>1, <3>2, <3>3, NobodyAdmitted DEF Lapses
  <2>4. CASE calls' = [calls EXCEPT ![h].stage = "failure", ![h].code = None, ![h].copy = None]
    <3>1. PICK d : d = [c EXCEPT !.stage = "failure", !.code = None, !.copy = None]
      OBVIOUS
    <3>2. d.op = c.op /\ d.u = c.u
      BY <3>1 DEF Call
    <3>3. calls' = [calls EXCEPT ![h] = d]
      BY <1>1, <2>4, <3>1
    <3> QED  BY <1>1, <2>1, <3>2, <3>3, NobodyAdmitted DEF Lapses
  <2>5. \/ Ends(h)
        \/ \E x : calls' = [calls EXCEPT ![h].stage = x, ![h].code = None]
        \/ calls' = [calls EXCEPT ![h].stage = "failure", ![h].code = None, ![h].copy = None]
    BY <1>7 DEF ConsumeTotp
  <2> QED  BY <2>2, <2>3, <2>4, <2>5
<1>8. CASE Flush(h)
  <2>1. fails' = fails
    BY <1>8 DEF Flush
  <2>2. CASE Ends(h)
    BY <1>2, <2>1, <2>2 DEF Lapses
  <2>3. CASE To(h, "commit")
    <3>1. PICK d : d = [c EXCEPT !.stage = "commit"]
      OBVIOUS
    <3>2. d.stage = "commit"
      BY <3>1 DEF Call
    <3>3. calls' = [calls EXCEPT ![h] = d]
      BY <1>1, <2>3, <3>1 DEF To
    <3> QED  BY <2>1, <3>2, <3>3, NobodyAdmitted DEF Lapses
  <2> QED  BY <1>8, <2>2, <2>3 DEF Flush
<1>9. CASE Commit(h)
  BY <1>2, <1>9 DEF Commit, Lapses
<1> QED  BY <1>3, <1>4, <1>5, <1>6, <1>7, <1>8, <1>9 DEF Work

LEMMA NextKeepsBudget ==
  ASSUME IsFiniteSet(Handlers), TypeInv, TypeInv', BudgetInv, [Next]_vars
  PROVE  BudgetInv'
<1>1. CASE WindowPasses \/ Tick \/ UNCHANGED vars
           \/ \E actor, u \in Users, role \in Roles : CreateUser(actor, u, role)
  <2>1. calls' = calls /\ \A i \in Identity : fails'[i] \in {0, fails[i]}
    BY <1>1 DEF WindowPasses, Tick, CreateUser, vars
  <2>2. \A i \in Identity : Lapses(i)
    BY <2>1 DEF Lapses, Attempts, Past
  <2> QED  BY <2>2, BudgetStep
<1>2. ASSUME NEW h \in Handlers, Work(h) PROVE BudgetInv'
  BY <1>2, WorkKeepsBudget, BudgetStep
<1>3. ASSUME NEW h \in Handlers, NEW u \in Users,
             \/ Login(h, u)
             \/ \E secret \in Secrets : TotpSetup(h, u, secret)
             \/ \E code \in Typed :
                  LoginSecondFactor(h, u, code) \/ TotpEnable(h, u, code) \/ TotpDisable(h, u, code)
             \/ \E actor \in Users :
                  DeleteUser(h, actor, u) \/ \E wanted \in Updates : UpdateUser(h, actor, u, wanted)
      PROVE  BudgetInv'
  BY <1>3, BeginningsAdmitNobody, BudgetStep
<1> QED  BY <1>1, <1>2, <1>3 DEF Next

(* However many attempts were let through before the first of them was     *)
(* counted, an identity is guessed at no more often than its budget and    *)
(* the calls in flight allow (check_brute_force, record_login_failure).    *)
THEOREM BudgetIsKept ==
  ASSUME IsFiniteSet(Handlers)
  PROVE  Spec => []LockoutHolds
<1>1. Init => TypeInv
  BY InitialTypes
<1>2. Init => BudgetInv
  <2> SUFFICES ASSUME Init, NEW i \in Identity
               PROVE  fails[i] + Cardinality(Attempts(i)) <= Lockout + Cardinality(Handlers) - 1
    BY DEF BudgetInv
  <2>1. Attempts(i) = {}
    BY DEF Init, Attempts, Past
  <2>2. fails[i] = 0
    BY DEF Init
  <2>3. Cardinality(Handlers) \in Nat
    BY FS_CardinalityType
  <2> QED  BY <2>1, <2>2, <2>3, FS_EmptySet, AccountsAssumption
<1>3. TypeInv /\ [Next]_vars => TypeInv'
  BY StepKeepsTypes
<1>4. TypeInv /\ TypeInv' /\ BudgetInv /\ [Next]_vars => BudgetInv'
  BY NextKeepsBudget
<1>5. TypeInv /\ BudgetInv => LockoutHolds
  <2> SUFFICES ASSUME TypeInv, BudgetInv, NEW i \in Identity
               PROVE  fails[i] <= Lockout + Cardinality(Handlers) - 1
    BY DEF LockoutHolds
  <2>1. /\ fails[i] \in Nat /\ Lockout \in Nat /\ Cardinality(Attempts(i)) \in Nat
        /\ Cardinality(Handlers) \in Nat
    BY AttemptsAreFew, AccountsAssumption DEF TypeInv, TypeOK
  <2> QED  BY <2>1 DEF BudgetInv
<1> QED  BY <1>1, <1>2, <1>3, <1>4, <1>5, PTL DEF Spec

=============================================================================
