----------------------------- MODULE SessionsProofs -----------------------------
(***************************************************************************)
(* Theorems about Sessions for every number of calls in flight, links,     *)
(* tokens and passwords, and every length of the idle window.              *)
(***************************************************************************)
EXTENDS Sessions, FiniteSetTheorems, TLAPS

\* The stages of each kind of call, and the tokens it speaks of.
Shape(c) ==
  /\ c.op = "refresh" => /\ c.stage \in {"session", "expire", "load", "revoke", "register", "open"}
                         /\ c.jti \in DOMAIN tokens /\ c.sid = tokens[c.jti].sid
  /\ c.op = "login"   => c.stage \in {"verify", "register", "open"}
  /\ c.op = "logout"  => c.stage \in {"revoke", "end"} /\ c.jti \in DOMAIN tokens
  /\ c.op = "api"     => c.stage \in {"session", "load", "slide"}
  /\ c.op = "change"  => c.stage \in {"session", "load", "slide", "write", "scan", "delete",
                                      "register", "open"}
  /\ c.op = "reset"   => c.stage \in {"burn", "load", "write", "scan", "delete"} /\ c.sid = 0
  /\ c.op = "admin"   => c.stage \in {"write", "scan", "delete"} /\ c.sid = 0
  /\ c.stage = "verify" \/ (c.stage = "register" /\ c.op # "refresh") => c.sid = 0
  /\ c.stage = "open" => c.jti \in DOMAIN tokens
  /\ c.link # None => c.op = "reset"

Shapes == \A h \in Handlers : calls[h] # None => Shape(calls[h])

\* Sessions are numbered in the order they were opened.
Opened   == {tokens[j].sid : j \in DOMAIN tokens} \ {0}
Numbered == \E k \in Nat : Opened = 1 .. k

TypeInv == TypeOK /\ Shapes /\ Numbered

\* How a call may begin.
Begun(d) ==
  /\ d.op \in {"refresh", "api", "change"} => d.stage = "session"
  /\ d.op = "login"  => d.stage = "verify"
  /\ d.op = "reset"  => d.stage = "burn"
  /\ d.op = "admin"  => d.stage = "write"
  /\ d.op = "refresh" => d.jti \in live
  /\ d.link # None   => d.stage = "burn"

\* What a step makes of a call in flight.
Follows(c, d) ==
  /\ d.op = c.op /\ d.link = c.link /\ d.mine = c.mine /\ (c.overlapped => d.overlapped)
  /\ d.jti = c.jti \/ (c.stage = "register" /\ d.stage = "open")
  /\ d.keys = IF c.stage = "scan" /\ d.stage = "delete" THEN live ELSE c.keys
  /\ d.password = IF <<c.stage, d.stage>> \in {<<"verify", "register">>, <<"write", "scan">>}
                  THEN user'.password ELSE c.password
  /\ \/ d.stage = c.stage /\ d.sid = c.sid
     \/ c.stage = "session" /\ d.stage = "load" /\ d.sid = c.sid /\ IsSessionActive(c.sid)
     \/ c.stage = "session" /\ d.stage = "expire" /\ d.sid = c.sid
     \/ c.stage = "load" /\ d.stage \in {"revoke", "slide", "write"} /\ d.sid = c.sid /\ user.active
     \/ c.stage = "verify" /\ d.stage = "register" /\ d.sid = c.sid /\ user.active
     \/ c.stage = "slide" /\ d.stage = "write" /\ d.sid = c.sid
     \/ c.stage = "revoke" /\ d.stage \in {"register", "end"} /\ d.sid = c.sid
     \/ c.stage = "register" /\ d.stage = "open" /\ d.sid \in {c.sid, NewSession}
     \/ c.stage = "burn" /\ d.stage = "load" /\ d.sid = c.sid /\ c.link \notin links'
     \/ c.stage = "write" /\ d.stage = "scan" /\ d.sid = c.sid
     \/ c.stage = "scan" /\ d.stage = "delete" /\ d.sid = c.sid
     \/ c.stage = "delete" /\ d.stage = "register" /\ d.sid = 0

Goes(h, d) == IF calls[h] = None THEN Begun(d) ELSE Follows(calls[h], d)

Moves == \A h \in Handlers : calls'[h] # None => Goes(h, calls'[h])

\* Windows are slid, tokens minted and links used by the calls that may.
Slides ==
  \A s \in Sids : seen'[s] > seen[s] =>
    s # 0 /\ \E h \in Handlers : /\ calls[h] # None /\ calls[h].sid = s
                                /\ calls[h].stage \in {"slide", "open"}
Minted(h, t) ==
  /\ t.slipped = \/ calls[h].overlapped
                 \/ Sweeping \ {h} # {}
                 \/ calls[h].op = "refresh" /\ tokens[calls[h].jti].slipped
  /\ t.opened = IF calls[h].op = "refresh" THEN tokens[calls[h].jti].opened ELSE calls[h].password
Mints ==
  \/ tokens' = tokens /\ live' \subseteq live
  \/ \E h \in Handlers :
       /\ Stage(h, "register") /\ live' = live \cup {Len(tokens) + 1}
       /\ Minted(h, tokens'[Len(tokens) + 1])

\* A new password brings a sweep, and a sweep ends when it has deleted.
Sweeps ==
  /\ \/ user'.password = user.password
     \/ \E h \in Handlers : /\ Stage(h, "write") /\ calls'[h] # None
                             /\ calls'[h].stage = "scan"
  /\ \A h \in Sweeping :
       \/ h \in Sweeping'
       \/ /\ Stage(h, "delete") /\ live' \cap calls[h].keys = {}
          /\ \A g \in Handlers \ {h} : calls'[g] # None => calls'[g].overlapped
LinksUsed ==
  /\ \/ links' \subseteq links
     \/ \E l \in Links \ used : /\ links' = links \cup {l} /\ calls' = calls
                                /\ \A h \in Handlers : calls[h] # None => calls[h].link # l
  /\ \A l \in used' \ used :
       l # None /\ \E h \in Handlers : Stage(h, "write") /\ calls[h].link = l

\* Most steps have nothing to do with a sweep.
Calm(h) == h \notin Sweeping /\ user'.password = user.password

StepKept ==
  /\ TypeInv' /\ Moves /\ Slides /\ Mints /\ LinksUsed /\ Sweeps
  /\ \A j \in DOMAIN tokens : j \in DOMAIN tokens' /\ tokens'[j] = tokens[j]

-----------------------------------------------------------------------------
(* Lemmas about tokens and calls *)

(* The next session has a number no session has, within the bound.         *)
LEMMA NewSessionIsNew ==
  ASSUME TypeInv
  PROVE  /\ NewSession \notin Opened
         /\ Len(tokens) < MaxTokens => NewSession \in Sids \ {0}
         /\ NewSession \in Nat
         /\ Opened \cup {NewSession} = 1 .. NewSession
<1>1. PICK k \in Nat : Opened = 1 .. k
  BY DEF TypeInv, Numbered
<1>2. Cardinality(Opened) = k
  BY <1>1, FS_Interval
<1>3. NewSession = k + 1
  BY <1>2 DEF NewSession, Opened
<1>4. k <= Len(tokens)
  <2>1. PICK n \in Nat : n = Len(tokens) /\ DOMAIN tokens = 1 .. n
    BY DEF TypeInv, TypeOK
  <2>2. IsFiniteSet(1 .. n) /\ Cardinality(1 .. n) = n
    BY FS_Interval
  <2>3. PICK sids : sids = [j \in 1 .. n |-> tokens[j].sid]
    OBVIOUS
  <2>4. PICK image : image = {sids[j] : j \in 1 .. n}
    OBVIOUS
  <2>5. sids \in Surjection(1 .. n, image)
    BY <2>3, <2>4 DEF Surjection
  <2>6. IsFiniteSet(image) /\ Cardinality(image) <= n
    BY <2>2, <2>5, FS_Surjection
  <2>7. Opened \subseteq image
    BY <2>1, <2>3, <2>4 DEF Opened
  <2>8. Cardinality(Opened) <= Cardinality(image)
    BY <2>6, <2>7, FS_Subset
  <2>9. Cardinality(image) \in Nat
    BY <2>6, FS_CardinalityType
  <2> QED  BY <1>2, <2>1, <2>6, <2>8, <2>9
<1>5. Len(tokens) \in Nat /\ MaxTokens \in Nat
  BY SessionsAssumption DEF TypeInv, TypeOK
<1> QED  BY <1>1, <1>3, <1>4, <1>5 DEF Sids

(* A call in flight is a record of its type and shape. *)
LEMMA CallInFlight ==
  ASSUME TypeInv, NEW h \in Handlers, calls[h] # None
  PROVE  calls[h] \in Call /\ Shape(calls[h])
BY DEF TypeInv, TypeOK, Shapes

(* Tokens that are there stay: a step of one call keeps every shape. *)
LEMMA OneCall ==
  ASSUME TypeInv, NEW h \in Handlers, NEW c \in Call \cup {None},
         \A j \in DOMAIN tokens : j \in DOMAIN tokens' /\ tokens'[j] = tokens[j],
         c # None => Shape(c)', c # None => Goes(h, c), calls' = [calls EXCEPT ![h] = c]
  PROVE  calls' \in [Handlers -> Call \cup {None}] /\ Shapes' /\ Moves /\ (Calm(h) => Sweeps)
<1>1. calls' \in [Handlers -> Call \cup {None}]
  BY DEF TypeInv, TypeOK
<1>2. ASSUME NEW g \in Handlers, calls'[g] # None PROVE Shape(calls[g])'
  <2>1. CASE g = h
    <3>1. calls'[g] = c
      BY <2>1 DEF TypeInv, TypeOK
    <3> QED  BY <1>2, <3>1 DEF Shape
  <2>2. CASE g # h
    <3>1. calls'[g] = calls[g]
      BY <2>2 DEF TypeInv, TypeOK
    <3> QED  BY <1>2, <3>1 DEF TypeInv, Shapes, Shape
  <2> QED  BY <2>1, <2>2
<1>3. ASSUME NEW g \in Handlers, calls'[g] # None PROVE Goes(g, calls'[g])
  <2>1. CASE g = h
    BY <1>3, <2>1 DEF TypeInv, TypeOK
  <2>2. CASE g # h
    <3>1. calls'[g] = calls[g]
      BY <2>2 DEF TypeInv, TypeOK
    <3> QED  BY <1>3, <3>1 DEF Goes, Follows
  <2> QED  BY <2>1, <2>2
<1>4. ASSUME Calm(h) PROVE Sweeps
  <2>1. \A g \in Sweeping : g \in Handlers /\ calls'[g] = calls[g]
    BY <1>4 DEF Calm, Sweeping, InFlight, TypeInv, TypeOK
  <2> QED  BY <1>4, <2>1 DEF Calm, Sweeps, Sweeping, InFlight
<1> QED  BY <1>1, <1>2, <1>3, <1>4 DEF Shapes, Moves

(* What a sweep does to the others: they were overlapped, nothing else.    *)
LEMMA OthersOverlapped ==
  ASSUME TypeInv, NEW h \in Handlers, NEW g \in Handlers, g # h, calls[g] # None
  PROVE  /\ Overlapping(h)[g] \in Call
         /\ Overlapping(h)[g].op = calls[g].op /\ Overlapping(h)[g].stage = calls[g].stage
         /\ Overlapping(h)[g].sid = calls[g].sid /\ Overlapping(h)[g].jti = calls[g].jti
         /\ Overlapping(h)[g].link = calls[g].link /\ Overlapping(h)[g].mine = calls[g].mine
         /\ Overlapping(h)[g].keys = calls[g].keys
         /\ Overlapping(h)[g].password = calls[g].password /\ Overlapping(h)[g].overlapped
<1>1. PICK c : c = calls[g]
  OBVIOUS
<1>2. c \in Call
  BY <1>1, CallInFlight
<1>3. PICK d : d = [c EXCEPT !.overlapped = TRUE]
  OBVIOUS
<1>4. /\ d \in Call /\ d.op = c.op /\ d.stage = c.stage /\ d.sid = c.sid /\ d.jti = c.jti
      /\ d.link = c.link /\ d.mine = c.mine /\ d.keys = c.keys /\ d.password = c.password
      /\ d.overlapped
  BY <1>2, <1>3 DEF Call
<1>5. Overlapping(h)[g] = d
  BY <1>1, <1>3 DEF Overlapping
<1> QED  BY <1>1, <1>4, <1>5

(* A sweep: one call goes on or ends, the others were overlapped.          *)
LEMMA OneSweep ==
  ASSUME TypeInv, NEW h \in Handlers, NEW c \in Call \cup {None}, tokens' = tokens,
         c # None => Shape(c), c # None => Goes(h, c),
         calls' = [Overlapping(h) EXCEPT ![h] = c]
  PROVE  calls' \in [Handlers -> Call \cup {None}] /\ Shapes' /\ Moves
<1>0. Overlapping(h) = [g \in Handlers |-> Overlapping(h)[g]]
  BY DEF Overlapping
<1>1. \A g \in Handlers : g # h => calls'[g] = Overlapping(h)[g]
  BY <1>0
<1>2. \A g \in Handlers : g # h /\ calls[g] = None => calls'[g] = None
  BY <1>1 DEF Overlapping
<1>3. calls'[h] = c
  BY <1>0
<1>4. \A g \in Handlers : calls'[g] \in Call \cup {None}
  BY <1>1, <1>2, <1>3, OthersOverlapped
<1>5. calls' \in [Handlers -> Call \cup {None}]
  BY <1>0, <1>4
<1>6. ASSUME NEW g \in Handlers, calls'[g] # None PROVE Shape(calls[g])'
  <2>1. CASE g = h
    BY <1>3, <1>6, <2>1 DEF Shape
  <2>2. CASE g # h
    <3>1. PICK old : old = calls[g]
      OBVIOUS
    <3>2. PICK new : new = calls'[g]
      OBVIOUS
    <3>3. old # None
      BY <1>2, <1>6, <2>2, <3>1
    <3>4. /\ new.op = old.op /\ new.stage = old.stage /\ new.sid = old.sid
          /\ new.jti = old.jti /\ new.link = old.link
      BY <1>1, <2>2, <3>1, <3>2, <3>3, OthersOverlapped
    <3>5. Shape(old)
      BY <3>1, <3>3, CallInFlight
    <3>6. Shape(new)
      BY <3>4, <3>5 DEF Shape
    <3> QED  BY <3>2, <3>6 DEF Shape
  <2> QED  BY <2>1, <2>2
<1>7. ASSUME NEW g \in Handlers, calls'[g] # None PROVE Goes(g, calls'[g])
  <2>1. CASE g = h
    BY <1>3, <1>7, <2>1
  <2>2. CASE g # h
    <3>1. calls[g] # None
      BY <1>2, <1>7, <2>2
    <3>2. Follows(calls[g], Overlapping(h)[g])
      BY <2>2, <3>1, OthersOverlapped DEF Follows
    <3> QED  BY <1>1, <2>2, <3>1, <3>2 DEF Goes
  <2> QED  BY <2>1, <2>2
<1> QED  BY <1>5, <1>6, <1>7 DEF Shapes, Moves

-----------------------------------------------------------------------------
(* Every step keeps the types and does to a call what Goes says *)

(* The history of a step has its type. *)
History == over' \subseteq Sids /\ barred' \in BOOLEAN

(* Most steps move one call and change nothing a session lives by.         *)
LEMMA QuietStep ==
  ASSUME TypeInv, History, NEW h \in Handlers, NEW c \in Call \cup {None},
         c # None => Shape(c), c # None => Goes(h, c), calls' = [calls EXCEPT ![h] = c],
         calls[h] # None => calls[h].stage \notin {"scan", "delete"},
         cookie' \in {cookie, None}, undisturbed' \in BOOLEAN, begun' \in 0 .. MaxCalls,
         UNCHANGED <<user, tokens, live, blocked, seen, access, links, used, writes>>
  PROVE  StepKept
<1>1. DOMAIN tokens' = DOMAIN tokens /\ (c # None => Shape(c)')
  BY DEF Shape
<1>0. Calm(h)
  BY DEF Calm, Sweeping, InFlight
<1>2. calls' \in [Handlers -> Call \cup {None}] /\ Shapes' /\ Moves /\ Sweeps
  BY <1>0, <1>1, OneCall
<1>3. TypeOK'
  BY <1>2 DEF TypeInv, TypeOK, History
<1>4. Numbered'
  BY DEF TypeInv, Numbered, Opened
<1>5. Slides
  BY DEF TypeInv, TypeOK, Slides
<1> QED  BY <1>1, <1>2, <1>3, <1>4, <1>5 DEF StepKept, TypeInv, Mints, LinksUsed

LEMMA BeginType ==
  ASSUME TypeInv, NEW h \in Handlers, NEW c, Begin(h, c)
  PROVE  /\ calls[h] = None /\ calls' = [calls EXCEPT ![h] = c]
         /\ undisturbed' \in BOOLEAN /\ begun' \in 0 .. MaxCalls
BY SessionsAssumption DEF TypeInv, TypeOK, Begin

LEMMA TokenType ==
  ASSUME TypeInv, NEW j \in DOMAIN tokens
  PROVE  /\ j \in Jtis /\ tokens[j] \in Token /\ tokens[j].sid \in Sids
         /\ tokens[j].opened \in 0 .. MaxWrites /\ tokens[j].slipped \in BOOLEAN
<1>1. Len(tokens) \in Nat /\ DOMAIN tokens = 1 .. Len(tokens) /\ MaxTokens \in Nat
  BY SessionsAssumption DEF TypeInv, TypeOK
<1>2. j \in Jtis
  BY <1>1 DEF TypeInv, TypeOK, Jtis
<1>3. tokens[j] \in Token
  BY DEF TypeInv, TypeOK
<1> QED  BY <1>2, <1>3 DEF Token

LEMMA BeginningsKeep ==
  ASSUME TypeInv, History, NEW h \in Handlers,
         \/ AdminReset(h)
         \/ \E j \in Jtis : Logout(h, j)
         \/ \E mine \in BOOLEAN : Login(h, mine)
         \/ \E s \in Sids : ApiCall(h, s)
         \/ \E s \in Sids, mine \in BOOLEAN : ChangePassword(h, s, mine)
         \/ \E l \in Links : ResetPassword(h, l)
  PROVE  StepKept
<1>0. /\ Fresh \in Call /\ Fresh.link = None /\ Fresh.sid = 0 /\ Fresh.op = "api"
      /\ Fresh.stage = "session"
  BY SessionsAssumption DEF Fresh, Call, Sids, Jtis
<1>1. ASSUME NEW j \in Jtis, Logout(h, j) PROVE StepKept
  <2> DEFINE c == [Fresh EXCEPT !.op = "logout", !.stage = "revoke", !.mine = (j = cookie),
                                !.jti = j, !.sid = tokens[j].sid]
  <2>1. j \in DOMAIN tokens
    BY <1>1 DEF Logout, GivenOut
  <2>2. c \in Call
    BY <1>0, <2>1, TokenType DEF Call
  <2>3. c.op = "logout" /\ c.stage = "revoke" /\ c.jti = j /\ c.link = None
    BY <1>0 DEF Call
  <2>4. Shape(c) /\ Begun(c)
    BY <2>1, <2>3 DEF Shape, Begun
  <2> QED  BY <1>1, <2>2, <2>4, BeginType, QuietStep DEF Logout, Goes
<1>2. CASE AdminReset(h)
  <2> DEFINE c == [Fresh EXCEPT !.op = "admin", !.stage = "write"]
  <2>1. c \in Call
    BY <1>0 DEF Call
  <2>2. c.op = "admin" /\ c.stage = "write" /\ c.sid = 0 /\ c.link = None
    BY <1>0 DEF Call
  <2>3. Shape(c) /\ Begun(c)
    BY <2>2 DEF Shape, Begun
  <2> QED  BY <1>2, <2>1, <2>3, BeginType, QuietStep DEF AdminReset, Goes
<1>3. ASSUME NEW mine \in BOOLEAN, Login(h, mine) PROVE StepKept
  <2> DEFINE c == [Fresh EXCEPT !.op = "login", !.stage = "verify", !.mine = mine]
  <2>1. c \in Call
    BY <1>0 DEF Call
  <2>2. c.op = "login" /\ c.stage = "verify" /\ c.sid = 0 /\ c.link = None
    BY <1>0 DEF Call
  <2>3. Shape(c) /\ Begun(c)
    BY <2>2 DEF Shape, Begun
  <2> QED  BY <1>3, <2>1, <2>3, BeginType, QuietStep DEF Login, Goes
<1>4. ASSUME NEW s \in Sids, ApiCall(h, s) PROVE StepKept
  <2> DEFINE c == [Fresh EXCEPT !.sid = s]
  <2>1. c \in Call
    BY <1>0 DEF Call
  <2>2. c.op = "api" /\ c.stage = "session" /\ c.link = None
    BY <1>0 DEF Call
  <2>3. Shape(c) /\ Begun(c)
    BY <2>2 DEF Shape, Begun
  <2> QED  BY <1>4, <2>1, <2>3, BeginType, QuietStep DEF ApiCall, Goes
<1>5. ASSUME NEW s \in Sids, NEW mine \in BOOLEAN, ChangePassword(h, s, mine) PROVE StepKept
  <2> DEFINE c == [Fresh EXCEPT !.op = "change", !.sid = s, !.mine = mine]
  <2>1. c \in Call
    BY <1>0 DEF Call
  <2>2. c.op = "change" /\ c.stage = "session" /\ c.link = None
    BY <1>0 DEF Call
  <2>3. Shape(c) /\ Begun(c)
    BY <2>2 DEF Shape, Begun
  <2> QED  BY <1>5, <2>1, <2>3, BeginType, QuietStep DEF ChangePassword, Goes
<1>6. ASSUME NEW l \in Links, ResetPassword(h, l) PROVE StepKept
  <2> DEFINE c == [Fresh EXCEPT !.op = "reset", !.stage = "burn", !.link = l]
  <2>1. c \in Call
    BY <1>0 DEF Call
  <2>2. c.op = "reset" /\ c.stage = "burn" /\ c.sid = 0 /\ c.link = l
    BY <1>0 DEF Call
  <2>3. Shape(c) /\ Begun(c)
    BY <2>2 DEF Shape, Begun
  <2> QED  BY <1>6, <2>1, <2>3, BeginType, QuietStep DEF ResetPassword, Goes
<1> QED  BY <1>1, <1>2, <1>3, <1>4, <1>5, <1>6

Stages == {"session", "expire", "load", "slide", "verify", "revoke", "register",
           "open", "end", "burn", "write", "scan", "delete"}

\* A call that went on with what it knew.
SameBut(c, d) ==
  /\ d.op = c.op /\ d.link = c.link /\ d.mine = c.mine /\ d.jti = c.jti /\ d.keys = c.keys
  /\ d.password = c.password /\ d.overlapped = c.overlapped

LEMMA GoingOn ==
  ASSUME TypeInv, NEW h \in Handlers, calls[h] # None, NEW x \in Stages, To(h, x)
  PROVE  \E d \in Call : /\ calls' = [calls EXCEPT ![h] = d] /\ d.stage = x
                         /\ SameBut(calls[h], d) /\ d.sid = calls[h].sid
<1>1. PICK c \in Call : c = calls[h]
  BY CallInFlight
<1>2. PICK d : d = [c EXCEPT !.stage = x]
  OBVIOUS
<1>3. d \in Call /\ d.stage = x /\ SameBut(c, d) /\ d.sid = c.sid
  BY <1>2 DEF Call, Stages, SameBut
<1>4. calls' = [calls EXCEPT ![h] = d]
  BY <1>1, <1>2 DEF To
<1> QED  BY <1>1, <1>3, <1>4

LEMMA CheckSessionKeeps ==
  ASSUME TypeInv, History, NEW h \in Handlers, CheckSession(h)
  PROVE  StepKept
<1>1. calls[h] # None /\ calls[h].stage = "session"
  BY DEF CheckSession, Stage
<1>2. calls[h] \in Call /\ Shape(calls[h])
  BY <1>1, CallInFlight
<1>3. undisturbed' \in BOOLEAN /\ begun' \in 0 .. MaxCalls
  BY DEF CheckSession, TypeInv, TypeOK
<1>4. CASE IsSessionActive(calls[h].sid)
  <2>1. To(h, "load")
    BY <1>4 DEF CheckSession
  <2>2. PICK d \in Call : /\ calls' = [calls EXCEPT ![h] = d] /\ d.stage = "load"
                          /\ SameBut(calls[h], d) /\ d.sid = calls[h].sid
    BY <1>1, <2>1, GoingOn DEF Stages
  <2>3. Shape(d)
    BY <1>1, <1>2, <2>2 DEF Shape, SameBut
  <2>4. Goes(h, d)
    BY <1>1, <1>4, <2>2 DEF Goes, Follows, SameBut
  <2> QED  BY <1>1, <1>3, <2>2, <2>3, <2>4, QuietStep DEF CheckSession
<1>5. CASE ~IsSessionActive(calls[h].sid) /\ calls[h].op = "refresh"
  <2>1. To(h, "expire")
    BY <1>5 DEF CheckSession
  <2>2. PICK d \in Call : /\ calls' = [calls EXCEPT ![h] = d] /\ d.stage = "expire"
                          /\ SameBut(calls[h], d) /\ d.sid = calls[h].sid
    BY <1>1, <2>1, GoingOn DEF Stages
  <2>3. Shape(d)
    BY <1>1, <1>2, <1>5, <2>2 DEF Shape, SameBut
  <2>4. Goes(h, d)
    BY <1>1, <2>2 DEF Goes, Follows, SameBut
  <2> QED  BY <1>1, <1>3, <2>2, <2>3, <2>4, QuietStep DEF CheckSession
<1>6. CASE ~IsSessionActive(calls[h].sid) /\ calls[h].op # "refresh"
  <2>1. calls' = [calls EXCEPT ![h] = None]
    BY <1>6 DEF CheckSession, Ends
  <2> QED  BY <1>1, <1>3, <2>1, QuietStep DEF CheckSession
<1> QED  BY <1>4, <1>5, <1>6

LEMMA LoadUserKeeps ==
  ASSUME TypeInv, History, NEW h \in Handlers, LoadUser(h)
  PROVE  StepKept
<1>1. calls[h] # None /\ calls[h].stage = "load"
  BY DEF LoadUser, Stage
<1>2. calls[h] \in Call /\ Shape(calls[h])
  BY <1>1, CallInFlight
<1>3. undisturbed' \in BOOLEAN /\ begun' \in 0 .. MaxCalls
  BY DEF LoadUser, TypeInv, TypeOK
<1>4. CASE user.active
  <2>1. PICK x \in Stages : x = AfterLoad(h) /\ To(h, x)
    BY <1>4 DEF LoadUser, AfterLoad, Stages
  <2>2. PICK d \in Call : /\ calls' = [calls EXCEPT ![h] = d] /\ d.stage = x
                          /\ SameBut(calls[h], d) /\ d.sid = calls[h].sid
    BY <1>1, <2>1, GoingOn
  <2>3. Shape(d)
    BY <1>1, <1>2, <2>1, <2>2 DEF Shape, SameBut, AfterLoad, Call
  <2>4. Goes(h, d)
    BY <1>1, <1>4, <2>1, <2>2 DEF Goes, Follows, SameBut, AfterLoad
  <2>5. cookie' = cookie
    BY <1>4 DEF LoadUser
  <2> QED  BY <1>1, <1>3, <2>2, <2>3, <2>4, <2>5, QuietStep DEF LoadUser
<1>5. CASE ~user.active
  <2>1. calls' = [calls EXCEPT ![h] = None]
    BY <1>5 DEF LoadUser, Ends
  <2>2. cookie' \in {cookie, None}
    BY <1>5 DEF LoadUser, AnswerCookie
  <2> QED  BY <1>1, <1>3, <2>1, <2>2, QuietStep DEF LoadUser
<1> QED  BY <1>4, <1>5

LEMMA VerifyPasswordKeeps ==
  ASSUME TypeInv, History, NEW h \in Handlers, VerifyPassword(h)
  PROVE  StepKept
<1>1. PICK c \in Call : c = calls[h] /\ c # None /\ c.stage = "verify" /\ Shape(c)
  BY CallInFlight DEF VerifyPassword, Stage
<1>2. undisturbed' \in BOOLEAN /\ begun' \in 0 .. MaxCalls
  BY DEF VerifyPassword, TypeInv, TypeOK
<1>3. CASE user.active
  <2>1. PICK p \in 0 .. MaxWrites : p = user.password
    BY DEF TypeInv, TypeOK, User
  <2>2. PICK d : d = [c EXCEPT !.password = p, !.stage = "register"]
    OBVIOUS
  <2>3. /\ d \in Call /\ d.stage = "register" /\ d.op = c.op /\ d.sid = c.sid
        /\ d.link = c.link /\ d.mine = c.mine /\ d.jti = c.jti /\ d.keys = c.keys
        /\ d.overlapped = c.overlapped /\ d.password = p
    BY <2>1, <2>2 DEF Call
  <2>4. calls' = [calls EXCEPT ![h] = d]
    BY <1>1, <1>3, <2>1, <2>2 DEF VerifyPassword
  <2>5. Shape(d)
    BY <1>1, <2>3 DEF Shape, Call
  <2>6. Goes(h, d)
    BY <1>1, <1>3, <2>1, <2>3 DEF Goes, Follows, VerifyPassword
  <2> QED  BY <1>1, <1>2, <2>3, <2>4, <2>5, <2>6, QuietStep DEF VerifyPassword
<1>4. CASE ~user.active
  <2>1. calls' = [calls EXCEPT ![h] = None]
    BY <1>4 DEF VerifyPassword, Ends
  <2> QED  BY <1>1, <1>2, <2>1, QuietStep DEF VerifyPassword
<1> QED  BY <1>3, <1>4

LEMMA RefreshKeeps ==
  ASSUME TypeInv, History, NEW h \in Handlers, NEW j \in Jtis, Refresh(h, j)
  PROVE  StepKept
<1>0. /\ Fresh \in Call /\ Fresh.link = None /\ Fresh.stage = "session"
  BY SessionsAssumption DEF Fresh, Call, Sids, Jtis
<1>1. j \in DOMAIN tokens
  BY DEF Refresh, GivenOut
<1>2. CASE IsRefreshJtiValid(j)
  <2> DEFINE c == [Fresh EXCEPT !.op = "refresh", !.mine = (j = cookie), !.jti = j,
                                !.sid = tokens[j].sid]
  <2>1. c \in Call
    BY <1>0, <1>1, TokenType DEF Call
  <2>2. c.op = "refresh" /\ c.stage = "session" /\ c.jti = j /\ c.link = None
    BY <1>0 DEF Call
  <2>3. Shape(c) /\ Begun(c)
    <3>1. c.sid = tokens[j].sid
      BY <1>0 DEF Call
    <3> QED  BY <1>1, <1>2, <2>2, <3>1 DEF Shape, Begun, IsRefreshJtiValid
  <2>4. Begin(h, c) /\ cookie' = cookie
    BY <1>2 DEF Refresh
  <2> QED  BY <2>1, <2>3, <2>4, BeginType, QuietStep DEF Refresh, Goes
<1>3. CASE ~IsRefreshJtiValid(j)
  <2>1. calls[h] = None /\ calls' = calls /\ cookie' \in {cookie, None}
        /\ undisturbed' = undisturbed /\ begun' = begun
    BY <1>3 DEF Refresh
  <2>2. calls' = [calls EXCEPT ![h] = None]
    BY <2>1 DEF TypeInv, TypeOK
  <2>3. undisturbed' \in BOOLEAN /\ begun' \in 0 .. MaxCalls
    BY <2>1 DEF TypeInv, TypeOK
  <2> QED  BY <2>1, <2>2, <2>3, QuietStep DEF Refresh
<1> QED  BY <1>2, <1>3

(* The keys keep their types; a step of one call that mints nothing.       *)
KeyTypes ==
  /\ user' \in User /\ tokens' = tokens
  /\ live' \subseteq live /\ blocked' \subseteq DOMAIN tokens
  /\ seen' \in [Sids -> 0 .. Idle] /\ access' \in [Sids -> 0 .. Access]
  /\ links' \subseteq Links /\ used' \subseteq Links
  /\ cookie' \in DOMAIN tokens \cup {None}
  /\ undisturbed' \in BOOLEAN /\ begun' \in 0 .. MaxCalls /\ writes' \in 0 .. MaxWrites

LEMMA TypedStep ==
  ASSUME TypeInv, History, KeyTypes, Slides, LinksUsed,
         calls' \in [Handlers -> Call \cup {None}], Shapes', Moves, Sweeps
  PROVE  StepKept
<1>1. TypeOK'
  BY DEF TypeInv, TypeOK, KeyTypes, History
<1>2. Numbered'
  BY DEF TypeInv, Numbered, Opened, KeyTypes
<1> QED  BY <1>1, <1>2 DEF StepKept, TypeInv, Mints, KeyTypes

LEMMA SameTokens ==
  ASSUME TypeInv, tokens' = tokens, NEW c
  PROVE  /\ \A j \in DOMAIN tokens : j \in DOMAIN tokens' /\ tokens'[j] = tokens[j]
         /\ Shape(c) => Shape(c)'
BY DEF Shape, SameBut

LEMMA EndedCall ==
  ASSUME TypeInv, NEW h \in Handlers, Ends(h), tokens' = tokens
  PROVE  calls' \in [Handlers -> Call \cup {None}] /\ Shapes' /\ Moves /\ (Calm(h) => Sweeps)
BY OneCall, SameTokens DEF Ends

LEMMA TouchType ==
  ASSUME TypeInv, NEW h \in Handlers, calls[h] # None, calls[h].stage \in {"slide", "open"},
         TouchSession(calls[h].sid)
  PROVE  seen' \in [Sids -> 0 .. Idle] /\ Slides
<1>1. PICK s \in Sids : s = calls[h].sid
  BY CallInFlight DEF Call
<1>2. Idle \in 0 .. Idle
  BY SessionsAssumption
<1>3. CASE s = 0
  <2>1. seen' = seen
    BY <1>1, <1>3 DEF TouchSession
  <2> QED  BY <2>1 DEF TypeInv, TypeOK, Slides
<1>4. CASE s # 0
  <2>1. seen' = [seen EXCEPT ![s] = Idle]
    BY <1>1, <1>4 DEF TouchSession
  <2>2. seen' \in [Sids -> 0 .. Idle]
    BY <1>2, <2>1 DEF TypeInv, TypeOK
  <2>3. \A t \in Sids : t # s => seen'[t] = seen[t]
    BY <2>1 DEF TypeInv, TypeOK
  <2>4. \A t \in Sids : seen'[t] > seen[t] => t = s
    BY <2>3 DEF TypeInv, TypeOK
  <2> QED  BY <1>1, <1>4, <2>2, <2>4 DEF Slides
<1> QED  BY <1>3, <1>4

LEMMA SlideKeeps ==
  ASSUME TypeInv, History, NEW h \in Handlers, Slide(h)
  PROVE  StepKept
<1>0. Calm(h)
  BY DEF Slide, Stage, Calm, Sweeping
<1>1. calls[h] # None /\ calls[h].stage = "slide" /\ Shape(calls[h]) /\ calls[h] \in Call
  BY CallInFlight DEF Slide, Stage
<1>2. seen' \in [Sids -> 0 .. Idle] /\ Slides
  BY <1>1, TouchType DEF Slide
<1>3. calls' \in [Handlers -> Call \cup {None}] /\ Shapes' /\ Moves /\ Sweeps
  <2>0. tokens' = tokens
    BY DEF Slide
  <2>1. CASE calls[h].op = "change"
    <3>1. To(h, "write")
      BY <2>1 DEF Slide
    <3>2. PICK d \in Call : /\ calls' = [calls EXCEPT ![h] = d] /\ d.stage = "write"
                            /\ SameBut(calls[h], d) /\ d.sid = calls[h].sid
      BY <1>1, <3>1, GoingOn DEF Stages
    <3>3. Shape(d) /\ Goes(h, d)
      BY <1>1, <2>1, <3>2 DEF Shape, Goes, Follows, SameBut
    <3> QED  BY <2>0, <3>2, <3>3, <1>0, OneCall, SameTokens
  <2>2. CASE calls[h].op # "change"
    BY <2>0, <2>2, <1>0, EndedCall DEF Slide
  <2> QED  BY <2>1, <2>2
<1>4. KeyTypes /\ LinksUsed
  BY <1>2 DEF Slide, KeyTypes, LinksUsed, TypeInv, TypeOK
<1> QED  BY <1>2, <1>3, <1>4, TypedStep

LEMMA ExpireKeeps ==
  ASSUME TypeInv, History, NEW h \in Handlers, Expire(h)
  PROVE  StepKept
<1>0. Calm(h)
  BY DEF Expire, Stage, Calm, Sweeping
<1>1. calls[h] # None /\ calls[h].stage = "expire" /\ Shape(calls[h]) /\ calls[h] \in Call
  BY CallInFlight DEF Expire, Stage
<1>2. calls[h].jti \in DOMAIN tokens
  BY <1>1 DEF Shape, Call
<1>3. live' \subseteq live /\ blocked' \subseteq DOMAIN tokens
  BY <1>2 DEF Expire, RevokeRefreshJti, TypeInv, TypeOK
<1>4. cookie' \in DOMAIN tokens \cup {None}
  BY DEF Expire, AnswerCookie, TypeInv, TypeOK
<1>5. calls' \in [Handlers -> Call \cup {None}] /\ Shapes' /\ Moves /\ Sweeps
  BY <1>0, EndedCall DEF Expire
<1>6. KeyTypes /\ LinksUsed /\ Slides
  BY <1>3, <1>4 DEF Expire, KeyTypes, LinksUsed, Slides, TypeInv, TypeOK
<1> QED  BY <1>5, <1>6, TypedStep

LEMMA RevokeKeeps ==
  ASSUME TypeInv, History, NEW h \in Handlers, Revoke(h)
  PROVE  StepKept
<1>0. Calm(h)
  BY DEF Revoke, Stage, Calm, Sweeping
<1>1. calls[h] # None /\ calls[h].stage = "revoke" /\ Shape(calls[h]) /\ calls[h] \in Call
  BY CallInFlight DEF Revoke, Stage
<1>2. calls[h].op \in {"refresh", "logout"} /\ calls[h].jti \in DOMAIN tokens
  BY <1>1 DEF Shape, Call
<1>3. live' \subseteq live /\ blocked' \subseteq DOMAIN tokens
  BY <1>2 DEF Revoke, RevokeRefreshJti, TypeInv, TypeOK
<1>4. calls' \in [Handlers -> Call \cup {None}] /\ Shapes' /\ Moves /\ Sweeps
  <2>1. PICK x \in Stages : /\ x = IF calls[h].op = "refresh" THEN "register" ELSE "end"
                            /\ To(h, x)
    BY DEF Revoke, Stages
  <2>2. PICK d \in Call : /\ calls' = [calls EXCEPT ![h] = d] /\ d.stage = x
                          /\ SameBut(calls[h], d) /\ d.sid = calls[h].sid
    BY <1>1, <2>1, GoingOn
  <2>3. Shape(d) /\ Goes(h, d)
    BY <1>1, <1>2, <2>1, <2>2 DEF Shape, Goes, Follows, SameBut
  <2>4. tokens' = tokens
    BY DEF Revoke
  <2> QED  BY <2>2, <2>3, <2>4, <1>0, OneCall, SameTokens
<1>5. KeyTypes /\ LinksUsed /\ Slides
  BY <1>3 DEF Revoke, KeyTypes, LinksUsed, Slides, TypeInv, TypeOK
<1> QED  BY <1>4, <1>5, TypedStep

LEMMA OpenKeeps ==
  ASSUME TypeInv, History, NEW h \in Handlers, Open(h)
  PROVE  StepKept
<1>0. Calm(h)
  BY DEF Open, Stage, Calm, Sweeping
<1>1. calls[h] # None /\ calls[h].stage = "open" /\ Shape(calls[h]) /\ calls[h] \in Call
  BY CallInFlight DEF Open, Stage
<1>2. seen' \in [Sids -> 0 .. Idle] /\ Slides
  BY <1>1, TouchType DEF Open
<1>3. access' \in [Sids -> 0 .. Access]
  <2>1. access' = [access EXCEPT ![calls[h].sid] = Access]
    BY DEF Open
  <2>2. access \in [Sids -> 0 .. Access] /\ Access \in 0 .. Access
    BY SessionsAssumption DEF TypeInv, TypeOK
  <2> QED  BY <2>1, <2>2
<1>4. cookie' \in DOMAIN tokens \cup {None}
  BY <1>1 DEF Open, AnswerCookie, TypeInv, TypeOK, Shape
<1>5. calls' \in [Handlers -> Call \cup {None}] /\ Shapes' /\ Moves /\ Sweeps
  BY <1>0, EndedCall DEF Open
<1>6. KeyTypes /\ LinksUsed
  BY <1>2, <1>3, <1>4 DEF Open, KeyTypes, LinksUsed, TypeInv, TypeOK
<1> QED  BY <1>2, <1>5, <1>6, TypedStep

LEMMA EndKeeps ==
  ASSUME TypeInv, History, NEW h \in Handlers, End(h)
  PROVE  StepKept
<1>0. Calm(h)
  BY DEF End, Stage, Calm, Sweeping
<1>1. calls[h] # None /\ calls[h] \in Call
  BY CallInFlight DEF End, Stage
<1>2. seen' \in [Sids -> 0 .. Idle] /\ \A s \in Sids : seen'[s] <= seen[s]
  <2>1. PICK s \in Sids : s = calls[h].sid
    BY <1>1 DEF Call
  <2>2. seen' = seen \/ seen' = [seen EXCEPT ![s] = 0]
    BY <2>1 DEF End, EndSession
  <2>3. seen \in [Sids -> 0 .. Idle] /\ 0 \in 0 .. Idle
    BY SessionsAssumption DEF TypeInv, TypeOK
  <2>4. seen' \in [Sids -> 0 .. Idle]
    BY <2>2, <2>3
  <2>5. \A t \in Sids : seen'[t] = seen[t] \/ seen'[t] = 0
    BY <2>2, <2>3
  <2>6. \A t \in Sids : seen[t] \in 0 .. Idle
    BY <2>3
  <2> QED  BY <2>4, <2>5, <2>6
<1>3. cookie' \in DOMAIN tokens \cup {None}
  BY DEF End, AnswerCookie, TypeInv, TypeOK
<1>4. calls' \in [Handlers -> Call \cup {None}] /\ Shapes' /\ Moves /\ Sweeps
  BY <1>0, EndedCall DEF End
<1>5. Slides
  BY <1>2 DEF Slides, TypeInv, TypeOK
<1>6. KeyTypes /\ LinksUsed
  BY <1>2, <1>3 DEF End, KeyTypes, LinksUsed, TypeInv, TypeOK
<1> QED  BY <1>4, <1>5, <1>6, TypedStep

LEMMA BurnKeeps ==
  ASSUME TypeInv, History, NEW h \in Handlers, Burn(h)
  PROVE  StepKept
<1>0. Calm(h)
  BY DEF Burn, Stage, Calm, Sweeping
<1>1. calls[h] # None /\ calls[h].stage = "burn" /\ Shape(calls[h]) /\ calls[h] \in Call
  BY CallInFlight DEF Burn, Stage
<1>2. To(h, "load") /\ links' = links \ {calls[h].link}
  BY DEF Burn
<1>3. PICK d \in Call : /\ calls' = [calls EXCEPT ![h] = d] /\ d.stage = "load"
                        /\ SameBut(calls[h], d) /\ d.sid = calls[h].sid
  BY <1>1, <1>2, GoingOn DEF Stages
<1>4. Shape(d) /\ Goes(h, d)
  BY <1>1, <1>2, <1>3 DEF Shape, Goes, Follows, SameBut, Call
<1>5. calls' \in [Handlers -> Call \cup {None}] /\ Shapes' /\ Moves /\ Sweeps
  BY <1>3, <1>4, <1>0, OneCall, SameTokens DEF Burn
<1>6. KeyTypes /\ LinksUsed /\ Slides
  BY <1>2 DEF Burn, KeyTypes, LinksUsed, Slides, TypeInv, TypeOK
<1> QED  BY <1>5, <1>6, TypedStep

LEMMA WritePasswordKeeps ==
  ASSUME TypeInv, History, NEW h \in Handlers, WritePassword(h)
  PROVE  StepKept
<1>1. PICK c \in Call : c = calls[h] /\ c # None /\ c.stage = "write" /\ Shape(c)
  BY CallInFlight DEF WritePassword, Stage
<1>2. PICK w \in 0 .. MaxWrites : w = writes + 1
  BY SessionsAssumption DEF WritePassword, TypeInv, TypeOK
<1>3. /\ writes' = w /\ user' = [user EXCEPT !.password = w]
      /\ used' = used \cup ({c.link} \ {None})
      /\ calls' = [calls EXCEPT ![h].password = w, ![h].stage = "scan"]
  BY <1>1, <1>2 DEF WritePassword
<1>4. user' \in User
  BY <1>3 DEF User, TypeInv, TypeOK
<1>5. PICK d : d = [c EXCEPT !.password = w, !.stage = "scan"]
  OBVIOUS
<1>6. /\ d \in Call /\ d.stage = "scan" /\ d.op = c.op /\ d.sid = c.sid
      /\ d.link = c.link /\ d.jti = c.jti /\ d.mine = c.mine /\ d.keys = c.keys
      /\ d.overlapped = c.overlapped /\ d.password = w
  BY <1>5 DEF Call
<1>7. calls' = [calls EXCEPT ![h] = d]
  BY <1>1, <1>3, <1>5
<1>8. c.op \in {"change", "reset", "admin"}
  BY <1>1 DEF Shape, Call
<1>9. Shape(d)
  BY <1>1, <1>6, <1>8 DEF Shape
<1>10. Goes(h, d)
  <2>1. user'.password = w
    BY <1>3 DEF TypeInv, TypeOK, User
  <2> QED  BY <1>1, <1>6, <2>1 DEF Goes, Follows
<1>11. tokens' = tokens
  BY DEF WritePassword
<1>12. calls' \in [Handlers -> Call \cup {None}] /\ Shapes' /\ Moves
  BY <1>6, <1>7, <1>9, <1>10, <1>11, OneCall, SameTokens
<1>13. c.link \in Links \cup {None}
  BY DEF Call
<1>14. LinksUsed
  BY <1>1, <1>3 DEF LinksUsed, Stage, WritePassword
<1>15. KeyTypes /\ Slides
  BY <1>3, <1>4, <1>13 DEF WritePassword, KeyTypes, Slides, TypeInv, TypeOK
<1>16. Sweeps
  <2>1. calls'[h] = d
    BY <1>7 DEF TypeInv, TypeOK
  <2>2. \E g \in Handlers : Stage(g, "write") /\ calls'[g] # None /\ calls'[g].stage = "scan"
    BY <1>1, <1>6, <2>1, NullAssumption DEF Stage
  <2>3. \A g \in Sweeping : g \in Handlers /\ g # h /\ calls'[g] = calls[g]
    BY <1>1, <1>7 DEF Sweeping, InFlight, TypeInv, TypeOK
  <2> QED  BY <2>2, <2>3 DEF Sweeps, Sweeping, InFlight
<1> QED  BY <1>12, <1>14, <1>15, <1>16, TypedStep

LEMMA ScanKeeps ==
  ASSUME TypeInv, History, NEW h \in Handlers, Scan(h)
  PROVE  StepKept
<1>1. PICK c \in Call : c = calls[h] /\ c # None /\ c.stage = "scan" /\ Shape(c)
  BY CallInFlight DEF Scan, Stage
<1>2. live \in SUBSET Jtis
  BY TokenType DEF TypeInv, TypeOK
<1>3. PICK d : d = [c EXCEPT !.keys = live, !.stage = "delete"]
  OBVIOUS
<1>4. /\ d \in Call /\ d.stage = "delete" /\ d.op = c.op /\ d.sid = c.sid
      /\ d.link = c.link /\ d.jti = c.jti /\ d.mine = c.mine /\ d.keys = live
      /\ d.overlapped = c.overlapped /\ d.password = c.password
  BY <1>2, <1>3 DEF Call
<1>5. calls' = [Overlapping(h) EXCEPT ![h] = d]
  BY <1>1, <1>3 DEF Scan, Overlapping
<1>6. c.op \in {"change", "reset", "admin"}
  BY <1>1 DEF Shape, Call
<1>7. Shape(d)
  BY <1>1, <1>4, <1>6 DEF Shape
<1>8. Goes(h, d)
  BY <1>1, <1>4 DEF Goes, Follows
<1>9. calls' \in [Handlers -> Call \cup {None}] /\ Shapes' /\ Moves
  BY <1>4, <1>5, <1>7, <1>8, OneSweep DEF Scan
<1>10. KeyTypes /\ LinksUsed /\ Slides
  BY DEF Scan, KeyTypes, LinksUsed, Slides, TypeInv, TypeOK
<1>11. Sweeps
  <2>1. \A g \in Sweeping : calls'[g] # None /\ calls'[g].stage \in {"scan", "delete"}
    <3>1. ASSUME NEW g \in Sweeping
          PROVE  calls'[g] # None /\ calls'[g].stage \in {"scan", "delete"}
      <4>1. g \in Handlers /\ calls[g] # None /\ calls[g].stage \in {"scan", "delete"}
        BY <3>1 DEF Sweeping, InFlight
      <4>2. CASE g = h
        <5>1. calls'[h] = d
          BY <1>5 DEF Overlapping
        <5> QED  BY <1>4, <4>2, <5>1, NullAssumption
      <4>3. CASE g # h
        <5>1. calls'[g] = Overlapping(h)[g]
          BY <1>5, <4>1, <4>3 DEF Overlapping
        <5>2. calls'[g] \in Call /\ calls'[g].stage = calls[g].stage
          BY <4>1, <4>3, <5>1, OthersOverlapped
        <5> QED  BY <4>1, <5>2, NullAssumption
      <4> QED  BY <4>2, <4>3
    <3> QED  BY <3>1
  <2>2. user' = user
    BY DEF Scan
  <2>3. \A g \in Sweeping : g \in Handlers
    BY DEF Sweeping, InFlight
  <2> QED  BY <2>1, <2>2, <2>3 DEF Sweeps, Sweeping, InFlight
<1> QED  BY <1>9, <1>10, <1>11, TypedStep

LEMMA DeleteKeeps ==
  ASSUME TypeInv, History, NEW h \in Handlers, Delete(h)
  PROVE  StepKept
<1>1. PICK c \in Call : c = calls[h] /\ c # None /\ c.stage = "delete" /\ Shape(c)
  BY CallInFlight DEF Delete, Stage
<1>2. calls' \in [Handlers -> Call \cup {None}] /\ Shapes' /\ Moves
  <2>1. CASE c.op = "change"
    <3>0. 0 \in Sids
      BY SessionsAssumption DEF Sids
    <3>1. PICK d : d = [c EXCEPT !.sid = 0, !.stage = "register"]
      OBVIOUS
    <3>2. /\ d \in Call /\ d.stage = "register" /\ d.op = c.op /\ d.sid = 0
          /\ d.link = c.link /\ d.jti = c.jti /\ d.mine = c.mine /\ d.keys = c.keys
          /\ d.overlapped = c.overlapped /\ d.password = c.password
      BY <3>0, <3>1 DEF Call
    <3>3. calls' = [Overlapping(h) EXCEPT ![h] = d]
      <4>1. calls' = [Overlapping(h) EXCEPT ![h].sid = 0, ![h].stage = "register"]
        BY <1>1, <2>1 DEF Delete
      <4>2. Overlapping(h)[h] = c
        BY <1>1 DEF Overlapping
      <4> QED  BY <3>1, <4>1, <4>2
    <3>4. Shape(d) /\ Goes(h, d)
      BY <1>1, <2>1, <3>2 DEF Shape, Goes, Follows
    <3> QED  BY <3>2, <3>3, <3>4, OneSweep DEF Delete
  <2>2. CASE c.op # "change"
    <3>1. calls' = [Overlapping(h) EXCEPT ![h] = None]
      BY <1>1, <2>2 DEF Delete
    <3> QED  BY <3>1, OneSweep DEF Delete
  <2> QED  BY <2>1, <2>2
<1>3. undisturbed' \in BOOLEAN
  BY DEF Delete
<1>4. KeyTypes /\ LinksUsed /\ Slides
  BY <1>3 DEF Delete, KeyTypes, LinksUsed, Slides, TypeInv, TypeOK
<1>5. \A g \in Handlers \ {h} : calls'[g] = Overlapping(h)[g]
  BY DEF Delete, Overlapping
<1>6. \A g \in Handlers \ {h} : calls[g] = None => calls'[g] = None
  BY <1>5 DEF Overlapping
<1>7. \A g \in Handlers \ {h} : calls[g] # None =>
        calls'[g] \in Call /\ calls'[g].stage = calls[g].stage /\ calls'[g].overlapped
  BY <1>5, OthersOverlapped
<1>8. Sweeps
  <2>1. user' = user /\ live' \cap calls[h].keys = {} /\ Stage(h, "delete")
    BY DEF Delete
  <2>2. \A g \in Handlers \ {h} : calls'[g] # None => calls'[g].overlapped
    BY <1>6, <1>7
  <2>3. \A g \in Sweeping : g # h => g \in Sweeping'
    BY <1>7, NullAssumption DEF Sweeping, InFlight
  <2> QED  BY <2>1, <2>2, <2>3 DEF Sweeps
<1> QED  BY <1>2, <1>4, <1>8, TypedStep

LEMMA RegisterKeeps ==
  ASSUME TypeInv, History, NEW h \in Handlers, Register(h)
  PROVE  StepKept
<1>0. Calm(h)
  BY DEF Register, Stage, Calm, Sweeping
<1>1. PICK c \in Call : c = calls[h] /\ c # None /\ c.stage = "register" /\ Shape(c)
  BY CallInFlight DEF Register, Stage
<1>2. Len(tokens) < MaxTokens /\ Len(tokens) \in Nat /\ MaxTokens \in Nat
  BY SessionsAssumption DEF Register, TypeInv, TypeOK
<1>3. PICK s : s = IF c.sid # 0 THEN c.sid ELSE NewSession
  OBVIOUS
<1>4. s \in Sids \ {0}
  BY <1>2, <1>3, NewSessionIsNew DEF Call
<1>5. PICK t : t = [sid |-> s,
                    slipped |-> \/ c.overlapped
                                \/ Sweeping \ {h} # {}
                                \/ c.op = "refresh" /\ tokens[c.jti].slipped,
                    opened |-> IF c.op = "refresh" THEN tokens[c.jti].opened ELSE c.password]
  OBVIOUS
<1>6. tokens' = Append(tokens, t)
  BY <1>1, <1>3, <1>5 DEF Register
<1>7. t \in Token
  <2>1. c.op = "refresh" => c.jti \in DOMAIN tokens
    BY <1>1 DEF Shape
  <2>2. c.op = "refresh" => tokens[c.jti].opened \in 0 .. MaxWrites
                            /\ tokens[c.jti].slipped \in BOOLEAN
    BY <2>1, TokenType
  <2>3. c.overlapped \in BOOLEAN /\ c.password \in 0 .. MaxWrites
    BY DEF Call
  <2> DEFINE slips  == \/ c.overlapped
                       \/ Sweeping \ {h} # {}
                       \/ c.op = "refresh" /\ tokens[c.jti].slipped
             opened == IF c.op = "refresh" THEN tokens[c.jti].opened ELSE c.password
  <2>4. slips \in BOOLEAN
    OBVIOUS
  <2>5. opened \in 0 .. MaxWrites
    BY <2>2, <2>3
  <2>6. t = [sid |-> s, slipped |-> slips, opened |-> opened]
    BY <1>5
  <2> HIDE DEF slips, opened
  <2> QED  BY <1>4, <2>4, <2>5, <2>6 DEF Token
<1>8. /\ tokens' \in Seq(Token) /\ Len(tokens') = Len(tokens) + 1
      /\ DOMAIN tokens' = DOMAIN tokens \cup {Len(tokens) + 1}
      /\ \A j \in DOMAIN tokens : tokens'[j] = tokens[j]
      /\ tokens'[Len(tokens) + 1] = t
  BY <1>2, <1>6, <1>7 DEF TypeInv, TypeOK
<1>9. PICK d : d = [c EXCEPT !.sid = s, !.jti = Len(tokens) + 1, !.stage = "open"]
  OBVIOUS
<1>10. /\ d \in Call /\ d.stage = "open" /\ d.op = c.op /\ d.sid = s
       /\ d.link = c.link /\ d.jti = Len(tokens) + 1 /\ d.mine = c.mine
       /\ d.keys = c.keys /\ d.overlapped = c.overlapped /\ d.password = c.password
  <2>1. Len(tokens) + 1 \in Jtis
    BY <1>2 DEF Jtis
  <2> QED  BY <1>4, <1>9, <2>1 DEF Call
<1>11. calls' = [calls EXCEPT ![h] = d]
  BY <1>1, <1>3, <1>9 DEF Register
<1>12. Shape(d)'
  <2>1. c.op \in {"refresh", "login", "change"} /\ c.link = None
    BY <1>1 DEF Shape, Call
  <2>2. t.sid = s
    BY <1>5
  <2>3. d.jti \in DOMAIN tokens' /\ tokens'[d.jti].sid = d.sid
    BY <1>8, <1>10, <2>2
  <2> QED  BY <1>10, <2>1, <2>3 DEF Shape
<1>13. Goes(h, d)
  BY <1>1, <1>3, <1>10 DEF Goes, Follows
<1>14. calls' \in [Handlers -> Call \cup {None}] /\ Shapes' /\ Moves /\ Sweeps
  BY <1>8, <1>10, <1>11, <1>12, <1>13, <1>0, OneCall
<1>15. TypeOK'
  <2>1. live' \subseteq DOMAIN tokens'
    BY <1>8 DEF Register, TypeInv, TypeOK
  <2>2. Len(tokens') <= MaxTokens
    BY <1>2, <1>8
  <2>3. blocked' \subseteq DOMAIN tokens' /\ cookie' \in DOMAIN tokens' \cup {None}
    BY <1>8 DEF Register, TypeInv, TypeOK
  <2> QED  BY <1>8, <1>14, <2>1, <2>2, <2>3 DEF Register, TypeInv, TypeOK, History
<1>16. Numbered'
  <2>1. Opened' = Opened \cup {s}
    BY <1>4, <1>5, <1>8 DEF Opened
  <2>2. CASE s = NewSession
    BY <2>1, <2>2, NewSessionIsNew DEF Numbered
  <2>3. CASE s # NewSession
    <3>1. c.op = "refresh" /\ s = tokens[c.jti].sid /\ c.jti \in DOMAIN tokens
      BY <1>1, <1>3, <2>3 DEF Shape, Call
    <3>2. s \in Opened
      BY <1>4, <3>1 DEF Opened
    <3> QED  BY <2>1, <3>2 DEF TypeInv, Numbered
  <2> QED  BY <2>2, <2>3
<1>17. Slides /\ LinksUsed
  BY DEF Register, Slides, LinksUsed, TypeInv, TypeOK
<1>18. Mints
  <2>1. Minted(h, t)
    BY <1>1, <1>5 DEF Minted
  <2>2. live' = live \cup {Len(tokens) + 1}
    BY DEF Register
  <2> QED  BY <1>1, <1>8, <2>1, <2>2 DEF Mints, Stage
<1> QED  BY <1>8, <1>14, <1>15, <1>16, <1>17, <1>18 DEF StepKept, TypeInv

LEMMA SameCalls ==
  ASSUME TypeInv, calls' = calls, tokens' = tokens, user'.password = user.password
  PROVE  calls' \in [Handlers -> Call \cup {None}] /\ Shapes' /\ Moves /\ Sweeps
<1>1. ASSUME NEW g \in Handlers, calls'[g] # None PROVE Shape(calls[g])'
  BY <1>1 DEF TypeInv, Shapes, Shape
<1>2. ASSUME NEW g \in Handlers, calls'[g] # None PROVE Goes(g, calls'[g])
  BY <1>2 DEF Goes, Follows, SameBut
<1>3. Sweeps
  BY DEF Sweeps, Sweeping, InFlight
<1> QED  BY <1>1, <1>2, <1>3 DEF Shapes, Moves, TypeInv, TypeOK

LEMMA OthersKeep ==
  ASSUME TypeInv, History, Switch \/ Tick \/ \E l \in Links : ForgotPassword(l)
  PROVE  StepKept
<1>2. CASE Switch
  <2>1. user' \in User /\ user'.password = user.password
    BY <1>2 DEF Switch, User, TypeInv, TypeOK
  <2>2. begun' \in 0 .. MaxCalls
    BY <1>2, SessionsAssumption DEF Switch, TypeInv, TypeOK
  <2>3. KeyTypes /\ LinksUsed /\ Slides
    BY <1>2, <2>1, <2>2 DEF Switch, KeyTypes, LinksUsed, Slides, TypeInv, TypeOK
  <2> QED  BY <1>2, <2>1, <2>3, SameCalls, TypedStep DEF Switch
<1>3. CASE Tick
  <2>1. \A s \in Sids : seen[s] \in 0 .. Idle /\ access[s] \in 0 .. Access
    BY DEF TypeInv, TypeOK
  <2>2. seen' = [s \in Sids |-> IF seen[s] = 0 THEN 0 ELSE seen[s] - 1]
        /\ access' = [s \in Sids |-> IF access[s] = 0 THEN 0 ELSE access[s] - 1]
    BY <1>3 DEF Tick
  <2>3. seen' \in [Sids -> 0 .. Idle] /\ access' \in [Sids -> 0 .. Access]
    BY <2>1, <2>2, SessionsAssumption
  <2>4. \A s \in Sids : ~(seen'[s] > seen[s])
    BY <2>1, <2>2
  <2>5. KeyTypes /\ LinksUsed
    BY <1>3, <2>3 DEF Tick, KeyTypes, LinksUsed, TypeInv, TypeOK
  <2> QED  BY <1>3, <2>4, <2>5, SameCalls, TypedStep DEF Tick, Slides
<1>4. ASSUME NEW l \in Links, ForgotPassword(l) PROVE StepKept
  <2>1. begun' \in 0 .. MaxCalls
    BY <1>4, SessionsAssumption DEF ForgotPassword, TypeInv, TypeOK
  <2>2. LinksUsed
    BY <1>4 DEF ForgotPassword, LinksUsed, InFlight
  <2>3. KeyTypes /\ Slides
    BY <1>4, <2>1 DEF ForgotPassword, KeyTypes, Slides, TypeInv, TypeOK
  <2> QED  BY <1>4, <2>2, <2>3, SameCalls, TypedStep DEF ForgotPassword
<1> QED  BY <1>2, <1>3, <1>4

LEMMA StutterKeeps ==
  ASSUME TypeInv, UNCHANGED vars
  PROVE  StepKept
<1>1. History /\ KeyTypes
  BY DEF vars, TypeInv, TypeOK, History, KeyTypes
<1>2. Slides /\ LinksUsed
  BY DEF vars, Slides, LinksUsed, TypeInv, TypeOK
<1> QED  BY <1>1, <1>2, SameCalls, TypedStep DEF vars

LEMMA NextKeeps ==
  ASSUME TypeInv, Next
  PROVE  StepKept
<1>1. History
  BY DEF Next, History, TypeInv, TypeOK
<1>2. ASSUME NEW h \in Handlers, Work(h) PROVE StepKept
  BY <1>1, <1>2, CheckSessionKeeps, LoadUserKeeps, SlideKeeps, VerifyPasswordKeeps,
     ExpireKeeps, RevokeKeeps, RegisterKeeps, OpenKeeps, EndKeeps, BurnKeeps,
     WritePasswordKeeps, ScanKeeps, DeleteKeeps DEF Work
<1> QED  BY <1>1, <1>2, BeginningsKeep, RefreshKeeps, OthersKeep DEF Next, Step

LEMMA InitialTypes == Init => TypeInv
<1> SUFFICES ASSUME Init PROVE TypeInv
  OBVIOUS
<1>1. 0 \in Sids /\ 1 \in Sids /\ 2 \in Sids /\ MaxTokens >= 2
  BY SessionsAssumption DEF Sids
<1>2. Old(0) \in Token /\ Old(1) \in Token /\ Old(2) \in Token
  BY <1>1, SessionsAssumption DEF Old, Token
<1>3. PICK old, first, second : old = Old(0) /\ first = Old(1) /\ second = Old(2)
  OBVIOUS
<1>4. old.sid = 0 /\ first.sid = 1 /\ second.sid = 2
  BY <1>3 DEF Old
<1>5. tokens \in Seq(Token) /\ Len(tokens) <= MaxTokens /\ 1 \in DOMAIN tokens /\ Numbered
  <2>1. CASE tokens = <<Old(0)>>
    <3>1. DOMAIN tokens = {1} /\ tokens[1] = old
      BY <1>3, <2>1
    <3>2. Opened = {}
      BY <1>4, <3>1 DEF Opened
    <3>3. Opened = 1 .. 0 /\ 0 \in Nat
      BY <3>2
    <3>4. Numbered
      BY <3>3 DEF Numbered
    <3>5. tokens \in Seq(Token) /\ Len(tokens) = 1
      BY <1>2, <2>1
    <3> QED  BY SessionsAssumption, <1>1, <3>1, <3>4, <3>5
  <2>2. CASE tokens = <<Old(1), Old(2)>>
    <3>1. DOMAIN tokens = 1 .. 2 /\ tokens[1] = first /\ tokens[2] = second
      BY <1>3, <2>2
    <3>2. \A j \in DOMAIN tokens : tokens[j].sid = j
      BY <1>4, <3>1
    <3>3. Opened = 1 .. 2
      BY <3>1, <3>2 DEF Opened
    <3>4. Numbered
      BY <3>3 DEF Numbered
    <3>5. tokens \in Seq(Token) /\ Len(tokens) = 2
      BY <1>2, <2>2
    <3> QED  BY <1>1, <3>1, <3>4, <3>5
  <2> QED  BY <2>1, <2>2 DEF Init
<1>6. seen \in [Sids -> 0 .. Idle] /\ access \in [Sids -> 0 .. Access]
  BY SessionsAssumption DEF Init
<1>7. user \in User /\ writes \in 0 .. MaxWrites /\ begun \in 0 .. MaxCalls
  BY SessionsAssumption DEF Init, User
<1>8. calls \in [Handlers -> Call \cup {None}] /\ Shapes
  BY DEF Init, Shapes
<1> QED  BY <1>5, <1>6, <1>7, <1>8 DEF Init, TypeInv, TypeOK

(* Every variable of Sessions keeps its type, for any number of tokens,    *)
(* sessions and calls in flight.                                           *)
THEOREM SessionsTypeCorrect == Spec => []TypeOK
<1>1. Init => TypeInv
  BY InitialTypes
<1>2. TypeInv /\ [Next]_vars => TypeInv'
  BY NextKeeps, StutterKeeps DEF StepKept
<1>3. TypeInv => TypeOK
  BY DEF TypeInv
<1> QED  BY <1>1, <1>2, <1>3, PTL DEF Spec

-----------------------------------------------------------------------------
(* A link of a call past the deletion is gone, and so is a used one.       *)
LinkInv ==
  /\ used \cap links = {}
  /\ \A h \in Handlers : calls[h] # None /\ calls[h].link # None /\ calls[h].stage # "burn"
        => calls[h].link \notin links

LEMMA LinkStep ==
  ASSUME TypeInv, LinkInv, StepKept
  PROVE  LinkInv'
<1>1. TypeInv' /\ Moves /\ LinksUsed
  BY DEF StepKept
<1>2. CASE links' \subseteq links
  <2>1. used' \cap links' = {}
    <3>1. ASSUME NEW l \in used', l \in links' PROVE FALSE
      <4>1. l \in links /\ l \notin used
        BY <1>2, <3>1 DEF LinkInv
      <4>2. PICK h \in Handlers : Stage(h, "write") /\ calls[h].link = l /\ l # None
        BY <1>1, <3>1, <4>1 DEF LinksUsed
      <4> QED  BY <4>1, <4>2 DEF LinkInv, Stage
    <3> QED  BY <3>1
  <2>2. ASSUME NEW h \in Handlers, calls'[h] # None, calls'[h].link # None,
               calls'[h].stage # "burn"
        PROVE  calls'[h].link \notin links'
    <3>1. Goes(h, calls'[h])
      BY <1>1, <2>2 DEF Moves
    <3>2. calls[h] # None
      BY <2>2, <3>1 DEF Goes, Begun
    <3>3. Follows(calls[h], calls'[h])
      BY <3>1, <3>2 DEF Goes
    <3>4. CASE calls[h].stage = "burn"
      BY <2>2, <3>3, <3>4 DEF Follows
    <3>5. CASE calls[h].stage # "burn"
      BY <1>2, <2>2, <3>2, <3>3, <3>5 DEF Follows, LinkInv
    <3> QED  BY <3>4, <3>5
  <2> QED  BY <2>1, <2>2 DEF LinkInv
<1>3. ASSUME NEW l \in Links \ used, links' = links \cup {l}, calls' = calls,
             \A h \in Handlers : calls[h] # None => calls[h].link # l
      PROVE  LinkInv'
  <2>1. ASSUME NEW k \in used', k \in links' PROVE FALSE
    <3>1. CASE k \in used
      BY <1>3, <2>1, <3>1 DEF LinkInv
    <3>2. CASE k \notin used
      <4>1. PICK h \in Handlers : Stage(h, "write") /\ calls[h].link = k /\ k # None
        BY <1>1, <2>1, <3>2 DEF LinksUsed
      <4>2. k # l
        BY <1>3, <4>1 DEF Stage
      <4> QED  BY <1>3, <2>1, <4>1, <4>2 DEF LinkInv, Stage
    <3> QED  BY <3>1, <3>2
  <2>2. \A h \in Handlers : calls'[h] # None /\ calls'[h].link # None /\ calls'[h].stage # "burn"
          => calls'[h].link \notin links'
    BY <1>3 DEF LinkInv
  <2> QED  BY <2>1, <2>2 DEF LinkInv
<1> QED  BY <1>1, <1>2, <1>3 DEF LinksUsed

(* A link through which a password was set is gone from Redis, whatever    *)
(* else is in flight: however many calls burn it, write and end, no call   *)
(* that comes later finds it (reset_password, forgot_password).            *)
THEOREM UsedLinksAreDead == Spec => []UsedLinkIsDead
<1>1. Init => TypeInv
  BY InitialTypes
<1>2. Init => LinkInv
  BY DEF Init, LinkInv
<1>3. TypeInv /\ [Next]_vars => StepKept
  BY NextKeeps, StutterKeeps
<1>4. StepKept => TypeInv'
  BY DEF StepKept
<1>5. TypeInv /\ LinkInv /\ StepKept => LinkInv'
  BY LinkStep
<1>6. LinkInv => UsedLinkIsDead
  BY DEF LinkInv, UsedLinkIsDead
<1> QED  BY <1>1, <1>2, <1>3, <1>4, <1>5, <1>6, PTL DEF Spec

-----------------------------------------------------------------------------
(* Calls of a session that is over have not passed their check, or end it. *)
OverInv ==
  \A s \in over :
    /\ s \in Opened /\ seen[s] = 0
    /\ \A h \in Handlers : calls[h] # None /\ calls[h].sid = s
         => calls[h].stage \in {"session", "expire"} \/ calls[h].op = "logout"

LEMMA OverStep ==
  ASSUME TypeInv, OverInv, StepKept, NEW s \in over
  PROVE  /\ s \in Opened' /\ seen'[s] = 0
         /\ \A h \in Handlers : calls'[h] # None /\ calls'[h].sid = s
              => calls'[h].stage \in {"session", "expire"} \/ calls'[h].op = "logout"
<1>1. s \in Sids \ {0} /\ s \in Opened /\ seen[s] = 0
  BY DEF OverInv, TypeInv, TypeOK, Opened
<1>2. s \in Opened'
  BY <1>1 DEF StepKept, Opened
<1>3. seen'[s] = 0
  <2>1. ~(seen'[s] > seen[s])
    <3>1. ASSUME seen'[s] > seen[s] PROVE FALSE
      <4>1. PICK h \in Handlers : /\ calls[h] # None /\ calls[h].sid = s
                                  /\ calls[h].stage \in {"slide", "open"}
        BY <1>1, <3>1 DEF StepKept, Slides
      <4>2. Shape(calls[h])
        BY <4>1, CallInFlight
      <4> QED  BY <4>1, <4>2 DEF OverInv, Shape
    <3> QED  BY <3>1
  <2>2. seen'[s] \in 0 .. Idle
    BY <1>1 DEF StepKept, TypeInv, TypeOK
  <2> QED  BY <1>1, <2>1, <2>2, SessionsAssumption
<1>4. ASSUME NEW h \in Handlers, calls'[h] # None, calls'[h].sid = s
      PROVE  calls'[h].stage \in {"session", "expire"} \/ calls'[h].op = "logout"
  <2>1. Goes(h, calls'[h])
    BY <1>4 DEF StepKept, Moves
  <2>2. calls'[h] \in Call /\ Shape(calls[h])'
    BY <1>4 DEF StepKept, TypeInv, TypeOK, Shapes
  <2>3. CASE calls[h] = None
    <3>1. Begun(calls'[h])
      BY <2>1, <2>3 DEF Goes
    <3>2. \/ calls'[h].op \in {"refresh", "api", "change", "logout"}
          \/ calls'[h].op \in {"login", "reset", "admin"}
      BY <2>2 DEF Call
    <3>3. calls'[h].op \in {"login", "reset", "admin"} => calls'[h].sid = 0
      BY <2>2, <3>1 DEF Shape, Begun
    <3> QED  BY <1>1, <1>4, <3>1, <3>2, <3>3 DEF Begun
  <2>4. CASE calls[h] # None
    <3>1. Follows(calls[h], calls'[h])
      BY <2>1, <2>4 DEF Goes
    <3>2. CASE calls[h].sid = s
      <4>1. calls[h].stage \in {"session", "expire"} \/ calls[h].op = "logout"
        BY <2>4, <3>2 DEF OverInv
      <4>2. ~IsSessionActive(calls[h].sid)
        BY <1>1, <3>2 DEF IsSessionActive
      <4> QED  BY <3>1, <4>1, <4>2 DEF Follows
    <3>3. CASE calls[h].sid # s
      <4>1. NewSession # s
        BY <1>1, NewSessionIsNew
      <4> QED  BY <1>1, <1>4, <3>1, <3>3, <4>1 DEF Follows
    <3> QED  BY <3>2, <3>3
  <2> QED  BY <2>3, <2>4
<1> QED  BY <1>2, <1>3, <1>4

(* A session that was over, with no call of it past its check, stays over, *)
(* whatever tokens of it are presented later and whatever keys expire      *)
(* meanwhile: the idle timeout and logout are final (refresh,              *)
(* get_current_user, is_session_active).                                   *)
THEOREM OverIsFinal == Spec => []OverStaysOver
<1>1. Init => TypeInv
  BY InitialTypes
<1>2. Init => OverInv
  BY DEF Init, OverInv
<1>3. TypeInv /\ [Next]_vars => StepKept
  BY NextKeeps, StutterKeeps
<1>4. StepKept => TypeInv'
  BY DEF StepKept
<1>5. TypeInv /\ OverInv /\ StepKept /\ [Next]_vars => OverInv'
  <2> SUFFICES ASSUME TypeInv, OverInv, StepKept, [Next]_vars, NEW s \in over'
               PROVE  /\ s \in Opened' /\ seen'[s] = 0
                      /\ \A h \in Handlers : calls'[h] # None /\ calls'[h].sid = s
                           => calls'[h].stage \in {"session", "expire"} \/ calls'[h].op = "logout"
    BY DEF OverInv
  <2>1. CASE s \in over
    BY <2>1, OverStep
  <2>2. CASE s \notin over
    <3>1. s \in Sids \ {0} /\ Over(s)'
      BY <2>2 DEF Next, vars
    <3>2. s \in Opened' /\ seen'[s] = 0
      BY <3>1 DEF Over, Opened
    <3>3. \A h \in Handlers : calls'[h] # None /\ calls'[h].sid = s
            => calls'[h].stage \in {"session", "expire"}
      BY <3>1 DEF Over, InFlight
    <3> QED  BY <3>2, <3>3
  <2> QED  BY <2>1, <2>2
<1>6. OverInv => OverStaysOver
  BY DEF OverInv, OverStaysOver
<1> QED  BY <1>1, <1>2, <1>3, <1>4, <1>5, <1>6, PTL DEF Spec

-----------------------------------------------------------------------------
(* Nothing is minted for a user who is barred: what may still mint has to  *)
(* find the user active first.                                             *)
BarredInv ==
  barred =>
    /\ ~user.active
    /\ \A h \in Handlers : calls[h] # None =>
         \/ calls[h].stage \in {"session", "expire", "load", "verify"}
         \/ calls[h].op \in {"reset", "admin", "logout"}

LEMMA BarredStep ==
  ASSUME TypeInv, BarredInv, StepKept, [Next]_vars
  PROVE  BarredInv'
<1> SUFFICES ASSUME barred'
             PROVE  /\ ~user'.active
                    /\ \A h \in Handlers : calls'[h] # None =>
                         \/ calls'[h].stage \in {"session", "expire", "load", "verify"}
                         \/ calls'[h].op \in {"reset", "admin", "logout"}
  BY DEF BarredInv
<1>1. CASE UNCHANGED vars
  BY <1>1 DEF vars, BarredInv
<1>2. CASE Next /\ ~barred
  <2>1. ~user'.active /\ (InFlight \subseteq Unchecked)'
    BY <1>2 DEF Next
  <2>2. \A h \in Handlers : calls'[h] # None =>
          calls'[h].stage \in {"session", "expire", "load", "verify"}
    BY <2>1 DEF InFlight, Unchecked
  <2> QED  BY <2>1, <2>2
<1>3. CASE Next /\ barred
  <2>1. ~user'.active /\ ~user.active
    BY <1>3 DEF Next, BarredInv
  <2>2. ASSUME NEW h \in Handlers, calls'[h] # None
        PROVE  \/ calls'[h].stage \in {"session", "expire", "load", "verify"}
               \/ calls'[h].op \in {"reset", "admin", "logout"}
    <3>1. Goes(h, calls'[h]) /\ calls'[h] \in Call
      BY <2>2 DEF StepKept, Moves, TypeInv, TypeOK
    <3>2. CASE calls[h] = None
      BY <3>1, <3>2 DEF Goes, Begun, Call
    <3>3. CASE calls[h] # None
      <4>1. Follows(calls[h], calls'[h])
        BY <3>1, <3>3 DEF Goes
      <4>2. \/ calls[h].stage \in {"session", "expire", "load", "verify"}
            \/ calls[h].op \in {"reset", "admin", "logout"}
        BY <1>3, <3>3 DEF BarredInv
      <4> QED  BY <2>1, <4>1, <4>2 DEF Follows
    <3> QED  BY <3>2, <3>3
  <2> QED  BY <2>1, <2>2
<1> QED  BY <1>1, <1>2, <1>3

(* No token is minted for a deactivated user and no session of theirs is   *)
(* touched, however many calls of theirs are in flight, once those past    *)
(* their check are through (get_current_user, refresh, login).             *)
THEOREM NothingAfterDeactivation == Spec => NothingForInactive
<1>1. Init => TypeInv
  BY InitialTypes
<1>2. Init => BarredInv
  BY DEF Init, BarredInv
<1>3. TypeInv /\ [Next]_vars => StepKept
  BY NextKeeps, StutterKeeps
<1>4. StepKept => TypeInv'
  BY DEF StepKept
<1>5. TypeInv /\ BarredInv /\ StepKept /\ [Next]_vars => BarredInv'
  BY BarredStep
<1>6. TypeInv /\ BarredInv /\ StepKept =>
        (barred /\ barred' => Len(tokens') = Len(tokens)
                               /\ \A s \in Sids : seen'[s] <= seen[s])
  <2> SUFFICES ASSUME TypeInv, BarredInv, StepKept, barred
               PROVE  Len(tokens') = Len(tokens) /\ \A s \in Sids : seen'[s] <= seen[s]
    OBVIOUS
  <2>1. ASSUME NEW h \in Handlers, calls[h] # None
        PROVE  calls[h].stage \notin {"register", "slide", "open"}
    <3>1. Shape(calls[h])
      BY <2>1, CallInFlight
    <3> QED  BY <2>1, <3>1 DEF BarredInv, Shape
  <2>2. tokens' = tokens
    BY <2>1 DEF StepKept, Mints, Stage
  <2>3. ASSUME NEW s \in Sids PROVE seen'[s] <= seen[s]
    <3>1. ~(seen'[s] > seen[s])
      BY <2>1 DEF StepKept, Slides
    <3>2. seen'[s] \in 0 .. Idle /\ seen[s] \in 0 .. Idle
      BY DEF StepKept, TypeInv, TypeOK
    <3> QED  BY <3>1, <3>2, SessionsAssumption
  <2> QED  BY <2>2, <2>3
<1> QED  BY <1>1, <1>2, <1>3, <1>4, <1>5, <1>6, PTL DEF Spec, NothingForInactive

-----------------------------------------------------------------------------
(* A token is valid as far as passwords go: opened with the present one, or *)
(* minted by a call that a sweep met.                                       *)
Current(j) == tokens[j].opened = user.password \/ tokens[j].slipped

\* Another call is in the middle of a sweep, or one has swept since.
Meets(h) == calls[h].overlapped \/ Sweeping \ {h} # {}

\* What a sweep is about to delete is all it has to; what may still mint
\* speaks for the present password, or meets a sweep.
Swept(h) ==
  LET c == calls[h] IN
  /\ c.stage = "delete" => \A j \in live : j \in c.keys \/ tokens[j].slipped
  /\ c.op = "refresh" /\ c.stage # "open" => Current(c.jti) \/ Meets(h)
  /\ c.op \in {"login", "change"} /\ c.stage \in {"scan", "delete", "register"} =>
       c.password = user.password \/ Meets(h)

SweepInv ==
  /\ \A j \in live : Current(j) \/ Sweeping # {}
  /\ \A h \in Handlers : calls[h] # None => Swept(h)

(* Who met a sweep has been overlapped, or still meets one.                *)
LEMMA MeetingStays ==
  ASSUME StepKept, NEW h \in Handlers, calls'[h] # None,
         \/ Sweeping \ {h} # {}
         \/ calls[h] # None /\ calls[h].overlapped
  PROVE  Meets(h)'
<1>1. CASE calls[h] # None /\ calls[h].overlapped
  <2>1. Follows(calls[h], calls'[h])
    BY <1>1 DEF StepKept, Moves, Goes
  <2> QED  BY <1>1, <2>1 DEF Follows, Meets
<1>2. CASE Sweeping \ {h} # {}
  <2>1. PICK g \in Sweeping : g # h
    BY <1>2
  <2>2. CASE g \in Sweeping'
    BY <2>1, <2>2 DEF Meets
  <2>3. CASE g \notin Sweeping'
    <3>1. \A f \in Handlers \ {g} : calls'[f] # None => calls'[f].overlapped
      BY <2>1, <2>3 DEF StepKept, Sweeps
    <3> QED  BY <2>1, <3>1 DEF Meets
  <2> QED  BY <2>2, <2>3
<1> QED  BY <1>1, <1>2

(* A password set meanwhile brings a sweep.                                *)
LEMMA NewPasswordSweeps ==
  ASSUME StepKept, NEW h \in Handlers, calls[h] = None \/ calls[h].stage # "write"
  PROVE  user'.password = user.password \/ Sweeping' \ {h} # {}
<1> SUFFICES ASSUME user'.password # user.password PROVE Sweeping' \ {h} # {}
  OBVIOUS
<1>1. PICK g \in Handlers : Stage(g, "write") /\ calls'[g] # None /\ calls'[g].stage = "scan"
  BY DEF StepKept, Sweeps
<1>2. g # h /\ g \in Sweeping'
  BY <1>1 DEF Stage, Sweeping, InFlight
<1> QED  BY <1>2

(* What is minted is current, or the minting call met a sweep.             *)
LEMMA MintedIsCurrent ==
  ASSUME TypeInv, SweepInv, NEW h \in Handlers, Stage(h, "register"), NEW t, Minted(h, t)
  PROVE  /\ t.slipped \/ t.opened = user.password
         /\ Sweeping \ {h} # {} => t.slipped
<1>1. calls[h] \in Call /\ Shape(calls[h]) /\ Swept(h)
  BY CallInFlight DEF Stage, SweepInv
<1>2. calls[h].op \in {"refresh", "login", "change"}
  BY <1>1 DEF Shape, Call, Stage
<1>3. Meets(h) => t.slipped
  BY DEF Minted, Meets
<1>4. CASE calls[h].op = "refresh"
  <2>1. Current(calls[h].jti) \/ Meets(h)
    BY <1>1, <1>4 DEF Swept, Stage
  <2> QED  BY <1>3, <1>4, <2>1 DEF Minted, Current, Meets
<1>5. CASE calls[h].op \in {"login", "change"}
  <2>1. calls[h].password = user.password \/ Meets(h)
    BY <1>1, <1>5 DEF Swept, Stage
  <2> QED  BY <1>3, <1>5, <2>1 DEF Minted, Meets
<1> QED  BY <1>2, <1>4, <1>5

LEMMA SweptStep ==
  ASSUME TypeInv, SweepInv, StepKept, NEW h \in Handlers, calls'[h] # None
  PROVE  Swept(h)'
<1> DEFINE d == calls'[h]
<1>1. Goes(h, d) /\ d \in Call /\ Shape(calls[h])'
  BY DEF StepKept, Moves, TypeInv, TypeOK, Shapes
<1>2. ASSUME d.stage = "delete", NEW j \in live'
      PROVE  j \in d.keys \/ tokens'[j].slipped
  <2>1. calls[h] # None /\ Follows(calls[h], d)
    BY <1>1, <1>2 DEF Goes, Begun, Shape, Call
  <2>2. calls[h].stage \in {"scan", "delete"}
    BY <1>2, <2>1 DEF Follows
  <2>3. h \in Sweeping
    BY <2>1, <2>2 DEF Sweeping, InFlight
  <2>4. CASE j \in live
    <3>1. j \in DOMAIN tokens /\ tokens'[j] = tokens[j]
      BY <2>4 DEF StepKept, TypeInv, TypeOK
    <3>2. CASE calls[h].stage = "scan"
      BY <1>2, <2>1, <2>4, <3>2 DEF Follows
    <3>3. CASE calls[h].stage = "delete"
      <4>1. j \in calls[h].keys \/ tokens[j].slipped
        BY <2>1, <2>4, <3>3 DEF SweepInv, Swept
      <4>2. d.keys = calls[h].keys
        BY <2>1, <3>3 DEF Follows
      <4> QED  BY <3>1, <4>1, <4>2
    <3> QED  BY <2>2, <3>2, <3>3
  <2>5. CASE j \notin live
    <3>1. PICK g \in Handlers : /\ Stage(g, "register") /\ live' = live \cup {Len(tokens) + 1}
                                /\ Minted(g, tokens'[Len(tokens) + 1])
      BY <1>2, <2>5 DEF StepKept, Mints
    <3>2. j = Len(tokens) + 1
      BY <1>2, <2>5, <3>1
    <3>3. g # h
      BY <2>2, <3>1 DEF Stage
    <3> QED  BY <2>3, <3>1, <3>2, <3>3, MintedIsCurrent
  <2> QED  BY <2>4, <2>5
<1>3. ASSUME d.op = "refresh", d.stage # "open"
      PROVE  \/ tokens'[d.jti].opened = user'.password \/ tokens'[d.jti].slipped
             \/ Meets(h)'
  <2>1. CASE calls[h] = None
    <3>1. d.jti \in live
      BY <1>1, <1>3, <2>1 DEF Goes, Begun
    <3>2. d.jti \in DOMAIN tokens /\ tokens'[d.jti] = tokens[d.jti]
      BY <3>1 DEF StepKept, TypeInv, TypeOK
    <3>3. CASE Sweeping # {}
      <4>1. h \notin Sweeping
        BY <2>1 DEF Sweeping, InFlight
      <4> QED  BY <3>3, <4>1, MeetingStays
    <3>4. CASE Sweeping = {}
      <4>1. Current(d.jti)
        BY <3>1, <3>4 DEF SweepInv
      <4>2. user'.password = user.password \/ Meets(h)'
        BY <2>1, NewPasswordSweeps DEF Meets
      <4> QED  BY <3>2, <4>1, <4>2 DEF Current
    <3> QED  BY <3>3, <3>4
  <2>2. CASE calls[h] # None
    <3>1. Follows(calls[h], d) /\ Shape(calls[h]) /\ Swept(h)
      BY <1>1, <2>2, CallInFlight DEF Goes, SweepInv
    <3>2. calls[h].op = "refresh" /\ calls[h].stage # "open" /\ d.jti = calls[h].jti
      BY <1>3, <3>1 DEF Follows
    <3>3. calls[h].stage # "write" /\ calls[h].jti \in DOMAIN tokens
      BY <3>1, <3>2 DEF Shape
    <3>4. tokens'[d.jti] = tokens[d.jti]
      BY <3>2, <3>3 DEF StepKept
    <3>5. Current(calls[h].jti) \/ Meets(h)
      BY <3>1, <3>2 DEF Swept
    <3>6. CASE Meets(h)
      BY <2>2, <3>6, MeetingStays DEF Meets
    <3>7. CASE Current(calls[h].jti)
      <4>1. user'.password = user.password \/ Meets(h)'
        BY <3>3, NewPasswordSweeps DEF Meets
      <4> QED  BY <3>2, <3>4, <3>7, <4>1 DEF Current
    <3> QED  BY <3>5, <3>6, <3>7
  <2> QED  BY <2>1, <2>2
<1>4. ASSUME d.op \in {"login", "change"}, d.stage \in {"scan", "delete", "register"}
      PROVE  d.password = user'.password \/ Meets(h)'
  <2>1. calls[h] # None /\ Follows(calls[h], d)
    BY <1>1, <1>4 DEF Goes, Begun
  <2>2. Shape(calls[h]) /\ Swept(h)
    BY <2>1, CallInFlight DEF SweepInv
  <2>3. CASE <<calls[h].stage, d.stage>> \in {<<"verify", "register">>, <<"write", "scan">>}
    BY <2>1, <2>3 DEF Follows
  <2>4. CASE <<calls[h].stage, d.stage>> \notin {<<"verify", "register">>, <<"write", "scan">>}
    <3>1. d.password = calls[h].password /\ calls[h].op = d.op
      BY <2>1, <2>4 DEF Follows
    <3>2. calls[h].stage \in {"scan", "delete", "register"}
      BY <1>4, <2>1, <2>2, <2>4, <3>1 DEF Follows, Shape
    <3>3. calls[h].password = user.password \/ Meets(h)
      BY <1>4, <2>2, <3>1, <3>2 DEF Swept
    <3>4. CASE Meets(h)
      BY <2>1, <3>4, MeetingStays DEF Meets
    <3>5. user'.password = user.password \/ Meets(h)'
      BY <3>2, NewPasswordSweeps DEF Meets
    <3> QED  BY <3>1, <3>3, <3>4, <3>5
  <2> QED  BY <2>3, <2>4
<1> QED  BY <1>2, <1>3, <1>4 DEF Swept, Current

LEMMA SweepStep ==
  ASSUME TypeInv, SweepInv, StepKept
  PROVE  SweepInv'
<1>1. ASSUME NEW j \in live', Sweeping' = {} PROVE Current(j)'
  <2>1. user'.password = user.password
    <3>1. ASSUME user'.password # user.password PROVE FALSE
      <4>1. PICK g \in Handlers : /\ Stage(g, "write") /\ calls'[g] # None
                                  /\ calls'[g].stage = "scan"
        BY <3>1 DEF StepKept, Sweeps
      <4>2. g \in Sweeping'
        BY <4>1 DEF Sweeping, InFlight
      <4> QED  BY <1>1, <4>2
    <3> QED  BY <3>1
  <2>2. CASE j \in live
    <3>1. tokens'[j] = tokens[j]
      BY <2>2 DEF StepKept, TypeInv, TypeOK
    <3>2. ASSUME NEW h \in Sweeping PROVE tokens[j].slipped
      <4>1. Stage(h, "delete") /\ live' \cap calls[h].keys = {} /\ h \in Handlers
        BY <1>1, <3>2 DEF StepKept, Sweeps, Sweeping, InFlight
      <4>2. j \in calls[h].keys \/ tokens[j].slipped
        BY <2>2, <4>1 DEF SweepInv, Swept, Stage
      <4> QED  BY <1>1, <4>1, <4>2
    <3>3. Current(j)
      BY <2>2, <3>2 DEF SweepInv, Current
    <3> QED  BY <2>1, <3>1, <3>3 DEF Current
  <2>3. CASE j \notin live
    <3>1. PICK h \in Handlers : /\ Stage(h, "register") /\ live' = live \cup {Len(tokens) + 1}
                                /\ Minted(h, tokens'[Len(tokens) + 1])
      BY <1>1, <2>3 DEF StepKept, Mints
    <3>2. j = Len(tokens) + 1
      BY <1>1, <2>3, <3>1
    <3>3. tokens'[j].slipped \/ tokens'[j].opened = user.password
      BY <3>1, <3>2, MintedIsCurrent
    <3> QED  BY <2>1, <3>3 DEF Current
  <2> QED  BY <2>2, <2>3
<1> QED  BY <1>1, SweptStep DEF SweepInv

(* A change or reset of the password ends every session that was opened    *)
(* with an older one, but for what calls in flight during the sweep mint   *)
(* (revoke_all_refresh_tokens and its callers).                            *)
THEOREM OldSessionsAreEnded == Spec => []OldSessionsEnd
<1>1. Init => TypeInv
  BY InitialTypes
<1>2. Init => SweepInv
  <2> SUFFICES ASSUME Init PROVE SweepInv
    OBVIOUS
  <2>1. ASSUME NEW j \in live PROVE tokens[j].opened = user.password
    <3>1. Old(0).opened = 0 /\ Old(1).opened = 0 /\ Old(2).opened = 0
      BY DEF Old
    <3> QED  BY <3>1 DEF Init
  <2> QED  BY <2>1 DEF Init, SweepInv, Current
<1>3. TypeInv /\ [Next]_vars => StepKept
  BY NextKeeps, StutterKeeps
<1>4. StepKept => TypeInv'
  BY DEF StepKept
<1>5. TypeInv /\ SweepInv /\ StepKept => SweepInv'
  BY SweepStep
<1>6. SweepInv => OldSessionsEnd
  BY DEF SweepInv, OldSessionsEnd, Current
<1> QED  BY <1>1, <1>2, <1>3, <1>4, <1>5, <1>6, PTL DEF Spec

-----------------------------------------------------------------------------
(* The cookie of a browser that sends its calls one by one: while one of    *)
(* them is replacing it, it may be dead; at all other times it is valid.    *)

Speaks(h) == calls[h] # None /\ calls[h].op \in {"refresh", "logout"}
Replaces(h) ==
  /\ calls[h] # None /\ calls[h].mine
  /\ calls[h].stage \in {"register", "open", "end"}
  /\ calls[h].op \in {"refresh", "logout", "change"}

\* A token that was minted and not yet handed over is known to nobody else.
OpensApart ==
  \A h \in Handlers : Stage(h, "open") =>
    /\ calls[h].jti # cookie /\ calls[h].jti \notin blocked
    /\ \A g \in Handlers \ {h} : Speaks(g) \/ Stage(g, "open") => calls[g].jti # calls[h].jti

Owners ==
  \A h \in Handlers : calls[h] # None =>
    /\ calls[h].mine => calls[h].op \in {"refresh", "login", "logout", "change"}
    /\ Speaks(h) /\ ~calls[h].mine => calls[h].jti # cookie

OneByOne == \A g, h \in MineInFlight : g = h

CookieInv ==
  /\ OpensApart /\ Owners
  /\ undisturbed =>
       /\ OneByOne
       /\ \A h \in MineInFlight : Stage(h, "open") => calls[h].jti \in live
       /\ cookie # None => IsRefreshJtiValid(cookie) \/ \E h \in Handlers : Replaces(h)

\* What a step of h does to the calls, the keys and the cookie.
Alike(g) ==
  IF calls[g] = None THEN calls'[g] = None
  ELSE /\ calls'[g] # None /\ calls'[g].op = calls[g].op /\ calls'[g].stage = calls[g].stage
       /\ calls'[g].mine = calls[g].mine /\ calls'[g].jti = calls[g].jti

Joins(d) ==
  /\ cookie' = cookie /\ d.stage # "open"
  /\ d.mine => /\ d.op \in {"refresh", "login", "logout", "change"}
               /\ undisturbed' => MineInFlight = {}
  /\ d.op \in {"refresh", "logout"} =>
       /\ d.mine \/ d.jti # cookie
       /\ ~\E g \in Handlers : Stage(g, "open") /\ calls[g].jti = d.jti

KeysTurn(h) ==
  LET c == calls[h] IN
  /\ \/ cookie' \in {cookie, None}
     \/ Stage(h, "open") /\ c.mine /\ cookie' = c.jti /\ calls'[h] = None
  /\ \/ blocked' = blocked
     \/ (Stage(h, "revoke") \/ Stage(h, "expire")) /\ blocked' = blocked \cup {c.jti}
  /\ \A j \in live : \/ j \in live'
                     \/ (Stage(h, "revoke") \/ Stage(h, "expire")) /\ j = c.jti
                     \/ Stage(h, "delete") /\ j \in c.keys
  /\ undisturbed' => undisturbed

CallTurns(h) ==
  LET c == calls[h]
      d == calls'[h]
  IN
  /\ Stage(h, "expire") /\ c.mine => cookie' = None
  /\ Stage(h, "end") /\ c.mine => cookie' = None
  /\ Stage(h, "open") => d = None /\ (c.mine => cookie' = c.jti)
  /\ Stage(h, "revoke") => d # None /\ d.stage \in {"register", "end"}
  /\ Stage(h, "register") => /\ d # None /\ d.stage = "open" /\ d.jti = Len(tokens) + 1
                             /\ d.jti \in live'
  /\ Stage(h, "delete") =>
       /\ c.op = "change" => d # None /\ d.stage = "register"
       /\ undisturbed' => c.mine \/ (cookie \notin c.keys /\ MineInFlight = {})

Turns(h) ==
  /\ \A g \in Handlers \ {h} : Alike(g)
  /\ calls[h] = None /\ calls'[h] # None => Joins(calls'[h])
  /\ KeysTurn(h) /\ CallTurns(h)

(* The new cookie is no token that is still to be handed over.             *)
LEMMA OpensStayApart ==
  ASSUME TypeInv, CookieInv, StepKept, NEW h \in Handlers, Turns(h)
  PROVE  OpensApart'
<1>1. ASSUME NEW g \in Handlers, Stage(g, "open")'
      PROVE  \/ g = h /\ Stage(h, "register") /\ calls'[h].jti = Len(tokens) + 1
             \/ g # h /\ Stage(g, "open") /\ calls'[g].jti = calls[g].jti
  <2>1. CASE g # h
    BY <1>1, <2>1 DEF Turns, Alike, Stage
  <2>2. CASE g = h
    <3>1. calls[h] # None
      BY <1>1, <2>2 DEF Turns, Joins, Stage
    <3>2. Follows(calls[h], calls'[h])
      BY <1>1, <2>2, <3>1 DEF StepKept, Moves, Goes, Stage
    <3>3. calls[h].stage \in {"register", "open"}
      BY <1>1, <2>2, <3>2 DEF Follows, Stage
    <3> QED  BY <1>1, <2>2, <3>1, <3>3 DEF Turns, CallTurns, Stage
  <2> QED  BY <2>1, <2>2
<1>2. Len(tokens) + 1 \notin DOMAIN tokens /\ None \notin DOMAIN tokens /\ Len(tokens) + 1 # None
  <2>1. Len(tokens) \in Nat /\ DOMAIN tokens = 1 .. Len(tokens)
    BY DEF TypeInv, TypeOK
  <2> QED  BY <2>1, SessionsAssumption
<1>3. ASSUME NEW g \in Handlers, Speaks(g)' \/ Stage(g, "open")', calls[g] # None,
             ~Stage(g, "register") \/ g # h
      PROVE  /\ calls'[g].jti = calls[g].jti /\ calls[g].jti \in DOMAIN tokens
             /\ Speaks(g) \/ Stage(g, "open")
  <2>1. calls'[g] # None
    BY <1>3 DEF Speaks, Stage
  <2>2. calls'[g].op = calls[g].op /\ calls'[g].jti = calls[g].jti
    <3>1. CASE g # h
      BY <1>3, <3>1 DEF Turns, Alike
    <3>2. CASE g = h
      BY <1>3, <2>1, <3>2 DEF StepKept, Moves, Goes, Follows, Stage
    <3> QED  BY <3>1, <3>2
  <2>3. Speaks(g) \/ Stage(g, "open")
    BY <1>1, <1>3, <2>1, <2>2 DEF Speaks, Stage
  <2>4. calls[g].jti \in DOMAIN tokens
    BY <1>3, <2>3, CallInFlight DEF Shape, Speaks, Stage
  <2> QED  BY <2>2, <2>3, <2>4
<1> SUFFICES ASSUME NEW g \in Handlers, Stage(g, "open")'
             PROVE  /\ calls'[g].jti # cookie' /\ calls'[g].jti \notin blocked'
                    /\ \A f \in Handlers \ {g} : Speaks(f)' \/ Stage(f, "open")'
                         => calls'[f].jti # calls'[g].jti
  BY DEF OpensApart, Speaks, Stage
<1>4. CASE g = h /\ Stage(h, "register") /\ calls'[h].jti = Len(tokens) + 1
  <2>1. cookie' \in DOMAIN tokens \cup {None} /\ blocked' = blocked
    BY <1>4 DEF Turns, KeysTurn, Stage, TypeInv, TypeOK
  <2>2. blocked \subseteq DOMAIN tokens
    BY DEF TypeInv, TypeOK
  <2>3. ASSUME NEW f \in Handlers \ {h}, Speaks(f)' \/ Stage(f, "open")'
        PROVE  calls'[f].jti \in DOMAIN tokens
    <3>1. calls[f] # None
      BY <2>3 DEF Turns, Alike, Speaks, Stage
    <3> QED  BY <1>3, <2>3, <3>1
  <2> QED  BY <1>2, <1>4, <2>1, <2>2, <2>3
<1>5. CASE g # h /\ Stage(g, "open") /\ calls'[g].jti = calls[g].jti
  <2>1. /\ calls[g].jti # cookie /\ calls[g].jti \notin blocked
        /\ \A f \in Handlers \ {g} : Speaks(f) \/ Stage(f, "open") => calls[f].jti # calls[g].jti
    BY <1>5 DEF CookieInv, OpensApart
  <2>2. calls[g].jti \in DOMAIN tokens
    BY <1>5, CallInFlight DEF Shape, Stage
  <2>3. calls'[g].jti # cookie'
    BY <1>2, <1>5, <2>1, <2>2 DEF Turns, KeysTurn
  <2>4. calls'[g].jti \notin blocked'
    <3>1. Stage(h, "revoke") \/ Stage(h, "expire") => Speaks(h)
      BY CallInFlight DEF Stage, Speaks, Shape, Call
    <3> QED  BY <1>5, <2>1, <3>1 DEF Turns, KeysTurn
  <2>5. ASSUME NEW f \in Handlers \ {g}, Speaks(f)' \/ Stage(f, "open")'
        PROVE  calls'[f].jti # calls'[g].jti
    <3>1. CASE calls[f] = None
      <4>1. f = h /\ Joins(calls'[h])
        BY <2>5, <3>1 DEF Turns, Alike, Speaks, Stage
      <4> QED  BY <1>5, <2>1, <2>5, <4>1 DEF Joins, Speaks, Stage
    <3>2. CASE f = h /\ Stage(f, "register")
      <4>1. calls'[f].jti = Len(tokens) + 1
        BY <3>2 DEF Turns, CallTurns
      <4> QED  BY <1>2, <1>5, <2>2, <4>1
    <3>3. CASE calls[f] # None /\ (f # h \/ ~Stage(f, "register"))
      BY <1>3, <1>5, <2>1, <2>5, <3>3
    <3> QED  BY <3>1, <3>2, <3>3
  <2> QED  BY <2>3, <2>4, <2>5
<1> QED  BY <1>1, <1>4, <1>5

LEMMA OwnersStay ==
  ASSUME TypeInv, CookieInv, StepKept, NEW h \in Handlers, Turns(h)
  PROVE  Owners'
<1> SUFFICES ASSUME NEW g \in Handlers, calls'[g] # None
             PROVE  /\ calls'[g].mine => calls'[g].op \in {"refresh", "login", "logout", "change"}
                    /\ calls'[g].op \in {"refresh", "logout"} /\ ~calls'[g].mine
                         => calls'[g].jti # cookie'
  BY DEF Owners, Speaks
<1>1. CASE calls[g] = None
  <2>1. g = h /\ Joins(calls'[h])
    BY <1>1 DEF Turns, Alike
  <2> QED  BY <2>1 DEF Joins
<1>2. CASE calls[g] # None
  <2>1. calls'[g].op = calls[g].op /\ calls'[g].mine = calls[g].mine
    BY <1>2 DEF StepKept, Moves, Goes, Follows
  <2>2. /\ calls[g].mine => calls[g].op \in {"refresh", "login", "logout", "change"}
        /\ calls[g].op \in {"refresh", "logout"} /\ ~calls[g].mine => calls[g].jti # cookie
    BY <1>2 DEF CookieInv, Owners, Speaks
  <2>3. ASSUME calls[g].op \in {"refresh", "logout"}, ~calls[g].mine PROVE calls'[g].jti # cookie'
    <3>1. calls[g].jti \in DOMAIN tokens
      BY <1>2, <2>3, CallInFlight DEF Shape
    <3>2. None \notin DOMAIN tokens /\ Len(tokens) + 1 \notin DOMAIN tokens /\ Len(tokens) + 1 # None
      <4>1. Len(tokens) \in Nat /\ DOMAIN tokens = 1 .. Len(tokens)
        BY DEF TypeInv, TypeOK
      <4> QED  BY <4>1, SessionsAssumption
    <3>3. CASE calls'[g].jti = calls[g].jti
      <4>1. CASE cookie' \in {cookie, None}
        BY <2>2, <2>3, <3>1, <3>2, <3>3, <4>1
      <4>2. CASE Stage(h, "open") /\ cookie' = calls[h].jti /\ calls'[h] = None
        <5>1. g # h /\ Speaks(g)
          BY <1>2, <2>3, <4>2 DEF Speaks
        <5> QED  BY <3>3, <4>2, <5>1 DEF CookieInv, OpensApart
      <4> QED  BY <4>1, <4>2 DEF Turns, KeysTurn
    <3>4. CASE calls'[g].jti # calls[g].jti
      <4>1. g = h /\ Stage(h, "register")
        BY <1>2, <3>4 DEF Turns, Alike, StepKept, Moves, Goes, Follows, Stage
      <4>2. calls'[g].jti = Len(tokens) + 1 /\ cookie' \in {cookie, None}
        BY <4>1 DEF Turns, CallTurns, KeysTurn, Stage
      <4> QED  BY <3>2, <4>2 DEF TypeInv, TypeOK
    <3> QED  BY <3>3, <3>4
  <2> QED  BY <2>1, <2>2, <2>3
<1> QED  BY <1>1, <1>2

LEMMA CookieKept ==
  ASSUME TypeInv, CookieInv, StepKept, NEW h \in Handlers, Turns(h), undisturbed'
  PROVE  /\ OneByOne'
         /\ \A g \in MineInFlight' : Stage(g, "open")' => calls'[g].jti \in live'
         /\ cookie' # None => IsRefreshJtiValid(cookie)' \/ \E g \in Handlers : Replaces(g)'
<1>0. undisturbed
  BY DEF Turns, KeysTurn
<1>1. /\ \A g \in Handlers : calls[g] # None /\ calls[g].mine =>
           \A f \in Handlers : calls[f] # None /\ calls[f].mine => f = g
      /\ \A g \in Handlers : calls[g] # None /\ calls[g].mine /\ Stage(g, "open") => calls[g].jti \in live
      /\ cookie # None => IsRefreshJtiValid(cookie) \/ \E g \in Handlers : Replaces(g)
  BY <1>0 DEF CookieInv, OneByOne, MineInFlight, InFlight
<1>2. ASSUME NEW g \in Handlers, calls[g] # None, calls'[g] # None
      PROVE  calls'[g].mine = calls[g].mine /\ calls'[g].op = calls[g].op
  BY <1>2 DEF StepKept, Moves, Goes, Follows
<1>3. OneByOne'
  <2> SUFFICES ASSUME NEW f \in Handlers, NEW g \in Handlers, calls'[f] # None, calls'[f].mine,
                      calls'[g] # None, calls'[g].mine
               PROVE  f = g
    BY DEF OneByOne, MineInFlight, InFlight
  <2>1. CASE calls[f] # None /\ calls[g] # None
    BY <1>1, <1>2, <2>1
  <2>2. CASE calls[f] = None /\ calls[g] = None
    BY <2>2 DEF Turns, Alike
  <2>3. CASE calls[f] = None /\ calls[g] # None
    <3>1. f = h /\ MineInFlight = {}
      BY <2>3 DEF Turns, Alike, Joins
    <3> QED  BY <1>2, <2>3, <3>1 DEF MineInFlight, InFlight
  <2>4. CASE calls[f] # None /\ calls[g] = None
    <3>1. g = h /\ MineInFlight = {}
      BY <2>4 DEF Turns, Alike, Joins
    <3> QED  BY <1>2, <2>4, <3>1 DEF MineInFlight, InFlight
  <2> QED  BY <2>1, <2>2, <2>3, <2>4
\* What one of the browser's own calls is about to hand over, nobody ends.
<1>4. ASSUME NEW g \in Handlers, calls[g] # None, calls[g].mine, Stage(g, "open")
      PROVE  calls[g].jti \in live' /\ calls[g].jti \notin blocked'
  <2>1. calls[g].jti \in live /\ calls[g].jti \notin blocked
    BY <1>1, <1>4 DEF CookieInv, OpensApart
  <2>2. Stage(h, "revoke") \/ Stage(h, "expire") => h # g /\ calls[h].jti # calls[g].jti
    <3>1. Stage(h, "revoke") \/ Stage(h, "expire") => Speaks(h)
      BY CallInFlight DEF Stage, Speaks, Shape, Call
    <3> QED  BY <1>4, <3>1 DEF CookieInv, OpensApart, Stage
  <2>3. ~Stage(h, "delete")
    <3> SUFFICES ASSUME Stage(h, "delete") PROVE FALSE
      OBVIOUS
    <3>1. h # g
      BY <1>4 DEF Stage
    <3>2. MineInFlight # {}
      BY <1>4 DEF MineInFlight, InFlight
    <3>3. calls[h] # None /\ calls[h].mine
      BY <3>2 DEF Turns, CallTurns, Stage
    <3> QED  BY <1>1, <1>4, <3>1, <3>3
  <2> QED  BY <2>1, <2>2, <2>3 DEF Turns, KeysTurn
<1>5. ASSUME NEW g \in Handlers, calls'[g] # None, calls'[g].mine, Stage(g, "open")'
      PROVE  calls'[g].jti \in live'
  <2>1. CASE g # h
    <3>1. calls[g] # None /\ calls[g].mine /\ Stage(g, "open") /\ calls'[g].jti = calls[g].jti
      BY <1>5, <2>1 DEF Turns, Alike, Stage
    <3> QED  BY <1>4, <3>1
  <2>2. CASE g = h
    <3>1. calls[h] # None
      BY <1>5, <2>2 DEF Turns, Joins, Stage
    <3>2. calls[h].stage \in {"register", "open"}
      BY <1>5, <2>2, <3>1 DEF StepKept, Moves, Goes, Follows, Stage
    <3> QED  BY <1>5, <2>2, <3>1, <3>2 DEF Turns, CallTurns, Stage
  <2> QED  BY <2>1, <2>2
<1>6. ASSUME cookie' # None
      PROVE  IsRefreshJtiValid(cookie)' \/ \E g \in Handlers : Replaces(g)'
  <2>1. CASE Stage(h, "open") /\ calls[h].mine /\ cookie' = calls[h].jti
    BY <1>4, <2>1 DEF IsRefreshJtiValid, Stage
  <2>2. CASE cookie' = cookie /\ IsRefreshJtiValid(cookie) /\ ~IsRefreshJtiValid(cookie)'
    <3>1. \/ (Stage(h, "revoke") \/ Stage(h, "expire")) /\ calls[h].jti = cookie
          \/ Stage(h, "delete") /\ cookie \in calls[h].keys
      BY <2>2 DEF Turns, KeysTurn, IsRefreshJtiValid
    <3>2. Stage(h, "revoke") \/ Stage(h, "expire") => Speaks(h)
      BY CallInFlight DEF Stage, Speaks, Shape, Call
    <3>3. calls[h] # None /\ calls[h].mine
      BY <3>1, <3>2 DEF CookieInv, Owners, Speaks, Stage, Turns, CallTurns
    <3>4. ~Stage(h, "expire")
      BY <1>6, <3>3 DEF Turns, CallTurns
    <3>5. CASE Stage(h, "revoke")
      <4>1. calls'[h] # None /\ calls'[h].stage \in {"register", "end"}
        BY <3>5 DEF Turns, CallTurns
      <4>2. Replaces(h)'
        BY <1>2, <3>2, <3>3, <3>5, <4>1 DEF Replaces, Speaks
      <4> QED  BY <4>2
    <3>6. CASE Stage(h, "delete")
      <4>1. calls[h].op = "change"
        BY <3>3, <3>6, CallInFlight DEF CookieInv, Owners, Stage, Shape
      <4>2. calls'[h] # None /\ calls'[h].stage = "register"
        BY <3>6, <4>1 DEF Turns, CallTurns
      <4>3. Replaces(h)'
        BY <1>2, <3>3, <4>1, <4>2 DEF Replaces
      <4> QED  BY <4>3
    <3> QED  BY <3>1, <3>4, <3>5, <3>6
  <2>3. ASSUME NEW g \in Handlers, Replaces(g), cookie' = cookie
        PROVE  IsRefreshJtiValid(cookie)' \/ Replaces(g)'
    <3>1. CASE g # h
      BY <2>3, <3>1 DEF Turns, Alike, Replaces
    <3>2. CASE g = h
      <4>1. calls[h] # None /\ calls[h].mine
        BY <2>3, <3>2 DEF Replaces
      <4>2. CASE Stage(h, "register")
        <5>1. calls'[h] # None /\ calls'[h].stage = "open"
          BY <4>2 DEF Turns, CallTurns
        <5> QED  BY <1>2, <2>3, <3>2, <5>1 DEF Replaces
      <4>3. CASE Stage(h, "open")
        <5>1. cookie' = calls[h].jti
          BY <4>1, <4>3 DEF Turns, CallTurns
        <5> QED  BY <1>4, <4>1, <4>3, <5>1 DEF IsRefreshJtiValid
      <4>4. ~Stage(h, "end")
        BY <1>6, <4>1 DEF Turns, CallTurns
      <4> QED  BY <2>3, <3>2, <4>2, <4>3, <4>4 DEF Replaces, Stage
    <3> QED  BY <3>1, <3>2
  <2>4. cookie' = cookie \/ (Stage(h, "open") /\ calls[h].mine /\ cookie' = calls[h].jti)
    BY <1>6 DEF Turns, KeysTurn
  <2> QED  BY <1>1, <1>6, <2>1, <2>2, <2>3, <2>4
<1>7. \A g \in MineInFlight' : g \in Handlers /\ calls'[g] # None /\ calls'[g].mine
  BY DEF MineInFlight, InFlight
<1> QED  BY <1>3, <1>5, <1>6, <1>7

(* Every step of a call turns the cookie, the keys and the calls like that. *)
LEMMA OneCallTurns ==
  ASSUME TypeInv, NEW h \in Handlers, NEW c, calls' = [calls EXCEPT ![h] = c]
  PROVE  calls'[h] = c /\ \A g \in Handlers \ {h} : Alike(g)
<1>1. calls'[h] = c /\ \A g \in Handlers \ {h} : calls'[g] = calls[g]
  BY DEF TypeInv, TypeOK
<1> QED  BY <1>1 DEF Alike

LEMMA OneSweepTurns ==
  ASSUME TypeInv, NEW h \in Handlers, \A g \in Handlers \ {h} : calls'[g] = Overlapping(h)[g]
  PROVE  \A g \in Handlers \ {h} : Alike(g)
<1> SUFFICES ASSUME NEW g \in Handlers \ {h} PROVE Alike(g)
  OBVIOUS
<1>1. CASE calls[g] = None
  BY <1>1 DEF Overlapping, Alike
<1>2. CASE calls[g] # None
  BY <1>2, OthersOverlapped, NullAssumption DEF Alike
<1> QED  BY <1>1, <1>2

LEMMA BeginningTurns ==
  ASSUME TypeInv, NEW h \in Handlers, NEW c, Begin(h, c), cookie' = cookie,
         live' = live, blocked' = blocked, c # None => Joins(c)
  PROVE  Turns(h)
<1>1. calls[h] = None /\ calls' = [calls EXCEPT ![h] = c]
  BY DEF Begin
<1>2. undisturbed' => undisturbed
  BY DEF Begin
<1> QED  BY <1>1, <1>2, OneCallTurns DEF Turns, KeysTurn, CallTurns, Stage

\* A call that goes on, or ends, and touches no token of anybody.
LEMMA QuietTurns ==
  ASSUME TypeInv, NEW h \in Handlers, NEW c, calls' = [calls EXCEPT ![h] = c], calls[h] # None,
         calls[h].stage \in {"session", "load", "slide", "verify", "burn", "write"},
         cookie' \in {cookie, None}, live' = live, blocked' = blocked, undisturbed' = undisturbed
  PROVE  Turns(h)
BY OneCallTurns DEF Turns, KeysTurn, CallTurns, Stage

LEMMA BeginningsTurn ==
  ASSUME TypeInv, CookieInv, NEW h \in Handlers,
         \/ AdminReset(h)
         \/ \E j \in Jtis : Logout(h, j)
         \/ \E mine \in BOOLEAN : Login(h, mine)
         \/ \E s \in Sids : ApiCall(h, s)
         \/ \E s \in Sids, mine \in BOOLEAN : ChangePassword(h, s, mine)
         \/ \E l \in Links : ResetPassword(h, l)
  PROVE  Turns(h)
<1>0. /\ Fresh \in Call /\ Fresh.op = "api" /\ Fresh.stage = "session" /\ Fresh.mine = FALSE
  BY SessionsAssumption DEF Fresh, Call, Sids, Jtis
<1>1. ASSUME NEW c, Begin(h, c), c.mine PROVE undisturbed' => MineInFlight = {}
  BY <1>1 DEF Begin
<1>2. ASSUME NEW j \in Jtis, Logout(h, j) PROVE Turns(h)
  <2> DEFINE c == [Fresh EXCEPT !.op = "logout", !.stage = "revoke", !.mine = (j = cookie),
                                !.jti = j, !.sid = tokens[j].sid]
  <2>1. c.op = "logout" /\ c.stage = "revoke" /\ c.mine = (j = cookie) /\ c.jti = j
    BY <1>0 DEF Call
  <2>2. Begin(h, c) /\ cookie' = cookie
    BY <1>2 DEF Logout
  <2> HIDE DEF c
  <2>3. Joins(c)
    BY <1>1, <1>2, <2>1, <2>2 DEF Joins, Logout, GivenOut
  <2> QED  BY <1>2, <2>2, <2>3, BeginningTurns DEF Logout
<1>3. CASE AdminReset(h)
  <2> DEFINE c == [Fresh EXCEPT !.op = "admin", !.stage = "write"]
  <2>1. c.op = "admin" /\ c.stage = "write" /\ c.mine = FALSE
    BY <1>0 DEF Call
  <2>2. Begin(h, c) /\ cookie' = cookie
    BY <1>3 DEF AdminReset
  <2> HIDE DEF c
  <2>3. Joins(c)
    BY <2>1, <2>2 DEF Joins
  <2> QED  BY <1>3, <2>2, <2>3, BeginningTurns DEF AdminReset
<1>4. ASSUME NEW mine \in BOOLEAN, Login(h, mine) PROVE Turns(h)
  <2> DEFINE c == [Fresh EXCEPT !.op = "login", !.stage = "verify", !.mine = mine]
  <2>1. c.op = "login" /\ c.stage = "verify"
    BY <1>0 DEF Call
  <2>2. Begin(h, c) /\ cookie' = cookie
    BY <1>4 DEF Login
  <2> HIDE DEF c
  <2>3. Joins(c)
    BY <1>1, <2>1, <2>2 DEF Joins
  <2> QED  BY <1>4, <2>2, <2>3, BeginningTurns DEF Login
<1>5. ASSUME NEW s \in Sids, ApiCall(h, s) PROVE Turns(h)
  <2> DEFINE c == [Fresh EXCEPT !.sid = s]
  <2>1. c.op = "api" /\ c.stage = "session" /\ c.mine = FALSE
    BY <1>0 DEF Call
  <2>2. Begin(h, c) /\ cookie' = cookie
    BY <1>5 DEF ApiCall
  <2> HIDE DEF c
  <2>3. Joins(c)
    BY <2>1, <2>2 DEF Joins
  <2> QED  BY <1>5, <2>2, <2>3, BeginningTurns DEF ApiCall
<1>6. ASSUME NEW s \in Sids, NEW mine \in BOOLEAN, ChangePassword(h, s, mine) PROVE Turns(h)
  <2> DEFINE c == [Fresh EXCEPT !.op = "change", !.sid = s, !.mine = mine]
  <2>1. c.op = "change" /\ c.stage = "session"
    BY <1>0 DEF Call
  <2>2. Begin(h, c) /\ cookie' = cookie
    BY <1>6 DEF ChangePassword
  <2> HIDE DEF c
  <2>3. Joins(c)
    BY <1>1, <2>1, <2>2 DEF Joins
  <2> QED  BY <1>6, <2>2, <2>3, BeginningTurns DEF ChangePassword
<1>7. ASSUME NEW l \in Links, ResetPassword(h, l) PROVE Turns(h)
  <2> DEFINE c == [Fresh EXCEPT !.op = "reset", !.stage = "burn", !.link = l]
  <2>1. c.op = "reset" /\ c.stage = "burn" /\ c.mine = FALSE
    BY <1>0 DEF Call
  <2>2. Begin(h, c) /\ cookie' = cookie
    BY <1>7 DEF ResetPassword
  <2> HIDE DEF c
  <2>3. Joins(c)
    BY <2>1, <2>2 DEF Joins
  <2> QED  BY <1>7, <2>2, <2>3, BeginningTurns DEF ResetPassword
<1> QED  BY <1>2, <1>3, <1>4, <1>5, <1>6, <1>7

LEMMA RefreshTurns ==
  ASSUME TypeInv, NEW h \in Handlers, NEW j \in Jtis, Refresh(h, j)
  PROVE  Turns(h)
<1>1. CASE IsRefreshJtiValid(j)
  <2> DEFINE c == [Fresh EXCEPT !.op = "refresh", !.mine = (j = cookie), !.jti = j,
                                !.sid = tokens[j].sid]
  <2>0. /\ Fresh \in Call /\ Fresh.op = "api" /\ Fresh.stage = "session" /\ Fresh.mine = FALSE
    BY SessionsAssumption DEF Fresh, Call, Sids, Jtis
  <2>1. /\ c.op = "refresh" /\ c.stage = "session" /\ c.mine = (j = cookie) /\ c.jti = j
    BY <2>0 DEF Call
  <2>2. Begin(h, c) /\ cookie' = cookie
    BY <1>1 DEF Refresh
  <2> HIDE DEF c
  <2>3. Joins(c)
    BY <2>1, <2>2 DEF Joins, Refresh, GivenOut, Begin
  <2> QED  BY <2>2, <2>3, BeginningTurns DEF Refresh
<1>2. CASE ~IsRefreshJtiValid(j)
  BY <1>2 DEF Refresh, Turns, KeysTurn, CallTurns, Alike, Stage
<1> QED  BY <1>1, <1>2

LEMMA ChecksTurn ==
  ASSUME TypeInv, NEW h \in Handlers,
         \/ CheckSession(h) \/ LoadUser(h) \/ Slide(h) \/ VerifyPassword(h)
         \/ Burn(h) \/ WritePassword(h)
  PROVE  Turns(h)
<1>1. /\ calls[h] # None
      /\ calls[h].stage \in {"session", "load", "slide", "verify", "burn", "write"}
      /\ live' = live /\ blocked' = blocked /\ undisturbed' = undisturbed
  BY DEF CheckSession, LoadUser, Slide, VerifyPassword, Burn, WritePassword, Stage
<1>2. cookie' \in {cookie, None}
  BY DEF CheckSession, LoadUser, Slide, VerifyPassword, Burn, WritePassword, AnswerCookie
<1>3. \A g \in Handlers \ {h} : calls'[g] = calls[g]
  BY DEF CheckSession, LoadUser, Slide, VerifyPassword, Burn, WritePassword, To, Ends,
         TypeInv, TypeOK
<1> QED  BY <1>1, <1>2, <1>3 DEF Turns, KeysTurn, CallTurns, Alike, Stage

LEMMA RegisterTurns ==
  ASSUME TypeInv, NEW h \in Handlers, Register(h)
  PROVE  Turns(h)
<1>1. calls[h] # None /\ calls[h].stage = "register" /\ calls[h] \in Call
  BY CallInFlight DEF Register, Stage
<1>2. \A g \in Handlers \ {h} : calls'[g] = calls[g]
  BY DEF Register, TypeInv, TypeOK
<1>3. Len(tokens) + 1 \in Jtis /\ Len(tokens) < MaxTokens
  BY SessionsAssumption DEF Register, TypeInv, TypeOK, Jtis
<1>4. PICK s : s = IF calls[h].sid # 0 THEN calls[h].sid ELSE NewSession
  OBVIOUS
<1>5. s \in Sids
  BY <1>1, <1>3, <1>4, NewSessionIsNew DEF Call
<1>6. PICK c \in Call : c = calls[h]
  BY <1>1
<1>7. PICK d : d = [c EXCEPT !.sid = s, !.jti = Len(tokens) + 1, !.stage = "open"]
  OBVIOUS
<1>8. d \in Call /\ d.stage = "open" /\ d.jti = Len(tokens) + 1
  BY <1>3, <1>5, <1>7 DEF Call
<1>9. calls'[h] = d
  BY <1>4, <1>6, <1>7 DEF Register, TypeInv, TypeOK
<1>10. /\ cookie' = cookie /\ blocked' = blocked /\ undisturbed' = undisturbed
       /\ live' = live \cup {Len(tokens) + 1}
  BY DEF Register
<1>11. \A g \in Handlers \ {h} : Alike(g)
  BY <1>2 DEF Alike
<1> QED  BY <1>1, <1>8, <1>9, <1>10, <1>11, NullAssumption DEF Turns, KeysTurn, CallTurns, Stage

LEMMA EndingsTurn ==
  ASSUME TypeInv, NEW h \in Handlers, Expire(h) \/ Open(h) \/ End(h)
  PROVE  Turns(h)
<1>1. calls[h] # None /\ calls' = [calls EXCEPT ![h] = None] /\ undisturbed' = undisturbed
  BY DEF Expire, Open, End, Stage, Ends
<1>2. calls'[h] = None /\ \A g \in Handlers \ {h} : Alike(g)
  BY <1>1, OneCallTurns
<1>3. CASE Expire(h)
  BY <1>1, <1>2, <1>3 DEF Expire, RevokeRefreshJti, AnswerCookie, Turns, KeysTurn, CallTurns, Stage
<1>4. CASE Open(h)
  BY <1>1, <1>2, <1>4 DEF Open, AnswerCookie, Turns, KeysTurn, CallTurns, Stage
<1>5. CASE End(h)
  BY <1>1, <1>2, <1>5 DEF End, AnswerCookie, Turns, KeysTurn, CallTurns, Stage
<1> QED  BY <1>3, <1>4, <1>5

LEMMA RevokeTurns ==
  ASSUME TypeInv, NEW h \in Handlers, Revoke(h)
  PROVE  Turns(h)
<1>1. calls[h] # None /\ calls[h].stage = "revoke"
  BY DEF Revoke, Stage
<1>2. PICK x \in {"register", "end"} : To(h, x)
  BY DEF Revoke
<1>3. PICK d \in Call : calls' = [calls EXCEPT ![h] = d] /\ d.stage = x
  BY <1>1, <1>2, GoingOn DEF Stages
<1>4. calls'[h] = d /\ \A g \in Handlers \ {h} : Alike(g)
  BY <1>3, OneCallTurns
<1> QED
  BY <1>1, <1>3, <1>4, NullAssumption
     DEF Revoke, RevokeRefreshJti, Turns, KeysTurn, CallTurns, Stage

LEMMA SweepTurns ==
  ASSUME TypeInv, NEW h \in Handlers, Scan(h) \/ Delete(h)
  PROVE  Turns(h)
<1>1. /\ calls[h] # None /\ cookie' = cookie /\ blocked' = blocked
      /\ undisturbed' => undisturbed
  <2>1. calls[h] # None /\ cookie' = cookie /\ blocked' = blocked
    BY DEF Scan, Delete, Stage
  <2>2. undisturbed' => undisturbed
    BY Zenon DEF Scan, Delete
  <2> QED  BY <2>1, <2>2
<1>2. \A g \in Handlers \ {h} : calls'[g] = Overlapping(h)[g]
  <2>1. CASE Scan(h)
    BY <2>1 DEF Scan, Overlapping
  <2>2. CASE Delete(h)
    BY <2>2 DEF Delete, Overlapping
  <2> QED  BY <2>1, <2>2
<1>3. \A g \in Handlers \ {h} : Alike(g)
  BY <1>2, OneSweepTurns
<1>4. CASE Scan(h)
  BY <1>1, <1>3, <1>4 DEF Scan, Turns, KeysTurn, CallTurns, Stage
<1>5. CASE Delete(h)
  <2>1. calls[h].op = "change" => calls'[h] # None /\ calls'[h].stage = "register"
    <3> SUFFICES ASSUME calls[h].op = "change"
                 PROVE  calls'[h] # None /\ calls'[h].stage = "register"
      OBVIOUS
    <3>1. PICK c \in Call : c = calls[h]
      BY <1>1, CallInFlight
    <3>2. PICK d : d = [c EXCEPT !.sid = 0, !.stage = "register"]
      OBVIOUS
    <3>3. d \in Call /\ d.stage = "register"
      <4>1. 0 \in Sids
        BY SessionsAssumption DEF Sids
      <4> QED  BY <3>2, <4>1 DEF Call
    <3>4. Overlapping(h)[h] = c
      BY <3>1 DEF Overlapping
    <3>5. calls' = [Overlapping(h) EXCEPT ![h].sid = 0, ![h].stage = "register"]
      BY <1>5 DEF Delete
    <3>6. calls'[h] = d
      BY <3>2, <3>4, <3>5 DEF Overlapping
    <3> QED  BY <3>3, <3>6, NullAssumption
  <2> QED  BY <1>1, <1>3, <1>5, <2>1 DEF Delete, Turns, KeysTurn, CallTurns, Stage
<1> QED  BY <1>4, <1>5

LEMMA NextTurns ==
  ASSUME TypeInv, CookieInv, [Next]_vars
  PROVE  \/ \E h \in Handlers : Turns(h)
         \/ UNCHANGED <<tokens, live, blocked, cookie, calls, undisturbed>>
<1>1. CASE UNCHANGED vars
  BY <1>1 DEF vars
<1>2. CASE Switch \/ Tick \/ \E l \in Links : ForgotPassword(l)
  BY <1>2 DEF Switch, Tick, ForgotPassword
<1>3. ASSUME NEW h \in Handlers, Work(h) PROVE Turns(h)
  BY <1>3, ChecksTurn, EndingsTurn, RevokeTurns, RegisterTurns, SweepTurns DEF Work
<1>4. ASSUME NEW h \in Handlers, NEW j \in Jtis, Refresh(h, j) PROVE Turns(h)
  BY <1>4, RefreshTurns
<1> QED  BY <1>1, <1>2, <1>3, <1>4, BeginningsTurn DEF Next, Step

LEMMA CookieStep ==
  ASSUME TypeInv, CookieInv, StepKept, [Next]_vars
  PROVE  CookieInv'
<1>1. CASE UNCHANGED <<tokens, live, blocked, cookie, calls, undisturbed>>
  BY <1>1 DEF CookieInv, OpensApart, Owners, OneByOne, Replaces, Speaks, Stage, MineInFlight,
              InFlight, IsRefreshJtiValid
<1>2. ASSUME NEW h \in Handlers, Turns(h) PROVE CookieInv'
  BY <1>2, OpensStayApart, OwnersStay, CookieKept DEF CookieInv
<1> QED  BY <1>1, <1>2, NextTurns

(* A reload does not log the user out: a browser that makes its calls one  *)
(* by one never holds a refresh cookie that the server refuses, unless     *)
(* somebody signs the user out elsewhere (refresh, logout,                 *)
(* change_password).                                                       *)
THEOREM CookieIsAccepted == Spec => []CookieWorks
<1>1. Init => TypeInv
  BY InitialTypes
<1>2. Init => CookieInv
  <2> SUFFICES ASSUME Init PROVE CookieInv
    OBVIOUS
  <2>1. \A h \in Handlers : calls[h] = None
    BY DEF Init
  <2>2. 1 \in DOMAIN tokens
    BY DEF Init
  <2>3. IsRefreshJtiValid(cookie)
    BY <2>2 DEF Init, IsRefreshJtiValid
  <2> QED
    BY <2>1, <2>3 DEF CookieInv, OpensApart, Owners, OneByOne, Stage, MineInFlight, InFlight
<1>3. TypeInv /\ [Next]_vars => StepKept
  BY NextKeeps, StutterKeeps
<1>4. StepKept => TypeInv'
  BY DEF StepKept
<1>5. TypeInv /\ CookieInv /\ StepKept /\ [Next]_vars => CookieInv'
  BY CookieStep
<1>6. CookieInv => CookieWorks
  BY DEF CookieInv, CookieWorks, Replaces, MineInFlight, InFlight
<1> QED  BY <1>1, <1>2, <1>3, <1>4, <1>5, <1>6, PTL DEF Spec

=============================================================================
