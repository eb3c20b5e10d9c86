-------------------------- MODULE NotificationsProofs --------------------------
(***************************************************************************)
(* Theorems about Notifications for any number of users, tabs, workers,    *)
(* writers and sockets, whatever is lost: a push for somebody else reaches *)
(* a tab only over a socket its hook lost sight of, and a tab with nothing *)
(* in flight shows what it was told.                                       *)
(***************************************************************************)
EXTENDS Notifications, TLAPS

\* Both ends of a connection.  The socket a tab's hook refers to is open and for
\* the user signed in; until a token is exchanged on the tab no other is open,
\* and none is to be opened while it is.
EndsOK == tabs \in [Tabs -> Tab] /\ sockets \in [Sockets -> Socket \cup {None}]
TabOK(c) ==
  /\ tabs[c].socket # None =>
       LET s == tabs[c].socket IN
       Exists(s) /\ sockets[s].tab = c /\ sockets[s].up /\ sockets[s].user = tabs[c].user
  /\ tabs[c].user = None => ~tabs[c].timer /\ \A good \in BOOLEAN : tabs[c].late[good] = 0
  /\ c \notin exchanged => /\ \A good \in BOOLEAN : tabs[c].late[good] = 0
                           /\ tabs[c].timer => tabs[c].socket = None
SocketOK(s) ==
  LET c == sockets[s].tab IN
  Exists(s) /\ sockets[s].up =>
    /\ sockets[s].closure # "gone" => tabs[c].user = sockets[s].user
    /\ c \notin exchanged => tabs[c].socket = s /\ sockets[s].closure # "older"
Connections == (\A c \in Tabs : TabOK(c)) /\ \A s \in Sockets : SocketOK(s)

\* A delivery in progress goes to sockets of the user it is for.
GoesTo(d, s) == s \in d.left /\ Exists(s) => sockets[s].user = For[d.note]
Addressed(d) ==
  /\ d = [note |-> d.note, left |-> d.left]
  /\ \A s \in Sockets : GoesTo(d, s)
Deliveries ==
  /\ DOMAIN sending = Tasks
  /\ \A t \in Tasks : sending[t] # None => Addressed(sending[t])

HeardInv == EndsOK /\ Connections /\ Deliveries

-----------------------------------------------------------------------------
LEMMA SignedOutTab ==
  /\ SignedOut \in Tab /\ SignedOut.socket = None /\ SignedOut.user = None
  /\ SignedOut.timer = FALSE /\ \A good \in BOOLEAN : SignedOut.late[good] = 0
<1>1. PICK late : late = [good \in BOOLEAN |-> 0]
  OBVIOUS
<1>2. late \in [BOOLEAN -> Nat] /\ \A good \in BOOLEAN : late[good] = 0
  BY <1>1
<1> QED  BY <1>1, <1>2 DEF SignedOut, Tab, Rows

LEMMA HeardAtStart == Init => HeardInv
<1> SUFFICES ASSUME Init PROVE HeardInv
  OBVIOUS
<1>1. tabs = [c \in Tabs |-> SignedOut] /\ sockets = [s \in Sockets |-> None]
      /\ sending = [t \in Tasks |-> None]
  BY DEF Init
<1>2. EndsOK
  BY <1>1, SignedOutTab DEF EndsOK
<1>3. \A c \in Tabs : TabOK(c)
  BY <1>1, SignedOutTab DEF TabOK
<1>4. \A s \in Sockets : SocketOK(s)
  BY <1>1 DEF SocketOK, Exists
<1>5. Deliveries
  BY <1>1 DEF Deliveries
<1> QED  BY <1>2, <1>3, <1>4, <1>5 DEF HeardInv, Connections

SameEnd(c) == /\ tabs'[c].socket = tabs[c].socket /\ tabs'[c].user = tabs[c].user
              /\ tabs'[c].timer = tabs[c].timer /\ tabs'[c].late = tabs[c].late

\* What the server does to a connection: nothing to what it is, or it forgets
\* one whose other end is gone.
SameConnection(a, b) ==
  a.tab = b.tab /\ a.user = b.user /\ a.up = b.up /\ a.closure = b.closure
KeptOrGone(s) ==
  \/ sockets'[s] = sockets[s]
  \/ Exists(s) /\ ~sockets[s].up /\ sockets'[s] = None
  \/ Exists(s) /\ sockets'[s] # None /\ SameConnection(sockets'[s], sockets[s])

(* A step that connects and disconnects no tab.                            *)
LEMMA ConnectionsStay ==
  ASSUME HeardInv, EndsOK', exchanged' = exchanged,
         \A c \in Tabs : SameEnd(c), \A s \in Sockets : KeptOrGone(s)
  PROVE  Connections'
<1>1. ASSUME NEW c \in Tabs PROVE TabOK(c)'
  <2>1. PICK s : s = tabs[c].socket
    OBVIOUS
  <2>2. tabs'[c].socket = s /\ tabs'[c].user = tabs[c].user
    BY <2>1 DEF SameEnd
  <2>3. TabOK(c)
    BY DEF HeardInv, Connections
  <2>4. ASSUME s # None
        PROVE  /\ sockets'[s] # None /\ sockets'[s].tab = c /\ sockets'[s].up
               /\ sockets'[s].user = tabs[c].user
    <3>1. s \in Sockets
      BY <2>1, <2>4 DEF HeardInv, EndsOK, Tab
    <3>2. Exists(s) /\ sockets[s].tab = c /\ sockets[s].up /\ sockets[s].user = tabs[c].user
      BY <2>1, <2>3, <2>4 DEF TabOK
    <3>3. KeptOrGone(s)
      BY <3>1
    <3> QED  BY <3>2, <3>3 DEF KeptOrGone, SameConnection, Exists
  <2> QED  BY <2>2, <2>3, <2>4 DEF TabOK, SameEnd, Exists
<1>2. ASSUME NEW s \in Sockets, sockets'[s] # None, sockets'[s].up PROVE SocketOK(s)'
  <2>1. /\ Exists(s) /\ sockets[s].up /\ sockets'[s].tab = sockets[s].tab
        /\ sockets'[s].user = sockets[s].user /\ sockets'[s].closure = sockets[s].closure
    BY <1>2 DEF KeptOrGone, SameConnection, Exists
  <2>2. PICK c : c = sockets[s].tab
    OBVIOUS
  <2>3. c \in Tabs /\ SocketOK(s)
    BY <2>1, <2>2 DEF HeardInv, EndsOK, Connections, Exists, Socket
  <2>4. tabs'[c].socket = tabs[c].socket /\ tabs'[c].user = tabs[c].user
    BY <2>3 DEF SameEnd
  <2> QED  BY <2>1, <2>2, <2>3, <2>4 DEF SocketOK
<1>3. \A s \in Sockets : SocketOK(s)'
  BY <1>2 DEF SocketOK, Exists
<1> QED  BY <1>1, <1>3 DEF Connections

LEMMA DeliveryStays ==
  ASSUME \A s \in Sockets : KeptOrGone(s), NEW d, Addressed(d)
  PROVE  Addressed(d)'
<1>1. ASSUME NEW s \in Sockets PROVE GoesTo(d, s)'
  BY DEF Addressed, GoesTo, Exists, KeptOrGone, SameConnection
<1> QED  BY <1>1 DEF Addressed

LEMMA EndsStay ==
  ASSUME HeardInv, EndsOK', exchanged' = exchanged,
         \A c \in Tabs : SameEnd(c), \A s \in Sockets : KeptOrGone(s),
         DOMAIN sending' = Tasks,
         \A t \in Tasks : sending'[t] # None => sending'[t] = sending[t] \/ Addressed(sending'[t])
  PROVE  HeardInv'
<1>1. ASSUME NEW t \in Tasks, sending'[t] # None PROVE Addressed(sending[t])'
  <2>1. PICK d : d = sending'[t]
    OBVIOUS
  <2>2. Addressed(d)
    BY <1>1, <2>1 DEF HeardInv, Deliveries
  <2>3. Addressed(d)'
    BY <2>2, DeliveryStays
  <2> QED  BY <2>1, <2>3 DEF Addressed, GoesTo, Exists
<1> QED  BY <1>1, ConnectionsStay DEF HeardInv, Deliveries

\* One tab turns, and its connection stays what it is.
LEMMA TabTurns ==
  ASSUME HeardInv, NEW c \in Tabs, NEW t \in Tab, tabs' = [tabs EXCEPT ![c] = t],
         t.socket = tabs[c].socket, t.user = tabs[c].user, t.timer = tabs[c].timer,
         t.late = tabs[c].late, UNCHANGED <<sockets, sending, exchanged>>
  PROVE  HeardInv'
<1>1. EndsOK' /\ \A b \in Tabs : SameEnd(b)
  BY DEF HeardInv, EndsOK, SameEnd
<1>2. \A s \in Sockets : KeptOrGone(s)
  BY DEF KeptOrGone
<1> QED  BY <1>1, <1>2, EndsStay DEF HeardInv, Deliveries

\* What a step of tab c may do to a connection: to nobody else's.
ConnectionOf(c, s) ==
  \/ sockets'[s] = sockets[s]
  \/ Exists(s) /\ sockets[s].tab = c /\ sockets'[s] = None
  \/ /\ sockets'[s] # None /\ sockets'[s].tab = c
     /\ Unknown(s) \/ (Exists(s) /\ sockets[s].tab = c /\ sockets'[s].user = sockets[s].user)

(* One tab connects or disconnects.                                        *)
LEMMA TabReconnects ==
  ASSUME HeardInv, NEW c \in Tabs, NEW t \in Tab, tabs' = [tabs EXCEPT ![c] = t],
         sockets' \in [Sockets -> Socket \cup {None}], sending' = sending,
         exchanged \subseteq exchanged', exchanged' \subseteq exchanged \cup {c},
         \A s \in Sockets : ConnectionOf(c, s), TabOK(c)',
         \A s \in Sockets : sockets'[s] # None /\ sockets'[s].tab = c => SocketOK(s)'
  PROVE  HeardInv'
<1>1. /\ tabs' \in [Tabs -> Tab] /\ tabs'[c] = t
      /\ \A b \in Tabs : b # c => tabs'[b] = tabs[b] /\ (b \in exchanged' <=> b \in exchanged)
  BY DEF HeardInv, EndsOK
<1>2. ASSUME NEW b \in Tabs, b # c PROVE TabOK(b)'
  <2>1. PICK s : s = tabs[b].socket
    OBVIOUS
  <2>2. TabOK(b) /\ tabs'[b] = tabs[b] /\ (b \in exchanged' <=> b \in exchanged)
    BY <1>1, <1>2 DEF HeardInv, Connections
  <2>3. CASE s = None
    BY <2>1, <2>2, <2>3 DEF TabOK
  <2>4. CASE s # None
    <3>1. s \in Sockets /\ Exists(s) /\ sockets[s].tab = b
      BY <2>1, <2>2, <2>4 DEF HeardInv, EndsOK, TabOK, Tab
    <3>2. ConnectionOf(c, s)
      BY <3>1
    <3>3. sockets'[s] = sockets[s]
      BY <1>2, <3>1, <3>2 DEF ConnectionOf, Unknown
    <3> QED  BY <2>1, <2>2, <3>3 DEF TabOK, Exists
  <2> QED  BY <2>3, <2>4
<1>3. ASSUME NEW s \in Sockets PROVE SocketOK(s)'
  <2>1. CASE sockets'[s] = None \/ sockets'[s].tab = c
    BY <2>1 DEF SocketOK, Exists
  <2>2. CASE sockets'[s] # None /\ sockets'[s].tab # c
    <3>1. sockets'[s] = sockets[s]
      BY <2>2 DEF ConnectionOf
    <3>2. PICK b : b = sockets[s].tab
      OBVIOUS
    <3>3. b \in Tabs /\ b # c /\ SocketOK(s)
      BY <2>2, <3>1, <3>2 DEF HeardInv, EndsOK, Connections, Socket
    <3>4. tabs'[b] = tabs[b] /\ (b \in exchanged' <=> b \in exchanged)
      BY <1>1, <3>3
    <3> QED  BY <3>1, <3>2, <3>3, <3>4 DEF SocketOK, Exists
  <2> QED  BY <2>1, <2>2
<1>4. ASSUME NEW k \in Tasks, sending'[k] # None PROVE Addressed(sending[k])'
  <2>1. PICK d : d = sending[k]
    OBVIOUS
  <2>2. Addressed(d) /\ sending'[k] = d
    BY <1>4, <2>1 DEF HeardInv, Deliveries
  <2>3. ASSUME NEW r \in Sockets, r \in d.left, sockets'[r] # None
        PROVE  sockets'[r].user = For[d.note]
    <3>1. ConnectionOf(c, r)
      OBVIOUS
    <3>2. ~Unknown(r)
      BY <1>4, <2>1, <2>2, <2>3 DEF Unknown
    <3>3. Exists(r) /\ sockets'[r].user = sockets[r].user
      BY <2>3, <3>1, <3>2 DEF ConnectionOf, Exists
    <3> QED  BY <2>2, <2>3, <3>3 DEF Addressed, GoesTo
  <2> QED  BY <2>2, <2>3 DEF Addressed, GoesTo, Exists
<1>5. TabOK(c)'
  OBVIOUS
<1>6. Connections'
  BY <1>2, <1>3, <1>5 DEF Connections
<1>7. EndsOK' /\ Deliveries'
  BY <1>1, <1>4 DEF HeardInv, EndsOK, Deliveries
<1> QED  BY <1>6, <1>7 DEF HeardInv

-----------------------------------------------------------------------------
(* Deliveries *)

LEMMA DeliverHeard ==
  ASSUME HeardInv, NEW t \in Tasks, NEW n, NEW w, Deliver(t, n, w),
         UNCHANGED <<tabs, sockets, exchanged>>
  PROVE  HeardInv'
<1>1. PICK d : d = [note |-> n, left |-> Joined(For[n], w)]
  OBVIOUS
<1>2. d.note = n /\ d.left = Joined(For[n], w)
  BY <1>1
<1>3. \A s \in Sockets : GoesTo(d, s)
  BY <1>2 DEF GoesTo, Joined
<1>4. Addressed(d)
  BY <1>1, <1>3 DEF Addressed
<1>5. sending' = [sending EXCEPT ![t] = IF Joined(For[n], w) = {} THEN None ELSE d]
  BY <1>1 DEF Deliver
<1>6. /\ DOMAIN sending' = Tasks
      /\ \A k \in Tasks : sending'[k] # None => sending'[k] = sending[k] \/ Addressed(sending'[k])
  BY <1>4, <1>5 DEF HeardInv, Deliveries
<1>7. EndsOK' /\ (\A c \in Tabs : SameEnd(c)) /\ \A s \in Sockets : KeptOrGone(s)
  BY DEF HeardInv, EndsOK, SameEnd, KeptOrGone
<1> QED  BY <1>6, <1>7, EndsStay

\* A delivery that has one socket less to go to goes to the same user.
LEMMA SentAddressed ==
  ASSUME HeardInv, NEW t \in Tasks, NEW s, sending[t] # None, Sent(t, s)
  PROVE  /\ DOMAIN sending' = Tasks
         /\ \A k \in Tasks : sending'[k] # None => sending'[k] = sending[k] \/ Addressed(sending'[k])
<1>1. PICK d : d = sending[t]
  OBVIOUS
<1>2. Addressed(d)
  BY <1>1 DEF HeardInv, Deliveries
<1>3. PICK left : left = d.left \ {s}
  OBVIOUS
<1>4. PICK e : e = [d EXCEPT !.left = left]
  OBVIOUS
<1>5. e = [note |-> d.note, left |-> left]
  BY <1>2, <1>4 DEF Addressed
<1>6. e.note = d.note /\ e.left = left /\ e = [note |-> e.note, left |-> e.left]
  BY <1>5
<1>7. \A r \in Sockets : GoesTo(e, r)
  BY <1>2, <1>3, <1>6 DEF Addressed, GoesTo
<1>8. Addressed(e)
  BY <1>6, <1>7 DEF Addressed
<1>9. DOMAIN sending = Tasks
  BY DEF HeardInv, Deliveries
<1>10. sending' = [sending EXCEPT ![t] = IF left = {} THEN None ELSE e]
  BY <1>1, <1>3, <1>4, <1>9 DEF Sent
<1> QED  BY <1>8, <1>9, <1>10

LEMMA SendHeard ==
  ASSUME HeardInv, NEW t \in Tasks, NEW s \in Sockets, Send(t, s)
  PROVE  HeardInv'
<1>1. sending[t] # None /\ Exists(s) /\ Sent(t, s) /\ OnMessage(sockets[s].tab) /\ sockets' = sockets
      /\ exchanged' = exchanged
  BY DEF Send, Listens
<1>2. PICK c : c = sockets[s].tab
  OBVIOUS
<1>3. c \in Tabs
  BY <1>1, <1>2 DEF HeardInv, EndsOK, Exists, Socket
<1>4. PICK r : r = [tabs[c] EXCEPT !.stale = TRUE]
  OBVIOUS
<1>5. r \in Tab /\ r.socket = tabs[c].socket /\ r.user = tabs[c].user
      /\ r.timer = tabs[c].timer /\ r.late = tabs[c].late
  BY <1>3, <1>4 DEF HeardInv, EndsOK, Tab
<1>6. tabs' = [tabs EXCEPT ![c] = r]
  BY <1>1, <1>2, <1>3, <1>4 DEF OnMessage, HeardInv, EndsOK
<1>7. EndsOK' /\ \A b \in Tabs : SameEnd(b)
  BY <1>1, <1>3, <1>5, <1>6 DEF HeardInv, EndsOK, SameEnd
<1>8. \A k \in Sockets : KeptOrGone(k)
  BY <1>1 DEF KeptOrGone
<1> QED  BY <1>1, <1>7, <1>8, SentAddressed, EndsStay

\* The server's end of one connection changes, or is forgotten.
SameOrGone(s, v) ==
  \/ v = None /\ ~sockets[s].up
  \/ /\ v \in Socket /\ v.tab = sockets[s].tab
     /\ v.user = sockets[s].user /\ v.up = sockets[s].up /\ v.closure = sockets[s].closure

LEMMA ServerEnd ==
  ASSUME HeardInv, NEW s \in Sockets, Exists(s), NEW v,
         sockets' = [sockets EXCEPT ![s] = v], tabs' = tabs,
         SameOrGone(s, v)
  PROVE  EndsOK' /\ (\A c \in Tabs : SameEnd(c)) /\ \A r \in Sockets : KeptOrGone(r)
<1>1. v \in Socket \cup {None}
  BY DEF SameOrGone
<1>2. EndsOK' /\ (\A c \in Tabs : SameEnd(c))
  BY <1>1 DEF HeardInv, EndsOK, SameEnd
<1>3. sockets'[s] = v /\ \A r \in Sockets : r # s => sockets'[r] = sockets[r]
  BY DEF HeardInv, EndsOK
<1>4. KeptOrGone(s)
  BY <1>3, RowsAssumption DEF KeptOrGone, SameOrGone, SameConnection
<1>5. \A r \in Sockets : r # s => KeptOrGone(r)
  BY <1>3 DEF KeptOrGone
<1> QED  BY <1>2, <1>4, <1>5

LEMMA SendFailsHeard ==
  ASSUME HeardInv, NEW t \in Tasks, NEW s \in Sockets, SendFails(t, s)
  PROVE  HeardInv'
<1>1. sending[t] # None /\ Sent(t, s) /\ tabs' = tabs /\ exchanged' = exchanged
  BY DEF SendFails, history
<1>2. CASE Exists(s) /\ sockets' = [sockets EXCEPT ![s].joined = FALSE]
  <2>1. PICK v : v = [sockets[s] EXCEPT !.joined = FALSE]
    OBVIOUS
  <2>2. sockets[s] \in Socket
    BY <1>2 DEF HeardInv, EndsOK, Exists
  <2>3. /\ v \in Socket /\ v.tab = sockets[s].tab
        /\ v.user = sockets[s].user /\ v.up = sockets[s].up /\ v.closure = sockets[s].closure
    BY <2>1, <2>2 DEF Socket
  <2>4. sockets' = [sockets EXCEPT ![s] = v]
    BY <1>2, <2>1 DEF HeardInv, EndsOK
  <2> QED  BY <1>1, <1>2, <2>3, <2>4, ServerEnd, SentAddressed, EndsStay DEF SameOrGone
<1>3. CASE sockets' = sockets
  <2>1. EndsOK' /\ (\A c \in Tabs : SameEnd(c)) /\ \A r \in Sockets : KeptOrGone(r)
    BY <1>1, <1>3 DEF HeardInv, EndsOK, SameEnd, KeptOrGone
  <2> QED  BY <1>1, <2>1, SentAddressed, EndsStay
<1> QED  BY <1>2, <1>3 DEF SendFails

-----------------------------------------------------------------------------
(* The server's ends *)

\* What is left of a connection when its handler ends.
LEMMA EndedIs ==
  ASSUME HeardInv, NEW s \in Sockets, Exists(s), NEW v, v = Ended(s)
  PROVE  SameOrGone(s, v)
<1>1. PICK d : d = [sockets[s] EXCEPT !.stage = "over", !.joined = FALSE]
  OBVIOUS
<1>2. sockets[s] \in Socket
  BY DEF HeardInv, EndsOK, Exists
<1>3. /\ d \in Socket /\ d.tab = sockets[s].tab
      /\ d.user = sockets[s].user /\ d.up = sockets[s].up /\ d.closure = sockets[s].closure
  BY <1>1, <1>2 DEF Socket
<1> QED  BY <1>1, <1>3 DEF Ended, SameOrGone

LEMMA HandlerEndsHeard ==
  ASSUME HeardInv, NEW s \in Sockets, Exists(s), HandlerEnds(s),
         UNCHANGED <<tabs, sending, exchanged>>
  PROVE  HeardInv'
<1>1. PICK v : v = Ended(s)
  OBVIOUS
<1>2. sockets' = [sockets EXCEPT ![s] = v]
  BY <1>1 DEF HandlerEnds
<1> QED  BY <1>1, <1>2, EndedIs, ServerEnd, EndsStay DEF HeardInv, Deliveries

LEMMA AuthenticateHeard ==
  ASSUME HeardInv, NEW s \in Sockets, Authenticate(s)
  PROVE  HeardInv'
<1>1. Exists(s) /\ UNCHANGED <<tabs, sending, exchanged>>
  BY DEF Authenticate, history
<1>2. CASE HandlerEnds(s)
  BY <1>1, <1>2, HandlerEndsHeard
<1>3. CASE sockets' = [sockets EXCEPT ![s].stage = "open", ![s].joined = TRUE]
  <2>1. PICK v : v = [sockets[s] EXCEPT !.stage = "open", !.joined = TRUE]
    OBVIOUS
  <2>2. sockets[s] \in Socket
    BY <1>1 DEF HeardInv, EndsOK, Exists
  <2>3. /\ v \in Socket /\ v.tab = sockets[s].tab
        /\ v.user = sockets[s].user /\ v.up = sockets[s].up /\ v.closure = sockets[s].closure
    BY <2>1, <2>2 DEF Socket
  <2>4. sockets' = [sockets EXCEPT ![s] = v]
    BY <1>3, <2>1 DEF HeardInv, EndsOK
  <2> QED  BY <1>1, <2>3, <2>4, ServerEnd, EndsStay DEF HeardInv, Deliveries, SameOrGone
<1> QED  BY <1>2, <1>3 DEF Authenticate

LEMMA RestartHeard ==
  ASSUME HeardInv, NEW w \in Workers, Restart(w)
  PROVE  HeardInv'
<1>1. PICK lost : lost = {h \in Writers : tx[h] # None /\ tx[h].worker = w}
  OBVIOUS
<1>2. sending' = [t \in Tasks |-> IF t \in lost \cup {w} THEN None ELSE sending[t]]
      /\ tabs' = tabs /\ exchanged' = exchanged
  BY <1>1 DEF Restart, history
<1>3. ASSUME NEW s \in Sockets
      PROVE  KeptOrGone(s) /\ sockets'[s] \in Socket \cup {None}
  <2>1. sockets[s] \in Socket \cup {None}
    BY DEF HeardInv, EndsOK
  <2>2. sockets'[s] = IF Exists(s) /\ sockets[s].worker = w THEN Ended(s) ELSE sockets[s]
    BY DEF Restart
  <2>3. CASE ~(Exists(s) /\ sockets[s].worker = w)
    BY <2>1, <2>2, <2>3 DEF KeptOrGone
  <2>4. CASE Exists(s) /\ sockets[s].worker = w
    <3>1. PICK v : v = Ended(s)
      OBVIOUS
    <3>2. sockets'[s] = v
      BY <2>2, <2>4, <3>1
    <3> QED  BY <2>4, <3>1, <3>2, EndedIs, RowsAssumption
             DEF KeptOrGone, SameOrGone, SameConnection
  <2> QED  BY <2>3, <2>4
<1>4. DOMAIN sockets' = Sockets /\ sockets' = [s \in Sockets |-> sockets'[s]]
  <2>1. PICK f : f = [s \in Sockets |->
                  IF Exists(s) /\ sockets[s].worker = w THEN Ended(s) ELSE sockets[s]]
    OBVIOUS
  <2>2. sockets' = f
    BY <2>1 DEF Restart
  <2> QED  BY <2>1, <2>2
<1>5. EndsOK' /\ (\A c \in Tabs : SameEnd(c))
  BY <1>2, <1>3, <1>4 DEF HeardInv, EndsOK, SameEnd
<1> QED  BY <1>2, <1>3, <1>5, EndsStay

-----------------------------------------------------------------------------
(* Tabs *)

(* A tab without a user has no connection of its own.                      *)
LEMMA UnconnectedWithoutUser ==
  ASSUME HeardInv, NEW c \in Tabs, ~Signed(c)
  PROVE  /\ tabs[c].socket = None
         /\ \A s \in Sockets : Exists(s) /\ sockets[s].up /\ sockets[s].tab = c =>
              sockets[s].closure = "gone" /\ c \in exchanged
<1>1. \A s \in Sockets : Exists(s) => sockets[s].user # tabs[c].user
  BY NotificationsAssumption DEF HeardInv, EndsOK, Exists, Socket, Signed
<1>2. tabs[c].socket = None
  <2> SUFFICES ASSUME tabs[c].socket # None PROVE FALSE
    OBVIOUS
  <2>1. tabs[c].socket \in Sockets /\ TabOK(c)
    BY DEF HeardInv, EndsOK, Connections, Tab
  <2> QED  BY <1>1, <2>1 DEF TabOK
<1>3. ASSUME NEW s \in Sockets, Exists(s), sockets[s].up, sockets[s].tab = c
      PROVE  sockets[s].closure = "gone" /\ c \in exchanged
  <2>1. SocketOK(s) /\ s # None
    BY NotificationsAssumption DEF HeardInv, Connections
  <2> QED  BY <1>1, <1>2, <1>3, <2>1 DEF SocketOK
<1> QED  BY <1>2, <1>3

LEMMA StartsHeard ==
  ASSUME HeardInv, NEW c \in Tabs, ~Signed(c), NEW t \in Tab, tabs' = [tabs EXCEPT ![c] = t],
         t.socket = None, t.user = None => ~t.timer, \A good \in BOOLEAN : t.late[good] = 0,
         UNCHANGED <<sockets, sending, exchanged>>
  PROVE  HeardInv'
<1>1. tabs'[c] = t
  BY DEF HeardInv, EndsOK
<1>2. TabOK(c)'
  BY <1>1 DEF TabOK
<1>3. ASSUME NEW s \in Sockets, sockets'[s] # None, sockets'[s].tab = c PROVE SocketOK(s)'
  BY <1>3, UnconnectedWithoutUser DEF SocketOK, Exists
<1>4. sockets' \in [Sockets -> Socket \cup {None}] /\ \A s \in Sockets : ConnectionOf(c, s)
  BY DEF HeardInv, EndsOK, ConnectionOf
<1> QED  BY <1>2, <1>3, <1>4, TabReconnects

LEMMA SignedInTab ==
  ASSUME NEW u \in Users
  PROVE  /\ SignedIn(u) \in Tab /\ SignedIn(u).socket = None /\ SignedIn(u).user = u
         /\ \A good \in BOOLEAN : SignedIn(u).late[good] = 0
         /\ SignedIn(u).ask = Asked("both")
<1>1. Asked("both") \in Ask
  BY DEF Asked, Ask
<1> QED  BY <1>1, SignedOutTab DEF SignedIn, Tab

LEMMA SignInHeard ==
  ASSUME HeardInv, NEW c \in Tabs, (\E u \in Users : SignIn(c, u)) \/ LateAnswer(c)
  PROVE  HeardInv'
<1>1. ASSUME NEW u \in Users, tabs' = [tabs EXCEPT ![c] = SignedIn(u)], ~Signed(c),
             UNCHANGED <<sockets, sending, exchanged>>
      PROVE  HeardInv'
  <2>1. u # None
    BY NotificationsAssumption
  <2> QED  BY <1>1, <2>1, SignedInTab, StartsHeard
<1>2. CASE \E u \in Users : SignIn(c, u)
  BY <1>1, <1>2 DEF SignIn, history
<1>3. CASE LateAnswer(c)
  <2>1. ~Signed(c) /\ UNCHANGED <<sockets, sending, exchanged>>
    BY <1>3 DEF LateAnswer, history
  <2>2. tabs[c].renewing \in Users
    BY <1>3 DEF LateAnswer, HeardInv, EndsOK, Tab
  <2>3. CASE tabs' = [tabs EXCEPT ![c] = SignedOut]
    BY <2>1, <2>3, SignedOutTab, StartsHeard
  <2> QED  BY <1>1, <1>3, <2>1, <2>2, <2>3 DEF LateAnswer
<1> QED  BY <1>2, <1>3

\* What is left of a connection whose browser's end closes.
LEMMA DownIs ==
  ASSUME HeardInv, NEW s \in Sockets, Exists(s), NEW v, v = Down(s)
  PROVE  \/ v = None
         \/ /\ v \in Socket /\ v # None /\ v.tab = sockets[s].tab
            /\ v.user = sockets[s].user /\ v.up = FALSE
<1>1. PICK d : d = [sockets[s] EXCEPT !.up = FALSE]
  OBVIOUS
<1>2. sockets[s] \in Socket
  BY DEF HeardInv, EndsOK, Exists
<1>3. d \in Socket /\ d.tab = sockets[s].tab /\ d.user = sockets[s].user /\ d.up = FALSE
  BY <1>1, <1>2 DEF Socket
<1> QED  BY <1>1, <1>3, RowsAssumption DEF Down

LEMMA OpenedHeard ==
  ASSUME HeardInv, NEW c \in Tabs, NEW s \in Sockets, NEW w \in Workers,
         NEW closure \in {"newest", "older"}, NEW good \in BOOLEAN, NEW tab \in Tab,
         Opened(c, s, w, closure, good, tab), tab.user = tabs[c].user, tab.user # None,
         c \notin exchanged => /\ tabs[c].socket = None /\ closure # "older" /\ ~tab.timer
                               /\ \A g \in BOOLEAN : tab.late[g] = 0
  PROVE  HeardInv'
<1>1. PICK t : t = [tab EXCEPT !.socket = s]
  OBVIOUS
<1>2. PICK new : new = [tab |-> c, user |-> tab.user, worker |-> w, stage |-> "accepted",
                        joined |-> FALSE, up |-> TRUE, closure |-> closure, good |-> good]
  OBVIOUS
<1>3. /\ Unknown(s) /\ sending' = sending /\ exchanged' = exchanged
      /\ tabs' = [tabs EXCEPT ![c] = t] /\ sockets' = [sockets EXCEPT ![s] = new]
  BY <1>1, <1>2 DEF Opened, history
<1>4. /\ t \in Tab /\ t.socket = s /\ t.user = tabs[c].user
      /\ t.timer = tab.timer /\ t.late = tab.late
  BY <1>1 DEF Tab
<1>5. /\ new \in Socket /\ new # None /\ new.tab = c /\ new.user = tabs[c].user
      /\ new.up = TRUE /\ new.closure = closure
  <2>1. tab.user \in Users
    BY DEF Tab
  <2>2. new \in Socket
    BY <1>2, <2>1 DEF Socket
  <2> QED  BY <1>2, <2>2, RowsAssumption
<1>6. /\ tabs'[c] = t /\ sockets' \in [Sockets -> Socket \cup {None}]
      /\ sockets'[s] = new /\ \A r \in Sockets : r # s => sockets'[r] = sockets[r]
  BY <1>3, <1>5 DEF HeardInv, EndsOK
<1>7. \A r \in Sockets : ConnectionOf(c, r)
  BY <1>3, <1>5, <1>6 DEF ConnectionOf
<1>8. TabOK(c)'
  <2>1. c \in exchanged' <=> c \in exchanged
    BY <1>3
  <2>2. c \notin exchanged => ~t.timer /\ \A g \in BOOLEAN : t.late[g] = 0
    BY <1>4
  <2> QED  BY <1>4, <1>5, <1>6, <2>1, <2>2 DEF TabOK, Exists
<1>9. ASSUME NEW r \in Sockets, sockets'[r] # None, sockets'[r].tab = c PROVE SocketOK(r)'
  <2>1. CASE r = s
    BY <1>3, <1>4, <1>5, <1>6, <2>1 DEF SocketOK
  <2>2. CASE r # s
    <3>1. sockets'[r] = sockets[r] /\ SocketOK(r) /\ r # None
      BY <1>6, <2>2, NotificationsAssumption DEF HeardInv, Connections
    <3> QED  BY <1>3, <1>4, <1>6, <1>9, <3>1 DEF SocketOK, Exists
  <2> QED  BY <2>1, <2>2
<1> QED  BY <1>3, <1>4, <1>6, <1>7, <1>8, <1>9, TabReconnects

(* A closure connects its tab.                                             *)
LEMMA ConnectHeard ==
  ASSUME HeardInv, NEW c \in Tabs, NEW s \in Sockets, NEW w \in Workers,
         Connect(c, s, w) \/ \E good \in BOOLEAN : ConnectLate(c, s, w, good)
  PROVE  HeardInv'
<1>1. tabs[c] \in Tab /\ TabOK(c)
  BY DEF HeardInv, EndsOK, Connections
<1>2. CASE Connect(c, s, w)
  <2>1. PICK tab : tab = [tabs[c] EXCEPT !.timer = FALSE]
    OBVIOUS
  <2>2. tab \in Tab /\ tab.user = tabs[c].user /\ tab.timer = FALSE /\ tab.late = tabs[c].late
    BY <1>1, <2>1 DEF Tab
  <2>3. /\ tabs[c].fresh \in BOOLEAN /\ tabs[c].timer
        /\ Opened(c, s, w, "newest", tabs[c].fresh, tab)
    BY <1>1, <1>2, <2>1 DEF Connect, Tab
  <2>4. c \notin exchanged => tabs[c].socket = None /\ \A g \in BOOLEAN : tab.late[g] = 0
    BY <1>1, <2>2, <2>3 DEF TabOK
  <2> QED  BY <1>1, <2>2, <2>3, <2>4, OpenedHeard DEF TabOK
<1>3. ASSUME NEW good \in BOOLEAN, ConnectLate(c, s, w, good) PROVE HeardInv'
  <2>1. PICK tab : tab = [tabs[c] EXCEPT !.late[good] = @ - 1]
    OBVIOUS
  <2>2. PICK late : late = [tabs[c].late EXCEPT ![good] = @ - 1]
    OBVIOUS
  <2>3. tabs[c].late[good] > 0 /\ tabs[c].late \in [BOOLEAN -> Nat]
    BY <1>1, <1>3 DEF ConnectLate, Tab
  <2>4. late \in [BOOLEAN -> Nat] /\ tab = [tabs[c] EXCEPT !.late = late]
    BY <2>1, <2>2, <2>3
  <2>5. tab \in Tab /\ tab.user = tabs[c].user
    BY <1>1, <2>4 DEF Tab
  <2>6. Opened(c, s, w, "older", good, tab)
    BY <1>3, <2>1 DEF ConnectLate
  <2>7. c \in exchanged /\ tabs[c].user # None
    BY <1>1, <2>3 DEF TabOK
  <2> QED  BY <2>5, <2>6, <2>7, OpenedHeard
<1> QED  BY <1>2, <1>3

LEMMA OnCloseHeard ==
  ASSUME HeardInv, NEW s \in Sockets, OnClose(s)
  PROVE  HeardInv'
<1>1. PICK c : c = sockets[s].tab
  OBVIOUS
<1>2. Exists(s) /\ sockets[s].up /\ sockets[s] \in Socket /\ c \in Tabs
  BY <1>1 DEF OnClose, HeardInv, EndsOK, Exists, Socket
<1>3. tabs[c] \in Tab /\ TabOK(c) /\ SocketOK(s)
  BY <1>2 DEF HeardInv, EndsOK, Connections
<1>4. PICK a : a = Again(s)
  OBVIOUS
<1>5. /\ a \in Tab /\ a.socket = tabs[c].socket /\ a.user = tabs[c].user
      /\ sockets[s].closure = "gone" => a = tabs[c]
      /\ sockets[s].closure # "older" => a.late = tabs[c].late
  <2>1. CASE sockets[s].closure = "newest"
    <3>1. a = [tabs[c] EXCEPT !.timer = TRUE]
      BY <1>1, <1>4, <2>1 DEF Again
    <3> QED  BY <1>3, <2>1, <3>1 DEF Tab
  <2>2. CASE sockets[s].closure = "older"
    <3>1. PICK late : late = [tabs[c].late EXCEPT ![sockets[s].good] = @ + 1]
      OBVIOUS
    <3>2. late \in [BOOLEAN -> Nat]
      BY <1>2, <1>3, <3>1 DEF Tab, Socket
    <3>3. a = [tabs[c] EXCEPT !.late = late]
      <4>1. a = [tabs[c] EXCEPT !.late[sockets[s].good] = @ + 1]
        BY <1>1, <1>4, <2>2 DEF Again
      <4> QED  BY <3>1, <4>1
    <3> QED  BY <1>3, <2>2, <3>2, <3>3 DEF Tab
  <2>3. CASE sockets[s].closure = "gone"
    <3>1. a = tabs[c]
      BY <1>1, <1>4, <2>3 DEF Again
    <3> QED  BY <1>3, <2>3, <3>1
  <2> QED  BY <1>2, <2>1, <2>2, <2>3 DEF Socket
<1>6. PICK ref : ref = IF tabs[c].socket = s THEN None ELSE tabs[c].socket
  OBVIOUS
<1>7. PICK t : t = [a EXCEPT !.socket = ref]
  OBVIOUS
<1>8. /\ t \in Tab /\ t.socket = ref /\ t.user = tabs[c].user
      /\ t.timer = a.timer /\ t.late = a.late
  BY <1>3, <1>5, <1>6, <1>7 DEF Tab
<1>9. tabs' = [tabs EXCEPT ![c] = t]
  BY <1>1, <1>4, <1>5, <1>6, <1>7 DEF OnClose
<1>10. PICK v : v = Down(s)
  OBVIOUS
<1>11. /\ sockets' = [sockets EXCEPT ![s] = v] /\ UNCHANGED <<sending, exchanged>>
       /\ v = None \/ (v \in Socket /\ v # None /\ v.tab = c /\ v.user = sockets[s].user /\ v.up = FALSE)
  BY <1>1, <1>2, <1>10, DownIs DEF OnClose, history
<1>12. /\ tabs'[c] = t /\ sockets' \in [Sockets -> Socket \cup {None}]
       /\ sockets'[s] = v /\ \A r \in Sockets : r # s => sockets'[r] = sockets[r]
  BY <1>2, <1>8, <1>9, <1>11 DEF HeardInv, EndsOK
<1>13. \A r \in Sockets : ConnectionOf(c, r)
  BY <1>1, <1>2, <1>11, <1>12 DEF ConnectionOf
<1>14. TabOK(c)'
  <2>1. c \notin exchanged => tabs[c].socket = s /\ sockets[s].closure # "older"
    BY <1>1, <1>2, <1>3 DEF SocketOK
  <2>2. tabs[c].user = None => a = tabs[c]
    <3>1. sockets[s].user # None
      BY <1>2, NotificationsAssumption DEF Socket
    <3> QED  BY <1>1, <1>2, <1>3, <1>5, <3>1 DEF SocketOK
  <2>3. ASSUME ref # None
        PROVE  Exists(ref)' /\ sockets'[ref].tab = c /\ sockets'[ref].up
               /\ sockets'[ref].user = tabs[c].user
    <3>1. ref = tabs[c].socket /\ ref # s /\ ref \in Sockets
      BY <1>3, <1>6, <2>3 DEF Tab
    <3> QED  BY <1>3, <1>12, <2>3, <3>1 DEF TabOK, Exists
  <2>4. \A good \in BOOLEAN : c \notin exchanged => t.late[good] = 0
    BY <1>3, <1>5, <1>8, <2>1 DEF TabOK
  <2>5. tabs[c].user = None => ~t.timer /\ \A good \in BOOLEAN : t.late[good] = 0
    BY <1>3, <1>8, <2>2 DEF TabOK
  <2>6. c \notin exchanged => ref = None
    BY <1>6, <2>1
  <2> QED  BY <1>8, <1>11, <1>12, <2>3, <2>4, <2>5, <2>6 DEF TabOK
<1>15. ASSUME NEW r \in Sockets, sockets'[r] # None, sockets'[r].tab = c PROVE SocketOK(r)'
  <2>1. CASE r = s
    BY <1>11, <1>12, <2>1 DEF SocketOK, Exists
  <2>2. CASE r # s
    <3>1. sockets'[r] = sockets[r] /\ SocketOK(r)
      BY <1>12, <2>2 DEF HeardInv, Connections
    <3>2. c \notin exchanged => tabs[c].socket = s
      BY <1>1, <1>2, <1>3 DEF SocketOK
    <3> QED  BY <1>8, <1>11, <1>12, <1>15, <2>2, <3>1, <3>2 DEF SocketOK, Exists
  <2> QED  BY <2>1, <2>2
<1> QED  BY <1>2, <1>8, <1>9, <1>11, <1>12, <1>13, <1>14, <1>15, TabReconnects

(* What the cleanup leaves: the socket it refers to is closed.             *)
LEMMA SignOutHeard ==
  ASSUME HeardInv, NEW c \in Tabs, NEW ended \in BOOLEAN, SignOut(c, ended)
  PROVE  HeardInv'
<1>1. PICK t : t = [SignedOut EXCEPT !.renewing = tabs[c].renewing]
  OBVIOUS
<1>2. /\ t \in Tab /\ t.socket = None /\ t.user = None /\ t.timer = FALSE
      /\ \A good \in BOOLEAN : t.late[good] = 0
  <2>1. tabs[c].renewing \in Users \cup {None}
    BY DEF HeardInv, EndsOK, Tab
  <2> QED  BY <1>1, <2>1, SignedOutTab DEF Tab
<1>3. tabs' = [tabs EXCEPT ![c] = t] /\ UNCHANGED <<sending, exchanged>>
  BY <1>1 DEF SignOut, Leaves
<1>4. sockets' = [s \in Sockets |->
        IF s = tabs[c].socket THEN Down(s)
        ELSE IF Exists(s) /\ sockets[s].tab = c
        THEN [sockets[s] EXCEPT !.closure = "gone",
                                !.good = @ /\ ~(ended /\ sockets[s].closure = "newest")]
        ELSE sockets[s]]
  BY DEF SignOut, Cleanup, SocketsOf
<1>5. ASSUME NEW s \in Sockets
      PROVE  /\ sockets'[s] \in Socket \cup {None} /\ ConnectionOf(c, s)
             /\ sockets'[s] # None /\ sockets'[s].tab = c =>
                  ~sockets'[s].up \/ (sockets'[s].closure = "gone" /\ c \in exchanged)
  <2>1. CASE s = tabs[c].socket
    <3>1. Exists(s) /\ sockets[s].tab = c
      BY <2>1, NotificationsAssumption DEF HeardInv, Connections, TabOK
    <3>2. PICK v : v = Down(s)
      OBVIOUS
    <3>3. sockets'[s] = v
      BY <1>4, <2>1, <3>2
    <3> QED  BY <3>1, <3>2, <3>3, DownIs DEF ConnectionOf
  <2>2. CASE s # tabs[c].socket /\ Exists(s) /\ sockets[s].tab = c
    <3>1. sockets[s] \in Socket
      BY <2>2 DEF HeardInv, EndsOK, Exists
    <3>2. PICK g : g = (sockets[s].good /\ ~(ended /\ sockets[s].closure = "newest"))
      OBVIOUS
    <3>3. g \in BOOLEAN
      BY <3>2
    <3>4. PICK v : v = [sockets[s] EXCEPT !.closure = "gone", !.good = g]
      OBVIOUS
    <3>5. /\ v \in Socket /\ v.tab = c /\ v.user = sockets[s].user
          /\ v.up = sockets[s].up /\ v.closure = "gone"
      BY <2>2, <3>1, <3>3, <3>4 DEF Socket
    <3>6. sockets'[s] = v
      BY <1>4, <2>2, <3>2, <3>4
    <3>7. sockets[s].up => c \in exchanged
      BY <2>2 DEF HeardInv, Connections, SocketOK
    <3>8. v # None
      BY <3>5, RowsAssumption
    <3> QED  BY <2>2, <3>5, <3>6, <3>7, <3>8 DEF ConnectionOf
  <2>3. CASE s # tabs[c].socket /\ ~(Exists(s) /\ sockets[s].tab = c)
    <3>1. sockets'[s] = sockets[s]
      BY <1>4, <2>3
    <3> QED  BY <2>3, <3>1 DEF ConnectionOf, HeardInv, EndsOK, Exists
  <2> QED  BY <2>1, <2>2, <2>3
<1>6. tabs'[c] = t /\ sockets' \in [Sockets -> Socket \cup {None}]
  <2>1. PICK f : f = sockets'
    OBVIOUS
  <2>2. DOMAIN f = Sockets /\ f = [s \in Sockets |-> f[s]]
    BY <1>4, <2>1
  <2>3. \A s \in Sockets : f[s] \in Socket \cup {None}
    BY <1>5, <2>1
  <2> QED  BY <1>3, <2>1, <2>2, <2>3 DEF HeardInv, EndsOK
<1>7. TabOK(c)'
  BY <1>2, <1>6 DEF TabOK
<1>8. ASSUME NEW s \in Sockets, sockets'[s] # None, sockets'[s].tab = c PROVE SocketOK(s)'
  BY <1>3, <1>5, <1>8 DEF SocketOK, Exists
<1> QED  BY <1>2, <1>3, <1>5, <1>6, <1>7, <1>8, TabReconnects

LEMMA TokensReceivedHeard ==
  ASSUME HeardInv, NEW c \in Tabs, NEW s \in Sockets, NEW w \in Workers, TokensReceived(c, s, w)
  PROVE  HeardInv'
<1>1. PICK ref : ref = tabs[c].socket
  OBVIOUS
<1>2. tabs[c] \in Tab /\ TabOK(c) /\ ref \in Sockets \cup {None}
  BY <1>1 DEF HeardInv, EndsOK, Connections, Tab
<1>3. ref # None => Exists(ref) /\ sockets[ref].tab = c /\ sockets[ref] \in Socket
  BY <1>1, <1>2 DEF HeardInv, EndsOK, TabOK, Exists
<1>4. PICK late : late = IF ref = None THEN tabs[c].late
                         ELSE [tabs[c].late EXCEPT ![sockets[ref].good] = @ + 1]
  OBVIOUS
<1>5. late \in [BOOLEAN -> Nat]
  BY <1>2, <1>3, <1>4 DEF Tab, Socket
<1>6. PICK t : t = [tabs[c] EXCEPT !.fresh = TRUE, !.renewing = None, !.socket = s,
                                   !.timer = FALSE, !.late = late]
  OBVIOUS
<1>7. t \in Tab /\ t.socket = s /\ t.user = tabs[c].user /\ t.timer = FALSE
  BY <1>2, <1>5, <1>6 DEF Tab
<1>8. PICK new : new = [tab |-> c, user |-> tabs[c].user, worker |-> w, stage |-> "accepted",
                        joined |-> FALSE, up |-> TRUE, closure |-> "newest", good |-> TRUE]
  OBVIOUS
<1>9. /\ new \in Socket /\ new # None /\ new.tab = c /\ new.user = tabs[c].user
      /\ new.up = TRUE /\ tabs[c].user # None
  <2>1. tabs[c].user \in Users /\ tabs[c].user # None
    BY <1>2 DEF TokensReceived, Signed, Tab
  <2>2. new \in Socket
    BY <1>8, <2>1 DEF Socket
  <2> QED  BY <1>8, <2>1, <2>2, RowsAssumption
<1>10. PICK left : left = [r \in Sockets |->
         IF r = ref THEN Down(r)
         ELSE IF Exists(r) /\ sockets[r].tab = c
         THEN [sockets[r] EXCEPT !.closure = IF @ = "newest" THEN "older" ELSE @]
         ELSE sockets[r]]
  OBVIOUS
<1>11. /\ Unknown(s) /\ sending' = sending /\ exchanged' = exchanged \cup {c}
       /\ tabs' = [tabs EXCEPT ![c] = t] /\ sockets' = [left EXCEPT ![s] = new]
  BY <1>1, <1>2, <1>4, <1>6, <1>8, <1>10 DEF TokensReceived, Cleanup, SocketsOf, HeardInv, EndsOK
<1>12. ASSUME NEW r \in Sockets, r # s
       PROVE  /\ sockets'[r] \in Socket \cup {None} /\ ConnectionOf(c, r)
              /\ sockets'[r] # None /\ sockets'[r].tab = c =>
                   \/ ~sockets'[r].up \/ sockets'[r].closure = "gone"
                   \/ sockets'[r].user = tabs[c].user
  <2>1. SocketOK(r) /\ sockets'[r] = left[r] /\ sockets[r] \in Socket \cup {None}
    BY <1>10, <1>11, <1>12 DEF HeardInv, EndsOK, Connections
  <2>2. CASE r = ref
    <3>1. PICK v : v = Down(r)
      OBVIOUS
    <3>2. sockets'[r] = v /\ Exists(r) /\ sockets[r].tab = c
      BY <1>3, <1>10, <2>1, <2>2, <3>1, NotificationsAssumption
    <3> QED  BY <3>1, <3>2, DownIs DEF ConnectionOf
  <2>3. CASE r # ref /\ Exists(r) /\ sockets[r].tab = c
    <3>1. PICK closure : closure = IF sockets[r].closure = "newest" THEN "older"
                                   ELSE sockets[r].closure
      OBVIOUS
    <3>a. PICK v : v = [sockets[r] EXCEPT !.closure = closure]
      OBVIOUS
    <3>2. sockets'[r] = v /\ sockets[r] \in Socket
      BY <1>10, <2>1, <2>3, <3>1, <3>a DEF Exists
    <3>b. /\ closure \in {"newest", "older", "gone"}
          /\ closure # "gone" => sockets[r].closure # "gone"
      BY <3>1, <3>2 DEF Socket
    <3>3. /\ v \in Socket /\ v.tab = c /\ v.user = sockets[r].user /\ v.up = sockets[r].up
          /\ v.closure # "gone" => sockets[r].closure # "gone"
      BY <2>3, <3>2, <3>a, <3>b DEF Socket
    <3>4. v # None
      BY <3>3, RowsAssumption
    <3> QED  BY <2>1, <2>3, <3>2, <3>3, <3>4 DEF ConnectionOf, SocketOK
  <2>4. CASE r # ref /\ ~(Exists(r) /\ sockets[r].tab = c)
    <3>1. sockets'[r] = sockets[r]
      BY <1>10, <2>1, <2>4
    <3> QED  BY <2>1, <2>4, <3>1 DEF ConnectionOf, Exists
  <2> QED  BY <2>2, <2>3, <2>4
<1>13. sockets'[s] = new /\ ConnectionOf(c, s)
  BY <1>9, <1>10, <1>11 DEF ConnectionOf
<1>14. tabs'[c] = t /\ sockets' \in [Sockets -> Socket \cup {None}]
  <2>1. PICK f : f = sockets'
    OBVIOUS
  <2>2. DOMAIN f = Sockets /\ f = [r \in Sockets |-> f[r]]
    BY <1>10, <1>11, <2>1
  <2>3. \A r \in Sockets : f[r] \in Socket \cup {None}
    BY <1>9, <1>12, <1>13, <2>1
  <2> QED  BY <1>11, <2>1, <2>2, <2>3 DEF HeardInv, EndsOK
<1>15. TabOK(c)'
  BY <1>7, <1>9, <1>11, <1>13, <1>14 DEF TabOK, Exists
<1>16. ASSUME NEW r \in Sockets, sockets'[r] # None, sockets'[r].tab = c PROVE SocketOK(r)'
  <2>1. CASE r = s
    BY <1>7, <1>9, <1>11, <1>13, <1>14, <2>1 DEF SocketOK
  <2>2. CASE r # s
    BY <1>7, <1>11, <1>12, <1>14, <1>16, <2>2 DEF SocketOK
  <2> QED  BY <2>1, <2>2
<1> QED  BY <1>7, <1>11, <1>12, <1>13, <1>14, <1>15, <1>16, TabReconnects

LEMMA TokenExpiresHeard ==
  ASSUME HeardInv, NEW c \in Tabs, NEW older \in BOOLEAN, TokenExpires(c, older)
  PROVE  HeardInv'
<1>1. PICK r, old : r = tabs[c] /\ old = tabs[c].late
  OBVIOUS
<1>2. r \in Tab /\ TabOK(c) /\ old \in [BOOLEAN -> Nat]
  BY <1>1 DEF HeardInv, EndsOK, Connections, Tab
<1>3. PICK late : late = [good \in BOOLEAN |-> IF good THEN 0 ELSE old[TRUE] + old[FALSE]]
  OBVIOUS
<1>a. PICK waiting : waiting = old[TRUE]
  OBVIOUS
<1>b. PICK refused : refused = old[FALSE]
  OBVIOUS
<1>c. /\ late = [good \in BOOLEAN |-> IF good THEN 0 ELSE waiting + refused]
      /\ \A good \in BOOLEAN : late[good] = 0 \/ late[good] = waiting + refused
  BY <1>3, <1>a, <1>b, Zenon
<1>4. late \in [BOOLEAN -> Nat]
  <2>1. waiting \in Nat /\ refused \in Nat
    BY <1>2, <1>a, <1>b, Zenon
  <2>2. PICK sum : sum = waiting + refused
    OBVIOUS
  <2>3. sum \in Nat
    BY <2>1, <2>2
  <2>4. late = [good \in BOOLEAN |-> IF good THEN 0 ELSE sum]
    BY <1>c, <2>2, Zenon
  <2> QED  BY <2>3, <2>4
<1>5. PICK fresh : fresh = (r.fresh /\ older) /\ fresh \in BOOLEAN
  OBVIOUS
<1>6. PICK t : t = [r EXCEPT !.fresh = fresh, !.late = late]
  OBVIOUS
<1>7. /\ t \in Tab /\ t.socket = r.socket /\ t.user = r.user
      /\ t.timer = r.timer /\ t.late = late
  BY <1>2, <1>4, <1>5, <1>6 DEF Tab
<1>8. tabs' = [tabs EXCEPT ![c] = t] /\ UNCHANGED <<sending, exchanged>>
  BY <1>1, <1>3, <1>5, <1>6 DEF TokenExpires, HeardInv, EndsOK, history
<1>9. ASSUME NEW s \in Sockets
      PROVE  \/ sockets'[s] = sockets[s] /\ sockets'[s] \in Socket \cup {None}
             \/ /\ Exists(s) /\ sockets[s].tab = c /\ sockets'[s] \in Socket /\ sockets'[s] # None
                /\ SameConnection(sockets'[s], sockets[s])
  <2>1. PICK v : v = [sockets[s] EXCEPT !.good = FALSE]
    OBVIOUS
  <2>2. sockets'[s] = sockets[s] \/ (Exists(s) /\ sockets[s].tab = c /\ sockets'[s] = v)
    BY <2>1 DEF TokenExpires
  <2>3. Exists(s) => sockets[s] \in Socket
    BY DEF HeardInv, EndsOK, Exists
  <2>4. Exists(s) => v \in Socket /\ SameConnection(v, sockets[s])
    BY <2>1, <2>3 DEF Socket, SameConnection
  <2> QED  BY <2>2, <2>4, RowsAssumption DEF HeardInv, EndsOK
<1>10. tabs'[c] = t /\ sockets' \in [Sockets -> Socket \cup {None}]
  <2>1. PICK f : f = sockets'
    OBVIOUS
  <2>2. DOMAIN f = Sockets /\ f = [s \in Sockets |-> f[s]]
    <3>1. PICK g : g = [s \in Sockets |->
            IF /\ Exists(s) /\ Signed(c) /\ sockets[s].tab = c
               /\ older => sockets[s].closure = "older"
            THEN [sockets[s] EXCEPT !.good = FALSE] ELSE sockets[s]]
      OBVIOUS
    <3>2. f = g
      BY <2>1, <3>1 DEF TokenExpires
    <3> QED  BY <3>1, <3>2
  <2>3. \A s \in Sockets : f[s] \in Socket \cup {None}
    BY <1>9, <2>1
  <2> QED  BY <1>8, <2>1, <2>2, <2>3 DEF HeardInv, EndsOK
<1>11. \A s \in Sockets : ConnectionOf(c, s)
  BY <1>9 DEF ConnectionOf, SameConnection
<1>12. TabOK(c)'
  <2>1. ASSUME r.socket # None
        PROVE  LET s == r.socket IN
               /\ sockets'[s] # None /\ sockets'[s].tab = c
               /\ sockets'[s].up /\ sockets'[s].user = r.user
    <3>1. PICK s : s = r.socket
      OBVIOUS
    <3>2. s \in Sockets /\ Exists(s) /\ sockets[s].tab = c /\ sockets[s].up /\ sockets[s].user = r.user
      BY <1>1, <1>2, <2>1, <3>1 DEF TabOK, Tab
    <3>3. sockets'[s] # None /\ SameConnection(sockets'[s], sockets[s])
      BY <1>9, <3>2 DEF Exists, SameConnection
    <3> QED  BY <3>1, <3>2, <3>3 DEF SameConnection
  <2>2. (\A good \in BOOLEAN : old[good] = 0) => \A good \in BOOLEAN : late[good] = 0
    <3>1. (\A good \in BOOLEAN : old[good] = 0) => waiting = 0 /\ refused = 0
      BY <1>a, <1>b, Zenon
    <3> QED  BY <1>c, <3>1
  <2> QED  BY <1>1, <1>2, <1>7, <1>8, <1>10, <2>1, <2>2 DEF TabOK, Exists
<1>13. ASSUME NEW s \in Sockets, sockets'[s] # None, sockets'[s].tab = c PROVE SocketOK(s)'
  <2>1. SocketOK(s) /\ Exists(s) /\ SameConnection(sockets'[s], sockets[s])
    BY <1>9, <1>13 DEF HeardInv, Connections, Exists, SameConnection
  <2> QED  BY <1>1, <1>7, <1>8, <1>10, <1>13, <2>1 DEF SocketOK, SameConnection
<1> QED  BY <1>7, <1>8, <1>10, <1>11, <1>12, <1>13, TabReconnects

LEMMA StoredNotes == \A u : Stored(u) \subseteq Notes /\ Unread(u) \subseteq Notes
  BY DEF Stored, Unread

(* What a page does leaves its tab its user and its connection.            *)
LEMMA PageHeard ==
  ASSUME HeardInv, NEW c \in Tabs,
         \/ AskRefresh(c) \/ ChangePassword(c) \/ Poll(c) \/ Refetch(c) \/ Serve(c) \/ Answered(c) \/ AskFails(c)
         \/ Click(c, tabs[c].list.unread) \/ (\E n \in tabs[c].list.unread : Click(c, {n}))
         \/ MarkRead(c) \/ MarkAllRead(c)
  PROVE  HeardInv'
<1>1. PICK r : r = tabs[c]
  OBVIOUS
<1>2. r \in Tab
  BY <1>1 DEF HeardInv, EndsOK
<1>3. DOMAIN tabs = Tabs
  BY DEF HeardInv, EndsOK
<1>4. Asked("both") \in Ask /\ Asked("count") \in Ask
  BY DEF Asked, Ask
<1> DEFINE Same(t) == /\ t \in Tab /\ t.socket = r.socket /\ t.user = r.user
                      /\ t.timer = r.timer /\ t.late = r.late
           Turn(t) == /\ Same(t) /\ tabs' = [tabs EXCEPT ![c] = t]
                      /\ UNCHANGED <<sockets, sending, exchanged>>
<1>5. ASSUME NEW t, Turn(t) PROVE HeardInv'
  BY <1>1, <1>5, TabTurns
<1>6. CASE AskRefresh(c) \/ ChangePassword(c)
  <2>1. PICK t : t = [r EXCEPT !.renewing = r.user]
    OBVIOUS
  <2>2. Turn(t)
    BY <1>1, <1>2, <1>6, <2>1, <1>3 DEF AskRefresh, ChangePassword, Renews, Tab, history
  <2> QED  BY <1>5, <2>2
<1>7. CASE Poll(c)
  <2>1. PICK t : t = [r EXCEPT !.ask = Asked("count")]
    OBVIOUS
  <2>2. Turn(t)
    BY <1>1, <1>2, <1>7, <2>1, <1>3, <1>4 DEF Poll, Tab, history
  <2> QED  BY <1>5, <2>2
<1>8. CASE Refetch(c)
  <2>1. PICK t : t = [r EXCEPT !.stale = FALSE, !.ask = Asked("both")]
    OBVIOUS
  <2>2. Same(t)
    BY <1>2, <2>1, <1>4 DEF Tab
  <2>3. tabs' = [tabs EXCEPT ![c] = t] /\ UNCHANGED <<sockets, sending, exchanged>>
    BY <1>1, <1>8, <2>1, <1>3 DEF Refetch, history
  <2> QED  BY <1>5, <2>2, <2>3
<1>9. CASE Serve(c)
  <2>1. PICK a : a = [r.ask EXCEPT !.rows = [all |-> Stored(r.user), unread |-> Unread(r.user)]]
    OBVIOUS
  <2>2. PICK t : t = [r EXCEPT !.ask = a]
    OBVIOUS
  <2>3. r.ask \in Ask
    BY <1>1, <1>2, <1>9 DEF Serve, Waiting, Tab
  <2>4. a \in Ask
    BY <2>1, <2>3, StoredNotes DEF Ask, Rows
  <2>5. Same(t)
    BY <1>2, <2>2, <2>4 DEF Tab
  <2>6. tabs' = [tabs EXCEPT ![c] = t] /\ UNCHANGED <<sockets, sending, exchanged>>
    BY <1>1, <1>3, <1>9, <2>1, <2>2 DEF Serve, history
  <2> QED  BY <1>5, <2>5, <2>6
<1>10. CASE Answered(c)
  <2>1. PICK a : a = r.ask
    OBVIOUS
  <2>2. a \in Ask /\ a.rows \in Rows
    BY <1>1, <1>2, <1>10, <2>1 DEF Answered, Waiting, Tab, Ask
  <2>3. PICK t : t = [r EXCEPT !.ask = None, !.badge = a.rows.unread,
                               !.list = IF a.what = "both" THEN a.rows ELSE @]
    OBVIOUS
  <2>4. Same(t)
    BY <1>2, <2>2, <2>3 DEF Tab, Rows
  <2>5. tabs' = [tabs EXCEPT ![c] = t] /\ UNCHANGED <<sockets, sending, exchanged>>
    BY <1>1, <1>3, <1>10, <2>1, <2>3 DEF Answered, history
  <2> QED  BY <1>5, <2>4, <2>5
<1>11. CASE AskFails(c)
  <2>1. PICK t : t = [r EXCEPT !.ask = None]
    OBVIOUS
  <2>2. Turn(t)
    BY <1>1, <1>2, <1>11, <2>1, <1>3 DEF AskFails, Tab
  <2> QED  BY <1>5, <2>2
<1>12. ASSUME NEW clicked, clicked \subseteq Notes, Click(c, clicked) PROVE HeardInv'
  <2>1. PICK t : t = [r EXCEPT !.mark = clicked]
    OBVIOUS
  <2>2. Turn(t)
    BY <1>1, <1>2, <1>12, <2>1, <1>3 DEF Click, Tab, history
  <2> QED  BY <1>5, <2>2
<1>13. r.list.unread \subseteq Notes
  BY <1>2 DEF Tab, Rows
<1>14. ASSUME NEW read, Marked(c, read) PROVE HeardInv'
  <2>1. PICK t : t = [r EXCEPT !.mark = {}, !.stale = TRUE]
    OBVIOUS
  <2>2. Same(t)
    BY <1>2, <2>1 DEF Tab
  <2>3. tabs' = [tabs EXCEPT ![c] = t] /\ UNCHANGED <<sockets, sending, exchanged>>
    BY <1>1, <1>3, <1>14, <2>1 DEF Marked
  <2> QED  BY <1>5, <2>2, <2>3
<1>15. CASE MarkRead(c) \/ MarkAllRead(c)
  BY <1>14, <1>15 DEF MarkRead, MarkAllRead
<1>16. CASE Click(c, tabs[c].list.unread) \/ (\E n \in tabs[c].list.unread : Click(c, {n}))
  <2>1. tabs[c].list.unread \subseteq Notes
    BY <1>1, <1>13
  <2>2. \A n \in tabs[c].list.unread : {n} \subseteq Notes
    BY <2>1
  <2> QED  BY <1>12, <1>16, <2>1, <2>2
<1> QED  BY <1>6, <1>7, <1>8, <1>9, <1>10, <1>11, <1>15, <1>16

-----------------------------------------------------------------------------
LEMMA HeardUnchanged ==
  ASSUME HeardInv, UNCHANGED <<tabs, sockets, sending, exchanged>>
  PROVE  HeardInv'
<1>1. EndsOK' /\ (\A c \in Tabs : SameEnd(c)) /\ \A r \in Sockets : KeptOrGone(r)
  BY DEF HeardInv, EndsOK, SameEnd, KeptOrGone
<1> QED  BY <1>1, EndsStay DEF HeardInv, Deliveries

LEMMA HeardKept == HeardInv /\ [Next]_vars => HeardInv'
<1> SUFFICES ASSUME HeardInv, [Next]_vars PROVE HeardInv'
  OBVIOUS
<1>1. CASE UNCHANGED vars
  BY <1>1, HeardUnchanged DEF vars
<1>2. ASSUME NEW t \in Tasks, NEW s \in Sockets, Send(t, s) \/ SendFails(t, s) PROVE HeardInv'
  BY <1>2, SendHeard, SendFailsHeard
<1>3. ASSUME NEW w \in Workers, Receive(w) PROVE HeardInv'
  BY <1>3, DeliverHeard DEF Receive, Tasks, history
<1>4. ASSUME NEW h \in Writers, Writer(h) PROVE HeardInv'
  BY <1>4, HeardUnchanged DEF Writer, Push, CommitTx, RollbackTx, history
<1>5. ASSUME NEW h \in Writers, PushFails(h) PROVE HeardInv'
  BY <1>5, DeliverHeard DEF PushFails, Tasks, history
<1>6. ASSUME NEW h \in Writers, NEW w \in Workers, NEW n \in Notes, CreateNotification(h, w, n)
      PROVE  HeardInv'
  BY <1>6, HeardUnchanged DEF CreateNotification, history
<1>7. ASSUME NEW w \in Workers, ListenerEnds(w) PROVE HeardInv'
  BY <1>7, HeardUnchanged DEF ListenerEnds, history
<1>8. ASSUME NEW w \in Workers, Restart(w) PROVE HeardInv'
  BY <1>8, RestartHeard
<1>9. ASSUME NEW s \in Sockets, Handler(s) \/ HandlerFails(s) PROVE HeardInv'
  <2>1. CASE Authenticate(s)
    BY <2>1, AuthenticateHeard
  <2>2. CASE Disconnected(s)
    BY <2>2, HandlerEndsHeard DEF Disconnected, history
  <2>3. CASE HandlerFails(s)
    BY <2>3, HandlerEndsHeard DEF HandlerFails, history
  <2> QED  BY <1>9, <2>1, <2>2, <2>3 DEF Handler
<1>10. ASSUME NEW s \in Sockets, OnClose(s) PROVE HeardInv'
  BY <1>10, OnCloseHeard
<1>11. ASSUME NEW c \in Tabs, Hook(c) \/ Older(c) \/ Renewal(c) PROVE HeardInv'
  BY <1>11, ConnectHeard, TokensReceivedHeard, PageHeard DEF Hook, Older, Renewal
<1>12. ASSUME NEW c \in Tabs, Poll(c) \/ Page(c) \/ ChangePassword(c) \/ AskFails(c) PROVE HeardInv'
  BY <1>12, PageHeard DEF Page
<1>13. ASSUME NEW c \in Tabs, \/ Click(c, tabs[c].list.unread)
                              \/ \E n \in tabs[c].list.unread : Click(c, {n}) PROVE HeardInv'
  BY <1>13, PageHeard
<1>14. ASSUME NEW c \in Tabs, \/ \E older \in BOOLEAN : TokenExpires(c, older)
                              \/ \E ended \in BOOLEAN : SignOut(c, ended)
                              \/ (\E u \in Users : SignIn(c, u)) \/ LateAnswer(c) PROVE HeardInv'
  BY <1>14, TokenExpiresHeard, SignOutHeard, SignInHeard
<1> QED
  BY <1>1, <1>2, <1>3, <1>4, <1>5, <1>6, <1>7, <1>8, <1>9, <1>10, <1>11, <1>12, <1>13, <1>14
  DEF Next, Carry, Listen

(* HeardUnlessLost: a push for another user reaches a tab only after a     *)
(* token was exchanged there, and over a socket its hook no longer refers  *)
(* to.  The server picks the sockets of a worker by the user they were     *)
(* accepted for and keeps its copy of them while it sends; tabs sign out,  *)
(* sign in as somebody else and connect again meanwhile, and workers       *)
(* restart (deliver_local, _authenticate, useNotificationSocket).          *)
THEOREM HeardUnlessLostSight == Spec => HeardUnlessLost
<1>1. ASSUME HeardInv, NEW t \in Tasks, NEW s \in Sockets, Send(t, s)
      PROVE  LET c == sockets[s].tab IN
             \/ For[sending[t].note] = tabs[c].user
             \/ c \in exchanged /\ tabs[c].socket # s
  <2>1. sending[t] # None /\ s \in sending[t].left /\ Exists(s) /\ sockets[s].up
    BY <1>1 DEF Send, Listens
  <2>2. PICK c : c = sockets[s].tab
    OBVIOUS
  <2>3. c \in Tabs /\ TabOK(c) /\ SocketOK(s) /\ s # None
    BY <1>1, <2>1, <2>2, NotificationsAssumption
    DEF HeardInv, EndsOK, Connections, Exists, Socket
  <2>4. c \notin exchanged => tabs[c].socket = s
    BY <2>1, <2>2, <2>3 DEF SocketOK
  <2>5. tabs[c].socket = s => tabs[c].user = sockets[s].user
    BY <2>3 DEF TabOK
  <2>6. GoesTo(sending[t], s)
    BY <1>1, <2>1 DEF HeardInv, Deliveries, Addressed
  <2> QED  BY <2>1, <2>2, <2>4, <2>5, <2>6 DEF GoesTo
<1>2. ASSUME HeardInv
      PROVE  [\A t \in Tasks, s \in Sockets : Send(t, s) =>
                LET c == sockets[s].tab IN
                \/ For[sending[t].note] = tabs[c].user
                \/ c \in exchanged /\ tabs[c].socket # s]_vars
  BY <1>1, <1>2
<1> QED  BY <1>2, HeardAtStart, HeardKept, PTL DEF Spec, HeardUnlessLost
-----------------------------------------------------------------------------
(* What a tab shows                                                        *)

\* Rows are what they were added as, and a writer has added what it wrote.
Tx == [worker : Workers, push : Notes \cup {None}, wrote : SUBSET Notes]
Wrote(h) == tx[h] # None => \A n \in tx[h].wrote : Created(n)
RowsKept ==
  /\ notes \in [Notes -> Note \cup {None}]
  /\ tx \in [Writers -> Tx \cup {None}]
  /\ \A h \in Writers : Wrote(h)

\* A tab r is owed o and has marked m.
Backed(r, o, m) == o \subseteq Stored(r.user) /\ m \subseteq Stored(r.user) \ Unread(r.user)
ListTold(rows, o, m) == o \subseteq rows.all /\ m \cap rows.unread = {}
BadgeTold(u, badge, o, m) == o \cap Unread(u) \subseteq badge /\ m \cap badge = {}

\* An answer that has been read on the server takes the place of what the tab
\* shows; a question that has not been promises nothing yet.
Told(r, o, m) ==
  /\ IF r.ask # None /\ r.ask.what = "both"
     THEN r.ask.rows # None => ListTold(r.ask.rows, o, m) ELSE ListTold(r.list, o, m)
  /\ IF r.ask # None
     THEN r.ask.rows # None => BadgeTold(r.user, r.ask.rows.unread, o, m)
     ELSE BadgeTold(r.user, r.badge, o, m)
Shows(r, o, m) == Backed(r, o, m) /\ (r.user # None /\ ~r.stale => Told(r, o, m))

ShownInv ==
  /\ RowsKept
  /\ owed \in [Tabs -> SUBSET Notes] /\ marked \in [Tabs -> SUBSET Notes]
  /\ \A c \in Tabs : Shows(tabs[c], owed[c], marked[c])

LEMMA ShownAtStart == Init => ShownInv
<1> SUFFICES ASSUME Init PROVE ShownInv
  OBVIOUS
<1>1. SignedOut.user = None /\ \A c \in Tabs : tabs[c] = SignedOut /\ owed[c] = {} /\ marked[c] = {}
  BY DEF Init, SignedOut
<1>2. Shows(SignedOut, {}, {})
  BY <1>1 DEF Shows, Backed
<1> QED  BY <1>1, <1>2 DEF Init, ShownInv, RowsKept, Wrote

\* A row stays, stays stored and stays read.
Grown(n) ==
  Created(n) => /\ notes'[n] # None
                /\ notes[n].stage = "stored" => notes'[n].stage = "stored"
                /\ notes[n].read => notes'[n].read
RowsGrow == \A n \in Notes : Grown(n)

(* What a tab is shown is not undone by other rows, nor by rows read.      *)
LEMMA ShowsStays ==
  ASSUME RowsGrow, NEW r, NEW o, NEW m, Shows(r, o, m)
  PROVE  Shows(r, o, m)'
<1>1. \A u : Stored(u) \subseteq Stored(u)'
  BY DEF RowsGrow, Grown, Stored, Created
<1>2. \A u : Stored(u) \cap Unread(u)' \subseteq Unread(u)
  BY DEF RowsGrow, Grown, Stored, Unread, Created
<1>3. Backed(r, o, m)'
  BY <1>1, <1>2 DEF Shows, Backed
<1>4. \A badge : BadgeTold(r.user, badge, o, m) => BadgeTold(r.user, badge, o, m)'
  BY <1>2 DEF Shows, Backed, BadgeTold
<1>5. Told(r, o, m) => Told(r, o, m)'
  BY <1>4 DEF Told, ListTold
<1> QED  BY <1>3, <1>5 DEF Shows

LEMMA SameRowsGrow ==
  ASSUME notes' = notes
  PROVE  RowsGrow
BY DEF RowsGrow, Grown, Created

\* A step of which tabs see rows at most.
LEMMA NoTabTurns ==
  ASSUME ShownInv, RowsKept', RowsGrow, UNCHANGED <<tabs, owed, marked>>
  PROVE  ShownInv'
<1>1. ASSUME NEW c \in Tabs PROVE Shows(tabs[c], owed[c], marked[c])'
  <2>1. PICK r, o, m : r = tabs[c] /\ o = owed[c] /\ m = marked[c]
    OBVIOUS
  <2>2. Shows(r, o, m)'
    BY <2>1, ShowsStays DEF ShownInv
  <2> QED  BY <2>1, <2>2
<1> QED  BY <1>1 DEF ShownInv

\* One tab turns into t, which is owed o and has marked m.
LEMMA OneTabTurns ==
  ASSUME HeardInv, ShownInv, RowsKept', RowsGrow, NEW c \in Tabs, NEW t,
         NEW o \in SUBSET Notes, NEW m \in SUBSET Notes,
         tabs' = [tabs EXCEPT ![c] = t], owed' = [owed EXCEPT ![c] = o],
         marked' = [marked EXCEPT ![c] = m], Shows(t, o, m)'
  PROVE  ShownInv'
<1>1. DOMAIN tabs = Tabs
  BY DEF HeardInv, EndsOK
<1>2. owed' \in [Tabs -> SUBSET Notes] /\ marked' \in [Tabs -> SUBSET Notes]
  BY DEF ShownInv
<1>3. tabs'[c] = t /\ owed'[c] = o /\ marked'[c] = m
  BY <1>1 DEF ShownInv
<1>4. ASSUME NEW b \in Tabs, b # c PROVE Shows(tabs[b], owed[b], marked[b])'
  <2>1. PICK r, p, q : r = tabs[b] /\ p = owed[b] /\ q = marked[b]
    OBVIOUS
  <2>2. tabs'[b] = r /\ owed'[b] = p /\ marked'[b] = q
    BY <1>1, <1>4, <2>1 DEF ShownInv
  <2>3. Shows(r, p, q)'
    BY <2>1, ShowsStays DEF ShownInv
  <2> QED  BY <2>2, <2>3
<1>5. ASSUME NEW b \in Tabs PROVE Shows(tabs[b], owed[b], marked[b])'
  BY <1>3, <1>4
<1> QED  BY <1>2, <1>5 DEF ShownInv

-----------------------------------------------------------------------------
(* Writers *)

\* Somebody's rows settle: committed, or gone with the transaction.
LEMMA SettledRows ==
  ASSUME RowsKept, NEW written, \A n \in written : n \in Notes /\ Created(n),
         NEW stage \in {"stored", "gone"}, Settle(written, stage)
  PROVE  RowsGrow /\ notes' \in [Notes -> Note \cup {None}]
<1>1. ASSUME NEW n \in Notes
      PROVE  Grown(n) /\ notes'[n] \in Note \cup {None}
  <2>1. CASE ~(n \in written /\ notes[n].stage = "flushed")
    <3>1. notes'[n] = notes[n]
      BY <2>1 DEF Settle
    <3> QED  BY <3>1 DEF RowsKept, Grown, Created
  <2>2. CASE n \in written /\ notes[n].stage = "flushed"
    <3>1. PICK v : v = [notes[n] EXCEPT !.stage = stage]
      OBVIOUS
    <3>2. notes[n] \in Note
      BY <2>2 DEF RowsKept, Created
    <3>3. v \in Note /\ v.read = notes[n].read
      BY <3>1, <3>2 DEF Note
    <3>4. notes'[n] = v
      BY <2>2, <3>1 DEF Settle
    <3>5. Grown(n)
      BY <2>2, <3>3, <3>4, RowsAssumption DEF Grown
    <3> QED  BY <3>3, <3>4, <3>5
  <2> QED  BY <2>1, <2>2
<1>2. PICK f : f = [n \in Notes |-> IF n \in written /\ notes[n].stage = "flushed"
                            THEN [notes[n] EXCEPT !.stage = stage] ELSE notes[n]]
  OBVIOUS
<1>3. notes' = f
  BY <1>2 DEF Settle
<1> QED  BY <1>1, <1>2, <1>3 DEF RowsGrow

\* A writer's transaction stays what it wrote, or ends.
LEMMA WritersKeep ==
  ASSUME RowsKept, RowsGrow, notes' \in [Notes -> Note \cup {None}],
         tx' \in [Writers -> Tx \cup {None}],
         \A h \in Writers : tx'[h] # None => tx[h] # None /\ tx'[h].wrote = tx[h].wrote
  PROVE  RowsKept'
<1>1. ASSUME NEW h \in Writers, tx'[h] # None, NEW n \in tx'[h].wrote PROVE notes'[n] # None
  <2>1. tx[h] \in Tx /\ n \in tx[h].wrote
    BY <1>1 DEF RowsKept
  <2>2. n \in Notes /\ Created(n)
    BY <2>1, <1>1 DEF RowsKept, Wrote, Tx
  <2> QED  BY <2>2 DEF RowsGrow, Grown
<1> QED  BY <1>1 DEF RowsKept, Wrote, Created

LEMMA RowsUnchanged ==
  ASSUME RowsKept, UNCHANGED <<notes, tx>>
  PROVE  RowsKept' /\ RowsGrow
BY SameRowsGrow DEF RowsKept, Wrote, Created

LEMMA CreateShown ==
  ASSUME ShownInv, NEW h \in Writers, NEW w \in Workers, NEW n \in Notes,
         CreateNotification(h, w, n)
  PROVE  ShownInv'
<1>1. PICK v : v = [stage |-> "flushed", read |-> FALSE]
  OBVIOUS
<1>2. v \in Note /\ v # None
  <2>1. v \in Note
    BY <1>1 DEF Note
  <2> QED  BY <2>1, RowsAssumption
<1>3. notes' = [notes EXCEPT ![n] = v] /\ notes[n] = None
  BY <1>1 DEF CreateNotification, Created
<1>4. RowsGrow /\ notes' \in [Notes -> Note \cup {None}]
  BY <1>2, <1>3 DEF ShownInv, RowsKept, RowsGrow, Grown, Created
<1>5. PICK wrote : wrote = IF tx[h] = None THEN {n} ELSE tx[h].wrote \cup {n}
  OBVIOUS
<1>6. PICK x : x = [worker |-> w, push |-> n, wrote |-> wrote]
  OBVIOUS
<1>7. tx' = [tx EXCEPT ![h] = x]
  BY <1>5, <1>6 DEF CreateNotification
<1>8. \A k \in wrote : k \in Notes /\ (k = n \/ Created(k))
  BY <1>5 DEF ShownInv, RowsKept, Wrote, Tx
<1>9. x \in Tx /\ x.wrote = wrote
  BY <1>6, <1>8 DEF Tx
<1>10. tx' \in [Writers -> Tx \cup {None}]
  BY <1>7, <1>9 DEF ShownInv, RowsKept
<1>11. ASSUME NEW g \in Writers, tx'[g] # None, NEW k \in tx'[g].wrote PROVE notes'[k] # None
  <2>1. CASE g = h
    <3>1. k \in wrote
      BY <1>7, <1>9, <1>11, <2>1 DEF ShownInv, RowsKept
    <3>2. k = n => notes'[k] # None
      BY <1>2, <1>3 DEF ShownInv, RowsKept
    <3> QED  BY <1>4, <1>8, <3>1, <3>2 DEF RowsGrow, Grown
  <2>2. CASE g # h
    <3>1. tx'[g] = tx[g]
      BY <1>7, <2>2 DEF ShownInv, RowsKept
    <3>2. k \in Notes /\ Created(k)
      BY <1>11, <3>1 DEF ShownInv, RowsKept, Wrote, Tx
    <3> QED  BY <1>4, <3>2 DEF RowsGrow, Grown
  <2> QED  BY <2>1, <2>2
<1>12. RowsKept'
  BY <1>4, <1>10, <1>11 DEF RowsKept, Wrote, Created
<1> QED  BY <1>4, <1>12, NoTabTurns DEF CreateNotification, history

LEMMA PushShown ==
  ASSUME ShownInv, NEW h \in Writers, Push(h) \/ PushFails(h)
  PROVE  ShownInv'
<1>1. PICK x : x = [tx[h] EXCEPT !.push = None]
  OBVIOUS
<1>2. tx[h] # None /\ tx[h] \in Tx
  BY DEF Push, PushFails, ShownInv, RowsKept
<1>3. x \in Tx /\ x.wrote = tx[h].wrote
  BY <1>1, <1>2 DEF Tx
<1>4. tx' = [tx EXCEPT ![h] = x] /\ UNCHANGED <<notes, tabs, owed, marked>>
  BY <1>1 DEF Push, PushFails, ShownInv, RowsKept, history
<1>5. /\ notes' \in [Notes -> Note \cup {None}] /\ tx' \in [Writers -> Tx \cup {None}]
      /\ \A g \in Writers : tx'[g] # None => tx[g] # None /\ tx'[g].wrote = tx[g].wrote
  BY <1>2, <1>3, <1>4 DEF ShownInv, RowsKept
<1>6. RowsGrow
  BY <1>4, SameRowsGrow
<1>7. RowsKept'
  BY <1>5, <1>6, WritersKeep DEF ShownInv
<1> QED  BY <1>4, <1>6, <1>7, NoTabTurns

LEMMA SettleShown ==
  ASSUME ShownInv, NEW h \in Writers, CommitTx(h) \/ RollbackTx(h)
  PROVE  ShownInv'
<1>1. PICK written : written = tx[h].wrote
  OBVIOUS
<1>2. \A n \in written : n \in Notes /\ Created(n)
  <2>1. tx[h] # None /\ tx[h] \in Tx
    BY DEF CommitTx, RollbackTx, ShownInv, RowsKept
  <2> QED  BY <1>1, <2>1 DEF ShownInv, RowsKept, Wrote, Tx
<1>3. Settle(written, "stored") \/ Settle(written, "gone")
  BY <1>1 DEF CommitTx, RollbackTx
<1>4. RowsGrow /\ notes' \in [Notes -> Note \cup {None}]
  BY <1>2, <1>3, SettledRows DEF ShownInv
<1>5. tx' = [tx EXCEPT ![h] = None] /\ UNCHANGED <<tabs, owed, marked>>
  BY DEF CommitTx, RollbackTx, history
<1>6. /\ tx' \in [Writers -> Tx \cup {None}]
      /\ \A g \in Writers : tx'[g] # None => tx[g] # None /\ tx'[g].wrote = tx[g].wrote
  BY <1>5 DEF ShownInv, RowsKept
<1>7. RowsKept'
  BY <1>4, <1>6, WritersKeep DEF ShownInv
<1> QED  BY <1>4, <1>5, <1>7, NoTabTurns

LEMMA RestartShown ==
  ASSUME ShownInv, NEW w \in Workers, Restart(w)
  PROVE  ShownInv'
<1>1. PICK lost : lost = {h \in Writers : tx[h] # None /\ tx[h].worker = w}
  OBVIOUS
<1>2. PICK written : written = UNION {tx[h].wrote : h \in lost}
  OBVIOUS
<1>3. /\ tx' = [h \in Writers |-> IF h \in lost THEN None ELSE tx[h]]
      /\ Settle(written, "gone") /\ UNCHANGED <<tabs, owed, marked>>
  BY <1>1, <1>2 DEF Restart, history
<1>4. ASSUME NEW n \in written PROVE n \in Notes /\ Created(n)
  <2>1. PICK h \in lost : n \in tx[h].wrote
    BY <1>2, <1>4
  <2>2. h \in Writers /\ tx[h] # None /\ tx[h] \in Tx
    BY <1>1 DEF ShownInv, RowsKept
  <2> QED  BY <2>1, <2>2 DEF ShownInv, RowsKept, Wrote, Tx
<1>5. RowsGrow /\ notes' \in [Notes -> Note \cup {None}]
  BY <1>3, <1>4, SettledRows DEF ShownInv
<1>6. /\ tx' \in [Writers -> Tx \cup {None}]
      /\ \A g \in Writers : tx'[g] # None => tx[g] # None /\ tx'[g].wrote = tx[g].wrote
  BY <1>3 DEF ShownInv, RowsKept
<1>7. RowsKept'
  BY <1>5, <1>6, WritersKeep DEF ShownInv
<1> QED  BY <1>3, <1>5, <1>7, NoTabTurns

-----------------------------------------------------------------------------
(* Tabs *)

LEMMA TabTurnsTold ==
  ASSUME HeardInv, ShownInv, UNCHANGED <<notes, tx>>, NEW c \in Tabs, NEW t,
         NEW o \in SUBSET Notes, NEW m \in SUBSET Notes,
         tabs' = [tabs EXCEPT ![c] = t], owed' = [owed EXCEPT ![c] = o],
         marked' = [marked EXCEPT ![c] = m], Shows(t, o, m)
  PROVE  ShownInv'
<1>1. RowsKept' /\ RowsGrow
  BY RowsUnchanged DEF ShownInv
<1>2. Shows(t, o, m)'
  BY <1>1, ShowsStays
<1> QED  BY <1>1, <1>2, OneTabTurns

LEMMA TabTurnsQuietly ==
  ASSUME HeardInv, ShownInv, UNCHANGED <<notes, tx, owed, marked>>, NEW c \in Tabs, NEW t,
         tabs' = [tabs EXCEPT ![c] = t], Shows(t, owed[c], marked[c])
  PROVE  ShownInv'
<1>1. PICK o, m : o = owed[c] /\ m = marked[c]
  OBVIOUS
<1>2. o \in SUBSET Notes /\ m \in SUBSET Notes
  BY <1>1 DEF ShownInv
<1>3. owed' = [owed EXCEPT ![c] = o] /\ marked' = [marked EXCEPT ![c] = m]
  BY <1>1 DEF ShownInv
<1>4. Shows(t, o, m)
  BY <1>1
<1> QED  BY <1>2, <1>3, <1>4, TabTurnsTold

\* A tab that shows the same shows enough, and so does one that will ask.
LEMMA ShowsSame ==
  ASSUME NEW r, NEW t, NEW o, NEW m, Shows(r, o, m), t.user = r.user,
         \/ t.stale
         \/ t.stale = r.stale /\ t.list = r.list /\ t.badge = r.badge /\ t.ask = r.ask
  PROVE  Shows(t, o, m)
<1>1. Backed(t, o, m)
  BY DEF Shows, Backed
<1>2. CASE t.stale
  BY <1>1, <1>2 DEF Shows
<1>3. CASE t.stale = r.stale /\ t.list = r.list /\ t.badge = r.badge /\ t.ask = r.ask
  BY <1>1, <1>3 DEF Shows, Told
<1> QED  BY <1>2, <1>3

LEMMA SendShown ==
  ASSUME HeardInv, ShownInv, NEW t \in Tasks, NEW s \in Sockets, Send(t, s)
  PROVE  ShownInv'
<1>1. Exists(s) /\ OnMessage(sockets[s].tab) /\ UNCHANGED <<notes, tx, marked>>
  BY DEF Send, Listens
<1>2. PICK c : c = sockets[s].tab
  OBVIOUS
<1>3. c \in Tabs
  BY <1>1, <1>2 DEF HeardInv, EndsOK, Exists, Socket
<1>4. PICK r : r = tabs[c]
  OBVIOUS
<1>5. r \in Tab
  BY <1>3, <1>4 DEF HeardInv, EndsOK
<1>6. PICK q : q = [r EXCEPT !.stale = TRUE]
  OBVIOUS
<1>7. q.user = r.user /\ q.stale = TRUE
  BY <1>5, <1>6 DEF Tab
<1>8. PICK o, m : o = owed[c] \cup Stored(r.user) /\ m = marked[c]
  OBVIOUS
<1>9. o \in SUBSET Notes /\ m \in SUBSET Notes /\ Shows(r, owed[c], m)
  BY <1>3, <1>4, <1>8, StoredNotes DEF ShownInv
<1>10. tabs' = [tabs EXCEPT ![c] = q] /\ owed' = [owed EXCEPT ![c] = o]
       /\ marked' = [marked EXCEPT ![c] = m]
  BY <1>1, <1>2, <1>3, <1>4, <1>6, <1>8 DEF OnMessage, HeardInv, EndsOK, ShownInv
<1>11. Shows(q, o, m)
  BY <1>7, <1>8, <1>9 DEF Shows, Backed
<1> QED  BY <1>1, <1>3, <1>9, <1>10, <1>11, TabTurnsTold

LEMMA SignInShown ==
  ASSUME HeardInv, ShownInv, NEW c \in Tabs, (\E u \in Users : SignIn(c, u)) \/ LateAnswer(c)
  PROVE  ShownInv'
<1>1. ~Signed(c) /\ UNCHANGED <<notes, tx, owed, marked>>
  BY DEF SignIn, LateAnswer, history
<1>2. Stored(None) = {}
  BY NotificationsAssumption DEF Stored
<1>3. owed[c] = {} /\ marked[c] = {}
  BY <1>1, <1>2 DEF ShownInv, Shows, Backed, Signed
<1>4. Asked("both") # None /\ Asked("both").what = "both" /\ Asked("both").rows = None
  <2>1. Asked("both") \in Ask
    BY DEF Asked, Ask
  <2> QED  BY <2>1, RowsAssumption DEF Asked
<1>5. ASSUME NEW u \in Users, tabs' = [tabs EXCEPT ![c] = SignedIn(u)] PROVE ShownInv'
  <2>1. PICK t : t = SignedIn(u)
    OBVIOUS
  <2>2. t.ask = Asked("both")
    BY <2>1, SignedInTab
  <2>3. Shows(t, owed[c], marked[c])
    BY <1>3, <1>4, <2>2 DEF Shows, Backed, Told
  <2> QED  BY <1>1, <1>5, <2>1, <2>3, TabTurnsQuietly
<1>6. CASE \E u \in Users : SignIn(c, u)
  BY <1>5, <1>6 DEF SignIn
<1>7. CASE LateAnswer(c)
  <2>1. tabs[c].renewing \in Users
    BY <1>7 DEF LateAnswer, HeardInv, EndsOK, Tab
  <2>2. CASE tabs' = [tabs EXCEPT ![c] = SignedOut]
    <3>1. Shows(SignedOut, owed[c], marked[c])
      BY <1>3, SignedOutTab DEF Shows, Backed
    <3> QED  BY <1>1, <2>2, <3>1, TabTurnsQuietly
  <2> QED  BY <1>5, <1>7, <2>1, <2>2 DEF LateAnswer
<1> QED  BY <1>6, <1>7

LEMMA SignOutShown ==
  ASSUME HeardInv, ShownInv, NEW c \in Tabs, Leaves(c), UNCHANGED <<notes, tx>>
  PROVE  ShownInv'
<1>1. PICK t : t = [SignedOut EXCEPT !.renewing = tabs[c].renewing]
  OBVIOUS
<1>2. t.user = None
  BY <1>1, SignedOutTab DEF Tab
<1>3. Shows(t, {}, {})
  BY <1>2 DEF Shows, Backed
<1> QED  BY <1>1, <1>3, TabTurnsTold DEF Leaves

\* What does not change what a tab shows.
SameView(t, r) ==
  /\ t.user = r.user /\ t.stale = r.stale /\ t.list = r.list
  /\ t.badge = r.badge /\ t.ask = r.ask

\* The token and the connection are not what is shown.
LEMMA TokensShown ==
  ASSUME HeardInv, ShownInv, NEW c \in Tabs,
         \/ AskRefresh(c) \/ ChangePassword(c) \/ \E older \in BOOLEAN : TokenExpires(c, older)
         \/ \E s \in Sockets : OnClose(s) /\ c = sockets[s].tab
         \/ \E s \in Sockets, w \in Workers :
              \/ Connect(c, s, w) \/ TokensReceived(c, s, w)
              \/ \E good \in BOOLEAN : ConnectLate(c, s, w, good)
         \/ \E clicked : Click(c, clicked)
  PROVE  ShownInv'
<1>1. PICK r : r = tabs[c]
  OBVIOUS
<1>2. r \in Tab /\ DOMAIN tabs = Tabs
  BY <1>1 DEF HeardInv, EndsOK
<1>3. ASSUME NEW t, tabs' = [tabs EXCEPT ![c] = t], UNCHANGED <<notes, tx, owed, marked>>,
             SameView(t, r)
      PROVE  ShownInv'
  <2>1. PICK o, m : o = owed[c] /\ m = marked[c]
    OBVIOUS
  <2>2. Shows(r, o, m)
    BY <1>1, <2>1 DEF ShownInv
  <2>3. Shows(t, o, m)
    BY <1>3, <2>2, ShowsSame DEF SameView
  <2> QED  BY <1>3, <2>1, <2>3, TabTurnsQuietly
<1>4. CASE AskRefresh(c) \/ ChangePassword(c)
  <2>1. PICK t : t = [r EXCEPT !.renewing = r.user]
    OBVIOUS
  <2>2. SameView(t, r)
    BY <1>2, <2>1 DEF Tab, SameView
  <2>3. tabs' = [tabs EXCEPT ![c] = t] /\ UNCHANGED <<notes, tx, owed, marked>>
    BY <1>1, <1>2, <1>4, <2>1 DEF AskRefresh, ChangePassword, Renews, history
  <2> QED  BY <1>3, <2>2, <2>3
<1>5. ASSUME NEW older \in BOOLEAN, TokenExpires(c, older) PROVE ShownInv'
  <2>1. PICK t : t = [r EXCEPT !.fresh = @ /\ older,
                 !.late = [good \in BOOLEAN |-> IF good THEN 0 ELSE @[TRUE] + @[FALSE]]]
    OBVIOUS
  <2>2. SameView(t, r)
    BY <1>2, <2>1 DEF Tab, SameView
  <2>3. tabs' = [tabs EXCEPT ![c] = t] /\ UNCHANGED <<notes, tx, owed, marked>>
    BY <1>1, <1>2, <1>5, <2>1 DEF TokenExpires, history
  <2> QED  BY <1>3, <2>2, <2>3
<1>6. ASSUME NEW s \in Sockets, OnClose(s), c = sockets[s].tab PROVE ShownInv'
  <2>1. PICK a : a = Again(s)
    OBVIOUS
  <2>2. PICK t : t = [a EXCEPT !.socket = IF @ = s THEN None ELSE @]
    OBVIOUS
  <2>3. SameView(a, r) /\ \E socket : t = [a EXCEPT !.socket = socket]
    <3>1. sockets[s].closure \in {"newest", "older", "gone"}
      BY <1>6 DEF OnClose, HeardInv, EndsOK, Exists, Socket
    <3>2. CASE sockets[s].closure = "newest"
      BY <1>1, <1>2, <1>6, <2>1, <2>2, <3>2 DEF Again, Tab, SameView
    <3>3. CASE sockets[s].closure = "older"
      BY <1>1, <1>2, <1>6, <2>1, <2>2, <3>3 DEF Again, Tab, SameView
    <3>4. CASE sockets[s].closure = "gone"
      BY <1>1, <1>2, <1>6, <2>1, <2>2, <3>4 DEF Again, Tab, SameView
    <3> QED  BY <3>1, <3>2, <3>3, <3>4
  <2>4. SameView(t, r)
    BY <2>2, <2>3 DEF SameView
  <2>5. tabs' = [tabs EXCEPT ![c] = t] /\ UNCHANGED <<notes, tx, owed, marked>>
    BY <1>6, <2>1, <2>2 DEF OnClose, history
  <2> QED  BY <1>3, <2>4, <2>5
<1>7. ASSUME NEW s \in Sockets, NEW w \in Workers,
             \/ Connect(c, s, w) \/ TokensReceived(c, s, w)
             \/ \E good \in BOOLEAN : ConnectLate(c, s, w, good)
      PROVE  ShownInv'
  <2>1. CASE Connect(c, s, w)
    <3>1. PICK t : t = [[r EXCEPT !.timer = FALSE] EXCEPT !.socket = s]
      OBVIOUS
    <3>2. SameView(t, r)
      BY <1>2, <3>1 DEF Tab, SameView
    <3>3. tabs' = [tabs EXCEPT ![c] = t] /\ UNCHANGED <<notes, tx, owed, marked>>
      BY <1>1, <2>1, <3>1 DEF Connect, Opened, history
    <3> QED  BY <1>3, <3>2, <3>3
  <2>2. ASSUME NEW good \in BOOLEAN, ConnectLate(c, s, w, good) PROVE ShownInv'
    <3>1. PICK t : t = [[r EXCEPT !.late[good] = @ - 1] EXCEPT !.socket = s]
      OBVIOUS
    <3>2. SameView(t, r)
      BY <1>2, <3>1 DEF Tab, SameView
    <3>3. tabs' = [tabs EXCEPT ![c] = t] /\ UNCHANGED <<notes, tx, owed, marked>>
      BY <1>1, <2>2, <3>1 DEF ConnectLate, Opened, history
    <3> QED  BY <1>3, <3>2, <3>3
  <2>3. CASE TokensReceived(c, s, w)
    <3>1. PICK late : late = IF r.socket = None THEN r.late
                             ELSE [r.late EXCEPT ![sockets[r.socket].good] = @ + 1]
      OBVIOUS
    <3>2. PICK t : t = [r EXCEPT !.fresh = TRUE, !.renewing = None, !.socket = s,
                                 !.timer = FALSE, !.late = late]
      OBVIOUS
    <3>3. SameView(t, r)
      BY <1>2, <3>2 DEF Tab, SameView
    <3>4. tabs' = [tabs EXCEPT ![c] = t] /\ UNCHANGED <<notes, tx, owed, marked>>
      BY <1>1, <1>2, <2>3, <3>1, <3>2 DEF TokensReceived
    <3> QED  BY <1>3, <3>3, <3>4
  <2> QED  BY <1>7, <2>1, <2>2, <2>3
<1>8. ASSUME NEW clicked, Click(c, clicked) PROVE ShownInv'
  <2>1. PICK t : t = [r EXCEPT !.mark = clicked]
    OBVIOUS
  <2>2. SameView(t, r)
    BY <1>2, <2>1 DEF Tab, SameView
  <2>3. tabs' = [tabs EXCEPT ![c] = t] /\ UNCHANGED <<notes, tx, owed, marked>>
    BY <1>1, <1>2, <1>8, <2>1 DEF Click, history
  <2> QED  BY <1>3, <2>2, <2>3
<1> QED  BY <1>4, <1>5, <1>6, <1>7, <1>8

LEMMA PollShown ==
  ASSUME HeardInv, ShownInv, NEW c \in Tabs, Poll(c)
  PROVE  ShownInv'
<1>1. PICK r, o, m : r = tabs[c] /\ o = owed[c] /\ m = marked[c]
  OBVIOUS
<1>2. r \in Tab /\ DOMAIN tabs = Tabs /\ Shows(r, o, m)
  BY <1>1 DEF HeardInv, EndsOK, ShownInv
<1>3. PICK a : a = Asked("count")
  OBVIOUS
<1>4. a.what = "count" /\ a.rows = None
  BY <1>3 DEF Asked
<1>5. PICK t : t = [r EXCEPT !.ask = a]
  OBVIOUS
<1>6. t.user = r.user /\ t.stale = r.stale /\ t.list = r.list /\ t.ask = a
  BY <1>2, <1>5 DEF Tab
<1>7. r.ask = None /\ tabs' = [tabs EXCEPT ![c] = t] /\ UNCHANGED <<notes, tx, owed, marked>>
  BY <1>1, <1>2, <1>3, <1>5 DEF Poll, history
<1>8. a # None
  <2>1. a \in Ask
    BY <1>3 DEF Asked, Ask
  <2> QED  BY <2>1, RowsAssumption
<1>9. Backed(t, o, m)
  BY <1>2, <1>6 DEF Shows, Backed
<1>10. Told(r, o, m) => Told(t, o, m)
  BY <1>4, <1>6, <1>7, <1>8 DEF Told
<1>11. Shows(t, o, m)
  BY <1>2, <1>6, <1>9, <1>10 DEF Shows
<1> QED  BY <1>1, <1>7, <1>11, TabTurnsQuietly

LEMMA RefetchShown ==
  ASSUME HeardInv, ShownInv, NEW c \in Tabs, Refetch(c)
  PROVE  ShownInv'
<1>1. PICK r, o, m : r = tabs[c] /\ o = owed[c] /\ m = marked[c]
  OBVIOUS
<1>2. r \in Tab /\ DOMAIN tabs = Tabs /\ Shows(r, o, m)
  BY <1>1 DEF HeardInv, EndsOK, ShownInv
<1>3. PICK a : a = Asked("both")
  OBVIOUS
<1>4. a.what = "both" /\ a.rows = None /\ a \in Ask
  BY <1>3 DEF Asked, Ask
<1>5. PICK t : t = [r EXCEPT !.stale = FALSE, !.ask = a]
  OBVIOUS
<1>6. t.user = r.user /\ t.ask = a
  BY <1>2, <1>5 DEF Tab
<1>7. tabs' = [tabs EXCEPT ![c] = t] /\ UNCHANGED <<notes, tx, owed, marked>>
  BY <1>1, <1>2, <1>3, <1>5 DEF Refetch, history
<1>8. Backed(t, o, m)
  BY <1>2, <1>6 DEF Shows, Backed
<1>9. Told(t, o, m)
  BY <1>4, <1>6, RowsAssumption DEF Told
<1>10. Shows(t, o, m)
  BY <1>8, <1>9 DEF Shows
<1> QED  BY <1>1, <1>7, <1>10, TabTurnsQuietly

(* The server reads the rows: all there are, and what is unread of them.   *)
LEMMA ServeShown ==
  ASSUME HeardInv, ShownInv, NEW c \in Tabs, Serve(c)
  PROVE  ShownInv'
<1>1. PICK r, o, m : r = tabs[c] /\ o = owed[c] /\ m = marked[c]
  OBVIOUS
<1>2. r \in Tab /\ DOMAIN tabs = Tabs /\ Shows(r, o, m)
  BY <1>1 DEF HeardInv, EndsOK, ShownInv
<1>3. r.ask \in Ask /\ r.ask # None
  BY <1>1, <1>2 DEF Serve, Waiting, Tab
<1>4. PICK rows : rows = [all |-> Stored(r.user), unread |-> Unread(r.user)]
  OBVIOUS
<1>5. rows.all = Stored(r.user) /\ rows.unread = Unread(r.user)
  BY <1>4
<1>6. PICK a : a = [r.ask EXCEPT !.rows = rows]
  OBVIOUS
<1>7. a.what = r.ask.what /\ a.rows = rows
  BY <1>3, <1>6 DEF Ask
<1>8. PICK t : t = [r EXCEPT !.ask = a]
  OBVIOUS
<1>9. t.user = r.user /\ t.stale = r.stale /\ t.list = r.list /\ t.ask = a
  BY <1>2, <1>8 DEF Tab
<1>10. tabs' = [tabs EXCEPT ![c] = t] /\ UNCHANGED <<notes, tx, owed, marked>>
  BY <1>1, <1>2, <1>4, <1>6, <1>8 DEF Serve, history
<1>11. Backed(r, o, m) /\ Backed(t, o, m)
  BY <1>2, <1>9 DEF Shows, Backed
<1>12. ListTold(rows, o, m) /\ BadgeTold(r.user, rows.unread, o, m)
  BY <1>5, <1>11 DEF Backed, ListTold, BadgeTold
<1>13. a # None
  <2>1. a \in Ask
    BY <1>3, <1>4, <1>6, StoredNotes DEF Ask, Rows
  <2> QED  BY <2>1, RowsAssumption
<1>14. Told(r, o, m) => Told(t, o, m)
  BY <1>3, <1>7, <1>9, <1>12, <1>13 DEF Told
<1>15. Shows(t, o, m)
  BY <1>2, <1>9, <1>11, <1>14 DEF Shows
<1> QED  BY <1>1, <1>10, <1>15, TabTurnsQuietly

LEMMA AnsweredShown ==
  ASSUME HeardInv, ShownInv, NEW c \in Tabs, Answered(c)
  PROVE  ShownInv'
<1>1. PICK r, o, m : r = tabs[c] /\ o = owed[c] /\ m = marked[c]
  OBVIOUS
<1>2. r \in Tab /\ DOMAIN tabs = Tabs /\ Shows(r, o, m)
  BY <1>1 DEF HeardInv, EndsOK, ShownInv
<1>3. PICK a : a = r.ask
  OBVIOUS
<1>4. a \in Ask /\ a # None /\ a.rows # None
  BY <1>1, <1>2, <1>3 DEF Answered, Waiting, Tab
<1>5. PICK list : list = IF a.what = "both" THEN a.rows ELSE r.list
  OBVIOUS
<1>6. PICK t : t = [r EXCEPT !.ask = None, !.badge = a.rows.unread, !.list = list]
  OBVIOUS
<1>7. /\ t.user = r.user /\ t.stale = r.stale /\ t.ask = None
      /\ t.badge = a.rows.unread /\ t.list = list
  BY <1>2, <1>6 DEF Tab
<1>8. tabs' = [tabs EXCEPT ![c] = t] /\ UNCHANGED <<notes, tx, owed, marked>>
  <2>1. t = [r EXCEPT !.ask = None, !.badge = a.rows.unread,
                      !.list = IF a.what = "both" THEN a.rows ELSE @]
    BY <1>5, <1>6
  <2> QED  BY <1>1, <1>2, <1>3, <2>1 DEF Answered, history
<1>9. Backed(t, o, m)
  BY <1>2, <1>7 DEF Shows, Backed
<1>10. Told(r, o, m) => Told(t, o, m)
  BY <1>3, <1>4, <1>5, <1>7 DEF Told
<1>11. Shows(t, o, m)
  BY <1>2, <1>7, <1>9, <1>10 DEF Shows
<1> QED  BY <1>1, <1>8, <1>11, TabTurnsQuietly

LEMMA AskFailsShown ==
  ASSUME HeardInv, ShownInv, NEW c \in Tabs, AskFails(c)
  PROVE  ShownInv'
<1>1. PICK r : r = tabs[c]
  OBVIOUS
<1>2. r \in Tab /\ DOMAIN tabs = Tabs
  BY <1>1 DEF HeardInv, EndsOK
<1>3. PICK t : t = [r EXCEPT !.ask = None]
  OBVIOUS
<1>4. t.ask = None
  BY <1>2, <1>3 DEF Tab
<1>5. Shows(t, {}, {})
  BY <1>4 DEF Shows, Backed, Told, ListTold, BadgeTold
<1>6. /\ tabs' = [tabs EXCEPT ![c] = t] /\ UNCHANGED <<notes, tx>>
      /\ owed' = [owed EXCEPT ![c] = {}] /\ marked' = [marked EXCEPT ![c] = {}]
  BY <1>1, <1>2, <1>3 DEF AskFails
<1> QED  BY <1>5, <1>6, TabTurnsTold

(* Rows a tab marks are its user's, and the tab asks again.                *)
LEMMA MarkedShown ==
  ASSUME HeardInv, ShownInv, NEW c \in Tabs, NEW read,
         read \subseteq Stored(tabs[c].user), Marked(c, read)
  PROVE  ShownInv'
<1>1. PICK r, o, m : r = tabs[c] /\ o = owed[c] /\ m = marked[c] \cup read
  OBVIOUS
<1>2. r \in Tab /\ DOMAIN tabs = Tabs /\ Shows(r, o, marked[c])
  BY <1>1 DEF HeardInv, EndsOK, ShownInv
<1>3. \A n \in read : n \in Notes /\ Created(n) /\ n \in Stored(r.user)
  BY <1>1 DEF Stored
<1>4. ASSUME NEW n \in Notes
      PROVE  /\ Grown(n) /\ notes'[n] \in Note \cup {None}
             /\ n \in read => notes'[n].read /\ notes'[n] # None
  <2>1. CASE n \notin read
    <3>1. notes'[n] = notes[n]
      BY <2>1 DEF Marked
    <3> QED  BY <2>1, <3>1 DEF ShownInv, RowsKept, Grown, Created
  <2>2. CASE n \in read
    <3>1. PICK v : v = [notes[n] EXCEPT !.read = TRUE]
      OBVIOUS
    <3>2. notes[n] \in Note
      BY <1>3, <2>2 DEF ShownInv, RowsKept, Created
    <3>3. v \in Note /\ v.read = TRUE /\ v.stage = notes[n].stage
      BY <3>1, <3>2 DEF Note
    <3>4. notes'[n] = v
      BY <2>2, <3>1 DEF Marked
    <3>5. v # None
      BY <3>3, RowsAssumption
    <3> QED  BY <3>3, <3>4, <3>5 DEF Grown
  <2> QED  BY <2>1, <2>2
<1>5. PICK f : f = [n \in Notes |-> IF n \in read THEN [notes[n] EXCEPT !.read = TRUE] ELSE notes[n]]
  OBVIOUS
<1>6. notes' = f
  BY <1>5 DEF Marked
<1>7. RowsGrow /\ notes' \in [Notes -> Note \cup {None}]
  BY <1>4, <1>5, <1>6 DEF RowsGrow
<1>8. tx' = tx
  BY DEF Marked
<1>9. RowsKept'
  BY <1>7, <1>8, WritersKeep DEF ShownInv, RowsKept
<1>10. PICK t : t = [r EXCEPT !.mark = {}, !.stale = TRUE]
  OBVIOUS
<1>11. t.user = r.user /\ t.stale = TRUE
  BY <1>2, <1>10 DEF Tab
<1>12. Backed(r, o, marked[c])
  BY <1>2 DEF Shows
<1>13. PICK old : old = marked[c]
  OBVIOUS
<1>14. Stored(r.user) \subseteq Stored(r.user)'
       /\ Stored(r.user) \cap Unread(r.user)' \subseteq Unread(r.user)
  BY <1>7 DEF RowsGrow, Grown, Stored, Unread, Created
<1>15. read \cap Unread(r.user)' = {}
  BY <1>3, <1>4 DEF Unread
<1>16. Backed(r, o, old)
  BY <1>12, <1>13
<1>17. Backed(t, o, m)'
  BY <1>1, <1>3, <1>11, <1>13, <1>14, <1>15, <1>16 DEF Backed
<1>18. Shows(t, o, m)'
  BY <1>11, <1>17 DEF Shows
<1>19. o \in SUBSET Notes /\ m \in SUBSET Notes
  BY <1>1, <1>3 DEF ShownInv
<1>20. /\ tabs' = [tabs EXCEPT ![c] = t] /\ owed' = [owed EXCEPT ![c] = o]
       /\ marked' = [marked EXCEPT ![c] = m]
  BY <1>1, <1>2, <1>10 DEF Marked, ShownInv
<1> QED  BY <1>7, <1>9, <1>18, <1>19, <1>20, OneTabTurns

LEMMA MarkShown ==
  ASSUME HeardInv, ShownInv, NEW c \in Tabs, MarkRead(c) \/ MarkAllRead(c)
  PROVE  ShownInv'
<1>1. CASE MarkRead(c)
  <2>1. tabs[c].mark \cap Stored(tabs[c].user) \subseteq Stored(tabs[c].user)
    OBVIOUS
  <2> QED  BY <1>1, <2>1, MarkedShown DEF MarkRead
<1>2. CASE MarkAllRead(c)
  <2>1. Unread(tabs[c].user) \subseteq Stored(tabs[c].user)
    BY DEF Unread
  <2> QED  BY <1>2, <2>1, MarkedShown DEF MarkAllRead
<1> QED  BY <1>1, <1>2

-----------------------------------------------------------------------------
LEMMA ShownKept == HeardInv /\ ShownInv /\ [Next]_vars => ShownInv'
<1> SUFFICES ASSUME HeardInv, ShownInv, [Next]_vars PROVE ShownInv'
  OBVIOUS
<1>1. ASSUME UNCHANGED <<notes, tx, tabs, owed, marked>> PROVE ShownInv'
  BY <1>1, RowsUnchanged, NoTabTurns DEF ShownInv
<1>2. CASE UNCHANGED vars
  BY <1>1, <1>2 DEF vars
<1>3. ASSUME NEW t \in Tasks, NEW s \in Sockets, Send(t, s) \/ SendFails(t, s) PROVE ShownInv'
  BY <1>1, <1>3, SendShown DEF SendFails, history
<1>4. ASSUME NEW w \in Workers, Receive(w) \/ ListenerEnds(w) PROVE ShownInv'
  BY <1>1, <1>4 DEF Receive, ListenerEnds, history
<1>5. ASSUME NEW h \in Writers, Writer(h) \/ PushFails(h) PROVE ShownInv'
  BY <1>5, PushShown, SettleShown DEF Writer
<1>6. ASSUME NEW h \in Writers, NEW w \in Workers, NEW n \in Notes, CreateNotification(h, w, n)
      PROVE  ShownInv'
  BY <1>6, CreateShown
<1>7. ASSUME NEW w \in Workers, Restart(w) PROVE ShownInv'
  BY <1>7, RestartShown
<1>8. ASSUME NEW s \in Sockets, Handler(s) \/ HandlerFails(s) PROVE ShownInv'
  BY <1>1, <1>8 DEF Handler, HandlerFails, Authenticate, Disconnected, history
<1>9. ASSUME NEW s \in Sockets, OnClose(s) PROVE ShownInv'
  <2>1. sockets[s].tab \in Tabs
    BY <1>9 DEF OnClose, HeardInv, EndsOK, Exists, Socket
  <2> QED  BY <1>9, <2>1, TokensShown
<1>10. ASSUME NEW c \in Tabs, \/ Hook(c) \/ Older(c) \/ Renewal(c) \/ ChangePassword(c)
                              \/ \E older \in BOOLEAN : TokenExpires(c, older) PROVE ShownInv'
  BY <1>10, TokensShown DEF Hook, Older, Renewal
<1>11. ASSUME NEW c \in Tabs, Poll(c) \/ Page(c) \/ AskFails(c) PROVE ShownInv'
  BY <1>11, PollShown, RefetchShown, ServeShown, AnsweredShown, MarkShown, AskFailsShown DEF Page
<1>12. ASSUME NEW c \in Tabs, \/ Click(c, tabs[c].list.unread)
                              \/ \E n \in tabs[c].list.unread : Click(c, {n}) PROVE ShownInv'
  BY <1>12, TokensShown
<1>13. ASSUME NEW c \in Tabs, \/ \E ended \in BOOLEAN : SignOut(c, ended)
                              \/ (\E u \in Users : SignIn(c, u)) \/ LateAnswer(c) PROVE ShownInv'
  BY <1>13, SignOutShown, SignInShown DEF SignOut, Leaves
<1> QED
  BY <1>2, <1>3, <1>4, <1>5, <1>6, <1>7, <1>8, <1>9, <1>10, <1>11, <1>12, <1>13
  DEF Next, Carry, Listen

(* SettledTabIsCurrent: a tab that waits for nothing shows every row that  *)
(* had been committed for its user when it was last told of one, counts    *)
(* those of them that are unread, and neither lists as unread nor counts a *)
(* row it marked read, however pushes, polls, answers, marks and commits   *)
(* of many writers interleave (onmessage and its invalidateTags,           *)
(* list_notifications, mark_read, mark_all_read).                          *)
THEOREM TabsSettleOnWhatIsTold == Spec => []SettledTabIsCurrent
<1>1. ShownInv => SettledTabIsCurrent
  <2> SUFFICES ASSUME ShownInv, NEW c \in Tabs, Quiet(c)
               PROVE  /\ owed[c] \subseteq tabs[c].list.all
                      /\ owed[c] \cap Unread(tabs[c].user) \subseteq tabs[c].badge
                      /\ marked[c] \cap (tabs[c].list.unread \cup tabs[c].badge) = {}
    BY DEF SettledTabIsCurrent
  <2>1. PICK r, o, m : r = tabs[c] /\ o = owed[c] /\ m = marked[c]
    OBVIOUS
  <2>2. Shows(r, o, m) /\ r.user # None /\ ~r.stale /\ r.ask = None
    BY <2>1 DEF ShownInv, Quiet, Signed
  <2>3. ListTold(r.list, o, m) /\ BadgeTold(r.user, r.badge, o, m)
    BY <2>2 DEF Shows, Told
  <2> QED  BY <2>1, <2>3 DEF ListTold, BadgeTold
<1>2. Init => HeardInv /\ ShownInv
  BY HeardAtStart, ShownAtStart
<1>3. (HeardInv /\ ShownInv) /\ [Next]_vars => (HeardInv /\ ShownInv)'
  BY HeardKept, ShownKept
<1> QED  BY <1>1, <1>2, <1>3, PTL DEF Spec
=============================================================================
