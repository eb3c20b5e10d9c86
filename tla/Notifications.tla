----------------------------- MODULE Notifications -----------------------------
(***************************************************************************)
(* Notifications: the rows handlers write, the push to the browsers that   *)
(* are connected, and what the browsers show.                              *)
(*                                                                         *)
(* A handler adds a row in its own transaction and publishes it through    *)
(* Redis at once, before it commits.  Every worker process has a listener  *)
(* that passes what is published to the sockets the worker holds.  A       *)
(* browser takes a push only as a hint to ask again; apart from that it    *)
(* polls the counter of its badge, and nothing else.  Pushes may be lost:  *)
(* publishing fails, a listener ends on an error and stays ended, a worker *)
(* restarts, a connection breaks.                                          *)
(*                                                                         *)
(* The hook that connects a tab has a closure for each access token.  When *)
(* the token is exchanged, the cleanup closes the socket the hook refers   *)
(* to and the next effect takes back the word that it was closed on        *)
(* purpose: an older closure goes on connecting, with its old token, and   *)
(* its sockets take the hook's reference from the newer ones.              *)
(*                                                                         *)
(* A tab has the page of notifications open for as long as its user is     *)
(* signed in.  Texts, payloads, page sizes and keepalive pings are left    *)
(* out.                                                                    *)
(***************************************************************************)
EXTENDS Naturals, Sequences, FiniteSets

CONSTANTS
  Users, Notes, None,
  For,          \* whom a notification is for
  Workers,      \* server processes
  Writers,      \* transactions that create notifications
  Tabs,         \* tabs of browsers
  Sockets,      \* connections that may exist at the same time
  MaxFaults     \* bound on errors, restarts, expired and exchanged tokens

ASSUME NotificationsAssumption ==
  /\ None \notin Users \cup Notes \cup Sockets
  /\ For \in [Notes -> Users]
  /\ Workers \cap Writers = {}
  /\ MaxFaults \in Nat

VARIABLES
  notes,        \* rows, with the state of the transaction that wrote them
  tx,           \* the transaction a writer is in, or None
  listening,    \* workers whose listener is subscribed
  inbox,        \* what was published and a worker's listener has not read
  sending,      \* a delivery in progress: the note and the sockets it still goes to
  sockets,      \* connections, None where there is none
  tabs,
  owed,         \* history: rows a push or an own change told a tab to show
  marked,       \* history: rows a tab marked read
  exchanged,    \* history: tabs on which a token was replaced by another
  faults

vars == <<notes, tx, listening, inbox, sending, sockets, tabs, owed, marked,
          exchanged, faults>>
history == <<owed, marked, exchanged>>

Note   == [stage : {"flushed", "stored", "gone"}, read : BOOLEAN]
Rows   == [all : SUBSET Notes, unread : SUBSET Notes]
\* A question for the list and the counter, or for the counter alone; what the
\* server read, once it has.
Ask    == [what : {"both", "count"}, rows : Rows \cup {None}]
Tab    == [user : Users \cup {None},
           fresh : BOOLEAN,                 \* its access token is accepted
           renewing : Users \cup {None},     \* whose new token is on its way
           socket : Sockets \cup {None},     \* socketRef, while it is not closed
           timer : BOOLEAN,                 \* the newest closure is to connect
           late : [BOOLEAN -> Nat],         \* older ones are, by: token accepted
           list : Rows,
           badge : SUBSET Notes,            \* what the counter counts
           ask : Ask \cup {None},
           mark : SUBSET Notes,             \* a PATCH in flight
           stale : BOOLEAN]                 \* the tag was invalidated
SignedOut == [user |-> None, fresh |-> FALSE, renewing |-> None, socket |-> None,
              timer |-> FALSE, late |-> [good \in BOOLEAN |-> 0],
              list |-> [all |-> {}, unread |-> {}], badge |-> {}, ask |-> None,
              mark |-> {}, stale |-> FALSE]
Asked(what) == [what |-> what, rows |-> None]
Socket == [tab : Tabs, user : Users, worker : Workers,
           stage : {"accepted", "open", "over"},   \* of the server's handler
           joined : BOOLEAN,                       \* it is in connections
           up : BOOLEAN,                           \* the browser's end is open
           closure : {"newest", "older", "gone"},  \* of the hook, whose socket it is
           good : BOOLEAN]                         \* its token is accepted
Tasks  == Workers \cup Writers

ASSUME RowsAssumption == None \notin Note \cup Socket \cup Ask

Created(n)   == notes[n] # None
Stored(u)    == {n \in Notes : Created(n) /\ For[n] = u /\ notes[n].stage = "stored"}
Unread(u)    == {n \in Stored(u) : ~notes[n].read}
Signed(c)    == tabs[c].user # None
Exists(s)    == sockets[s] # None
Joined(u, w) == {s \in Sockets : Exists(s) /\ sockets[s].joined
                                   /\ sockets[s].user = u /\ sockets[s].worker = w}
Fault == faults < MaxFaults /\ faults' = faults + 1

-----------------------------------------------------------------------------
(* Writers *)

\* create_notification up to the push: add and flush, in a new transaction or
\* in one that is open.
CreateNotification(h, w, n) ==
  /\ IF tx[h] = None THEN TRUE ELSE tx[h].worker = w /\ tx[h].push = None
  /\ sending[h] = None
  /\ ~Created(n)
  /\ notes' = [notes EXCEPT ![n] = [stage |-> "flushed", read |-> FALSE]]
  /\ tx' = [tx EXCEPT ![h] = [worker |-> w, push |-> n,
       wrote |-> IF tx[h] = None THEN {n} ELSE tx[h].wrote \cup {n}]]
  /\ UNCHANGED <<listening, inbox, sending, sockets, tabs, history, faults>>

\* manager.push
Push(h) ==
  /\ tx[h] # None /\ tx[h].push # None
  /\ inbox' = [w \in Workers |->
       IF w \in listening THEN Append(inbox[w], tx[h].push) ELSE inbox[w]]
  /\ tx' = [tx EXCEPT ![h].push = None]
  /\ UNCHANGED <<notes, listening, sending, sockets, tabs, history, faults>>

\* deliver_local takes a copy of the set of sockets.
Deliver(t, n, w) ==
  LET to == Joined(For[n], w) IN
  sending' = [sending EXCEPT ![t] = IF to = {} THEN None ELSE [note |-> n, left |-> to]]

PushFails(h) ==
  /\ tx[h] # None /\ tx[h].push # None
  /\ Fault
  /\ Deliver(h, tx[h].push, tx[h].worker)
  /\ tx' = [tx EXCEPT ![h].push = None]
  /\ UNCHANGED <<notes, listening, inbox, sockets, tabs, history>>

Settle(written, stage) ==
  notes' = [n \in Notes |-> IF n \in written /\ notes[n].stage = "flushed"
                            THEN [notes[n] EXCEPT !.stage = stage] ELSE notes[n]]

CommitTx(h) ==
  /\ tx[h] # None /\ tx[h].push = None /\ sending[h] = None
  /\ Settle(tx[h].wrote, "stored")
  /\ tx' = [tx EXCEPT ![h] = None]
  /\ UNCHANGED <<listening, inbox, sending, sockets, tabs, history, faults>>

\* A later step of the handler raised: get_db rolls back.
RollbackTx(h) ==
  /\ tx[h] # None /\ tx[h].push = None /\ sending[h] = None
  /\ Settle(tx[h].wrote, "gone")
  /\ tx' = [tx EXCEPT ![h] = None]
  /\ UNCHANGED <<listening, inbox, sending, sockets, tabs, history, faults>>

-----------------------------------------------------------------------------
(* Delivery *)

\* The listener takes one message at a time.
Receive(w) ==
  /\ w \in listening /\ sending[w] = None /\ inbox[w] # <<>>
  /\ inbox' = [inbox EXCEPT ![w] = Tail(@)]
  /\ Deliver(w, Head(inbox[w]), w)
  /\ UNCHANGED <<notes, tx, listening, sockets, tabs, history, faults>>

Sent(t, s) ==
  LET left == sending[t].left \ {s} IN
  sending' = [sending EXCEPT ![t] = IF left = {} THEN None ELSE [@ EXCEPT !.left = left]]

\* Nothing to do while an answer is on its way.
OnMessageUnlessAsking(c) ==
  /\ tabs' = [tabs EXCEPT ![c].stale = @ \/ tabs[c].ask = None]
  /\ owed' = [owed EXCEPT ![c] = @ \cup Stored(tabs[c].user)]

\* onmessage: invalidateTags.  No query is there for it once the user is gone.
OnMessage(c) ==
  /\ tabs' = [tabs EXCEPT ![c].stale = TRUE]
  /\ owed' = [owed EXCEPT ![c] = @ \cup Stored(tabs[c].user)]

Listens(s) == Exists(s) /\ sockets[s].up /\ sockets[s].stage = "open"

Send(t, s) ==
  /\ sending[t] # None /\ s \in sending[t].left
  /\ Listens(s)
  /\ Sent(t, s)
  /\ OnMessage(sockets[s].tab)
  /\ UNCHANGED <<notes, tx, listening, inbox, sockets, marked, exchanged, faults>>

\* A dead connection takes the text or raises, and is then forgotten.
SendFails(t, s) ==
  /\ sending[t] # None /\ s \in sending[t].left
  /\ ~Listens(s)
  /\ Sent(t, s)
  /\ \/ Exists(s) /\ sockets' = [sockets EXCEPT ![s].joined = FALSE]
     \/ UNCHANGED sockets
  /\ UNCHANGED <<notes, tx, listening, inbox, tabs, history, faults>>

\* listen() raises between two messages; nothing starts the task again.
ListenerEnds(w) ==
  /\ w \in listening /\ sending[w] = None
  /\ Fault
  /\ listening' = listening \ {w}
  /\ inbox' = [inbox EXCEPT ![w] = <<>>]
  /\ UNCHANGED <<notes, tx, sending, sockets, tabs, history>>

\* The handler of a socket returns; close() of an end that is gone does nothing.
Ended(s) == IF sockets[s].up
            THEN [sockets[s] EXCEPT !.stage = "over", !.joined = FALSE] ELSE None

\* A worker process is replaced: lifespan starts a new listener, PostgreSQL
\* rolls its transactions back.
Restart(w) ==
  LET lost == {h \in Writers : tx[h] # None /\ tx[h].worker = w}
      wrote == UNION {tx[h].wrote : h \in lost} IN
  /\ Fault
  /\ listening' = listening \cup {w}
  /\ inbox' = [inbox EXCEPT ![w] = <<>>]
  /\ tx' = [h \in Writers |-> IF h \in lost THEN None ELSE tx[h]]
  /\ sending' = [t \in Tasks |-> IF t \in lost \cup {w} THEN None ELSE sending[t]]
  /\ Settle(wrote, "gone")
  /\ sockets' = [s \in Sockets |->
       IF Exists(s) /\ sockets[s].worker = w THEN Ended(s) ELSE sockets[s]]
  /\ UNCHANGED <<tabs, history>>

-----------------------------------------------------------------------------
(* Sockets *)

\* The identity of a connection is not given again while somebody still means
\* the old one by it.
Unknown(s) == ~Exists(s) /\ \A t \in Tasks : sending[t] # None => s \notin sending[t].left

\* new WebSocket takes socketRef, whatever was there; accept() of the handler.
Opened(c, s, w, closure, good, tab) ==
  /\ Unknown(s)
  /\ tabs' = [tabs EXCEPT ![c] = [tab EXCEPT !.socket = s]]
  /\ sockets' = [sockets EXCEPT ![s] =
       [tab |-> c, user |-> tab.user, worker |-> w, stage |-> "accepted",
        joined |-> FALSE, up |-> TRUE, closure |-> closure, good |-> good]]
  /\ UNCHANGED <<notes, tx, listening, inbox, sending, history, faults>>

\* connect(): of the newest closure, and of one before it.
Connect(c, s, w) ==
  /\ tabs[c].timer
  /\ Opened(c, s, w, "newest", tabs[c].fresh, [tabs[c] EXCEPT !.timer = FALSE])

ConnectLate(c, s, w, good) ==
  /\ tabs[c].late[good] > 0
  /\ Opened(c, s, w, "older", good, [tabs[c] EXCEPT !.late[good] = @ - 1])

HandlerEnds(s) == sockets' = [sockets EXCEPT ![s] = Ended(s)]

\* _authenticate: the token came in time, has not expired, and its session
\* is active.  What happens to the session between the answer of Redis and the
\* join may as well happen after it.
Authenticate(s) ==
  /\ Exists(s) /\ sockets[s].stage = "accepted"
  /\ IF sockets[s].up /\ sockets[s].good
     THEN sockets' = [sockets EXCEPT ![s].stage = "open", ![s].joined = TRUE]
     ELSE HandlerEnds(s)
  /\ UNCHANGED <<notes, tx, listening, inbox, sending, tabs, history, faults>>

\* The ten seconds pass, or an error ends the handler.
HandlerFails(s) ==
  /\ Exists(s) /\ sockets[s].stage # "over" /\ sockets[s].up
  /\ Fault
  /\ HandlerEnds(s)
  /\ UNCHANGED <<notes, tx, listening, inbox, sending, tabs, history>>

\* receive_text raises WebSocketDisconnect.
Disconnected(s) ==
  /\ Exists(s) /\ sockets[s].stage = "open" /\ ~sockets[s].up
  /\ HandlerEnds(s)
  /\ UNCHANGED <<notes, tx, listening, inbox, sending, tabs, history, faults>>

\* The browser's end closes, by the user's doing or after an error.
Down(s) == IF sockets[s].stage = "over" THEN None ELSE [sockets[s] EXCEPT !.up = FALSE]

\* Another connect() of the closure s belongs to is to come.
Again(s) ==
  LET tab == tabs[sockets[s].tab] IN
  CASE sockets[s].closure = "newest" -> [tab EXCEPT !.timer = TRUE]
    [] sockets[s].closure = "older"  -> [tab EXCEPT !.late[sockets[s].good] = @ + 1]
    [] sockets[s].closure = "gone"   -> tab

\* The hook does not hear of it.
OnCloseUnheard(s) == Exists(s) /\ UNCHANGED vars

\* onclose: the server closed, or the network failed.  The next connect()
\* follows after a delay; of the closures of a page that is gone, none.
OnClose(s) ==
  /\ Exists(s) /\ sockets[s].up
  /\ IF sockets[s].stage = "over" THEN UNCHANGED faults ELSE Fault
  /\ sockets' = [sockets EXCEPT ![s] = Down(s)]
  /\ tabs' = [tabs EXCEPT ![sockets[s].tab] =
                 [Again(s) EXCEPT !.socket = IF @ = s THEN None ELSE @]]
  /\ UNCHANGED <<notes, tx, listening, inbox, sending, history>>

\* The cleanup of the hook: it closes the socket it refers to, no other.  What
\* is left of the tab's belongs to a closure that is over.
SocketsOf(c) == {s \in Sockets : Exists(s) /\ sockets[s].tab = c}

Cleanup(c, left) ==
  [s \in Sockets |-> IF s = tabs[c].socket THEN Down(s)
                     ELSE IF s \in SocketsOf(c) THEN left[s]
                     ELSE sockets[s]]

-----------------------------------------------------------------------------
(* Tabs *)

SignedIn(u) == [SignedOut EXCEPT !.user = u, !.fresh = TRUE, !.timer = TRUE,
                                 !.ask = Asked("both")]

\* Bound: the answer of an earlier page does not outlast the next sign-in.
SignIn(c, u) ==
  /\ ~Signed(c) /\ tabs[c].renewing = None
  /\ tabs' = [tabs EXCEPT ![c] = SignedIn(u)]
  /\ UNCHANGED <<notes, tx, listening, inbox, sending, sockets, history, faults>>

Leaves(c) ==
  /\ Signed(c)
  /\ tabs' = [tabs EXCEPT ![c] = [SignedOut EXCEPT !.renewing = tabs[c].renewing]]
  /\ owed' = [owed EXCEPT ![c] = {}] /\ marked' = [marked EXCEPT ![c] = {}]
  /\ UNCHANGED <<notes, tx, listening, inbox, sending, exchanged, faults>>

\* The hook has no cleanup.
SignOutConnected(c, ended) == Leaves(c) /\ UNCHANGED sockets

\* handleLogout, which ends the session, and loggedOut of a refused refresh or
\* an idle page, which does not.  The page goes, and with it its timers; answers
\* still on their way find no query to go to.
SignOut(c, ended) ==
  LET left == [s \in SocketsOf(c) |->
        [sockets[s] EXCEPT !.closure = "gone",
                           !.good = @ /\ ~(ended /\ sockets[s].closure = "newest")]] IN
  Leaves(c) /\ sockets' = Cleanup(c, left)

\* The access token, or one before it: older ones expire first.  The window of
\* an idle session that closes is no different.
TokenExpires(c, older) ==
  LET over(sock) == Signed(c) /\ sock.tab = c /\ (older => sock.closure = "older") IN
  /\ Signed(c) /\ IF older THEN tabs[c].late[TRUE] > 0 ELSE tabs[c].fresh
  /\ Fault
  /\ tabs' = [tabs EXCEPT ![c].fresh = @ /\ older,
       ![c].late = [good \in BOOLEAN |-> IF good THEN 0 ELSE @[TRUE] + @[FALSE]]]
  /\ sockets' = [s \in Sockets |->
       IF Exists(s) /\ over(sockets[s]) THEN [sockets[s] EXCEPT !.good = FALSE] ELSE sockets[s]]
  /\ UNCHANGED <<notes, tx, listening, inbox, sending, history>>

Waiting(c) == tabs[c].ask # None /\ tabs[c].ask.rows = None

Renews(c) ==
  /\ Signed(c) /\ tabs[c].renewing = None
  /\ tabs' = [tabs EXCEPT ![c].renewing = tabs[c].user]
  /\ UNCHANGED <<notes, tx, listening, inbox, sending, sockets, history>>

\* A call is answered 401: one refresh, which every such call waits for.
AskRefresh(c) ==
  /\ ~tabs[c].fresh /\ (tabs[c].mark # {} \/ Waiting(c))
  /\ Renews(c) /\ UNCHANGED faults

\* A new password comes with a new token; the old one is still accepted.
ChangePassword(c) == tabs[c].fresh /\ Renews(c) /\ Fault

\* tokensReceived: the hook cleans up and connects again.  Its closures so far
\* do not learn that they are over, and go on when their sockets close.
TokensReceived(c, s, w) ==
  LET ref == tabs[c].socket
      left == [r \in SocketsOf(c) |->
        [sockets[r] EXCEPT !.closure = IF @ = "newest" THEN "older" ELSE @]]
      late == IF ref = None THEN tabs[c].late
              ELSE [tabs[c].late EXCEPT ![sockets[ref].good] = @ + 1]
  IN
  /\ Signed(c) /\ tabs[c].renewing # None /\ Unknown(s)
  /\ tabs' = [tabs EXCEPT ![c] = [@ EXCEPT !.fresh = TRUE, !.renewing = None, !.socket = s,
                                          !.timer = FALSE, !.late = late]]
  /\ sockets' = [Cleanup(c, left) EXCEPT ![s] =
       [tab |-> c, user |-> tabs[c].user, worker |-> w, stage |-> "accepted",
        joined |-> FALSE, up |-> TRUE, closure |-> "newest", good |-> TRUE]]
  /\ exchanged' = exchanged \cup {c}
  /\ UNCHANGED <<notes, tx, listening, inbox, sending, owed, marked, faults>>

\* The answer comes when the user has signed out: it is a refusal, or he is
\* signed in again.
LateAnswer(c) ==
  /\ ~Signed(c) /\ tabs[c].renewing # None
  /\ \E tab \in {SignedOut, SignedIn(tabs[c].renewing)} : tabs' = [tabs EXCEPT ![c] = tab]
  /\ UNCHANGED <<notes, tx, listening, inbox, sending, sockets, history, faults>>

\* Polling is for tabs that have no socket.
PollWithoutSocket(c) ==
  /\ Signed(c) /\ tabs[c].ask = None /\ tabs[c].socket = None
  /\ tabs' = [tabs EXCEPT ![c].ask = Asked("count")]
  /\ UNCHANGED <<notes, tx, listening, inbox, sending, sockets, history, faults>>

\* The badge asks every two minutes, unless its last question is still open.
Poll(c) ==
  /\ Signed(c) /\ tabs[c].ask = None
  /\ tabs' = [tabs EXCEPT ![c].ask = Asked("count")]
  /\ UNCHANGED <<notes, tx, listening, inbox, sending, sockets, history, faults>>

\* An invalidated tag is fetched again once nothing is in flight.  The list and
\* the counter are two calls; here one question asks for both.
Refetch(c) ==
  /\ Signed(c) /\ tabs[c].stale /\ tabs[c].ask = None /\ tabs[c].mark = {}
  /\ tabs' = [tabs EXCEPT ![c].stale = FALSE, ![c].ask = Asked("both")]
  /\ UNCHANGED <<notes, tx, listening, inbox, sending, sockets, history, faults>>

\* list_notifications and unread_count
Serve(c) ==
  /\ Waiting(c) /\ tabs[c].fresh
  /\ LET u == tabs[c].user IN
     tabs' = [tabs EXCEPT ![c].ask.rows = [all |-> Stored(u), unread |-> Unread(u)]]
  /\ UNCHANGED <<notes, tx, listening, inbox, sending, sockets, history, faults>>

Answered(c) ==
  /\ tabs[c].ask # None /\ ~Waiting(c)
  /\ LET a == tabs[c].ask IN
     tabs' = [tabs EXCEPT ![c].ask = None, ![c].badge = a.rows.unread,
                          ![c].list = IF a.what = "both" THEN a.rows ELSE @]
  /\ UNCHANGED <<notes, tx, listening, inbox, sending, sockets, history, faults>>

\* The page keeps what it showed.
AskFails(c) ==
  /\ tabs[c].ask # None
  /\ Fault
  /\ tabs' = [tabs EXCEPT ![c].ask = None]
  /\ owed' = [owed EXCEPT ![c] = {}] /\ marked' = [marked EXCEPT ![c] = {}]
  /\ UNCHANGED <<notes, tx, listening, inbox, sending, sockets, exchanged>>

\* A click on a row, or on "mark all read" (enabled while a row shown is unread).
Click(c, clicked) ==
  /\ clicked # {} /\ tabs[c].mark = {}
  /\ tabs' = [tabs EXCEPT ![c].mark = clicked]
  /\ UNCHANGED <<notes, tx, listening, inbox, sending, sockets, history, faults>>

Marked(c, read) ==
  /\ Signed(c) /\ tabs[c].fresh
  /\ notes' = [n \in Notes |-> IF n \in read THEN [notes[n] EXCEPT !.read = TRUE] ELSE notes[n]]
  /\ marked' = [marked EXCEPT ![c] = @ \cup read]
  /\ tabs' = [tabs EXCEPT ![c].mark = {}, ![c].stale = TRUE]
  /\ UNCHANGED <<tx, listening, inbox, sending, sockets, owed, exchanged, faults>>

\* mark_read: the row is loaded by id and owner, set and committed.
MarkRead(c) ==
  /\ Cardinality(tabs[c].mark) = 1
  /\ Marked(c, tabs[c].mark \cap Stored(tabs[c].user))

\* mark_all_read: one UPDATE of the rows unread now, shown or not.
MarkAllRead(c) ==
  /\ tabs[c].mark = tabs[c].list.unread /\ tabs[c].mark # {}
  /\ Marked(c, Unread(tabs[c].user))

-----------------------------------------------------------------------------
Init ==
  /\ notes = [n \in Notes |-> None] /\ tx = [h \in Writers |-> None]
  /\ listening = Workers /\ inbox = [w \in Workers |-> <<>>]
  /\ sending = [t \in Tasks |-> None]
  /\ sockets = [s \in Sockets |-> None]
  /\ tabs = [c \in Tabs |-> SignedOut]
  /\ owed = [c \in Tabs |-> {}] /\ marked = [c \in Tabs |-> {}]
  /\ exchanged = {} /\ faults = 0

Closing(s) == Exists(s) /\ sockets[s].stage = "over" /\ OnClose(s)
Hook(c)    == \E s \in Sockets, w \in Workers : Connect(c, s, w)
Older(c)   == \E s \in Sockets, w \in Workers, good \in BOOLEAN : ConnectLate(c, s, w, good)
Renewal(c) == AskRefresh(c) \/ \E s \in Sockets, w \in Workers : TokensReceived(c, s, w)

Writer(h)  == Push(h) \/ CommitTx(h) \/ RollbackTx(h)
Carry      == \E t \in Tasks, s \in Sockets : Send(t, s) \/ SendFails(t, s)
Listen     == \E w \in Workers : Receive(w)
Handler(s) == Authenticate(s) \/ Disconnected(s)
Page(c)    == Refetch(c) \/ MarkRead(c) \/ MarkAllRead(c) \/ Serve(c) \/ Answered(c)

Next ==
  \/ Carry \/ Listen
  \/ \E h \in Writers :
       \/ Writer(h) \/ PushFails(h)
       \/ \E w \in Workers, n \in Notes : CreateNotification(h, w, n)
  \/ \E w \in Workers : ListenerEnds(w) \/ Restart(w)
  \/ \E s \in Sockets : Handler(s) \/ HandlerFails(s) \/ OnClose(s)
  \/ \E c \in Tabs :
       \/ Hook(c) \/ Older(c) \/ Renewal(c) \/ Poll(c) \/ Page(c) \/ ChangePassword(c)
       \/ \E older \in BOOLEAN : TokenExpires(c, older)
       \/ \E ended \in BOOLEAN : SignOut(c, ended)
       \/ \E u \in Users : SignIn(c, u)
       \/ LateAnswer(c) \/ AskFails(c)
       \/ Click(c, tabs[c].list.unread)
       \/ \E n \in tabs[c].list.unread : Click(c, {n})

Spec == Init /\ [][Next]_vars

\* A handler that began goes on; listeners, sockets and timers run; a page gets
\* its answers.  Users and errors promise nothing.
FairSpec ==
  /\ Spec
  /\ \A h \in Writers : WF_vars(Writer(h))
  /\ WF_vars(Carry) /\ WF_vars(Listen)
  /\ \A s \in Sockets : WF_vars(Handler(s)) /\ WF_vars(Closing(s))
  /\ \A c \in Tabs :
       /\ WF_vars(Hook(c)) /\ WF_vars(Older(c)) /\ WF_vars(Renewal(c))
       /\ WF_vars(Page(c)) /\ WF_vars(Poll(c))

-----------------------------------------------------------------------------
(* Every variable keeps its type. *)
TypeOK ==
  /\ notes \in [Notes -> Note \cup {None}]
  /\ \A h \in Writers : tx[h] # None =>
       tx[h].worker \in Workers /\ tx[h].wrote \subseteq Notes /\ tx[h].push \in Notes \cup {None}
  /\ listening \subseteq Workers
  /\ \A w \in Workers : \A i \in DOMAIN inbox[w] : Created(inbox[w][i])
  /\ \A t \in Tasks : sending[t] # None =>
       sending[t].note \in Notes /\ sending[t].left \in SUBSET Sockets \ {{}}
  /\ \A s \in Sockets : Exists(s) => sockets[s] \in Socket
  /\ \A c \in Tabs :
       /\ tabs[c].ask \in Ask \cup {None}
       /\ tabs[c].user \in Users \cup {None} /\ tabs[c].socket \in Sockets \cup {None}
       /\ tabs[c].socket # None => Exists(tabs[c].socket) /\ sockets[tabs[c].socket].tab = c
  /\ faults \in 0 .. MaxFaults

(* "Push to any live websocket for this user" (create_notification): a     *)
(* tab is sent what is addressed to the user signed in, whoever was signed *)
(* in before and whichever of their sockets the server still holds.        *)
(* The code does not keep it.                                              *)
HeardByOwner ==
  [][\A t \in Tasks, s \in Sockets :
       Send(t, s) => For[sending[t].note] = tabs[sockets[s].tab].user]_vars

(* It holds until a token is exchanged on the tab, and afterwards of the   *)
(* socket the hook refers to: another user's push comes only over a socket *)
(* that an older closure made the hook lose sight of (the cleanup of       *)
(* useNotificationSocket, _authenticate, deliver_local).                   *)
HeardUnlessLost ==
  [][\A t \in Tasks, s \in Sockets : Send(t, s) =>
       LET c == sockets[s].tab IN
       \/ For[sending[t].note] = tabs[c].user
       \/ c \in exchanged /\ tabs[c].socket # s]_vars

Quiet(c) == Signed(c) /\ ~tabs[c].stale /\ tabs[c].ask = None /\ tabs[c].mark = {}

(* When a tab has nothing in flight it shows what had been committed when  *)
(* it was last told of a notification, and nothing as unread that it has   *)
(* marked read, whatever was in flight when the push or the answer came.   *)
SettledTabIsCurrent ==
  \A c \in Tabs : Quiet(c) =>
    /\ owed[c] \subseteq tabs[c].list.all
    /\ owed[c] \cap Unread(tabs[c].user) \subseteq tabs[c].badge
    /\ marked[c] \cap (tabs[c].list.unread \cup tabs[c].badge) = {}

(* A notification that was committed reaches the badge, even if its push   *)
(* came too early or was lost, unless it is read or the user signs out.    *)
BadgeCatchesUp ==
  \A c \in Tabs, n \in Notes :
    (tabs[c].user = For[n] /\ n \in Unread(For[n]))
      ~> (tabs[c].user # For[n] \/ n \notin Unread(For[n]) \/ n \in tabs[c].badge)

(* A tab whose user stays signed in is connected again by a socket of its  *)
(* newest closure, whatever closed the last one: the poll renews the token *)
(* a socket was refused for.                                               *)
SocketComesBack ==
  \A c \in Tabs, u \in Users :
    tabs[c].user = u ~> (tabs[c].user # u \/ \E w \in Workers : \E s \in Joined(u, w) :
                           sockets[s].tab = c /\ sockets[s].closure = "newest")

=============================================================================
