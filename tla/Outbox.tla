------------------------------- MODULE Outbox -------------------------------
(***************************************************************************)
(* Delivery of the transactional outbox: every worker process runs         *)
(* deliver_pending on its own timer; the Redis key joblock:outbox lets one *)
(* of them start per interval, but it expires while a long batch is still  *)
(* being sent, so passes of different workers may overlap.  Row locks      *)
(* (FOR UPDATE SKIP LOCKED) are what then keeps a row in one pair of       *)
(* hands.  A pass sends its rows one after the other and commits once, at  *)
(* the end: a crash in between forgets what was already sent.              *)
(*                                                                         *)
(* Times are kept as what is left of them: a row's `wait` until            *)
(* next_attempt_at, the key's remaining life.  Names of deliberately       *)
(* faulty variants follow the convention of Requests.                      *)
(***************************************************************************)
EXTENDS Integers, FiniteSets, FiniteSetsExt

CONSTANTS
  Messages,      \* row ids of the outbox table, in insertion order
  Webhooks,      \* the ones that are webhooks; the others are emails
  Workers,       \* uvicorn workers, one scheduler each
  None,          \* no row yet / no pass open
  BatchSize,     \* _BATCH
  MaxAttempts,   \* settings.outbox_max_attempts
  LockTtl,       \* life of the lock, in ticks
  Minute,        \* ticks in a minute of back-off
  MaxCrashes     \* bound on the worker crashes

ASSUME OutboxAssumption ==
  /\ Messages \subseteq Nat /\ Webhooks \subseteq Messages
  /\ BatchSize \in Nat \ {0} /\ MaxAttempts \in Nat \ {0}
  /\ LockTtl \in Nat /\ Minute \in Nat /\ MaxCrashes \in Nat

VARIABLES
  outbox,        \* committed rows, or None
  pass,          \* each worker's open pass, or None
  lock,          \* remaining life of joblock:outbox, 0 when it is free
  webhookOn,     \* settings.webhook_url is set
  sends,         \* times each message was handed to SMTP or HTTP
  accepted,      \* whether the other side ever took it (2xx, SMTP accept)
  crashes

vars == <<outbox, pass, lock, webhookOn, sends, accepted, crashes>>

Backoff(attempts) == Minute * 2 ^ (attempts - 1)

Message == [status : {"pending", "sent", "failed"}, attempts : Nat, wait : Nat]

\* held: the rows locked by the pass, as its session sees them; todo: the
\* ones not sent yet.
OpenPass == [held : [Messages -> Message \cup {None}], todo : SUBSET Messages]

ASSUME NullAssumption == None \notin Message /\ None \notin OpenPass

Held(w) == IF pass[w] = None THEN {} ELSE {m \in Messages : pass[w].held[m] # None}
Locked  == UNION {Held(w) : w \in Workers}

TypeOK ==
  /\ outbox \in [Messages -> Message \cup {None}]
  /\ pass \in [Workers -> OpenPass \cup {None}]
  /\ lock \in 0 .. LockTtl
  /\ webhookOn \in BOOLEAN
  /\ sends \in [Messages -> Nat]
  /\ accepted \in [Messages -> BOOLEAN]
  /\ crashes \in 0 .. MaxCrashes

-----------------------------------------------------------------------------
\* A business transaction commits the row it queued.  Ids are taken before
\* the commit, so rows appear in any order.
Enqueue(m) ==
  /\ outbox[m] = None
  /\ m \in Webhooks => webhookOn
  /\ outbox' = [outbox EXCEPT ![m] = [status |-> "pending", attempts |-> 0, wait |-> 0]]
  /\ UNCHANGED <<pass, lock, webhookOn, sends, accepted, crashes>>

Idle == [w \in Workers |-> None]

\* The operator clears the webhook URL and restarts the workers: a restart in
\* the middle of a pass is a crash of it.
SwitchOff ==
  /\ webhookOn
  /\ webhookOn' = FALSE
  /\ pass' = Idle
  /\ \/ pass = Idle /\ UNCHANGED crashes
     \/ pass # Idle /\ crashes < MaxCrashes /\ crashes' = crashes + 1
  /\ UNCHANGED <<outbox, lock, sends, accepted>>

Due == {m \in Messages : outbox[m] # None /\ outbox[m].status = "pending" /\ outbox[m].wait = 0}

\* FOR UPDATE without SKIP LOCKED's effect: the rows of another pass too.
AvailableToAll == Due

\* A row that was already given up is tried once more.
AvailableAfterFailure ==
  {m \in Messages : outbox[m] # None /\ outbox[m].status # "sent" /\ outbox[m].wait = 0} \ Locked

\* SKIP LOCKED.
Available == Due \ Locked

\* ORDER BY id LIMIT _BATCH.
FirstById(picked) ==
  /\ picked \subseteq Available
  /\ Cardinality(picked) <= BatchSize
  /\ picked # Available => Cardinality(picked) = BatchSize
  /\ \A m \in picked, n \in Available \ picked : m < n

\* claim(), then the select.  Without Redis no worker claims: no step.
BeginPass(w) ==
  /\ pass[w] = None
  /\ lock = 0
  /\ lock' = LockTtl
  /\ \E picked \in SUBSET Available :
       /\ FirstById(picked)
       /\ pass' = [pass EXCEPT ![w] =
            [held |-> [m \in Messages |-> IF m \in picked THEN outbox[m] ELSE None],
             todo |-> picked]]
  /\ UNCHANGED <<outbox, webhookOn, sends, accepted, crashes>>

SentRow(row) == [row EXCEPT !.status = "sent", !.attempts = @ + 1]

\* Gives up one attempt early.
FailedRowEarly(row) ==
  IF row.attempts + 2 >= MaxAttempts
  THEN [row EXCEPT !.status = "failed", !.attempts = @ + 1]
  ELSE [row EXCEPT !.attempts = @ + 1, !.wait = Backoff(row.attempts + 1)]

FailedRow(row) ==
  IF row.attempts + 1 >= MaxAttempts
  THEN [row EXCEPT !.status = "failed", !.attempts = @ + 1]
  ELSE [row EXCEPT !.attempts = @ + 1, !.wait = Backoff(row.attempts + 1)]

\* _deliver_one on the next row of the pass, with the row it leaves behind.
Sent(w, m, row) ==
  /\ pass[w] # None
  /\ m \in pass[w].todo
  /\ m = Min(pass[w].todo)
  /\ pass' = [pass EXCEPT ![w].held[m] = row, ![w].todo = @ \ {m}]
  /\ UNCHANGED <<outbox, lock, webhookOn, crashes>>

\* Queued for a partner that was switched off since: sent to nobody.
Skips(m) == m \in Webhooks /\ ~webhookOn

DeliverOk(w, m) ==
  /\ ~Skips(m)
  /\ Sent(w, m, SentRow(pass[w].held[m]))
  /\ sends' = [sends EXCEPT ![m] = @ + 1]
  /\ accepted' = [accepted EXCEPT ![m] = TRUE]

\* An error swallowed by the sender.
DeliverErrorUnseen(w, m) ==
  /\ ~Skips(m)
  /\ Sent(w, m, SentRow(pass[w].held[m]))
  /\ sends' = [sends EXCEPT ![m] = @ + 1]
  /\ UNCHANGED accepted

\* An error response, a timeout or no connection; after a timeout the other
\* side may have taken the message all the same.
DeliverError(w, m) ==
  /\ ~Skips(m)
  /\ Sent(w, m, FailedRow(pass[w].held[m]))
  /\ sends' = [sends EXCEPT ![m] = @ + 1]
  /\ \/ UNCHANGED accepted
     \/ accepted' = [accepted EXCEPT ![m] = TRUE]

DeliverSkipped(w, m) ==
  /\ Skips(m)
  /\ Sent(w, m, SentRow(pass[w].held[m]))
  /\ UNCHANGED <<sends, accepted>>

\* The single commit of the pass; the locks go with it.
CommitPass(w) ==
  /\ pass[w] # None
  /\ pass[w].todo = {}
  /\ outbox' = [m \in Messages |-> IF m \in Held(w) THEN pass[w].held[m] ELSE outbox[m]]
  /\ pass' = [pass EXCEPT ![w] = None]
  /\ UNCHANGED <<lock, webhookOn, sends, accepted, crashes>>

\* The worker dies, or the commit fails: everything the pass did is undone,
\* except what has left the building.
Crash(w) ==
  /\ pass[w] # None
  /\ crashes < MaxCrashes
  /\ crashes' = crashes + 1
  /\ pass' = [pass EXCEPT ![w] = None]
  /\ UNCHANGED <<outbox, lock, webhookOn, sends, accepted>>

Sooner(row) == IF row = None THEN None ELSE [row EXCEPT !.wait = IF @ > 0 THEN @ - 1 ELSE 0]

\* The claim without an expiry: SET NX, no EX.
TickKeepingClaim ==
  /\ outbox' = [m \in Messages |-> Sooner(outbox[m])]
  /\ pass' = [w \in Workers |->
                IF pass[w] = None THEN None
                ELSE [pass[w] EXCEPT !.held = [m \in Messages |-> Sooner(pass[w].held[m])]]]
  /\ UNCHANGED <<lock, webhookOn, sends, accepted, crashes>>

Tick ==
  /\ lock' = IF lock > 0 THEN lock - 1 ELSE 0
  /\ outbox' = [m \in Messages |-> Sooner(outbox[m])]
  /\ pass' = [w \in Workers |->
                IF pass[w] = None THEN None
                ELSE [pass[w] EXCEPT !.held = [m \in Messages |-> Sooner(pass[w].held[m])]]]
  /\ UNCHANGED <<webhookOn, sends, accepted, crashes>>

Init ==
  /\ outbox = [m \in Messages |-> None]
  /\ pass = Idle
  /\ lock = 0
  /\ webhookOn \in BOOLEAN
  /\ sends = [m \in Messages |-> 0]
  /\ accepted = [m \in Messages |-> FALSE]
  /\ crashes = 0

Deliver(w) ==
  \E m \in Messages : DeliverOk(w, m) \/ DeliverError(w, m) \/ DeliverSkipped(w, m)

Next ==
  \/ \E m \in Messages : Enqueue(m)
  \/ \E w \in Workers : BeginPass(w) \/ Deliver(w) \/ CommitPass(w) \/ Crash(w)
  \/ SwitchOff
  \/ Tick

Spec == Init /\ [][Next]_vars

\* Time passes and each scheduler keeps firing and finishing its passes.
FairSpec ==
  /\ Spec
  /\ WF_vars(Tick)
  /\ \A w \in Workers : WF_vars(BeginPass(w)) /\ WF_vars(Deliver(w)) /\ WF_vars(CommitPass(w))

-----------------------------------------------------------------------------
(* "A second worker that slips past the lock still cannot pick up a row    *)
(* that is mid-delivery": open passes hold disjoint rows, and every row    *)
(* they hold is still the pending row they selected.                       *)
HeldByOne ==
  /\ \A v, w \in Workers : v # w => Held(v) \cap Held(w) = {}
  /\ \A w \in Workers : \A m \in Held(w) : outbox[m] # None /\ outbox[m].status = "pending"

(* A message is recorded as sent only if the other side took it, unless    *)
(* webhooks were switched off after it was queued.                         *)
SentWasAccepted ==
  \A m \in Messages :
    outbox[m] # None /\ outbox[m].status = "sent" /\ (m \in Webhooks => webhookOn)
      => accepted[m]

(* The outbox gives up on a message only after all its attempts.           *)
FailedAfterAllAttempts ==
  \A m \in Messages :
    outbox[m] # None /\ outbox[m].status = "failed"
      => outbox[m].attempts = MaxAttempts /\ sends[m] >= MaxAttempts

(* A message that was sent or given up is never sent again.                *)
SettledIsFinal ==
  [][\A m \in Messages :
       outbox[m] # None /\ outbox[m].status # "pending"
         => sends'[m] = sends[m] /\ outbox'[m].status = outbox[m].status]_vars

(* No message is forgotten: each one queued is sent or given up on.        *)
EverythingSettles ==
  \A m \in Messages :
    outbox[m] # None ~> outbox[m] # None /\ outbox[m].status \in {"sent", "failed"}

=============================================================================
