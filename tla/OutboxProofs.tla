---------------------------- MODULE OutboxProofs ----------------------------
(***************************************************************************)
(* Theorems about Outbox for every set of messages and workers, every      *)
(* batch size, number of attempts, claim length and number of crashes.     *)
(***************************************************************************)
EXTENDS Outbox, FiniteSetTheorems, TLAPS

-----------------------------------------------------------------------------
(* Lemmas about the operators *)

(* A power of two is a natural number: it counts the subsets of a set.     *)
LEMMA PowerType == ASSUME NEW n \in Nat PROVE 2 ^ n \in Nat
<1>1. IsFiniteSet(1 .. n) /\ Cardinality(1 .. n) = n
  BY FS_Interval
<1>2. IsFiniteSet(SUBSET (1 .. n)) /\ Cardinality(SUBSET (1 .. n)) = 2 ^ Cardinality(1 .. n)
  BY <1>1, FS_SUBSET
<1>3. Cardinality(SUBSET (1 .. n)) \in Nat
  BY <1>2, FS_CardinalityType
<1> QED  BY <1>1, <1>2, <1>3

LEMMA SentRowType ==
  ASSUME NEW row \in Message
  PROVE  SentRow(row) \in Message /\ SentRow(row).status = "sent"
<1>1. PICK n \in Nat : n = row.attempts + 1
  BY DEF Message
<1>2. SentRow(row) = [row EXCEPT !.status = "sent", !.attempts = n]
  BY <1>1 DEF SentRow
<1> QED  BY <1>2 DEF Message

LEMMA BackoffType == ASSUME NEW n \in Nat, n >= 1 PROVE Backoff(n) \in Nat
<1>1. n - 1 \in Nat
  OBVIOUS
<1>2. 2 ^ (n - 1) \in Nat
  BY <1>1, PowerType
<1>3. PICK power \in Nat : power = 2 ^ (n - 1)
  BY <1>2
<1>4. Backoff(n) = Minute * power
  BY <1>3, Zenon DEF Backoff
<1>5. Minute * power \in Nat
  BY OutboxAssumption
<1> QED  BY <1>4, <1>5

LEMMA FailedRowType ==
  ASSUME NEW row \in Message
  PROVE  /\ FailedRow(row) \in Message
         /\ FailedRow(row).attempts = row.attempts + 1
         /\ FailedRow(row).status =
              IF row.attempts + 1 >= MaxAttempts THEN "failed" ELSE row.status
<1>1. row.attempts \in Nat
  BY DEF Message
<1>2. PICK n \in Nat : n = row.attempts + 1
  BY <1>1
<1>3. PICK wait \in Nat : wait = Backoff(n)
  BY <1>1, <1>2, BackoffType
<1>4. CASE n >= MaxAttempts
  <2>1. FailedRow(row) = [row EXCEPT !.status = "failed", !.attempts = n]
    BY <1>2, <1>4 DEF FailedRow
  <2> QED  BY <1>2, <1>4, <2>1 DEF Message
<1>5. CASE ~(n >= MaxAttempts)
  <2>1. FailedRow(row) = [row EXCEPT !.attempts = n, !.wait = wait]
    BY <1>2, <1>3, <1>5 DEF FailedRow
  <2> QED  BY <1>2, <1>5, <2>1 DEF Message
<1> QED  BY <1>4, <1>5

LEMMA SoonerType ==
  ASSUME NEW row \in Message \cup {None}
  PROVE  /\ Sooner(row) \in Message \cup {None}
         /\ Sooner(row) = None <=> row = None
         /\ row # None => /\ Sooner(row).status = row.status
                          /\ Sooner(row).attempts = row.attempts
<1>1. CASE row = None
  BY <1>1 DEF Sooner
<1>2. CASE row # None
  <2>1. row \in Message /\ row.wait \in Nat
    BY <1>2 DEF Message
  <2>2. (IF row.wait > 0 THEN row.wait - 1 ELSE 0) \in Nat
    BY <2>1
  <2>3. Sooner(row) = [row EXCEPT !.wait = IF row.wait > 0 THEN row.wait - 1 ELSE 0]
    BY <1>2 DEF Sooner
  <2>4. Sooner(row) \in Message
    BY <2>1, <2>2, <2>3 DEF Message
  <2>5. Sooner(row).status = row.status /\ Sooner(row).attempts = row.attempts
    BY <2>1, <2>3 DEF Message
  <2> QED  BY <1>2, <2>4, <2>5, NullAssumption
<1> QED  BY <1>1, <1>2

-----------------------------------------------------------------------------
(* The inductive invariant                                                 *)
(*                                                                         *)
(* HeldByOne alone is not inductive: that a pass sends only rows it has    *)
(* locked, and sends each of them once, is what its `todo` set says; and   *)
(* what is recorded of a row is true of the world both in the table and in *)
(* the session of the pass that holds it.                                  *)

RowIsTrue(m, row) ==
  /\ row.status = "pending" => row.attempts < MaxAttempts /\ row.attempts <= sends[m]
  /\ row.status = "failed"  => row.attempts = MaxAttempts /\ sends[m] >= MaxAttempts
  /\ row.status = "sent" /\ (m \in Webhooks => webhookOn) => accepted[m]

StoredIsTrue == \A m \in Messages : outbox[m] # None => RowIsTrue(m, outbox[m])

HeldIsTrue ==
  \A w \in Workers : pass[w] # None =>
    /\ pass[w].todo \subseteq Held(w)
    /\ \A m \in pass[w].todo : pass[w].held[m].status = "pending"
    /\ \A m \in Held(w) : RowIsTrue(m, pass[w].held[m])

OutboxInv == TypeOK /\ HeldByOne /\ StoredIsTrue /\ HeldIsTrue

LEMMA InitInv == Init => OutboxInv
<1> SUFFICES ASSUME Init PROVE OutboxInv
  OBVIOUS
<1>1. TypeOK
  BY OutboxAssumption DEF Init, Idle, TypeOK
<1>2. \A w \in Workers : pass[w] = None
  BY DEF Init, Idle
<1> QED  BY <1>1, <1>2 DEF Init, OutboxInv, HeldByOne, StoredIsTrue, HeldIsTrue, Held

(* What is true of a row stays true as the world moves on.                 *)
LEMMA TrueStaysTrue ==
  ASSUME NEW m \in Messages, NEW row \in Message, RowIsTrue(m, row),
         sends[m] \in Nat, sends'[m] \in Nat, sends'[m] >= sends[m],
         accepted[m] => accepted'[m], webhookOn' => webhookOn
  PROVE  /\ row.status = "pending" => row.attempts < MaxAttempts /\ row.attempts <= sends'[m]
         /\ row.status = "failed"  => row.attempts = MaxAttempts /\ sends'[m] >= MaxAttempts
         /\ row.status = "sent" /\ (m \in Webhooks => webhookOn') => accepted'[m]
<1>1. row.attempts \in Nat /\ MaxAttempts \in Nat
  BY OutboxAssumption DEF Message
<1> QED  BY <1>1 DEF RowIsTrue

(* The actions that leave the passes and what they sent alone.             *)
LEMMA EnqueueInv == ASSUME NEW m \in Messages, OutboxInv, Enqueue(m) PROVE OutboxInv'
<1> DEFINE row == [status |-> "pending", attempts |-> 0, wait |-> 0]
<1>1. row \in Message /\ row.status = "pending" /\ row.attempts = 0
  BY DEF Message
<1>2. outbox' = [outbox EXCEPT ![m] = row] /\ outbox[m] = None
      /\ UNCHANGED <<pass, lock, webhookOn, sends, accepted, crashes>>
  BY DEF Enqueue
<1> HIDE DEF row
<1>3. TypeOK'
  BY <1>1, <1>2 DEF OutboxInv, TypeOK
<1>4. \A w \in Workers : Held(w)' = Held(w) /\ m \notin Held(w)
  BY <1>2 DEF Held, OutboxInv, HeldByOne
<1>5. HeldByOne'
  BY <1>2, <1>4 DEF OutboxInv, TypeOK, HeldByOne, Held
<1>6. StoredIsTrue'
  <2>1. RowIsTrue(m, row)'
    BY <1>1, <1>2, OutboxAssumption DEF RowIsTrue, OutboxInv, TypeOK
  <2> QED  BY <1>2, <2>1 DEF OutboxInv, StoredIsTrue, TypeOK, RowIsTrue
<1>7. HeldIsTrue'
  BY <1>2, <1>4 DEF OutboxInv, HeldIsTrue, RowIsTrue
<1> QED  BY <1>3, <1>5, <1>6, <1>7 DEF OutboxInv

LEMMA SwitchOffInv == OutboxInv /\ SwitchOff => OutboxInv'
<1> SUFFICES ASSUME OutboxInv, SwitchOff PROVE OutboxInv'
  OBVIOUS
<1>1. /\ webhookOn' = FALSE
      /\ \A w \in Workers : pass'[w] = None
      /\ UNCHANGED <<outbox, lock, sends, accepted>>
  BY DEF SwitchOff, Idle
<1>2. TypeOK'
  <2>1. crashes' \in 0 .. MaxCrashes
    BY OutboxAssumption DEF SwitchOff, OutboxInv, TypeOK
  <2> QED  BY <1>1, <2>1 DEF SwitchOff, Idle, OutboxInv, TypeOK
<1>3. StoredIsTrue'
  BY <1>1 DEF OutboxInv, StoredIsTrue, RowIsTrue
<1> QED  BY <1>1, <1>2, <1>3 DEF OutboxInv, HeldByOne, HeldIsTrue, Held

(* A worker loses its pass, to a crash.                                    *)
LEMMA CrashInv == ASSUME NEW w \in Workers, OutboxInv, Crash(w) PROVE OutboxInv'
<1>1. /\ pass' = [pass EXCEPT ![w] = None]
      /\ UNCHANGED <<outbox, lock, webhookOn, sends, accepted>>
  BY DEF Crash
<1>2. TypeOK'
  <2>1. crashes' \in 0 .. MaxCrashes
    BY OutboxAssumption DEF Crash, OutboxInv, TypeOK
  <2> QED  BY <1>1, <2>1 DEF OutboxInv, TypeOK
<1>3. pass'[w] = None /\ \A v \in Workers : v # w => pass'[v] = pass[v]
  BY <1>1 DEF OutboxInv, TypeOK
<1>4. Held(w)' = {} /\ \A v \in Workers : v # w => Held(v)' = Held(v)
  BY <1>3 DEF Held
<1>5. HeldByOne'
  BY <1>1, <1>4 DEF OutboxInv, HeldByOne
<1>6. HeldIsTrue'
  BY <1>1, <1>3, <1>4 DEF OutboxInv, HeldIsTrue, RowIsTrue
<1>7. StoredIsTrue'
  BY <1>1 DEF OutboxInv, StoredIsTrue, RowIsTrue
<1> QED  BY <1>2, <1>5, <1>6, <1>7 DEF OutboxInv

(* A pass takes due rows that nobody has locked.                           *)
LEMMA BeginPassInv == ASSUME NEW w \in Workers, OutboxInv, BeginPass(w) PROVE OutboxInv'
<1>1. PICK picked \in SUBSET Available :
        pass' = [pass EXCEPT ![w] =
          [held |-> [m \in Messages |-> IF m \in picked THEN outbox[m] ELSE None],
           todo |-> picked]]
  BY DEF BeginPass
<1> DEFINE held == [m \in Messages |-> IF m \in picked THEN outbox[m] ELSE None]
           open == [held |-> held, todo |-> picked]
<1>2. UNCHANGED <<outbox, webhookOn, sends, accepted, crashes>> /\ lock' = LockTtl
  BY DEF BeginPass
<1>3. \A m \in picked :
        /\ m \in Messages /\ outbox[m] \in Message
        /\ outbox[m] # None /\ outbox[m].status = "pending"
        /\ \A v \in Workers : m \notin Held(v)
  BY NullAssumption DEF Available, Due, Locked, OutboxInv, TypeOK
<1>4. held \in [Messages -> Message \cup {None}] /\ picked \in SUBSET Messages
  BY <1>3
<1>5. open \in OpenPass /\ open # None /\ open.held = held /\ open.todo = picked
  BY <1>4, NullAssumption DEF OpenPass
<1>6. pass'[w] = open /\ \A v \in Workers : v # w => pass'[v] = pass[v]
  BY <1>1 DEF OutboxInv, TypeOK
<1>7. pass' \in [Workers -> OpenPass \cup {None}]
  BY <1>1, <1>5 DEF OutboxInv, TypeOK
<1>8. TypeOK'
  BY <1>2, <1>7, OutboxAssumption DEF OutboxInv, TypeOK
<1> HIDE DEF open
<1>9. Held(w)' = picked
  BY <1>3, <1>4, <1>5, <1>6 DEF Held
<1>10. \A v \in Workers : v # w => Held(v)' = Held(v)
  BY <1>6 DEF Held
<1>11. HeldByOne'
  BY <1>2, <1>3, <1>9, <1>10 DEF OutboxInv, HeldByOne
<1>12. \A m \in picked : held[m] = outbox[m] /\ RowIsTrue(m, outbox[m])
  BY <1>3 DEF OutboxInv, StoredIsTrue
<1> HIDE DEF held
<1>13. HeldIsTrue'
  <2> SUFFICES ASSUME NEW v \in Workers, pass'[v] # None
               PROVE  /\ pass'[v].todo \subseteq Held(v)'
                      /\ \A m \in pass'[v].todo : pass'[v].held[m].status = "pending"
                      /\ \A m \in Held(v)' : RowIsTrue(m, pass[v].held[m])'
    BY DEF HeldIsTrue
  <2>1. CASE v = w
    BY <1>2, <1>3, <1>5, <1>6, <1>9, <1>12, <2>1 DEF RowIsTrue
  <2>2. CASE v # w
    BY <1>2, <1>6, <1>10, <2>2 DEF OutboxInv, HeldIsTrue, RowIsTrue
  <2> QED  BY <2>1, <2>2
<1>14. StoredIsTrue'
  BY <1>2 DEF OutboxInv, StoredIsTrue, RowIsTrue
<1> QED  BY <1>8, <1>11, <1>13, <1>14 DEF OutboxInv

(* A delivery: what it leaves behind must be true of the world it leaves.  *)
WorldMovesOn ==
  /\ sends' \in [Messages -> Nat]
  /\ accepted' \in [Messages -> BOOLEAN]
  /\ \A n \in Messages : sends'[n] >= sends[n] /\ (accepted[n] => accepted'[n])

LEMMA SentInv ==
  ASSUME NEW w \in Workers, NEW m \in Messages, NEW row \in Message,
         OutboxInv, Sent(w, m, row), WorldMovesOn, RowIsTrue(m, row)'
  PROVE  OutboxInv'
<1>1. pass[w] # None /\ pass[w] \in OpenPass /\ m \in pass[w].todo
  BY DEF Sent, OutboxInv, TypeOK
<1>2. UNCHANGED <<outbox, lock, webhookOn, crashes>>
  BY DEF Sent
<1> DEFINE held == [pass[w].held EXCEPT ![m] = row]
           open == [[pass[w] EXCEPT !.held[m] = row] EXCEPT !.todo = pass[w].todo \ {m}]
<1>3. pass' = [pass EXCEPT ![w] = open]
  <2>1. pass' = [pass EXCEPT ![w].held[m] = row, ![w].todo = @ \ {m}]
    BY DEF Sent
  <2> QED  BY <1>1, <2>1 DEF OutboxInv, TypeOK, OpenPass
<1>4. held \in [Messages -> Message \cup {None}]
  BY <1>1 DEF OpenPass
<1>5. open \in OpenPass /\ open # None /\ open.held = held /\ open.todo = pass[w].todo \ {m}
  BY <1>1, <1>4, NullAssumption DEF OpenPass
<1>6. /\ held[m] = row
      /\ \A n \in Messages : n # m => held[n] = pass[w].held[n]
  BY <1>1 DEF OpenPass
<1> HIDE DEF open, held
<1>7. pass'[w] = open /\ \A v \in Workers : v # w => pass'[v] = pass[v]
  BY <1>3 DEF OutboxInv, TypeOK
<1>8. TypeOK'
  BY <1>2, <1>3, <1>5 DEF OutboxInv, TypeOK, WorldMovesOn
<1>9. m \in Held(w)
  BY <1>1 DEF OutboxInv, HeldIsTrue
<1>10. \A v \in Workers : Held(v)' = Held(v)
  <2>1. Held(w)' = Held(w)
    BY <1>1, <1>5, <1>6, <1>7, <1>9, NullAssumption DEF Held
  <2> QED  BY <1>7, <2>1 DEF Held
<1>11. HeldByOne'
  BY <1>2, <1>10 DEF OutboxInv, HeldByOne
<1>12. \A n \in Messages, other \in Message : RowIsTrue(n, other) => RowIsTrue(n, other)'
  <2> SUFFICES ASSUME NEW n \in Messages, NEW other \in Message, RowIsTrue(n, other)
               PROVE  RowIsTrue(n, other)'
    OBVIOUS
  <2>1. sends[n] \in Nat /\ sends'[n] \in Nat /\ sends'[n] >= sends[n]
    BY DEF OutboxInv, TypeOK, WorldMovesOn
  <2>2. accepted[n] => accepted'[n]
    BY DEF WorldMovesOn
  <2> QED  BY <1>2, <2>1, <2>2, TrueStaysTrue DEF RowIsTrue
<1>13. StoredIsTrue'
  <2> SUFFICES ASSUME NEW n \in Messages, outbox'[n] # None
               PROVE  RowIsTrue(n, outbox[n])'
    BY DEF StoredIsTrue
  <2>1. outbox[n] \in Message /\ RowIsTrue(n, outbox[n])
    BY <1>2 DEF OutboxInv, TypeOK, StoredIsTrue
  <2>2. \A other \in Message : RowIsTrue(n, other) => RowIsTrue(n, other)'
    BY <1>12
  <2> QED  BY <1>2, <2>1, <2>2 DEF RowIsTrue
<1>14. HeldIsTrue'
  <2> SUFFICES ASSUME NEW v \in Workers, pass'[v] # None
               PROVE  /\ pass'[v].todo \subseteq Held(v)'
                      /\ \A n \in pass'[v].todo : pass'[v].held[n].status = "pending"
                      /\ \A n \in Held(v)' : RowIsTrue(n, pass[v].held[n])'
    BY DEF HeldIsTrue
  <2>1. \A n \in Held(v) : n \in Messages /\ (pass[v] # None => pass[v].held[n] \in Message)
    BY DEF Held, OutboxInv, TypeOK, OpenPass
  <2>2. CASE v # w
    <3>1. pass'[v] = pass[v] /\ pass[v] # None
      BY <1>7, <2>2
    <3>2. \A n \in Held(v) : RowIsTrue(n, pass[v].held[n])'
      <4> SUFFICES ASSUME NEW n \in Held(v) PROVE RowIsTrue(n, pass[v].held[n])'
        OBVIOUS
      <4>1. RowIsTrue(n, pass[v].held[n])
        BY <3>1 DEF OutboxInv, HeldIsTrue
      <4> QED  BY <1>12, <2>1, <3>1, <4>1 DEF RowIsTrue
    <3> QED  BY <1>10, <3>1, <3>2 DEF OutboxInv, HeldIsTrue
  <2>3. CASE v = w
    <3>1. pass'[v].held = held /\ pass'[v].todo = pass[w].todo \ {m}
      BY <1>5, <1>7, <2>3
    <3>2. pass'[v].todo \subseteq Held(v)'
      BY <1>1, <1>10, <2>3, <3>1 DEF OutboxInv, HeldIsTrue
    <3>3. \A n \in pass'[v].todo : pass'[v].held[n].status = "pending"
      BY <1>1, <1>6, <3>1 DEF OutboxInv, HeldIsTrue, OpenPass
    <3>4. ASSUME NEW n \in Held(v) PROVE RowIsTrue(n, pass[v].held[n])'
      <4>1. CASE n = m
        BY <1>6, <3>1, <4>1 DEF RowIsTrue
      <4>2. CASE n # m
        <5>1. pass'[v].held[n] = pass[w].held[n]
          BY <1>6, <2>1, <3>1, <4>2
        <5>2. RowIsTrue(n, pass[w].held[n]) /\ pass[w].held[n] \in Message
          BY <1>1, <2>1, <2>3 DEF OutboxInv, HeldIsTrue
        <5> QED  BY <1>12, <2>1, <5>1, <5>2 DEF RowIsTrue
      <4> QED  BY <4>1, <4>2
    <3> QED  BY <1>10, <3>2, <3>3, <3>4
  <2> QED  BY <2>2, <2>3
<1> QED  BY <1>8, <1>11, <1>13, <1>14 DEF OutboxInv

(* A successful send, a failed one, and a webhook nobody listens to.       *)
LEMMA DeliverInv == ASSUME NEW w \in Workers, OutboxInv, Deliver(w) PROVE OutboxInv'
<1> PICK m \in Messages : DeliverOk(w, m) \/ DeliverError(w, m) \/ DeliverSkipped(w, m)
  BY DEF Deliver
<1>1. pass[w] # None /\ m \in pass[w].todo /\ UNCHANGED webhookOn
  BY DEF DeliverOk, DeliverError, DeliverSkipped, Sent
<1>2. PICK row \in Message : row = pass[w].held[m]
  BY <1>1, NullAssumption DEF OutboxInv, HeldIsTrue, Held, TypeOK, OpenPass
<1>3. /\ row.status = "pending" /\ row.attempts < MaxAttempts /\ row.attempts <= sends[m]
      /\ row.attempts \in Nat /\ sends[m] \in Nat /\ MaxAttempts \in Nat
  BY <1>1, <1>2, OutboxAssumption DEF RowIsTrue, Message, OutboxInv, TypeOK, HeldIsTrue
<1>4. CASE DeliverOk(w, m)
  <2>1. PICK new \in Message : new = SentRow(row) /\ new.status = "sent"
    BY SentRowType
  <2>2. Sent(w, m, new) /\ WorldMovesOn /\ accepted'[m]
    BY <1>2, <1>4, <2>1 DEF DeliverOk, WorldMovesOn, OutboxInv, TypeOK
  <2>3. RowIsTrue(m, new)'
    BY <2>1, <2>2 DEF RowIsTrue
  <2> QED  BY <2>2, <2>3, SentInv
<1>5. CASE DeliverError(w, m)
  <2>1. PICK new \in Message :
          /\ new = FailedRow(row)
          /\ new.attempts = row.attempts + 1
          /\ new.status = IF row.attempts + 1 >= MaxAttempts THEN "failed" ELSE "pending"
    BY <1>3, FailedRowType
  <2>2. Sent(w, m, new)
    BY <1>2, <1>5, <2>1 DEF DeliverError
  <2>3. WorldMovesOn /\ sends'[m] = sends[m] + 1
    <3>1. sends' = [sends EXCEPT ![m] = @ + 1] /\ sends \in [Messages -> Nat]
      BY <1>5 DEF DeliverError, OutboxInv, TypeOK
    <3>2. /\ accepted' \in [Messages -> BOOLEAN]
          /\ \A n \in Messages : accepted[n] => accepted'[n]
      <4>1. CASE UNCHANGED accepted
        BY <4>1 DEF OutboxInv, TypeOK
      <4>2. CASE accepted' = [accepted EXCEPT ![m] = TRUE]
        BY <4>2 DEF OutboxInv, TypeOK
      <4> QED  BY <1>5, <4>1, <4>2 DEF DeliverError
    <3>3. sends' \in [Messages -> Nat] /\ sends'[m] = sends[m] + 1
      BY <3>1
    <3>4. \A n \in Messages : sends'[n] >= sends[n]
      BY <3>1
    <3> QED  BY <3>2, <3>3, <3>4 DEF WorldMovesOn
  <2>4. RowIsTrue(m, new)'
    BY <1>3, <2>1, <2>3 DEF RowIsTrue
  <2> QED  BY <2>2, <2>3, <2>4, SentInv
<1>6. CASE DeliverSkipped(w, m)
  <2>1. PICK new \in Message : new = SentRow(row) /\ new.status = "sent"
    BY SentRowType
  <2>2. Sent(w, m, new) /\ WorldMovesOn /\ m \in Webhooks /\ ~webhookOn'
    BY <1>1, <1>2, <1>6, <2>1 DEF DeliverSkipped, Skips, WorldMovesOn, OutboxInv, TypeOK
  <2>3. RowIsTrue(m, new)'
    BY <2>1, <2>2 DEF RowIsTrue
  <2> QED  BY <2>2, <2>3, SentInv
<1> QED  BY <1>4, <1>5, <1>6

(* The pass writes its rows to the table and lets go of them.              *)
LEMMA CommitPassInv == ASSUME NEW w \in Workers, OutboxInv, CommitPass(w) PROVE OutboxInv'
<1>1. /\ pass[w] # None /\ pass[w].todo = {}
      /\ outbox' = [m \in Messages |-> IF m \in Held(w) THEN pass[w].held[m] ELSE outbox[m]]
      /\ pass' = [pass EXCEPT ![w] = None]
      /\ UNCHANGED <<lock, webhookOn, sends, accepted, crashes>>
  BY DEF CommitPass
<1>2. \A m \in Held(w) : pass[w].held[m] \in Message /\ RowIsTrue(m, pass[w].held[m])
  BY <1>1 DEF OutboxInv, TypeOK, HeldIsTrue, Held, OpenPass
<1>3. TypeOK'
  BY <1>1, <1>2 DEF OutboxInv, TypeOK
<1>4. pass'[w] = None /\ \A v \in Workers : v # w => pass'[v] = pass[v]
  BY <1>1 DEF OutboxInv, TypeOK
<1>5. Held(w)' = {} /\ \A v \in Workers : v # w => Held(v)' = Held(v)
  BY <1>4 DEF Held
<1>6. \A v \in Workers : v # w => \A m \in Held(v) : m \in Messages /\ outbox'[m] = outbox[m]
  <2>1. \A v \in Workers : v # w => Held(v) \cap Held(w) = {}
    BY DEF OutboxInv, HeldByOne
  <2> QED  BY <1>1, <2>1 DEF Held
<1>7. HeldByOne'
  BY <1>5, <1>6 DEF OutboxInv, HeldByOne
<1>8. StoredIsTrue'
  <2> SUFFICES ASSUME NEW m \in Messages, outbox'[m] # None PROVE RowIsTrue(m, outbox[m])'
    BY DEF StoredIsTrue
  <2>1. RowIsTrue(m, outbox'[m])
    BY <1>1, <1>2 DEF OutboxInv, StoredIsTrue
  <2> QED  BY <1>1, <2>1 DEF RowIsTrue
<1>9. HeldIsTrue'
  BY <1>1, <1>4, <1>5 DEF OutboxInv, HeldIsTrue, RowIsTrue
<1> QED  BY <1>3, <1>7, <1>8, <1>9 DEF OutboxInv

(* Waits run down, in the table and in the open passes; nothing else.      *)
LEMMA TickInv == OutboxInv /\ Tick => OutboxInv'
<1> SUFFICES ASSUME OutboxInv, Tick PROVE OutboxInv'
  OBVIOUS
<1>1. /\ outbox' = [m \in Messages |-> Sooner(outbox[m])]
      /\ UNCHANGED <<webhookOn, sends, accepted, crashes>>
  BY DEF Tick
<1>2. \A row \in Message \cup {None} :
        /\ Sooner(row) \in Message \cup {None}
        /\ Sooner(row) = None <=> row = None
        /\ row # None => Sooner(row).status = row.status /\ Sooner(row).attempts = row.attempts
  BY SoonerType
<1>3. \A m \in Messages :
        /\ outbox'[m] = None <=> outbox[m] = None
        /\ outbox[m] # None => /\ outbox'[m].status = outbox[m].status
                               /\ outbox'[m].attempts = outbox[m].attempts
  BY <1>1, <1>2 DEF OutboxInv, TypeOK
<1>4. ASSUME NEW w \in Workers
      PROVE  /\ pass'[w] \in OpenPass \cup {None}
             /\ pass'[w] = None <=> pass[w] = None
             /\ pass[w] # None =>
                  /\ pass'[w].todo = pass[w].todo
                  /\ \A m \in Messages : pass'[w].held[m] = Sooner(pass[w].held[m])
  <2> DEFINE held == [m \in Messages |-> Sooner(pass[w].held[m])]
  <2>1. pass'[w] = IF pass[w] = None THEN None ELSE [pass[w] EXCEPT !.held = held]
    BY DEF Tick
  <2>2. CASE pass[w] = None
    BY <2>1, <2>2
  <2>3. CASE pass[w] # None
    <3>1. pass[w] \in OpenPass
      BY <2>3 DEF OutboxInv, TypeOK
    <3>2. held \in [Messages -> Message \cup {None}]
      BY <1>2, <3>1 DEF OpenPass
    <3> HIDE DEF held
    <3>3. [pass[w] EXCEPT !.held = held] \in OpenPass
      BY <3>1, <3>2 DEF OpenPass
    <3>4. pass'[w].held = held /\ pass'[w].todo = pass[w].todo
      BY <2>1, <2>3, <3>1 DEF OpenPass
    <3>5. \A m \in Messages : held[m] = Sooner(pass[w].held[m])
      BY DEF held
    <3> QED  BY <2>1, <2>3, <3>3, <3>4, <3>5, NullAssumption
  <2> QED  BY <2>2, <2>3
<1>5. TypeOK'
  <2>1. outbox' \in [Messages -> Message \cup {None}]
    BY <1>1, <1>2 DEF OutboxInv, TypeOK
  <2>2. pass' \in [Workers -> OpenPass \cup {None}]
    BY <1>4 DEF Tick
  <2>3. lock' \in 0 .. LockTtl
    BY OutboxAssumption DEF Tick, OutboxInv, TypeOK
  <2> QED  BY <1>1, <2>1, <2>2, <2>3 DEF OutboxInv, TypeOK
<1>6. \A w \in Workers : pass[w] # None =>
        \A m \in Messages :
          /\ pass[w].held[m] \in Message \cup {None}
          /\ pass'[w].held[m] = None <=> pass[w].held[m] = None
          /\ pass[w].held[m] # None =>
               /\ pass'[w].held[m].status = pass[w].held[m].status
               /\ pass'[w].held[m].attempts = pass[w].held[m].attempts
  BY <1>2, <1>4 DEF OutboxInv, TypeOK, OpenPass
<1>7. \A w \in Workers : Held(w)' = Held(w)
  BY <1>4, <1>6 DEF Held
<1>8. HeldByOne'
  <2>1. \A w \in Workers : \A m \in Held(w) : m \in Messages
    BY DEF Held
  <2> QED  BY <1>3, <1>7, <2>1 DEF OutboxInv, HeldByOne
<1>9. StoredIsTrue'
  BY <1>1, <1>3 DEF OutboxInv, StoredIsTrue, RowIsTrue
<1>10. HeldIsTrue'
  <2> SUFFICES ASSUME NEW w \in Workers, pass'[w] # None
               PROVE  /\ pass'[w].todo \subseteq Held(w)'
                      /\ \A m \in pass'[w].todo : pass'[w].held[m].status = "pending"
                      /\ \A m \in Held(w)' : RowIsTrue(m, pass[w].held[m])'
    BY DEF HeldIsTrue
  <2>1. pass[w] # None /\ pass'[w].todo = pass[w].todo
    BY <1>4
  <2>2. \A m \in Held(w) :
          /\ m \in Messages /\ pass[w].held[m] # None
          /\ pass'[w].held[m].status = pass[w].held[m].status
          /\ pass'[w].held[m].attempts = pass[w].held[m].attempts
          /\ RowIsTrue(m, pass[w].held[m])
    BY <1>6, <2>1 DEF OutboxInv, HeldIsTrue, Held
  <2>3. \A m \in Held(w) : RowIsTrue(m, pass[w].held[m])'
    BY <1>1, <2>2 DEF RowIsTrue
  <2> QED  BY <1>7, <2>1, <2>2, <2>3 DEF OutboxInv, HeldIsTrue
<1> QED  BY <1>5, <1>8, <1>9, <1>10 DEF OutboxInv

LEMMA StutterInv == OutboxInv /\ UNCHANGED vars => OutboxInv'
  BY DEF vars, OutboxInv, TypeOK, HeldByOne, StoredIsTrue, HeldIsTrue, RowIsTrue, Held

LEMMA NextInv == OutboxInv /\ [Next]_vars => OutboxInv'
  BY EnqueueInv, BeginPassInv, DeliverInv, CommitPassInv, CrashInv, SwitchOffInv, TickInv,
     StutterInv DEF Next

LEMMA AlwaysInv == Spec => []OutboxInv
  BY InitInv, NextInv, PTL DEF Spec

-----------------------------------------------------------------------------
(* Every row keeps the shape the model declares for it: waits and attempts *)
(* stay natural numbers however long the back-off grows, and the claim     *)
(* never outlives its TTL.                                                 *)
THEOREM OutboxTypeCorrect == Spec => []TypeOK
  BY AlwaysInv, PTL DEF OutboxInv

(* No two delivery passes ever hold the same row, even when the claim ran  *)
(* out under a long batch, and what a pass holds is still pending in the   *)
(* table: FOR UPDATE SKIP LOCKED is enough, the Redis claim is only thrift.*)
THEOREM OneHolder == Spec => []HeldByOne
  BY AlwaysInv, PTL DEF OutboxInv

(* A row recorded as sent was taken by the other side, unless webhooks     *)
(* were switched off: no crash, overlap or retry records a send that did   *)
(* not happen.                                                             *)
THEOREM SentIsTrue == Spec => []SentWasAccepted
<1>1. OutboxInv => SentWasAccepted
  BY DEF OutboxInv, StoredIsTrue, RowIsTrue, SentWasAccepted
<1> QED  BY <1>1, AlwaysInv, PTL

(* A row recorded as failed was really handed over MaxAttempts times: the  *)
(* attempts of a crashed pass are never counted twice.                     *)
THEOREM FailedIsTrue == Spec => []FailedAfterAllAttempts
<1>1. OutboxInv => FailedAfterAllAttempts
  BY DEF OutboxInv, StoredIsTrue, RowIsTrue, FailedAfterAllAttempts
<1> QED  BY <1>1, AlwaysInv, PTL

(* A row that was sent or given up is never sent again, nor does its status *)
(* change: no worker can be holding it, and only a holder writes a row.    *)
THEOREM SettledForever == Spec => SettledIsFinal
<1> DEFINE Settled(m) == outbox[m] # None /\ outbox[m].status # "pending"
           Final(m)   == sends'[m] = sends[m] /\ outbox'[m].status = outbox[m].status
<1>1. ASSUME OutboxInv, Next, NEW m \in Messages, Settled(m) PROVE Final(m)
  <2>1. \A w \in Workers : m \notin Held(w)
    BY <1>1 DEF OutboxInv, HeldByOne
  <2>2. ASSUME NEW n \in Messages, Enqueue(n) PROVE Final(m)
    BY <1>1, <2>2 DEF Enqueue, OutboxInv, TypeOK
  <2>3. ASSUME NEW w \in Workers, BeginPass(w) PROVE Final(m)
    BY <2>3 DEF BeginPass
  <2>4. ASSUME NEW w \in Workers, Deliver(w) PROVE Final(m)
    <3>1. PICK n \in Messages : DeliverOk(w, n) \/ DeliverError(w, n) \/ DeliverSkipped(w, n)
      BY <2>4 DEF Deliver
    <3>2. n \in Held(w) /\ UNCHANGED outbox
      BY <1>1, <3>1 DEF DeliverOk, DeliverError, DeliverSkipped, Sent, OutboxInv, HeldIsTrue
    <3>3. n # m
      BY <2>1, <3>2
    <3> QED  BY <1>1, <3>1, <3>2, <3>3 DEF DeliverOk, DeliverError, DeliverSkipped, OutboxInv, TypeOK
  <2>5. ASSUME NEW w \in Workers, CommitPass(w) PROVE Final(m)
    BY <2>1, <2>5 DEF CommitPass
  <2>6. ASSUME NEW w \in Workers, Crash(w) PROVE Final(m)
    BY <2>6 DEF Crash
  <2>7. CASE SwitchOff
    BY <2>7 DEF SwitchOff
  <2>8. CASE Tick
    <3>1. outbox'[m] = Sooner(outbox[m]) /\ UNCHANGED sends
      BY <2>8 DEF Tick
    <3>2. outbox[m] \in Message \cup {None}
      BY <1>1 DEF OutboxInv, TypeOK
    <3>3. Sooner(outbox[m]).status = outbox[m].status
      BY <1>1, <3>2, SoonerType
    <3> QED  BY <3>1, <3>3
  <2> QED  BY <1>1, <2>2, <2>3, <2>4, <2>5, <2>6, <2>7, <2>8 DEF Next
<1>2. OutboxInv /\ [Next]_vars => [\A m \in Messages : Settled(m) => Final(m)]_vars
  BY <1>1
<1> QED  BY <1>2, AlwaysInv, PTL DEF Spec, SettledIsFinal

=============================================================================
