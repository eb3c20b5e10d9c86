------------------------------ MODULE Submission ------------------------------
(***************************************************************************)
(* Filing a request exactly once: the Idempotency-Key of the caller and    *)
(* the tracking number of the request.                                     *)
(*                                                                         *)
(* A call first looks for a request filed under its key, then takes a      *)
(* number from a Redis counter and inserts its row.  The lookup is a plain *)
(* SELECT and the counter is not transactional, so what keeps two calls    *)
(* apart in the end are two unique indexes: an insert waits for an         *)
(* uncommitted row with the same number or key and fails, with a 409, if   *)
(* that row commits.  Redis may lose the counter; the first call to find   *)
(* it cold takes it up again from the highest number in the table, which   *)
(* the database compares as text.                                          *)
(*                                                                         *)
(* One student and one year: keys are unique per student, numbers per      *)
(* year.  Names of deliberately faulty variants follow Requests.           *)
(***************************************************************************)
EXTENDS Integers, FiniteSets, FiniteSetsExt

CONSTANTS
  Clients,      \* API clients that file for the student
  Web,          \* the student's own browser session
  Keys,         \* idempotency keys
  Calls,        \* calls that may be in flight at the same time
  None,
  Base,         \* digits of a number: 10 in the code
  Width,        \* least number of digits: 5 in the code
  FirstNumbers, \* what the highest number may be at the start
  MaxFailures,  \* bound on failed calls, lost answers and calls without a key
  MaxLosses     \* bound on the losses of the counter

ASSUME SubmissionAssumption ==
  /\ Web \notin Clients /\ None \notin Keys \cup Clients \cup {Web}
  /\ Base \in Nat \ {0, 1} /\ Width \in Nat \ {0} /\ FirstNumbers \subseteq Nat
  /\ MaxFailures \in Nat /\ MaxLosses \in Nat

VARIABLES
  requests,     \* committed rows
  counter,      \* tracking_seq:<year> in Redis, or None
  calls,        \* the calls in flight, or None
  replies,      \* what callers were told so far
  failures,
  losses

vars == <<requests, counter, calls, replies, failures, losses>>

Callers == Clients \cup {Web}
Request == [no : Nat, key : Keys \cup {None}, client : Callers \cup {None}]
Call    == [client : Callers, key : Keys \cup {None}, no : Nat,
            stage : {"number", "reseed", "set", "insert", "commit"}]
Reply   == [client : Callers, key : Keys, no : Nat,
            code : {"created", "replayed", "foreign", "duplicate", "collision"}]

Stage(h, stage) == calls[h] # None /\ calls[h].stage = stage
To(h, stage)    == calls' = [calls EXCEPT ![h].stage = stage]
Ends(h)         == calls' = [calls EXCEPT ![h] = None]

\* The caller hears the answer, unless it is lost on the way.
Answers(client, key, code, no) ==
  IF key = None
  THEN UNCHANGED <<replies, failures>>
  ELSE \/ /\ replies' = replies \cup {[client |-> client, key |-> key, code |-> code, no |-> no]}
          /\ UNCHANGED failures
       \/ /\ failures < MaxFailures
          /\ failures' = failures + 1
          /\ UNCHANGED replies

\* What ends a caller's retries.
Settled(client, key) ==
  \E r \in replies : r.client = client /\ r.key = key
                       /\ r.code \in {"created", "replayed", "foreign"}

-----------------------------------------------------------------------------
(* Tracking numbers *)

\* "{seq:05d}": at least Width digits, more when the number needs them.
Digits(n) == CHOOSE d \in Width .. Width + n : n < Base ^ d /\ (d = Width \/ n >= Base ^ (d - 1))

\* MAX(tracking_no) compares text: digit by digit from the left, and a prefix
\* comes first.
TextBefore(m, n) ==
  LET d == Max({Digits(m), Digits(n)})
      a == m * Base ^ (d - Digits(m))
      b == n * Base ^ (d - Digits(n))
  IN a < b \/ (a = b /\ Digits(m) < Digits(n))

Numbers == {q.no : q \in requests}
Highest == CHOOSE n \in Numbers : \A m \in Numbers \ {n} : TextBefore(m, n)

-----------------------------------------------------------------------------
\* find_by_client_ref
Found(key) == IF key = None THEN {} ELSE {q \in requests : q.key = key}

\* A client is shown only the requests it filed; a student, all of their own.
Replay(h, client, key) ==
  /\ \E q \in Found(key) :
       IF client = Web \/ q.client = client
       THEN Answers(client, key, "replayed", q.no)
       ELSE Answers(client, key, "foreign", 0)
  /\ UNCHANGED <<requests, counter, calls, losses>>

Start(h, client, key) ==
  /\ Found(key) = {}
  /\ calls' = [calls EXCEPT ![h] = [client |-> client, key |-> key, no |-> 0, stage |-> "number"]]
  /\ UNCHANGED <<requests, counter, replies, failures, losses>>

\* A caller files under a key until it is told what became of it; a timeout
\* lets it call again while its earlier call is still running.
Submit(h, client, key) ==
  /\ calls[h] = None
  /\ ~Settled(client, key)
  /\ Replay(h, client, key) \/ Start(h, client, key)

\* A submission without a key: nothing recognises it, nobody repeats it.
SubmitKeyless(h) ==
  /\ calls[h] = None
  /\ failures < MaxFailures
  /\ failures' = failures + 1
  /\ calls' = [calls EXCEPT ![h] = [client |-> Web, key |-> None, no |-> 0, stage |-> "number"]]
  /\ UNCHANGED <<requests, counter, replies, losses>>

\* Every number taken from the table.
IncrementFromTable(h) ==
  /\ Stage(h, "number")
  /\ calls' = [calls EXCEPT ![h].no = IF requests = {} THEN 1 ELSE Highest + 1,
                            ![h].stage = "insert"]
  /\ UNCHANGED <<requests, counter, replies, failures, losses>>

\* INCR, after the service and its handler were resolved.
Increment(h) ==
  /\ Stage(h, "number")
  /\ LET seq == IF counter = None THEN 1 ELSE counter + 1 IN
     /\ counter' = seq
     /\ calls' = [calls EXCEPT ![h].no = seq,
                               ![h].stage = IF seq = 1 THEN "reseed" ELSE "insert"]
  /\ UNCHANGED <<requests, replies, failures, losses>>

\* The first number of a cold counter: read the highest one filed ...
ReadHighest(h) ==
  /\ Stage(h, "reseed")
  /\ calls' = IF requests = {}
              THEN [calls EXCEPT ![h].stage = "insert"]
              ELSE [calls EXCEPT ![h].stage = "set", ![h].no = Highest + 1]
  /\ UNCHANGED <<requests, counter, replies, failures, losses>>

\* ... and set the counter beyond it.
SetCounter(h) ==
  /\ Stage(h, "set")
  /\ counter' = calls[h].no
  /\ To(h, "insert")
  /\ UNCHANGED <<requests, replies, failures, losses>>

\* The unique indexes.
SameNumber(h) == {q \in requests : q.no = calls[h].no}
SameKey(h)    == Found(calls[h].key)
Waits(h) ==
  \E g \in Calls \ {h} :
    /\ Stage(g, "commit")
    /\ \/ calls[g].no = calls[h].no
       \/ calls[g].key = calls[h].key /\ calls[h].key # None

\* Only the number is unique.
InsertNumberOnly(h) ==
  /\ Stage(h, "insert")
  /\ SameNumber(h) = {}
  /\ To(h, "commit")
  /\ UNCHANGED <<requests, counter, replies, failures, losses>>

Insert(h) ==
  /\ Stage(h, "insert")
  /\ ~Waits(h)
  /\ SameNumber(h) = {} /\ SameKey(h) = {}
  /\ To(h, "commit")
  /\ UNCHANGED <<requests, counter, replies, failures, losses>>

\* IntegrityError: rolled back, 409.
Refused(h) ==
  /\ Stage(h, "insert")
  /\ ~Waits(h)
  /\ \/ SameNumber(h) # {} /\ Answers(calls[h].client, calls[h].key, "collision", 0)
     \/ SameKey(h) # {} /\ Answers(calls[h].client, calls[h].key, "duplicate", 0)
  /\ Ends(h)
  /\ UNCHANGED <<requests, counter, losses>>

CommitCall(h) ==
  /\ Stage(h, "commit")
  /\ LET c == calls[h] IN
     /\ requests' = requests \cup {[no |-> c.no, key |-> c.key, client |-> c.client]}
     /\ Answers(c.client, c.key, "created", c.no)
  /\ Ends(h)
  /\ UNCHANGED <<counter, losses>>

\* No handler for the faculty, an exception, a crash: nothing is stored, but a
\* number that was taken stays taken.
Fail(h) ==
  /\ calls[h] # None
  /\ failures < MaxFailures
  /\ failures' = failures + 1
  /\ Ends(h)
  /\ UNCHANGED <<requests, counter, replies, losses>>

\* Redis is flushed or loses its volume.
LoseCounter ==
  /\ losses < MaxLosses
  /\ losses' = losses + 1
  /\ counter' = None
  /\ UNCHANGED <<requests, calls, replies, failures>>

\* A year under way, with the counter where the last number left it; or the
\* first call of a year.
Init ==
  /\ \E n \in FirstNumbers :
       /\ requests = [no : 1 .. n, key : {None}, client : {None}]
       /\ counter = IF n = 0 THEN None ELSE n
  /\ calls = [h \in Calls |-> None]
  /\ replies = {}
  /\ failures = 0
  /\ losses = 0

Work(h) ==
  \/ Increment(h) \/ ReadHighest(h) \/ SetCounter(h)
  \/ Insert(h) \/ Refused(h) \/ CommitCall(h)

Next ==
  \/ \E h \in Calls, c \in Callers, k \in Keys : Submit(h, c, k)
  \/ \E h \in Calls : SubmitKeyless(h) \/ Work(h) \/ Fail(h)
  \/ LoseCounter

Spec == Init /\ [][Next]_vars

\* A call under way goes on, and a caller repeats a call until it is settled
\* (a partner platform does; nothing is assumed of keyless calls).
FairSpec ==
  /\ Spec
  /\ \A h \in Calls : WF_vars(Work(h))
  /\ \A c \in Callers, k \in Keys : WF_vars(\E h \in Calls : Submit(h, c, k))

-----------------------------------------------------------------------------
(* Every variable keeps its type. *)
TypeOK ==
  /\ requests \subseteq Request
  /\ counter \in Nat \cup {None}
  /\ calls \in [Calls -> Call \cup {None}]
  /\ replies \subseteq Reply
  /\ failures \in 0 .. MaxFailures
  /\ losses \in 0 .. MaxLosses

(* "A retried POST never files twice": whatever is lost or overlaps, all   *)
(* the answers a key ever gets name one request, and that one is stored.   *)
OneRequestPerKey ==
  \A r, s \in replies :
    /\ r.no # 0 /\ s.no # 0 /\ r.key = s.key => r.no = s.no
    /\ r.no # 0 => \E q \in requests : q.no = r.no /\ q.key = r.key

(* A caller that keeps asking is told what became of its request, even     *)
(* after the counter restarted below the numbers already given out.        *)
EveryKeySettles == \A c \in Callers, k \in Keys : <>Settled(c, k)

=============================================================================
