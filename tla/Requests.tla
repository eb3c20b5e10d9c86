------------------------------ MODULE Requests ------------------------------
(***************************************************************************)
(* The request workflow: filing, routing, assignment, returns, the final   *)
(* answer, messages and files, and the SLA sweep, as concurrent database   *)
(* transactions on the `requests` table.                                   *)
(*                                                                         *)
(* Every HTTP handler loads its row with a plain SELECT, decides on that   *)
(* copy, and writes back the columns it changed.  The UPDATE takes the row *)
(* lock and keeps it to the commit, so the write, the history entry and    *)
(* the webhook row become visible together; but nothing ties them to the   *)
(* state the checks were made on (no FOR UPDATE, no version column, READ   *)
(* COMMITTED).  A handler is therefore two steps, Begin... and Commit...,  *)
(* and txn[h] is the loaded copy in between.                               *)
(*                                                                         *)
(* The clock counts working hours (SlaCalendar is about the calendar).     *)
(*                                                                         *)
(* A definition placed just above the one it imitates, with a name that    *)
(* says what is wrong with it (ApplyStatusKeepingPause, ...), is a         *)
(* deliberately faulty variant: no action uses it.  Substituted for the    *)
(* original, it shows that a property of this module can fail.             *)
(***************************************************************************)
EXTENDS Integers, Sequences, FiniteSets

CONSTANTS
  RequestIds,   \* the rows of the table, filed or still to be filed
  Handlers,     \* HTTP requests that may be in flight at the same time
  Staff,        \* users of role staff
  Registrar,    \* a user of role registrator (stands for admin too)
  Student,      \* the student who owns the requests
  None,         \* SQL NULL
  Legacy,       \* statuses rows may already have from the earlier triage flow
  SlaHours,     \* sla_hours of the service type
  WarnBefore,   \* settings.sla_warning_hours
  Batch,        \* _BATCH of the sweep
  MaxFiles,     \* MAX_ANSWER_FILES
  MaxTime,      \* bound on the clock
  MaxOps,       \* bound on the handlers started on filed requests
  MaxHold       \* bound on the hours a transaction stays open

ASSUME RequestsAssumption ==
  /\ None \notin Staff \cup {Registrar, Student}
  /\ Legacy \subseteq {"new", "accepted", "rejected"}
  /\ SlaHours \in Nat /\ WarnBefore \in Nat /\ Batch \in Nat \ {0}
  /\ MaxFiles \in Nat /\ MaxTime \in Nat /\ MaxOps \in Nat /\ MaxHold \in Nat

VARIABLES
  rows,         \* committed row of each request, or None
  txn,          \* the transaction each handler has open, or None
  sweep,        \* the sweep's open transaction, or None
  history,      \* request_history, per request, oldest first
  events,       \* webhook rows of the outbox, per request, oldest first
  now,          \* working hours since the start
  ops           \* handlers started so far

vars == <<rows, txn, sweep, history, events, now, ops>>

-----------------------------------------------------------------------------
(* Statuses, roles and rows *)

Open    == {"new", "accepted", "in_progress", "returned"}
Closed  == {"completed", "rejected"}
Running == {"new", "accepted", "in_progress"}
Status  == Open \cup Closed

\* _ALLOWED_TRANSITIONS.
Allowed(s) ==
  CASE s \in {"new", "accepted"} -> {"in_progress", "returned"}
    [] s = "in_progress"         -> {"returned"}
    [] s = "returned"            -> {"in_progress"}
    [] OTHER                     -> {}

\* Who _resolve_assignee accepts (activity and role changes are not modelled).
Assignees == Staff \cup {Registrar}
Actors    == Assignees \cup {Student}

Time     == Nat
Maybe(S) == S \cup {None}
Answer   == [by : Maybe(Assignees), at : Time]

Row == [status   : Status,
        assigned : Maybe(Assignees),
        deadline : Time,
        paused   : Maybe(Time),
        warned   : Maybe(Time),
        breached : Maybe(Time),
        closed   : Maybe(Time),
        answer   : Maybe(Answer)]

Filed(r)      == rows[r] # None
Has(r, S)     == Filed(r) /\ rows[r].status \in S
IsHandler(row, actor) == actor = Registrar \/ row.assigned = actor
CanView(row, actor)   == actor = Student \/ IsHandler(row, actor)

Op == [kind : {"assign"}, to : Assignees]
      \cup [kind : {"transition"}, to : Status]
      \cup [kind : {"answer"}, files : 0 .. MaxFiles]
      \cup [kind : {"resubmit"}]
      \cup [kind : {"post"}, what : {"message", "file"}]

\* Only staff and registrars answer.
Txn == {t \in [req : RequestIds, op : Op, actor : Actors, copy : Row, since : Time] :
          t.op.kind = "answer" => t.actor \in Assignees}

\* One pass of the sweep: its clock, and its copies of the rows it selected.
Pass == [at : Time, copies : [RequestIds -> Maybe(Row)]]

Entry == [kind : {"filed", "status", "assign", "warning", "breach"},
          old  : Maybe(Status),
          new  : Status]

Event == [kind : {"created", "status_changed", "message", "file"}, status : Status]

\* SQL NULL is no value of any column, and no row of any table.
ASSUME NullAssumption ==
  /\ None \notin Row /\ None \notin Entry
  /\ None \notin Answer /\ None \notin Status /\ None \notin Nat

-----------------------------------------------------------------------------
(* The SLA clock and the unit of work *)

AddWorkingTime(start, hours)   == start + hours
WorkingTimeBetween(start, end) == IF end > start THEN end - start ELSE 0

\* The closing time is forgotten.
ApplyStatusUnstamped(row, new, at) == [row EXCEPT !.status = new]

\* Only work that resumes clears the pause; a close from `returned` keeps it.
ApplyStatusKeepingPause(row, new, at) ==
  [row EXCEPT !.status = new,
              !.paused = IF new = "returned" THEN at
                         ELSE IF new = "in_progress" THEN None ELSE @,
              !.closed = IF new \in Closed THEN at ELSE @]

\* The deadline moves out, the markers of the old one stay.
ApplyStatusKeepingMarkers(row, new, at) ==
  LET resumed == row.status = "returned" /\ row.paused # None
  IN [row EXCEPT !.status = new,
                 !.paused = IF new = "returned" THEN at ELSE None,
                 !.deadline = IF resumed /\ @ > row.paused THEN at + (@ - row.paused) ELSE @,
                 !.closed = IF new \in Closed THEN at ELSE @]

\* The student's time is charged to the office.
ApplyStatusKeepingDeadline(row, new, at) ==
  [row EXCEPT !.status = new,
              !.paused = IF new = "returned" THEN at ELSE None,
              !.closed = IF new \in Closed THEN at ELSE @]

\* _apply_status: stop the clock on a return, restart it with what was left,
\* and stamp a close.
ApplyStatus(row, new, at) ==
  LET leaving   == row.status = "returned" /\ new # "returned"
      remaining == IF leaving /\ row.paused # None
                   THEN WorkingTimeBetween(row.paused, row.deadline)
                   ELSE 0
      moved     == remaining > 0
  IN [row EXCEPT
        !.status   = new,
        !.paused   = IF leaving THEN None
                     ELSE IF new = "returned" /\ @ = None THEN at ELSE @,
        !.deadline = IF moved THEN AddWorkingTime(at, remaining) ELSE @,
        !.warned   = IF moved THEN None ELSE @,
        !.breached = IF moved THEN None ELSE @,
        !.closed   = IF new \in Closed THEN at ELSE @]

\* The flush writes a column only if its value differs from the loaded one.
Column(current, loaded, updated) == IF updated # loaded THEN updated ELSE current

WriteBack(current, loaded, updated) ==
  [status   |-> Column(current.status,   loaded.status,   updated.status),
   assigned |-> Column(current.assigned, loaded.assigned, updated.assigned),
   deadline |-> Column(current.deadline, loaded.deadline, updated.deadline),
   paused   |-> Column(current.paused,   loaded.paused,   updated.paused),
   warned   |-> Column(current.warned,   loaded.warned,   updated.warned),
   breached |-> Column(current.breached, loaded.breached, updated.breached),
   closed   |-> Column(current.closed,   loaded.closed,   updated.closed),
   answer   |-> Column(current.answer,   loaded.answer,   updated.answer)]

-----------------------------------------------------------------------------
(* Filing: file_request and create_request *)

\* Routed to a handler (which one is Routing's business) and in progress at
\* once.
NewRow(assignee) ==
  [status |-> "in_progress", assigned |-> assignee,
   deadline |-> AddWorkingTime(now, SlaHours),
   paused |-> None, warned |-> None, breached |-> None,
   closed |-> None, answer |-> None]

AutoReplyByStudent ==
  [NewRow(None) EXCEPT !.status = "completed", !.closed = now,
                       !.answer = [by |-> Student, at |-> now]]

\* Answered and closed on the spot by a service that replies by itself.
AutoReply ==
  [NewRow(None) EXCEPT !.status = "completed", !.closed = now,
                       !.answer = [by |-> None, at |-> now]]

FiledHistory(status) ==
  << [kind |-> "filed", old |-> None, new |-> "new"],
     [kind |-> "status", old |-> "new", new |-> status] >>

FileEvents(n, status) == [i \in 1 .. n |-> [kind |-> "file", status |-> status]]
StatusEvent(status)   == << [kind |-> "status_changed", status |-> status] >>
CreatedEvent(status)  == << [kind |-> "created", status |-> status] >>

\* Nobody else sees the row before the insert commits: one step.
Create(r, row, published) ==
  /\ ~Filed(r)
  /\ rows' = [rows EXCEPT ![r] = row]
  /\ history' = [history EXCEPT ![r] = FiledHistory(row.status)]
  /\ events' = [events EXCEPT ![r] = published]
  /\ UNCHANGED <<txn, sweep, now, ops>>

CreateRouted(r, assignee) == Create(r, NewRow(assignee), CreatedEvent("in_progress"))

CreateAutoReplied(r, files) ==
  Create(r, AutoReply,
         CreatedEvent("completed") \o FileEvents(files, "completed")
           \o StatusEvent("completed"))

-----------------------------------------------------------------------------
(* Handlers: load the row, check the copy, keep it *)

Begin(h, r, op, actor) ==
  /\ Filed(r)
  /\ txn[h] = None
  /\ ops < MaxOps
  /\ txn' = [txn EXCEPT ![h] = [req |-> r, op |-> op, actor |-> actor,
                                copy |-> rows[r], since |-> now]]
  /\ ops' = ops + 1
  /\ UNCHANGED <<rows, sweep, history, events, now>>

BeginAssign(h, r, to) ==
  /\ Has(r, Open)
  /\ Begin(h, r, [kind |-> "assign", to |-> to], Registrar)

BeginTransition(h, r, to, actor) ==
  /\ Filed(r)
  /\ IsHandler(rows[r], actor)
  /\ to \in Allowed(rows[r].status)
  /\ Begin(h, r, [kind |-> "transition", to |-> to], actor)

\* No assert_open.
BeginAnswerUnchecked(h, r, files, actor) ==
  /\ Filed(r)
  /\ IsHandler(rows[r], actor)
  /\ Begin(h, r, [kind |-> "answer", files |-> files], actor)

BeginAnswer(h, r, files, actor) ==
  /\ Has(r, Open)
  /\ IsHandler(rows[r], actor)
  /\ Begin(h, r, [kind |-> "answer", files |-> files], actor)

BeginResubmit(h, r) ==
  /\ Has(r, {"returned"})
  /\ Begin(h, r, [kind |-> "resubmit"], Student)

\* A public message or a file; an internal note is refused nothing and
\* publishes nothing.
BeginPost(h, r, what, actor) ==
  /\ Has(r, Open)
  /\ CanView(rows[r], actor)
  /\ Begin(h, r, [kind |-> "post", what |-> what], actor)

-----------------------------------------------------------------------------
(* Handlers: write back, record, publish, commit *)

\* `after` is the row as the handler left its copy; `entry` and `published`
\* are its history and webhook rows.
Commit(h, after, entry, published) ==
  LET t == txn[h] IN
  /\ rows' = [rows EXCEPT ![t.req] = WriteBack(@, t.copy, after)]
  /\ history' = [history EXCEPT ![t.req] = @ \o entry]
  /\ events' = [events EXCEPT ![t.req] = @ \o published]
  /\ txn' = [txn EXCEPT ![h] = None]
  /\ UNCHANGED <<sweep, now, ops>>

Doing(h, kind) == txn[h] # None /\ txn[h].op.kind = kind

CommitAssign(h) ==
  /\ Doing(h, "assign")
  /\ LET t == txn[h] IN
     Commit(h, [t.copy EXCEPT !.assigned = t.op.to],
            << [kind |-> "assign", old |-> t.copy.status, new |-> t.copy.status] >>,
            << >>)

\* datetime.now() is read somewhere between the load and the row lock.
ClockReads(h) == IF txn[h] = None THEN {} ELSE txn[h].since .. now

\* The history entry with its two statuses swapped.
CommitStatusSwapped(h, row, new, at, published) ==
  Commit(h, ApplyStatus(row, new, at),
         << [kind |-> "status", old |-> new, new |-> txn[h].copy.status] >>,
         published \o StatusEvent(new))

\* The event published before the status changed.
CommitStatusPublishedEarly(h, row, new, at, published) ==
  Commit(h, ApplyStatus(row, new, at),
         << [kind |-> "status", old |-> txn[h].copy.status, new |-> new] >>,
         published \o StatusEvent(row.status))

CommitStatus(h, row, new, at, published) ==
  Commit(h, ApplyStatus(row, new, at),
         << [kind |-> "status", old |-> txn[h].copy.status, new |-> new] >>,
         published \o StatusEvent(new))

CommitTransition(h, at) ==
  /\ Doing(h, "transition")
  /\ CommitStatus(h, txn[h].copy, txn[h].op.to, at, << >>)

\* The answer's files are attached, and announced, before it closes the copy.
CommitAnswer(h, at) ==
  /\ Doing(h, "answer")
  /\ LET t == txn[h] IN
     CommitStatus(h, [t.copy EXCEPT !.answer = [by |-> t.actor, at |-> at]],
                  "completed", at, FileEvents(t.op.files, t.copy.status))

CommitResubmit(h, at) ==
  /\ Doing(h, "resubmit")
  /\ CommitStatus(h, txn[h].copy, "in_progress", at, << >>)

\* Inserts only: the event carries the status of the copy.
CommitPost(h) ==
  /\ Doing(h, "post")
  /\ LET t == txn[h] IN
     Commit(h, t.copy, << >>, << [kind |-> t.op.what, status |-> t.copy.status] >>)

\* An exception, a lost client or a crash: get_db rolls everything back.
Abort(h) ==
  /\ txn[h] # None
  /\ txn' = [txn EXCEPT ![h] = None]
  /\ UNCHANGED <<rows, sweep, history, events, now, ops>>

-----------------------------------------------------------------------------
(* The SLA sweep: one at a time, under the sla_sweep lock *)

\* One marker for both stages.
IsDueOnce(row) ==
  /\ row.status \in Running
  /\ row.warned = None
  /\ row.deadline < now + WarnBefore

IsDue(row) ==
  /\ row.status \in Running
  /\ row.breached = None
  /\ \/ row.deadline < now
     \/ row.deadline < now + WarnBefore /\ row.warned = None

Due == {r \in RequestIds : Filed(r) /\ IsDue(rows[r])}

\* ORDER BY sla_deadline LIMIT _BATCH
FirstByDeadline(picked) ==
  /\ picked \subseteq Due
  /\ Cardinality(picked) <= Batch
  /\ picked # Due => Cardinality(picked) = Batch
  /\ \A r \in picked, s \in Due \ picked : rows[r].deadline <= rows[s].deadline

SweepBegin ==
  /\ sweep = None
  /\ Due # {}
  /\ \E picked \in SUBSET Due :
       /\ FirstByDeadline(picked)
       /\ sweep' = [at |-> now,
                    copies |-> [r \in RequestIds |-> IF r \in picked THEN rows[r] ELSE None]]
  /\ UNCHANGED <<rows, txn, history, events, now, ops>>

Noticed(copy, at) ==
  IF copy.deadline < at
  THEN [copy EXCEPT !.breached = at, !.warned = IF @ = None THEN at ELSE @]
  ELSE [copy EXCEPT !.warned = at]

Notice(copy, at) ==
  [kind |-> IF copy.deadline < at THEN "breach" ELSE "warning",
   old |-> copy.status, new |-> copy.status]

Picked(r) == sweep.copies[r] # None

SweepCommit ==
  /\ sweep # None
  /\ rows' = [r \in RequestIds |->
                IF Picked(r)
                THEN WriteBack(rows[r], sweep.copies[r], Noticed(sweep.copies[r], sweep.at))
                ELSE rows[r]]
  /\ history' = [r \in RequestIds |->
                   IF Picked(r)
                   THEN Append(history[r], Notice(sweep.copies[r], sweep.at))
                   ELSE history[r]]
  /\ sweep' = None
  /\ UNCHANGED <<txn, events, now, ops>>

SweepAbort ==
  /\ sweep # None
  /\ sweep' = None
  /\ UNCHANGED <<rows, txn, history, events, now, ops>>

-----------------------------------------------------------------------------
\* A working hour passes; no transaction outlives its bound.
Tick ==
  /\ now < MaxTime
  /\ \A h \in Handlers : txn[h] # None => now - txn[h].since < MaxHold
  /\ sweep # None => now - sweep.at < MaxHold
  /\ now' = now + 1
  /\ UNCHANGED <<rows, txn, sweep, history, events, ops>>

\* Rows the earlier triage flow left behind, but for those it completed or
\* returned: they never got an answer, or a pause.
LegacyRow(status) ==
  [status |-> status, assigned |-> Registrar, deadline |-> SlaHours,
   paused |-> None, warned |-> None, breached |-> None,
   closed |-> IF status = "rejected" THEN 0 ELSE None, answer |-> None]

LegacyHistory(row) == IF row = None THEN << >> ELSE FiledHistory(row.status)

Init ==
  /\ rows \in [RequestIds -> Maybe({LegacyRow(s) : s \in Legacy})]
  /\ txn = [h \in Handlers |-> None]
  /\ sweep = None
  /\ history = [r \in RequestIds |-> LegacyHistory(rows[r])]
  /\ events = [r \in RequestIds |-> << >>]
  /\ now = 0
  /\ ops = 0

Creating ==
  \E r \in RequestIds :
    \/ \E a \in Assignees : CreateRouted(r, a)
    \/ \E n \in 0 .. MaxFiles : CreateAutoReplied(r, n)

Beginning ==
  \E h \in Handlers, r \in RequestIds :
    \/ \E to \in Assignees : BeginAssign(h, r, to)
    \/ \E to \in Status, a \in Assignees : BeginTransition(h, r, to, a)
    \/ \E n \in 0 .. MaxFiles, a \in Assignees : BeginAnswer(h, r, n, a)
    \/ BeginResubmit(h, r)
    \/ \E what \in {"message", "file"}, a \in Actors : BeginPost(h, r, what, a)

Committing ==
  \E h \in Handlers :
    \/ CommitAssign(h)
    \/ CommitPost(h)
    \/ Abort(h)
    \/ \E at \in ClockReads(h) :
         CommitTransition(h, at) \/ CommitAnswer(h, at) \/ CommitResubmit(h, at)

Sweeping == SweepBegin \/ SweepCommit \/ SweepAbort

Next == Creating \/ Beginning \/ Committing \/ Sweeping \/ Tick

Spec == Init /\ [][Next]_vars

\* The scheduler runs the sweep again and again; a pass may fail, but not
\* every one.  Nothing is assumed of users, handlers or the clock.
FairSpec == Spec /\ WF_vars(SweepBegin) /\ SF_vars(SweepCommit)

-----------------------------------------------------------------------------
(* Properties that hold whatever the handlers and the sweep interleave *)

(* Every variable keeps its type. *)
TypeOK ==
  /\ rows \in [RequestIds -> Maybe(Row)]
  /\ txn \in [Handlers -> Maybe(Txn)]
  /\ sweep \in Maybe(Pass)
  /\ history \in [RequestIds -> Seq(Entry)]
  /\ events \in [RequestIds -> Seq(Event)]
  /\ now \in Nat
  /\ ops \in Nat

(* "The student is always left with an answer": a completed request has an *)
(* answer and a closing time, even when another handler overwrote columns  *)
(* of the same row meanwhile (answer_request, _apply_status).              *)
CompletedIsAnswered ==
  \A r \in RequestIds :
    Has(r, {"completed"}) => rows[r].answer # None /\ rows[r].closed # None

\* The elements of a log that satisfy a test, and the newest of them.
Newest(log, Test(_)) ==
  LET hits == {i \in DOMAIN log : Test(log[i])}
  IN IF hits = {} THEN None ELSE log[CHOOSE i \in hits : \A j \in hits : j <= i]

IsStatusEntry(e) == e.kind \in {"filed", "status"}
IsStatusEvent(e) == e.kind \in {"created", "status_changed"}

(* request_history is the truth about the status: its newest status entry  *)
(* names the committed status of the row, in every interleaving, because   *)
(* entry and column are committed under the same row lock.                 *)
HistoryTellsStatus ==
  \A r \in RequestIds :
    Filed(r) => LET e == Newest(history[r], IsStatusEntry)
                IN e # None /\ e.new = rows[r].status

(* A partner that follows request.created and request.status_changed only  *)
(* ends on the committed status (the legacy rows were never announced).    *)
StatusEventsTellStatus ==
  \A r \in RequestIds :
    LET e == Newest(events[r], IsStatusEvent)
    IN Filed(r) /\ e # None => e.status = rows[r].status

(* An overdue request whose clock runs is noticed: it is marked as         *)
(* breached, or it stops running, even if the batch is smaller than the    *)
(* backlog and passes of the sweep fail (sla_service docstring: with 500   *)
(* overdue requests newer breaches were once never reported).              *)
Overdue(r) == Has(r, Running) /\ rows[r].deadline < now /\ rows[r].breached = None

OverdueIsNoticed == \A r \in RequestIds : Overdue(r) ~> ~Overdue(r)

-----------------------------------------------------------------------------
(* Properties of handlers that do not overlap on a row: one handler, and   *)
(* no hour passing inside a transaction                                    *)

(* assert_open: a closed request keeps its status, its answer, its closing *)
(* time and its handler for good.                                          *)
ClosedStays ==
  \A r \in RequestIds :
    Has(r, Closed) =>
      /\ rows'[r].status = rows[r].status
      /\ rows'[r].answer = rows[r].answer
      /\ rows'[r].closed = rows[r].closed
      /\ rows'[r].assigned = rows[r].assigned

ClosedIsFinal == [][ClosedStays]_vars

(* The SLA clock is stopped exactly while the request waits for the student. *)
PausedIffReturned ==
  \A r \in RequestIds : Filed(r) => (rows[r].paused # None <=> rows[r].status = "returned")

(* A marker belongs to the deadline it stands beside: the breach was after *)
(* this deadline, the warning within the warning window of this deadline.  *)
(* "A new deadline deserves its own warning and breach notices."           *)
MarkersMatchDeadline ==
  \A r \in RequestIds : Filed(r) =>
    /\ rows[r].breached # None => rows[r].deadline < rows[r].breached
    /\ rows[r].warned # None => rows[r].deadline < rows[r].warned + WarnBefore
                                 \/ rows[r].deadline < rows[r].warned

(* A return and a resubmission neither cost nor give the office working    *)
(* time, and a request closes once: the workflow implements Lifecycle.     *)
Phase(r) ==
  IF ~Filed(r) THEN "unfiled"
  ELSE IF Has(r, Closed) THEN "closed"
  ELSE IF Has(r, {"returned"}) THEN "student" ELSE "office"

StoppedAt(r) ==
  IF Has(r, Closed) THEN rows[r].closed
  ELSE IF Has(r, {"returned"}) THEN rows[r].paused ELSE now

HoursLeft(r) ==
  IF ~Filed(r) THEN SlaHours ELSE WorkingTimeBetween(StoppedAt(r), rows[r].deadline)

Abstract == INSTANCE Lifecycle WITH
  Cases  <- RequestIds,
  Budget <- SlaHours,
  phase  <- [r \in RequestIds |-> Phase(r)],
  left   <- [r \in RequestIds |-> HoursLeft(r)]

ImplementsLifecycle == Abstract!LSpec

-----------------------------------------------------------------------------
(* What the documents and comments say that overlapping transactions break *)

(* test_answer_flow: a second answer is refused, the first one stands.     *)
AnswerIsFinal ==
  [][\A r \in RequestIds :
       Filed(r) /\ rows[r].answer # None => rows[r]'.answer = rows[r].answer]_vars

(* _assert_handler: "Staff act only on requests assigned to them; triage   *)
(* roles on any."  It asks the copy, so an answer under way lands on a     *)
(* request that was taken from the staff member meanwhile.                 *)
AnsweredByHandler ==
  [][\A r \in RequestIds :
       Filed(r) /\ rows'[r].answer # rows[r].answer => IsHandler(rows[r], rows'[r].answer.by)]_vars

=============================================================================
