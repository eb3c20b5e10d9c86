--------------------------- MODULE RequestsProofs ---------------------------
(***************************************************************************)
(* Theorems about Requests for every set of requests, handlers and staff   *)
(* and every value of the bounds.  The first half speaks of every          *)
(* behaviour; the second of those in which two handlers do not overlap on  *)
(* a row, and, where time counts, no hour passes inside a transaction.     *)
(***************************************************************************)
EXTENDS Requests, TLAPS

-----------------------------------------------------------------------------
(* Lemmas about the operators *)

LEMMA ApplyStatusType ==
  ASSUME NEW row \in Row, NEW new \in Status, NEW at \in Nat
  PROVE  ApplyStatus(row, new, at) \in Row
<1> DEFINE leaving   == row.status = "returned" /\ new # "returned"
           remaining == IF leaving /\ row.paused # None
                        THEN WorkingTimeBetween(row.paused, row.deadline)
                        ELSE 0
           after     == ApplyStatus(row, new, at)
<1>1. /\ row.deadline \in Nat
      /\ row.paused \in Maybe(Nat)
      /\ row.warned \in Maybe(Nat)
      /\ row.breached \in Maybe(Nat)
      /\ row.closed \in Maybe(Nat)
  BY DEF Row, Time
<1>2. remaining \in Nat
  <2>1. CASE leaving /\ row.paused # None
    <3>1. row.paused \in Nat
      BY <1>1, <2>1 DEF Maybe
    <3> QED  BY <1>1, <2>1, <3>1 DEF WorkingTimeBetween
  <2>2. CASE ~(leaving /\ row.paused # None)
    BY <2>2
  <2> QED  BY <2>1, <2>2
<1>3. after = [row EXCEPT
                 !.status   = new,
                 !.paused   = IF leaving THEN None
                              ELSE IF new = "returned" /\ row.paused = None
                                   THEN at ELSE row.paused,
                 !.deadline = IF remaining > 0 THEN at + remaining ELSE row.deadline,
                 !.warned   = IF remaining > 0 THEN None ELSE row.warned,
                 !.breached = IF remaining > 0 THEN None ELSE row.breached,
                 !.closed   = IF new \in Closed THEN at ELSE row.closed]
  BY DEF ApplyStatus, AddWorkingTime
<1>4. (IF remaining > 0 THEN at + remaining ELSE row.deadline) \in Nat
  BY <1>1, <1>2
<1> HIDE DEF remaining, leaving
<1>5. after = [status   |-> new,
               assigned |-> row.assigned,
               deadline |-> IF remaining > 0 THEN at + remaining ELSE row.deadline,
               paused   |-> IF leaving THEN None
                            ELSE IF new = "returned" /\ row.paused = None
                                 THEN at ELSE row.paused,
               warned   |-> IF remaining > 0 THEN None ELSE row.warned,
               breached |-> IF remaining > 0 THEN None ELSE row.breached,
               closed   |-> IF new \in Closed THEN at ELSE row.closed,
               answer   |-> row.answer]
  BY <1>3 DEF Row
<1> QED  BY <1>1, <1>4, <1>5 DEF Row, Maybe, Time

LEMMA WriteBackType ==
  ASSUME NEW current \in Row, NEW loaded \in Row, NEW updated \in Row
  PROVE  WriteBack(current, loaded, updated) \in Row
BY DEF WriteBack, Column, Row

LEMMA NewRowType ==
  ASSUME TypeOK, NEW assignee \in Maybe(Assignees)
  PROVE  NewRow(assignee) \in Row
BY RequestsAssumption, NullAssumption DEF NewRow, Row, TypeOK, Maybe, Time, AddWorkingTime, Status, Open

LEMMA AutoReplyType ==
  ASSUME TypeOK
  PROVE  AutoReply \in Row
<1>1. NewRow(None) \in Row
  BY NewRowType DEF Maybe
<1>2. [by |-> None, at |-> now] \in Maybe(Answer)
  BY DEF TypeOK, Maybe, Answer, Time
<1>3. ASSUME NEW base \in Row, NEW answer \in Maybe(Answer)
      PROVE  [base EXCEPT !.status = "completed", !.closed = now, !.answer = answer] \in Row
  BY DEF TypeOK, Row, Maybe, Time, Status, Closed
<1> QED  BY <1>1, <1>2, <1>3 DEF AutoReply

LEMMA LegacyRowType ==
  ASSUME NEW status \in Legacy
  PROVE  LegacyRow(status) \in Row
BY RequestsAssumption
   DEF LegacyRow, Row, Maybe, Time, Status, Open, Closed, Assignees

LEMMA FileEventsType ==
  ASSUME NEW n \in Nat, NEW status \in Status
  PROVE  /\ FileEvents(n, status) \in Seq(Event)
         /\ StatusEvent(status) \in Seq(Event)
         /\ CreatedEvent(status) \in Seq(Event)
BY DEF FileEvents, StatusEvent, CreatedEvent, Event

LEMMA FiledHistoryType ==
  ASSUME NEW status \in Status
  PROVE  FiledHistory(status) \in Seq(Entry)
BY DEF FiledHistory, Entry, Maybe, Status, Open

LEMMA NoticedType ==
  ASSUME NEW copy \in Row, NEW at \in Nat
  PROVE  /\ Noticed(copy, at) \in Row
         /\ Notice(copy, at) \in Entry
<1>1. Noticed(copy, at) \in Row
  BY DEF Noticed, Row, Maybe, Time
<1>2. Notice(copy, at) \in Entry
  BY DEF Notice, Entry, Row, Maybe
<1> QED  BY <1>1, <1>2

-----------------------------------------------------------------------------
(* Type correctness *)

(* Rows are never deleted: what a transaction has loaded is still there.   *)
InFlightFiled ==
  /\ \A h \in Handlers : txn[h] # None => Filed(txn[h].req)
  /\ sweep # None => \A r \in RequestIds : sweep.copies[r] # None => Filed(r)

TypeInv == TypeOK /\ InFlightFiled

LEMMA InitType == Init => TypeInv
<1> SUFFICES ASSUME Init PROVE TypeInv
  OBVIOUS
<1>1. rows \in [RequestIds -> Maybe(Row)]
  BY LegacyRowType DEF Init, Maybe
<1>2. history \in [RequestIds -> Seq(Entry)]
  <2> SUFFICES ASSUME NEW r \in RequestIds
               PROVE  LegacyHistory(rows[r]) \in Seq(Entry)
    BY DEF Init
  <2>1. rows[r] \in Maybe(Row)
    BY <1>1
  <2>2. CASE rows[r] = None
    BY <2>2 DEF LegacyHistory
  <2>3. CASE rows[r] # None
    <3>1. rows[r].status \in Status
      BY <2>1, <2>3 DEF Maybe, Row
    <3> QED  BY <2>3, <3>1, FiledHistoryType DEF LegacyHistory
  <2> QED  BY <2>2, <2>3
<1> QED  BY <1>1, <1>2 DEF Init, TypeInv, TypeOK, InFlightFiled, Maybe

LEMMA CreateType ==
  ASSUME TypeInv, NEW r \in RequestIds, NEW row \in Row, NEW published \in Seq(Event),
         Create(r, row, published)
  PROVE  TypeInv'
<1> USE DEF TypeInv
<1>1. FiledHistory(row.status) \in Seq(Entry)
  BY FiledHistoryType DEF Row
<1>2. TypeOK'
  BY <1>1 DEF TypeOK, Create, Maybe
<1>3. row # None
  BY NullAssumption
<1>4. InFlightFiled'
  BY <1>3 DEF InFlightFiled, Create, Filed, TypeOK
<1> QED  BY <1>2, <1>4

LEMMA BeginType ==
  ASSUME TypeInv, NEW h \in Handlers, NEW r \in RequestIds,
         NEW op \in Op, NEW actor \in Actors, Begin(h, r, op, actor),
         op.kind = "answer" => actor \in Assignees
  PROVE  TypeInv'
<1> USE DEF TypeInv
<1>1. rows[r] \in Row
  BY DEF TypeOK, Begin, Filed, Maybe
<1>2. [req |-> r, op |-> op, actor |-> actor, copy |-> rows[r], since |-> now] \in Txn
  BY <1>1 DEF Txn, Time, TypeOK
<1>3. TypeOK'
  BY <1>2 DEF TypeOK, Begin, Maybe
<1>4. InFlightFiled'
  BY DEF InFlightFiled, Begin, Filed, TypeOK
<1> QED  BY <1>3, <1>4

(* What a handler in flight may rely on, and what its commit preserves.    *)
LEMMA InFlightType ==
  ASSUME TypeInv, NEW h \in Handlers, txn[h] # None
  PROVE  /\ txn[h] \in Txn
         /\ txn[h].req \in RequestIds
         /\ txn[h].copy \in Row
         /\ txn[h].copy.status \in Status
         /\ rows[txn[h].req] \in Row
<1>1. txn[h] \in Txn
  BY DEF TypeInv, TypeOK, Maybe
<1>2. txn[h].req \in RequestIds /\ txn[h].copy \in Row
  BY <1>1 DEF Txn
<1>3. txn[h].copy.status \in Status
  BY <1>2 DEF Row
<1>4. rows[txn[h].req] \in Row
  BY <1>2 DEF TypeInv, TypeOK, InFlightFiled, Filed, Maybe
<1> QED  BY <1>1, <1>2, <1>3, <1>4

LEMMA CommitType ==
  ASSUME TypeInv, NEW h \in Handlers, txn[h] # None,
         NEW after \in Row, NEW entry \in Seq(Entry), NEW published \in Seq(Event),
         Commit(h, after, entry, published)
  PROVE  TypeInv'
<1> DEFINE t == txn[h]
           written == WriteBack(rows[t.req], t.copy, after)
<1>1. written \in Row
  BY InFlightType, WriteBackType
<1>2. /\ history[t.req] \o entry \in Seq(Entry)
      /\ events[t.req] \o published \in Seq(Event)
  BY InFlightType DEF TypeInv, TypeOK
<1>3. /\ rows' = [rows EXCEPT ![t.req] = written]
      /\ history' = [history EXCEPT ![t.req] = history[t.req] \o entry]
      /\ events' = [events EXCEPT ![t.req] = events[t.req] \o published]
      /\ txn' = [txn EXCEPT ![h] = None]
      /\ UNCHANGED <<sweep, now, ops>>
  BY DEF Commit
<1> HIDE DEF written
<1>4. TypeOK'
  BY <1>1, <1>2, <1>3, InFlightType DEF TypeInv, TypeOK, Maybe
<1>5. written # None
  BY <1>1, NullAssumption
<1>6. InFlightFiled'
  BY <1>3, <1>5, InFlightType DEF TypeInv, InFlightFiled, Filed, TypeOK
<1> QED  BY <1>4, <1>6 DEF TypeInv

LEMMA SweepBeginType == TypeInv /\ SweepBegin => TypeInv'
<1> SUFFICES ASSUME TypeInv, SweepBegin PROVE TypeInv'
  OBVIOUS
<1>1. PICK picked \in SUBSET Due :
        sweep' = [at |-> now,
                  copies |-> [r \in RequestIds |-> IF r \in picked THEN rows[r] ELSE None]]
  BY DEF SweepBegin
<1>2. \A r \in picked : Filed(r) /\ rows[r] \in Row
  BY DEF Due, Filed, TypeInv, TypeOK, Maybe
<1>3. [r \in RequestIds |-> IF r \in picked THEN rows[r] ELSE None]
        \in [RequestIds -> Maybe(Row)]
  BY <1>2 DEF Maybe
<1>4. sweep' \in Pass
  BY <1>1, <1>3 DEF Pass, Time, TypeInv, TypeOK
<1>5. TypeOK'
  BY <1>4 DEF SweepBegin, TypeInv, TypeOK, Maybe
<1>6. InFlightFiled'
  BY <1>1, <1>2 DEF SweepBegin, TypeInv, InFlightFiled, Filed, Picked
<1> QED  BY <1>5, <1>6 DEF TypeInv

LEMMA SweepCommitType == TypeInv /\ SweepCommit => TypeInv'
<1> SUFFICES ASSUME TypeInv, SweepCommit PROVE TypeInv'
  OBVIOUS
<1>1. sweep \in Pass
  BY DEF SweepCommit, TypeInv, TypeOK, Maybe, Pass
<1>2. ASSUME NEW r \in RequestIds, Picked(r)
      PROVE  /\ rows[r] \in Row
             /\ Noticed(sweep.copies[r], sweep.at) \in Row
             /\ Notice(sweep.copies[r], sweep.at) \in Entry
             /\ WriteBack(rows[r], sweep.copies[r], Noticed(sweep.copies[r], sweep.at)) \in Row
  <2>1. sweep.copies[r] \in Row /\ sweep.at \in Nat
    BY <1>1, <1>2 DEF Pass, Time, Picked, Maybe
  <2>2. rows[r] \in Row
    BY <1>2 DEF Picked, SweepCommit, TypeInv, TypeOK, InFlightFiled, Filed, Maybe
  <2> QED  BY <2>1, <2>2, NoticedType, WriteBackType
<1>3. rows' \in [RequestIds -> Maybe(Row)]
  BY <1>2 DEF SweepCommit, TypeInv, TypeOK, Maybe
<1>4. history' \in [RequestIds -> Seq(Entry)]
  BY <1>2 DEF SweepCommit, TypeInv, TypeOK
<1>5. TypeOK'
  BY <1>3, <1>4 DEF SweepCommit, TypeInv, TypeOK, Maybe
<1>6. \A r \in RequestIds : Filed(r) => Filed(r)'
  BY <1>2, NullAssumption DEF SweepCommit, Filed
<1>7. InFlightFiled'
  BY <1>6 DEF SweepCommit, TypeInv, TypeOK, InFlightFiled, Maybe, Txn
<1> QED  BY <1>5, <1>7 DEF TypeInv

LEMMA CreatingType == TypeInv /\ Creating => TypeInv'
<1> SUFFICES ASSUME TypeInv, Creating PROVE TypeInv'
  OBVIOUS
<1>1. "in_progress" \in Status /\ "completed" \in Status
  BY DEF Status, Open, Closed
<1>2. ASSUME NEW r \in RequestIds, NEW a \in Assignees, CreateRouted(r, a)
      PROVE  TypeInv'
  <2>1. NewRow(a) \in Row
    BY NewRowType DEF TypeInv, Maybe
  <2> QED  BY <1>1, <1>2, <2>1, CreateType, FileEventsType DEF CreateRouted
<1>3. ASSUME NEW r \in RequestIds, NEW n \in 0 .. MaxFiles, CreateAutoReplied(r, n)
      PROVE  TypeInv'
  <2>1. AutoReply \in Row
    BY AutoReplyType DEF TypeInv
  <2>2. /\ CreatedEvent("completed") \in Seq(Event)
        /\ FileEvents(n, "completed") \in Seq(Event)
        /\ StatusEvent("completed") \in Seq(Event)
    BY <1>1, FileEventsType
  <2>3. CreatedEvent("completed") \o FileEvents(n, "completed") \o StatusEvent("completed")
          \in Seq(Event)
    BY <2>2
  <2> QED  BY <1>3, <2>1, <2>3, CreateType DEF CreateAutoReplied
<1> QED  BY <1>2, <1>3 DEF Creating

LEMMA BeginningType == TypeInv /\ Beginning => TypeInv'
<1> SUFFICES ASSUME TypeInv, NEW h \in Handlers, NEW r \in RequestIds,
                    \/ \E to \in Assignees : BeginAssign(h, r, to)
                    \/ \E to \in Status, a \in Assignees : BeginTransition(h, r, to, a)
                    \/ \E n \in 0 .. MaxFiles, a \in Assignees : BeginAnswer(h, r, n, a)
                    \/ BeginResubmit(h, r)
                    \/ \E what \in {"message", "file"}, a \in Actors : BeginPost(h, r, what, a)
             PROVE  TypeInv'
  BY DEF Beginning
<1>1. Assignees \subseteq Actors /\ Registrar \in Actors /\ Student \in Actors
  BY DEF Assignees, Actors
<1>2. PICK op \in Op, actor \in Actors :
        Begin(h, r, op, actor) /\ (op.kind = "answer" => actor \in Assignees)
  <2>1. ASSUME NEW to \in Assignees, BeginAssign(h, r, to)
        PROVE  \E op \in Op, actor \in Actors :
                 Begin(h, r, op, actor) /\ (op.kind = "answer" => actor \in Assignees)
    BY <1>1, <2>1 DEF BeginAssign, Op
  <2>2. ASSUME NEW to \in Status, NEW a \in Assignees, BeginTransition(h, r, to, a)
        PROVE  \E op \in Op, actor \in Actors :
                 Begin(h, r, op, actor) /\ (op.kind = "answer" => actor \in Assignees)
    BY <1>1, <2>2 DEF BeginTransition, Op
  <2>3. ASSUME NEW n \in 0 .. MaxFiles, NEW a \in Assignees, BeginAnswer(h, r, n, a)
        PROVE  \E op \in Op, actor \in Actors :
                 Begin(h, r, op, actor) /\ (op.kind = "answer" => actor \in Assignees)
    BY <1>1, <2>3 DEF BeginAnswer, Op
  <2>4. ASSUME BeginResubmit(h, r)
        PROVE  \E op \in Op, actor \in Actors :
                 Begin(h, r, op, actor) /\ (op.kind = "answer" => actor \in Assignees)
    BY <1>1, <2>4 DEF BeginResubmit, Op
  <2>5. ASSUME NEW what \in {"message", "file"}, NEW a \in Actors, BeginPost(h, r, what, a)
        PROVE  \E op \in Op, actor \in Actors :
                 Begin(h, r, op, actor) /\ (op.kind = "answer" => actor \in Assignees)
    BY <2>5 DEF BeginPost, Op
  <2> QED  BY <2>1, <2>2, <2>3, <2>4, <2>5
<1> QED  BY <1>2, BeginType

(* A change of status: the copy may carry an answer put into it first.     *)
LEMMA CommitStatusType ==
  ASSUME TypeInv, NEW h \in Handlers, txn[h] # None,
         NEW row \in Row, NEW new \in Status, NEW at \in Nat, NEW published \in Seq(Event),
         CommitStatus(h, row, new, at, published)
  PROVE  TypeInv'
<1> DEFINE entry == << [kind |-> "status", old |-> txn[h].copy.status, new |-> new] >>
<1>1. ApplyStatus(row, new, at) \in Row
  BY ApplyStatusType
<1>2. entry \in Seq(Entry)
  BY InFlightType DEF Entry, Maybe
<1>3. published \o StatusEvent(new) \in Seq(Event)
  BY FileEventsType
<1>4. Commit(h, ApplyStatus(row, new, at), entry, published \o StatusEvent(new))
  BY DEF CommitStatus
<1> HIDE DEF entry
<1> QED  BY <1>1, <1>2, <1>3, <1>4, CommitType

LEMMA ClockReadsType ==
  ASSUME TypeInv, NEW h \in Handlers, NEW at \in ClockReads(h)
  PROVE  txn[h] # None /\ at \in Nat
<1>1. txn[h] # None
  BY DEF ClockReads
<1>2. txn[h].since \in Nat
  BY <1>1, InFlightType DEF Txn, Time
<1> QED  BY <1>1, <1>2 DEF ClockReads, TypeInv, TypeOK

LEMMA CommitStatusesType ==
  ASSUME TypeInv, NEW h \in Handlers, NEW at \in ClockReads(h),
         CommitTransition(h, at) \/ CommitAnswer(h, at) \/ CommitResubmit(h, at)
  PROVE  TypeInv'
<1> USE ClockReadsType
<1>1. txn[h].op \in Op /\ txn[h].actor \in Actors
  BY InFlightType DEF Txn
<1>2. CASE CommitTransition(h, at)
  <2>1. txn[h].op.to \in Status
    BY <1>1, <1>2 DEF CommitTransition, Doing, Op
  <2>2. << >> \in Seq(Event)
    OBVIOUS
  <2> QED  BY <1>2, <2>1, <2>2, InFlightType, CommitStatusType DEF CommitTransition
<1>3. CASE CommitAnswer(h, at)
  <2>1. txn[h].op.files \in Nat
    BY <1>1, <1>3, RequestsAssumption DEF CommitAnswer, Doing, Op
  <2>2. FileEvents(txn[h].op.files, txn[h].copy.status) \in Seq(Event)
    BY <2>1, InFlightType, FileEventsType
  <2>3. [txn[h].copy EXCEPT !.answer = [by |-> txn[h].actor, at |-> at]] \in Row
    <3>1. txn[h].actor \in Assignees
      BY <1>3, InFlightType DEF CommitAnswer, Doing, Txn
    <3>2. [by |-> txn[h].actor, at |-> at] \in Maybe(Answer)
      BY <3>1 DEF Answer, Maybe, Time
    <3> QED  BY <3>2, InFlightType DEF Row
  <2>4. "completed" \in Status
    BY DEF Status, Closed
  <2> QED  BY <1>3, <2>2, <2>3, <2>4, InFlightType, CommitStatusType DEF CommitAnswer
<1>4. CASE CommitResubmit(h, at)
  <2>1. "in_progress" \in Status /\ << >> \in Seq(Event)
    BY DEF Status, Open
  <2> QED  BY <1>4, <2>1, InFlightType, CommitStatusType DEF CommitResubmit
<1> QED  BY <1>2, <1>3, <1>4

LEMMA CommittingType == TypeInv /\ Committing => TypeInv'
<1> SUFFICES ASSUME TypeInv, NEW h \in Handlers,
                    \/ CommitAssign(h)
                    \/ CommitPost(h)
                    \/ Abort(h)
                    \/ \E at \in ClockReads(h) :
                         CommitTransition(h, at) \/ CommitAnswer(h, at) \/ CommitResubmit(h, at)
             PROVE  TypeInv'
  BY DEF Committing
<1>1. CASE CommitAssign(h)
  <2> DEFINE t == txn[h]
             entry == << [kind |-> "assign", old |-> t.copy.status, new |-> t.copy.status] >>
  <2>1. t # None /\ t.op \in Op /\ t.op.kind = "assign"
    BY <1>1, InFlightType DEF CommitAssign, Doing, Txn
  <2>2. t.op.to \in Maybe(Assignees)
    BY <2>1 DEF Op, Maybe
  <2>3. [t.copy EXCEPT !.assigned = t.op.to] \in Row
    BY <2>1, <2>2, InFlightType DEF Row
  <2>4. entry \in Seq(Entry) /\ << >> \in Seq(Event)
    BY <2>1, InFlightType DEF Entry, Maybe
  <2>5. Commit(h, [t.copy EXCEPT !.assigned = t.op.to], entry, << >>)
    BY <1>1 DEF CommitAssign
  <2> QED  BY <2>1, <2>3, <2>4, <2>5, CommitType
<1>2. CASE CommitPost(h)
  <2> DEFINE t == txn[h]
             published == << [kind |-> t.op.what, status |-> t.copy.status] >>
  <2>1. t # None /\ t.op \in Op /\ t.op.kind = "post"
    BY <1>2, InFlightType DEF CommitPost, Doing, Txn
  <2>2. t.op.what \in {"message", "file"}
    BY <2>1 DEF Op
  <2>3. published \in Seq(Event) /\ << >> \in Seq(Entry)
    BY <2>1, <2>2, InFlightType DEF Event
  <2>4. Commit(h, t.copy, << >>, published)
    BY <1>2 DEF CommitPost
  <2> QED  BY <2>1, <2>3, <2>4, InFlightType, CommitType
<1>3. CASE Abort(h)
  BY <1>3 DEF Abort, TypeInv, TypeOK, InFlightFiled, Filed, Maybe
<1> QED  BY <1>1, <1>2, <1>3, CommitStatusesType

LEMMA NextType == TypeInv /\ [Next]_vars => TypeInv'
<1> SUFFICES ASSUME TypeInv, [Next]_vars PROVE TypeInv'
  OBVIOUS
<1>1. CASE SweepAbort \/ Tick
  BY <1>1 DEF SweepAbort, Tick, TypeInv, TypeOK, InFlightFiled, Filed, Maybe
<1>2. CASE UNCHANGED vars
  BY <1>2 DEF vars, TypeInv, TypeOK, InFlightFiled, Filed
<1> QED
  BY <1>1, <1>2, CreatingType, BeginningType, CommittingType, SweepBeginType, SweepCommitType
     DEF Next, Sweeping

(* Every variable keeps its type, whatever handlers and sweep interleave:  *)
(* in particular no column of a request is ever NULL that must not be, and *)
(* the SLA arithmetic of _apply_status never leaves the naturals.          *)
THEOREM TypeCorrect == Spec => []TypeOK
<1>1. Init => TypeInv
  BY InitType
<1>2. TypeInv /\ [Next]_vars => TypeInv'
  BY NextType
<1>3. TypeInv => TypeOK
  BY DEF TypeInv
<1> QED  BY <1>1, <1>2, <1>3, PTL DEF Spec

-----------------------------------------------------------------------------
(* A completed request is answered                                         *)
(*                                                                         *)
(* CompletedIsAnswered is not inductive: a commit writes only the columns  *)
(* its handler changed, so the answer of a completed row may be the one    *)
(* another handler wrote.  What makes it safe is that every copy in flight *)
(* was open when it was loaded, and that an answer or a closing time seen  *)
(* by a copy is still in the row, since nobody ever erases one.            *)

CopiesInFlight ==
  \A h \in Handlers : txn[h] # None =>
    /\ txn[h].copy.status \in Open
    /\ txn[h].op.kind = "transition" => txn[h].op.to \in {"in_progress", "returned"}
    /\ txn[h].copy.answer # None => rows[txn[h].req].answer # None
    /\ txn[h].copy.closed # None => rows[txn[h].req].closed # None

AnswerInv == CompletedIsAnswered /\ CopiesInFlight

LEMMA AllowedTargets ==
  ASSUME NEW s \in Status, NEW to \in Allowed(s)
  PROVE  s \in Open /\ to \in {"in_progress", "returned"}
BY DEF Allowed, Status, Open, Closed

LEMMA InitAnswer == Init => AnswerInv
<1> SUFFICES ASSUME Init, NEW r \in RequestIds, Has(r, {"completed"}) PROVE FALSE
  BY DEF Init, AnswerInv, CompletedIsAnswered, CopiesInFlight
<1>1. PICK s \in Legacy : rows[r] = LegacyRow(s)
  BY DEF Init, Maybe, Has, Filed
<1> QED  BY <1>1, RequestsAssumption DEF LegacyRow, Has

LEMMA CreatingAnswer == TypeInv /\ AnswerInv /\ Creating => AnswerInv'
<1> SUFFICES ASSUME TypeInv, AnswerInv, Creating PROVE AnswerInv'
  OBVIOUS
<1>1. PICK r \in RequestIds, row \in {NewRow(a) : a \in Assignees} \cup {AutoReply} :
        /\ ~Filed(r)
        /\ rows' = [rows EXCEPT ![r] = row]
        /\ UNCHANGED txn
  BY DEF Creating, CreateRouted, CreateAutoReplied, Create
<1>2. row.status = "completed" => row.answer # None /\ row.closed # None
  <2>1. CASE row = AutoReply
    <3>1. row.answer = [by |-> None, at |-> now] /\ row.closed = now
      BY <2>1, NewRowType DEF AutoReply, Row, TypeInv, Maybe
    <3>2. [by |-> None, at |-> now] \in Answer
      BY DEF TypeInv, TypeOK, Answer, Maybe, Time
    <3> QED  BY <3>1, <3>2, NullAssumption DEF TypeInv, TypeOK
  <2>2. CASE \E a \in Assignees : row = NewRow(a)
    BY <2>2 DEF NewRow
  <2> QED  BY <1>1, <2>1, <2>2
<1>3. CompletedIsAnswered'
  BY <1>1, <1>2 DEF AnswerInv, CompletedIsAnswered, Has, Filed, TypeInv, TypeOK
<1>4. \A h \in Handlers : txn[h] # None => txn[h].req # r
  BY <1>1 DEF TypeInv, InFlightFiled
<1>5. CopiesInFlight'
  BY <1>1, <1>4 DEF AnswerInv, CopiesInFlight, TypeInv, TypeOK
<1> QED  BY <1>3, <1>5 DEF AnswerInv

LEMMA BeginningAnswer == TypeInv /\ AnswerInv /\ Beginning => AnswerInv'
<1> SUFFICES ASSUME TypeInv, AnswerInv, NEW h \in Handlers, NEW r \in RequestIds,
                    \/ \E to \in Assignees : BeginAssign(h, r, to)
                    \/ \E to \in Status, a \in Assignees : BeginTransition(h, r, to, a)
                    \/ \E n \in 0 .. MaxFiles, a \in Assignees : BeginAnswer(h, r, n, a)
                    \/ BeginResubmit(h, r)
                    \/ \E what \in {"message", "file"}, a \in Actors : BeginPost(h, r, what, a)
             PROVE  AnswerInv'
  BY DEF Beginning
<1>1. PICK op, actor : /\ Begin(h, r, op, actor)
                       /\ rows[r].status \in Open
                       /\ op.kind = "transition" => op.to \in {"in_progress", "returned"}
  <2>1. ASSUME NEW to \in Status, NEW a \in Assignees, BeginTransition(h, r, to, a)
        PROVE  rows[r].status \in Open /\ to \in {"in_progress", "returned"}
    <3>1. rows[r].status \in Status
      BY <2>1 DEF BeginTransition, Filed, TypeInv, TypeOK, Maybe, Row
    <3> QED  BY <2>1, <3>1, AllowedTargets DEF BeginTransition
  <2>2. "returned" \in Open
    BY DEF Open
  <2>3. CASE \E to \in Assignees : BeginAssign(h, r, to)
    BY <2>3 DEF BeginAssign, Has
  <2>4. CASE \E to \in Status, a \in Assignees : BeginTransition(h, r, to, a)
    BY <2>1, <2>4 DEF BeginTransition
  <2>5. CASE \E n \in 0 .. MaxFiles, a \in Assignees : BeginAnswer(h, r, n, a)
    BY <2>5 DEF BeginAnswer, Has
  <2>6. CASE BeginResubmit(h, r)
    BY <2>2, <2>6 DEF BeginResubmit, Has
  <2>7. CASE \E what \in {"message", "file"}, a \in Actors : BeginPost(h, r, what, a)
    BY <2>7 DEF BeginPost, Has
  <2> QED  BY <2>3, <2>4, <2>5, <2>6, <2>7
<1>2. CopiesInFlight'
  BY <1>1 DEF AnswerInv, CopiesInFlight, Begin, TypeInv, TypeOK
<1>3. CompletedIsAnswered'
  BY <1>1 DEF AnswerInv, CompletedIsAnswered, Begin, Has, Filed
<1> QED  BY <1>2, <1>3 DEF AnswerInv

(* The one way a commit could break the invariant, and does not: it erases *)
(* nothing, and it completes a request only with an answer in hand.        *)
LEMMA CommitAnswerInv ==
  ASSUME TypeInv, AnswerInv, NEW h \in Handlers, txn[h] # None,
         NEW after, NEW entry, NEW published,
         Commit(h, after, entry, published),
         after.answer = txn[h].copy.answer \/ after.answer # None,
         after.closed = txn[h].copy.closed \/ after.closed # None,
         after.status = "completed" => after.answer # None /\ after.closed # None
  PROVE  AnswerInv'
<1> DEFINE t == txn[h]
           written == WriteBack(rows[t.req], t.copy, after)
<1>1. /\ rows' = [rows EXCEPT ![t.req] = written]
      /\ txn' = [txn EXCEPT ![h] = None]
  BY DEF Commit
<1>2. /\ rows[t.req].answer # None => written.answer # None
      /\ rows[t.req].closed # None => written.closed # None
  BY DEF WriteBack, Column
<1>3. /\ t.copy.answer # None => rows[t.req].answer # None
      /\ t.copy.closed # None => rows[t.req].closed # None
  BY DEF AnswerInv, CopiesInFlight
<1>4. rows[t.req] # None /\ t.req \in RequestIds
  BY InFlightType DEF TypeInv, InFlightFiled, Filed
<1>5. written.status = "completed" => written.answer # None /\ written.closed # None
  <2>1. CASE after.status # t.copy.status
    BY <1>2, <1>3, <2>1 DEF WriteBack, Column
  <2>2. CASE after.status = t.copy.status
    BY <1>2, <1>4, <2>2 DEF WriteBack, Column, AnswerInv, CompletedIsAnswered, Has, Filed
  <2> QED  BY <2>1, <2>2
<1> HIDE DEF written
<1>6. CompletedIsAnswered'
  BY <1>1, <1>4, <1>5 DEF AnswerInv, CompletedIsAnswered, Has, Filed, TypeInv, TypeOK
<1>7. CopiesInFlight'
  BY <1>1, <1>2, <1>4 DEF AnswerInv, CopiesInFlight, TypeInv, TypeOK
<1> QED  BY <1>6, <1>7 DEF AnswerInv

LEMMA ApplyStatusKeeps ==
  ASSUME NEW row \in Row, NEW new \in Status, NEW at \in Nat
  PROVE  /\ ApplyStatus(row, new, at).status = new
         /\ ApplyStatus(row, new, at).answer = row.answer
         /\ ApplyStatus(row, new, at).assigned = row.assigned
         /\ ApplyStatus(row, new, at).closed = IF new \in Closed THEN at ELSE row.closed
BY DEF ApplyStatus, Row

(* The sweep writes the markers of a row and nothing else.                 *)
LEMMA SweepCommitKeeps ==
  ASSUME TypeInv, SweepCommit, NEW r \in RequestIds, Filed(r)
  PROVE  /\ rows'[r] # None
         /\ rows'[r].status = rows[r].status
         /\ rows'[r].answer = rows[r].answer
         /\ rows'[r].closed = rows[r].closed
         /\ rows'[r].assigned = rows[r].assigned
         /\ rows'[r].paused = rows[r].paused
         /\ rows'[r].deadline = rows[r].deadline
<1>1. CASE ~Picked(r)
  BY <1>1 DEF SweepCommit, Filed
<1>2. CASE Picked(r)
  <2> DEFINE copy    == sweep.copies[r]
             updated == Noticed(copy, sweep.at)
             written == WriteBack(rows[r], copy, updated)
  <2>1. copy \in Row /\ sweep.at \in Nat /\ rows[r] \in Row
    BY <1>2 DEF SweepCommit, Filed, TypeInv, TypeOK, Maybe, Pass, Time, Picked
  <2>2. /\ updated.status = copy.status
        /\ updated.answer = copy.answer
        /\ updated.closed = copy.closed
        /\ updated.assigned = copy.assigned
        /\ updated.paused = copy.paused
        /\ updated.deadline = copy.deadline
    BY <2>1 DEF Noticed, Row
  <2>3. rows'[r] = written
    BY <1>2 DEF SweepCommit
  <2>4. written # None
    BY <2>1, NoticedType, WriteBackType, NullAssumption
  <2> QED  BY <2>2, <2>3, <2>4 DEF WriteBack, Column
<1> QED  BY <1>1, <1>2

LEMMA CommitStatusAnswer ==
  ASSUME TypeInv, AnswerInv, NEW h \in Handlers, txn[h] # None,
         NEW row \in Row, NEW new \in Status, NEW at \in Nat, NEW published,
         CommitStatus(h, row, new, at, published),
         row.answer = txn[h].copy.answer \/ row.answer # None,
         row.closed = txn[h].copy.closed,
         new = "completed" => row.answer # None
  PROVE  AnswerInv'
<1>1. at # None
  BY NullAssumption
<1> QED
  BY <1>1, ApplyStatusKeeps, CommitAnswerInv DEF CommitStatus, Closed

LEMMA CommittingAnswer == TypeInv /\ AnswerInv /\ Committing => AnswerInv'
<1> SUFFICES ASSUME TypeInv, AnswerInv, NEW h \in Handlers,
                    \/ CommitAssign(h)
                    \/ CommitPost(h)
                    \/ Abort(h)
                    \/ \E at \in ClockReads(h) :
                         CommitTransition(h, at) \/ CommitAnswer(h, at) \/ CommitResubmit(h, at)
             PROVE  AnswerInv'
  BY DEF Committing
<1>1. ASSUME txn[h] # None
      PROVE  txn[h].copy.status # "completed" /\ txn[h].copy \in Row
  BY <1>1, InFlightType DEF AnswerInv, CopiesInFlight, Open
<1>2. CASE CommitAssign(h)
  <2>1. txn[h] # None
    BY <1>2 DEF CommitAssign, Doing
  <2> DEFINE after == [txn[h].copy EXCEPT !.assigned = txn[h].op.to]
  <2>2. /\ after.status = txn[h].copy.status
        /\ after.answer = txn[h].copy.answer
        /\ after.closed = txn[h].copy.closed
    BY <1>1, <2>1 DEF Row
  <2> QED  BY <1>1, <1>2, <2>1, <2>2, CommitAnswerInv DEF CommitAssign
<1>3. CASE CommitPost(h)
  BY <1>1, <1>3, CommitAnswerInv DEF CommitPost, Doing
<1>4. CASE Abort(h)
  BY <1>4 DEF Abort, AnswerInv, CompletedIsAnswered, CopiesInFlight, Has, Filed, TypeInv, TypeOK
<1>5. ASSUME NEW at \in ClockReads(h), CommitTransition(h, at)
      PROVE  AnswerInv'
  <2>1. txn[h] # None /\ at \in Nat
    BY ClockReadsType
  <2>2. txn[h].op.to \in {"in_progress", "returned"}
    BY <1>5, <2>1 DEF CommitTransition, Doing, AnswerInv, CopiesInFlight
  <2> QED  BY <1>1, <1>5, <2>1, <2>2, CommitStatusAnswer DEF CommitTransition, Status, Open
<1>6. ASSUME NEW at \in ClockReads(h), CommitAnswer(h, at)
      PROVE  AnswerInv'
  <2>1. txn[h] # None /\ at \in Nat
    BY ClockReadsType
  <2> DEFINE answer == [by |-> txn[h].actor, at |-> at]
             row    == [txn[h].copy EXCEPT !.answer = answer]
  <2>2. answer \in Answer
    BY <1>6, <2>1, InFlightType DEF CommitAnswer, Doing, Txn, Answer, Maybe, Time
  <2>3. row \in Row /\ row.answer # None /\ row.closed = txn[h].copy.closed
    BY <1>1, <2>1, <2>2, NullAssumption DEF Row, Maybe
  <2> QED  BY <1>6, <2>1, <2>3, CommitStatusAnswer DEF CommitAnswer, Status, Closed
<1>7. ASSUME NEW at \in ClockReads(h), CommitResubmit(h, at)
      PROVE  AnswerInv'
  BY <1>1, <1>7, ClockReadsType, CommitStatusAnswer DEF CommitResubmit, Status, Open
<1> QED  BY <1>2, <1>3, <1>4, <1>5, <1>6, <1>7

LEMMA SweepCommitAnswer == TypeInv /\ AnswerInv /\ SweepCommit => AnswerInv'
<1> SUFFICES ASSUME TypeInv, AnswerInv, SweepCommit PROVE AnswerInv'
  OBVIOUS
<1>1. ASSUME NEW r \in RequestIds, Filed(r)
      PROVE  /\ rows'[r] # None
             /\ rows'[r].status = rows[r].status
             /\ rows'[r].answer = rows[r].answer
             /\ rows'[r].closed = rows[r].closed
             /\ rows'[r].assigned = rows[r].assigned
  BY <1>1, SweepCommitKeeps
<1>2. \A r \in RequestIds : ~Filed(r) => ~Filed(r)'
  BY DEF Picked, SweepCommit, Filed, TypeInv, InFlightFiled
<1>3. CompletedIsAnswered'
  BY <1>1, <1>2 DEF AnswerInv, CompletedIsAnswered, Has, Filed
<1>4. CopiesInFlight'
  BY <1>1, InFlightType DEF SweepCommit, AnswerInv, CopiesInFlight, TypeInv, InFlightFiled, Filed
<1> QED  BY <1>3, <1>4 DEF AnswerInv

LEMMA NextAnswer == TypeInv /\ AnswerInv /\ [Next]_vars => AnswerInv'
<1> SUFFICES ASSUME TypeInv, AnswerInv, [Next]_vars PROVE AnswerInv'
  OBVIOUS
<1>1. CASE SweepBegin \/ SweepAbort \/ Tick \/ UNCHANGED vars
  BY <1>1 DEF SweepBegin, SweepAbort, Tick, vars,
              AnswerInv, CompletedIsAnswered, CopiesInFlight, Has, Filed
<1> QED
  BY <1>1, CreatingAnswer, BeginningAnswer, CommittingAnswer, SweepCommitAnswer
     DEF Next, Sweeping

(* A completed request carries an answer and a closing time in every       *)
(* interleaving of handlers and sweep: two transactions that overwrite     *)
(* each other's columns never leave a request closed without its answer.   *)
THEOREM CompletedAnswered == Spec => []CompletedIsAnswered
<1>1. Init => TypeInv /\ AnswerInv
  BY InitType, InitAnswer
<1>2. TypeInv /\ AnswerInv /\ [Next]_vars => (TypeInv /\ AnswerInv)'
  BY NextType, NextAnswer
<1>3. TypeInv /\ AnswerInv => CompletedIsAnswered
  BY DEF AnswerInv
<1> QED  BY <1>1, <1>2, <1>3, PTL DEF Spec

-----------------------------------------------------------------------------
(* The logs tell the status                                                *)
(*                                                                         *)
(* Newest picks an element with CHOOSE.  The invariant says what it picks: *)
(* the log has a status entry that carries the status and has none after   *)
(* it.  A commit appends to the log exactly when it writes the status      *)
(* column, and it writes the column because the status it sets is another  *)
(* one than its copy's.                                                    *)

NewestEntryTells(log, status) ==
  \E i \in DOMAIN log :
    /\ IsStatusEntry(log[i])
    /\ log[i].new = status
    /\ \A j \in DOMAIN log : IsStatusEntry(log[j]) => j <= i

NewestEventTells(log, status) ==
  \E i \in DOMAIN log :
    /\ IsStatusEvent(log[i])
    /\ log[i].status = status
    /\ \A j \in DOMAIN log : IsStatusEvent(log[j]) => j <= i

NeverAnnounced(log) == \A i \in DOMAIN log : ~IsStatusEvent(log[i])

LEMMA NewestEntry ==
  ASSUME NEW log \in Seq(Entry), NEW status, NewestEntryTells(log, status)
  PROVE  /\ Newest(log, IsStatusEntry) # None
         /\ Newest(log, IsStatusEntry).new = status
<1> DEFINE hits == {i \in DOMAIN log : IsStatusEntry(log[i])}
           last == CHOOSE i \in hits : \A j \in hits : j <= i
<1>1. PICK i \in hits : log[i].new = status /\ \A j \in hits : j <= i
  BY DEF NewestEntryTells
<1>2. last \in hits /\ \A j \in hits : j <= last
  BY <1>1
<1>3. \A j \in hits : j \in Nat
  OBVIOUS
<1>4. last = i
  <2>1. last <= i /\ i <= last /\ last \in Nat /\ i \in Nat
    BY <1>1, <1>2, <1>3
  <2> QED  BY <2>1
<1>5. Newest(log, IsStatusEntry) = log[i]
  BY <1>1, <1>4 DEF Newest
<1>6. log[i] # None
  BY NullAssumption
<1> QED  BY <1>1, <1>5, <1>6

LEMMA NewestEvent ==
  ASSUME NEW log \in Seq(Event), NEW status,
         NeverAnnounced(log) \/ NewestEventTells(log, status)
  PROVE  \/ Newest(log, IsStatusEvent) = None
         \/ Newest(log, IsStatusEvent).status = status
<1> DEFINE hits == {i \in DOMAIN log : IsStatusEvent(log[i])}
           last == CHOOSE i \in hits : \A j \in hits : j <= i
<1>1. CASE NeverAnnounced(log)
  BY <1>1 DEF Newest, NeverAnnounced
<1>2. CASE NewestEventTells(log, status)
  <2>1. PICK i \in hits : log[i].status = status /\ \A j \in hits : j <= i
    BY <1>2 DEF NewestEventTells
  <2>2. last \in hits /\ \A j \in hits : j <= last
    BY <2>1
  <2>3. last <= i /\ i <= last /\ last \in Nat /\ i \in Nat
    BY <2>1, <2>2
  <2>4. last = i
    BY <2>3
  <2> QED  BY <2>1, <2>4 DEF Newest
<1> QED  BY <1>1, <1>2

LEMMA EntryAppended ==
  ASSUME NEW log \in Seq(Entry), NEW more \in Seq(Entry), NEW status
  PROVE  /\ more # << >> /\ IsStatusEntry(more[Len(more)]) /\ more[Len(more)].new = status
              => NewestEntryTells(log \o more, status)
         /\ NewestEntryTells(log, status) /\ (\A k \in DOMAIN more : ~IsStatusEntry(more[k]))
              => NewestEntryTells(log \o more, status)
<1> DEFINE all == log \o more
<1>1. /\ DOMAIN all = 1 .. (Len(log) + Len(more))
      /\ DOMAIN log = 1 .. Len(log) /\ DOMAIN more = 1 .. Len(more)
      /\ Len(log) \in Nat /\ Len(more) \in Nat
      /\ \A i \in DOMAIN all :
           all[i] = IF i <= Len(log) THEN log[i] ELSE more[i - Len(log)]
  OBVIOUS
<1> HIDE DEF all
<1>2. ASSUME more # << >>, IsStatusEntry(more[Len(more)]), more[Len(more)].new = status
      PROVE  NewestEntryTells(all, status)
  <2>1. Len(more) > 0
    BY <1>2
  <2>2. Len(log) + Len(more) \in DOMAIN all /\ all[Len(log) + Len(more)] = more[Len(more)]
    BY <1>1, <2>1
  <2> QED  BY <1>1, <1>2, <2>2 DEF NewestEntryTells
<1>3. ASSUME NewestEntryTells(log, status), \A k \in DOMAIN more : ~IsStatusEntry(more[k])
      PROVE  NewestEntryTells(all, status)
  <2>1. PICK i \in DOMAIN log : /\ IsStatusEntry(log[i])
                                /\ log[i].new = status
                                /\ \A j \in DOMAIN log : IsStatusEntry(log[j]) => j <= i
    BY <1>3 DEF NewestEntryTells
  <2>2. i \in DOMAIN all /\ all[i] = log[i]
    BY <1>1
  <2>3. ASSUME NEW j \in DOMAIN all, IsStatusEntry(all[j])
        PROVE  j <= i
    <3>1. CASE j <= Len(log)
      BY <1>1, <2>1, <2>3, <3>1
    <3>2. CASE j > Len(log)
      <4>1. j - Len(log) \in DOMAIN more /\ all[j] = more[j - Len(log)]
        BY <1>1, <3>2
      <4> QED  BY <1>3, <2>3, <4>1
    <3> QED  BY <1>1, <3>1, <3>2
  <2> QED  BY <2>1, <2>2, <2>3 DEF NewestEntryTells
<1> QED  BY <1>2, <1>3 DEF all

LEMMA EventAppended ==
  ASSUME NEW log \in Seq(Event), NEW more \in Seq(Event), NEW status
  PROVE  /\ more # << >> /\ IsStatusEvent(more[Len(more)]) /\ more[Len(more)].status = status
              => NewestEventTells(log \o more, status)
         /\ NeverAnnounced(log) /\ NeverAnnounced(more) => NeverAnnounced(log \o more)
         /\ NewestEventTells(log, status) /\ NeverAnnounced(more)
              => NewestEventTells(log \o more, status)
<1> DEFINE all == log \o more
<1>1. /\ DOMAIN all = 1 .. (Len(log) + Len(more))
      /\ DOMAIN log = 1 .. Len(log) /\ DOMAIN more = 1 .. Len(more)
      /\ Len(log) \in Nat /\ Len(more) \in Nat
      /\ \A i \in DOMAIN all :
           all[i] = IF i <= Len(log) THEN log[i] ELSE more[i - Len(log)]
  OBVIOUS
<1> HIDE DEF all
<1>2. ASSUME more # << >>, IsStatusEvent(more[Len(more)]), more[Len(more)].status = status
      PROVE  NewestEventTells(all, status)
  <2>1. Len(more) > 0
    BY <1>2
  <2>2. Len(log) + Len(more) \in DOMAIN all /\ all[Len(log) + Len(more)] = more[Len(more)]
    BY <1>1, <2>1
  <2> QED  BY <1>1, <1>2, <2>2 DEF NewestEventTells
<1>3. ASSUME NEW j \in DOMAIN all, NeverAnnounced(more), IsStatusEvent(all[j])
      PROVE  j \in DOMAIN log /\ all[j] = log[j]
  <2>1. CASE j > Len(log)
    <3>1. j - Len(log) \in DOMAIN more /\ all[j] = more[j - Len(log)]
      BY <1>1, <2>1
    <3> QED  BY <1>3, <3>1 DEF NeverAnnounced
  <2> QED  BY <1>1, <2>1
<1>4. NeverAnnounced(log) /\ NeverAnnounced(more) => NeverAnnounced(all)
  BY <1>3 DEF NeverAnnounced
<1>5. ASSUME NewestEventTells(log, status), NeverAnnounced(more)
      PROVE  NewestEventTells(all, status)
  <2>1. PICK i \in DOMAIN log : /\ IsStatusEvent(log[i])
                                /\ log[i].status = status
                                /\ \A j \in DOMAIN log : IsStatusEvent(log[j]) => j <= i
    BY <1>5 DEF NewestEventTells
  <2>2. i \in DOMAIN all /\ all[i] = log[i]
    BY <1>1
  <2> QED  BY <1>3, <1>5, <2>1, <2>2 DEF NewestEventTells
<1> QED  BY <1>2, <1>4, <1>5 DEF all

LogsTell(log, published, status) ==
  /\ NewestEntryTells(log, status)
  /\ NeverAnnounced(published) \/ NewestEventTells(published, status)

(* A change of status in flight changes it: the check was made on the copy *)
(* the commit compares with.                                               *)
ChangesStatus ==
  \A h \in Handlers : txn[h] # None =>
    /\ txn[h].op.kind = "transition" => txn[h].op.to # txn[h].copy.status
    /\ txn[h].op.kind = "resubmit" => txn[h].copy.status = "returned"

LogsInv ==
  /\ \A r \in RequestIds : Filed(r) => LogsTell(history[r], events[r], rows[r].status)
  /\ ChangesStatus

LEMMA FiledLog ==
  ASSUME NEW status \in Status
  PROVE  NewestEntryTells(FiledHistory(status), status)
<1> DEFINE log == FiledHistory(status)
<1>1. /\ DOMAIN log = 1 .. 2
      /\ log[2] = [kind |-> "status", old |-> "new", new |-> status]
  BY DEF FiledHistory
<1> HIDE DEF log
<1>2. NewestEntryTells(log, status)
  <2>1. 2 \in DOMAIN log /\ IsStatusEntry(log[2]) /\ log[2].new = status
    BY <1>1 DEF IsStatusEntry
  <2>2. \A j \in DOMAIN log : j <= 2
    BY <1>1
  <2> QED  BY <2>1, <2>2 DEF NewestEntryTells
<1> QED  BY <1>2 DEF log

LEMMA FiledEvents ==
  ASSUME NEW n \in Nat
  PROVE  /\ NewestEventTells(CreatedEvent("in_progress"), "in_progress")
         /\ NewestEventTells(CreatedEvent("completed") \o FileEvents(n, "completed")
                               \o StatusEvent("completed"), "completed")
<1>1. NewestEventTells(CreatedEvent("in_progress"), "in_progress")
  BY DEF NewestEventTells, CreatedEvent, IsStatusEvent
<1>2. "completed" \in Status
  BY DEF Status, Closed
<1>3. /\ CreatedEvent("completed") \o FileEvents(n, "completed") \in Seq(Event)
      /\ StatusEvent("completed") \in Seq(Event)
  BY <1>2, FileEventsType
<1>4. /\ StatusEvent("completed") # << >>
      /\ Len(StatusEvent("completed")) = 1
      /\ StatusEvent("completed")[1] = [kind |-> "status_changed", status |-> "completed"]
  BY DEF StatusEvent
<1> DEFINE log  == CreatedEvent("completed") \o FileEvents(n, "completed")
           more == StatusEvent("completed")
<1>5. /\ log \in Seq(Event) /\ more \in Seq(Event) /\ more # << >>
      /\ IsStatusEvent(more[Len(more)]) /\ more[Len(more)].status = "completed"
  BY <1>3, <1>4 DEF IsStatusEvent
<1> HIDE DEF log, more
<1>6. NewestEventTells(log \o more, "completed")
  BY <1>5, EventAppended
<1> QED  BY <1>1, <1>6 DEF log, more

LEMMA InitLogs == Init => LogsInv
<1> SUFFICES ASSUME Init, NEW r \in RequestIds, Filed(r)
             PROVE  LogsTell(history[r], events[r], rows[r].status)
  BY DEF Init, LogsInv, ChangesStatus
<1>1. PICK s \in Legacy : rows[r] = LegacyRow(s)
  BY DEF Init, Maybe, Filed
<1>2. rows[r].status = s /\ s \in Status
  BY <1>1, RequestsAssumption DEF LegacyRow, Status, Open, Closed
<1>3. history[r] = FiledHistory(s) /\ events[r] = << >>
  BY <1>2 DEF Init, LegacyHistory, Filed
<1> QED  BY <1>2, <1>3, FiledLog DEF LogsTell, NeverAnnounced

LEMMA CreatingLogs == TypeInv /\ LogsInv /\ Creating => LogsInv'
<1> SUFFICES ASSUME TypeInv, LogsInv, Creating PROVE LogsInv'
  OBVIOUS
<1>1. ASSUME NEW r \in RequestIds, NEW row, NEW published, Create(r, row, published),
             row.status \in Status, NewestEventTells(published, row.status)
      PROVE  LogsInv'
  <2>1. /\ rows'[r] = row
        /\ history'[r] = FiledHistory(row.status)
        /\ events'[r] = published
        /\ \A q \in RequestIds \ {r} :
             rows'[q] = rows[q] /\ history'[q] = history[q] /\ events'[q] = events[q]
    BY <1>1 DEF Create, TypeInv, TypeOK
  <2>2. LogsTell(history'[r], events'[r], rows'[r].status)
    BY <1>1, <2>1, FiledLog DEF LogsTell
  <2>3. ChangesStatus'
    BY <1>1 DEF Create, LogsInv, ChangesStatus
  <2>4. ASSUME NEW q \in RequestIds, Filed(q)'
        PROVE  LogsTell(history'[q], events'[q], rows'[q].status)
    BY <2>1, <2>2, <2>4 DEF LogsInv, LogsTell, Filed
  <2> QED  BY <2>3, <2>4 DEF LogsInv
<1>2. ASSUME NEW r \in RequestIds, NEW a \in Assignees, CreateRouted(r, a)
      PROVE  LogsInv'
  <2>1. NewRow(a).status = "in_progress" /\ "in_progress" \in Status
    BY DEF NewRow, Status, Open
  <2> QED  BY <1>1, <1>2, <2>1, FiledEvents DEF CreateRouted
<1>3. ASSUME NEW r \in RequestIds, NEW n \in 0 .. MaxFiles, CreateAutoReplied(r, n)
      PROVE  LogsInv'
  <2>1. AutoReply.status = "completed" /\ "completed" \in Status
    BY NewRowType DEF AutoReply, Row, TypeInv, Maybe, Status, Closed
  <2>2. n \in Nat
    BY RequestsAssumption
  <2> QED  BY <1>1, <1>3, <2>1, <2>2, FiledEvents DEF CreateAutoReplied
<1> QED  BY <1>2, <1>3 DEF Creating

LEMMA BeginningLogs == TypeInv /\ LogsInv /\ Beginning => LogsInv'
<1> SUFFICES ASSUME TypeInv, LogsInv, NEW h \in Handlers, NEW r \in RequestIds,
                    \/ \E to \in Assignees : BeginAssign(h, r, to)
                    \/ \E to \in Status, a \in Assignees : BeginTransition(h, r, to, a)
                    \/ \E n \in 0 .. MaxFiles, a \in Assignees : BeginAnswer(h, r, n, a)
                    \/ BeginResubmit(h, r)
                    \/ \E what \in {"message", "file"}, a \in Actors : BeginPost(h, r, what, a)
             PROVE  LogsInv'
  BY DEF Beginning
<1>1. PICK op, actor : /\ Begin(h, r, op, actor)
                       /\ op.kind = "transition" => op.to # rows[r].status
                       /\ op.kind = "resubmit" => rows[r].status = "returned"
  <2>1. ASSUME NEW to \in Status, NEW a \in Assignees, BeginTransition(h, r, to, a)
        PROVE  to # rows[r].status
    BY <2>1 DEF BeginTransition, Allowed
  <2>2. CASE \E to \in Assignees : BeginAssign(h, r, to)
    BY <2>2 DEF BeginAssign
  <2>3. CASE \E to \in Status, a \in Assignees : BeginTransition(h, r, to, a)
    BY <2>1, <2>3 DEF BeginTransition
  <2>4. CASE \E n \in 0 .. MaxFiles, a \in Assignees : BeginAnswer(h, r, n, a)
    BY <2>4 DEF BeginAnswer
  <2>5. CASE BeginResubmit(h, r)
    BY <2>5 DEF BeginResubmit, Has
  <2>6. CASE \E what \in {"message", "file"}, a \in Actors : BeginPost(h, r, what, a)
    BY <2>6 DEF BeginPost
  <2> QED  BY <2>2, <2>3, <2>4, <2>5, <2>6
<1>2. ChangesStatus'
  BY <1>1 DEF LogsInv, ChangesStatus, Begin, TypeInv, TypeOK
<1> QED  BY <1>1, <1>2 DEF LogsInv, LogsTell, Begin, Filed

(* A commit either changes the status and says so last, or leaves it alone *)
(* and says nothing of it.                                                 *)
LEMMA CommitLogs ==
  ASSUME TypeInv, LogsInv, NEW h \in Handlers, txn[h] # None,
         NEW after, NEW entry \in Seq(Entry), NEW published \in Seq(Event),
         Commit(h, after, entry, published),
         \/ /\ after.status # txn[h].copy.status
            /\ entry # << >> /\ IsStatusEntry(entry[Len(entry)])
            /\ entry[Len(entry)].new = after.status
            /\ published # << >> /\ IsStatusEvent(published[Len(published)])
            /\ published[Len(published)].status = after.status
         \/ /\ after.status = txn[h].copy.status
            /\ \A k \in DOMAIN entry : ~IsStatusEntry(entry[k])
            /\ NeverAnnounced(published)
  PROVE  LogsInv'
<1> DEFINE r == txn[h].req
<1>1. /\ r \in RequestIds /\ Filed(r)
      /\ history[r] \in Seq(Entry) /\ events[r] \in Seq(Event)
  BY InFlightType DEF TypeInv, TypeOK, InFlightFiled
<1>2. /\ rows'[r].status = Column(rows[r].status, txn[h].copy.status, after.status)
      /\ history'[r] = history[r] \o entry
      /\ events'[r] = events[r] \o published
      /\ \A q \in RequestIds \ {r} :
           rows'[q] = rows[q] /\ history'[q] = history[q] /\ events'[q] = events[q]
  <2>1. /\ rows'[r] = WriteBack(rows[r], txn[h].copy, after)
        /\ history'[r] = history[r] \o entry
        /\ events'[r] = events[r] \o published
        /\ \A q \in RequestIds \ {r} :
             rows'[q] = rows[q] /\ history'[q] = history[q] /\ events'[q] = events[q]
    BY <1>1 DEF Commit, TypeInv, TypeOK
  <2>2. WriteBack(rows[r], txn[h].copy, after).status
          = Column(rows[r].status, txn[h].copy.status, after.status)
    BY DEF WriteBack
  <2> QED  BY <2>1, <2>2
<1>4. LogsTell(history[r], events[r], rows[r].status)
  BY <1>1 DEF LogsInv
<1>5. LogsTell(history'[r], events'[r], rows'[r].status)
  <2>1. CASE after.status # txn[h].copy.status
    <3>1. rows'[r].status = after.status
      BY <1>2, <2>1 DEF Column
    <3> QED  BY <1>1, <1>2, <2>1, <3>1, EntryAppended, EventAppended DEF LogsTell
  <2>2. CASE after.status = txn[h].copy.status
    <3>1. rows'[r].status = rows[r].status
      BY <1>2, <2>2 DEF Column
    <3> QED  BY <1>1, <1>2, <1>4, <2>2, <3>1, EntryAppended, EventAppended DEF LogsTell
  <2> QED  BY <2>1, <2>2
<1>6. ASSUME NEW q \in RequestIds, Filed(q)'
      PROVE  LogsTell(history'[q], events'[q], rows'[q].status)
  BY <1>2, <1>5, <1>6 DEF LogsInv, LogsTell, Filed
<1>7. ChangesStatus'
  BY DEF Commit, LogsInv, ChangesStatus, TypeInv, TypeOK
<1> QED  BY <1>6, <1>7 DEF LogsInv

LEMMA CommitStatusLogs ==
  ASSUME TypeInv, LogsInv, NEW h \in Handlers, txn[h] # None,
         NEW row \in Row, NEW new \in Status, NEW at \in Nat, NEW published \in Seq(Event),
         CommitStatus(h, row, new, at, published), new # txn[h].copy.status
  PROVE  LogsInv'
<1> DEFINE entry == << [kind |-> "status", old |-> txn[h].copy.status, new |-> new] >>
           all   == published \o StatusEvent(new)
<1>1. entry \in Seq(Entry)
  BY InFlightType DEF Entry, Maybe
<1>2. all \in Seq(Event) /\ StatusEvent(new) \in Seq(Event)
  BY FileEventsType
<1>3. entry # << >> /\ IsStatusEntry(entry[Len(entry)]) /\ entry[Len(entry)].new = new
  BY DEF IsStatusEntry
<1>4. /\ Len(all) = Len(published) + 1
      /\ all[Len(all)] = [kind |-> "status_changed", status |-> new]
  BY <1>2 DEF StatusEvent
<1>5. all # << >> /\ IsStatusEvent(all[Len(all)]) /\ all[Len(all)].status = new
  BY <1>4 DEF IsStatusEvent
<1>6. Commit(h, ApplyStatus(row, new, at), entry, all)
  BY DEF CommitStatus
<1> HIDE DEF entry, all
<1> QED  BY <1>1, <1>2, <1>3, <1>5, <1>6, ApplyStatusKeeps, CommitLogs

LEMMA CommittingLogs == TypeInv /\ AnswerInv /\ LogsInv /\ Committing => LogsInv'
<1> SUFFICES ASSUME TypeInv, AnswerInv, LogsInv, NEW h \in Handlers,
                    \/ CommitAssign(h)
                    \/ CommitPost(h)
                    \/ Abort(h)
                    \/ \E at \in ClockReads(h) :
                         CommitTransition(h, at) \/ CommitAnswer(h, at) \/ CommitResubmit(h, at)
             PROVE  LogsInv'
  BY DEF Committing
<1>1. CASE CommitAssign(h)
  <2> DEFINE t == txn[h]
             entry == << [kind |-> "assign", old |-> t.copy.status, new |-> t.copy.status] >>
             after == [t.copy EXCEPT !.assigned = t.op.to]
  <2>1. t # None /\ after.status = t.copy.status
    BY <1>1, InFlightType DEF CommitAssign, Doing, Row
  <2>2. /\ entry \in Seq(Entry) /\ << >> \in Seq(Event)
        /\ \A k \in DOMAIN entry : ~IsStatusEntry(entry[k])
        /\ NeverAnnounced(<< >>)
    BY <2>1, InFlightType DEF Entry, Maybe, IsStatusEntry, NeverAnnounced
  <2>3. Commit(h, after, entry, << >>)
    BY <1>1 DEF CommitAssign
  <2> HIDE DEF entry, after
  <2> QED  BY <2>1, <2>2, <2>3, CommitLogs
<1>2. CASE CommitPost(h)
  <2> DEFINE t == txn[h]
             published == << [kind |-> t.op.what, status |-> t.copy.status] >>
  <2>1. t # None /\ t.op \in Op /\ t.op.kind = "post"
    BY <1>2, InFlightType DEF CommitPost, Doing, Txn
  <2>2. t.op.what \in {"message", "file"}
    BY <2>1 DEF Op
  <2>3. /\ published \in Seq(Event) /\ << >> \in Seq(Entry)
        /\ \A k \in DOMAIN published : ~IsStatusEvent(published[k])
    BY <2>1, <2>2, InFlightType DEF Event, IsStatusEvent
  <2>4. Commit(h, t.copy, << >>, published)
    BY <1>2 DEF CommitPost
  <2>5. \A k \in DOMAIN << >> : ~IsStatusEntry(<< >>[k])
    OBVIOUS
  <2>6. NeverAnnounced(published)
    BY <2>3 DEF NeverAnnounced
  <2> HIDE DEF published
  <2> QED  BY <2>1, <2>3, <2>4, <2>5, <2>6, CommitLogs
<1>3. CASE Abort(h)
  BY <1>3 DEF Abort, LogsInv, ChangesStatus, LogsTell, Filed, TypeInv, TypeOK
<1>4. ASSUME NEW at \in ClockReads(h), CommitTransition(h, at)
      PROVE  LogsInv'
  <2>1. /\ txn[h] # None /\ at \in Nat
        /\ txn[h].op \in Op /\ txn[h].op.kind = "transition"
    BY <1>4, ClockReadsType, InFlightType DEF CommitTransition, Doing, Txn
  <2>2. txn[h].op.to \in Status /\ txn[h].op.to # txn[h].copy.status
    BY <2>1 DEF Op, LogsInv, ChangesStatus
  <2>3. << >> \in Seq(Event)
    OBVIOUS
  <2> QED  BY <1>4, <2>1, <2>2, <2>3, InFlightType, CommitStatusLogs DEF CommitTransition
<1>5. ASSUME NEW at \in ClockReads(h), CommitAnswer(h, at)
      PROVE  LogsInv'
  <2>1. /\ txn[h] # None /\ at \in Nat
        /\ txn[h].op \in Op /\ txn[h].op.kind = "answer" /\ txn[h].actor \in Assignees
    BY <1>5, ClockReadsType, InFlightType DEF CommitAnswer, Doing, Txn
  <2> DEFINE row == [txn[h].copy EXCEPT !.answer = [by |-> txn[h].actor, at |-> at]]
  <2>2. row \in Row
    BY <2>1, InFlightType DEF Row, Answer, Maybe, Time
  <2>3. txn[h].op.files \in Nat
    BY <2>1, RequestsAssumption DEF Op
  <2>4. FileEvents(txn[h].op.files, txn[h].copy.status) \in Seq(Event)
    BY <2>1, <2>3, InFlightType, FileEventsType
  <2>5. "completed" \in Status /\ "completed" # txn[h].copy.status
    BY <2>1 DEF AnswerInv, CopiesInFlight, Status, Open, Closed
  <2> QED  BY <1>5, <2>1, <2>2, <2>4, <2>5, CommitStatusLogs DEF CommitAnswer
<1>6. ASSUME NEW at \in ClockReads(h), CommitResubmit(h, at)
      PROVE  LogsInv'
  <2>1. txn[h] # None /\ at \in Nat /\ txn[h].op.kind = "resubmit"
    BY <1>6, ClockReadsType DEF CommitResubmit, Doing
  <2>2. "in_progress" \in Status /\ "in_progress" # txn[h].copy.status /\ << >> \in Seq(Event)
    BY <2>1 DEF LogsInv, ChangesStatus, Status, Open
  <2> QED  BY <1>6, <2>1, <2>2, InFlightType, CommitStatusLogs DEF CommitResubmit
<1> QED  BY <1>1, <1>2, <1>3, <1>4, <1>5, <1>6

LEMMA SweepCommitLogs == TypeInv /\ LogsInv /\ SweepCommit => LogsInv'
<1> SUFFICES ASSUME TypeInv, LogsInv, SweepCommit PROVE LogsInv'
  OBVIOUS
<1>1. ChangesStatus'
  BY DEF SweepCommit, LogsInv, ChangesStatus
<1>2. ASSUME NEW r \in RequestIds, Filed(r)'
      PROVE  LogsTell(history'[r], events'[r], rows'[r].status)
  <2>1. Filed(r)
    BY <1>2 DEF Picked, SweepCommit, Filed, TypeInv, InFlightFiled
  <2>2. rows'[r].status = rows[r].status /\ events'[r] = events[r]
    BY <2>1, SweepCommitKeeps DEF SweepCommit
  <2>3. LogsTell(history[r], events[r], rows[r].status)
    BY <2>1 DEF LogsInv
  <2>4. CASE Picked(r)
    <3> DEFINE notice == Notice(sweep.copies[r], sweep.at)
    <3>1. sweep.copies[r] \in Row /\ sweep.at \in Nat
      BY <2>4 DEF SweepCommit, TypeInv, TypeOK, Pass, Time, Picked, Maybe
    <3>2. notice \in Entry /\ ~IsStatusEntry(notice)
      BY <3>1, NoticedType DEF Notice, IsStatusEntry
    <3>3. history[r] \in Seq(Entry) /\ history'[r] = Append(history[r], notice)
      BY <2>4 DEF SweepCommit, TypeInv, TypeOK
    <3> DEFINE more == << notice >>
    <3> HIDE DEF notice
    <3>4. history'[r] = history[r] \o more /\ more \in Seq(Entry)
      BY <3>2, <3>3
    <3>5. \A k \in DOMAIN more : ~IsStatusEntry(more[k])
      BY <3>2
    <3> HIDE DEF more
    <3>6. NewestEntryTells(history[r] \o more, rows[r].status)
      BY <2>3, <3>3, <3>4, <3>5, EntryAppended DEF LogsTell
    <3> QED  BY <2>2, <2>3, <3>4, <3>6 DEF LogsTell
  <2>5. CASE ~Picked(r)
    BY <2>2, <2>3, <2>5 DEF SweepCommit
  <2> QED  BY <2>4, <2>5
<1> QED  BY <1>1, <1>2 DEF LogsInv

LEMMA NextLogs == TypeInv /\ AnswerInv /\ LogsInv /\ [Next]_vars => LogsInv'
<1> SUFFICES ASSUME TypeInv, AnswerInv, LogsInv, [Next]_vars PROVE LogsInv'
  OBVIOUS
<1>1. CASE SweepBegin \/ SweepAbort \/ Tick \/ UNCHANGED vars
  BY <1>1 DEF SweepBegin, SweepAbort, Tick, vars, LogsInv, ChangesStatus, LogsTell, Filed
<1> QED
  BY <1>1, CreatingLogs, BeginningLogs, CommittingLogs, SweepCommitLogs DEF Next, Sweeping

LEMMA LogsInvariant == Spec => [](TypeInv /\ LogsInv)
<1>1. Init => TypeInv /\ AnswerInv /\ LogsInv
  BY InitType, InitAnswer, InitLogs
<1>2. TypeInv /\ AnswerInv /\ LogsInv /\ [Next]_vars => (TypeInv /\ AnswerInv /\ LogsInv)'
  BY NextType, NextAnswer, NextLogs
<1> QED  BY <1>1, <1>2, PTL DEF Spec

(* The newest status entry of a request's history names its committed      *)
(* status, whatever handlers and sweep interleave: two commits on one row  *)
(* are ordered by its lock, and each records what it writes.               *)
THEOREM HistoryTruthful == Spec => []HistoryTellsStatus
<1>1. Spec => [](TypeInv /\ LogsInv)
  BY LogsInvariant
<1>2. TypeInv /\ LogsInv => HistoryTellsStatus
  <2> SUFFICES ASSUME TypeInv, LogsInv, NEW r \in RequestIds, Filed(r)
               PROVE  /\ Newest(history[r], IsStatusEntry) # None
                      /\ Newest(history[r], IsStatusEntry).new = rows[r].status
    BY DEF HistoryTellsStatus
  <2>1. history[r] \in Seq(Entry)
    BY DEF TypeInv, TypeOK
  <2>2. NewestEntryTells(history[r], rows[r].status)
    BY DEF LogsInv, LogsTell
  <2> QED  BY <2>1, <2>2, NewestEntry
<1> QED  BY <1>1, <1>2, PTL

(* The newest status event a partner was sent of a request, once there is  *)
(* one, carries its committed status, under the same interleavings.        *)
THEOREM EventsTruthful == Spec => []StatusEventsTellStatus
<1>1. Spec => [](TypeInv /\ LogsInv)
  BY LogsInvariant
<1>2. TypeInv /\ LogsInv => StatusEventsTellStatus
  <2> SUFFICES ASSUME TypeInv, LogsInv, NEW r \in RequestIds, Filed(r)
               PROVE  \/ Newest(events[r], IsStatusEvent) = None
                      \/ Newest(events[r], IsStatusEvent).status = rows[r].status
    BY DEF StatusEventsTellStatus
  <2>1. events[r] \in Seq(Event)
    BY DEF TypeInv, TypeOK
  <2>2. NeverAnnounced(events[r]) \/ NewestEventTells(events[r], rows[r].status)
    BY DEF LogsInv, LogsTell
  <2> QED  BY <2>1, <2>2, NewestEvent
<1> QED  BY <1>1, <1>2, PTL

-----------------------------------------------------------------------------
(* Handlers that do not overlap: any number of them, on any number of      *)
(* requests and whatever the sweep does beside them.  When no hour passes  *)
(* inside a transaction either, the workflow implements Lifecycle.  Both   *)
(* conditions are stated of the behaviour, not of the constants.           *)

(* No two handlers have the same request open.                             *)
Disjoint ==
  \A g, h \in Handlers :
    txn[g] # None /\ txn[h] # None /\ txn[g].req = txn[h].req => g = h

(* Every transaction ends in the hour it began in.                         *)
Instant ==
  /\ \A h \in Handlers : txn[h] # None => txn[h].since = now
  /\ sweep # None => sweep.at = now

(* Both hold of every behaviour of a table with a single handler whose     *)
(* transactions are not held for an hour: the instance TLC checks.         *)
THEOREM SingleHandler ==
  ASSUME \A g, h \in Handlers : g = h, MaxHold = 0
  PROVE  Spec => [](Disjoint /\ Instant)
<1>1. Disjoint
  BY DEF Disjoint
<1>2. Disjoint'
  BY DEF Disjoint
<1>3. Init => Instant
  BY DEF Init, Instant
<1>4. TypeInv /\ Instant /\ [Next]_vars => Instant'
  <2> SUFFICES ASSUME TypeInv, Instant, [Next]_vars PROVE Instant'
    OBVIOUS
  <2>1. CASE Creating
    BY <2>1 DEF Creating, CreateRouted, CreateAutoReplied, Create, Instant
  <2>2. CASE Beginning
    <3>1. PICK h \in Handlers, r \in RequestIds : \E op, actor : Begin(h, r, op, actor)
      BY <2>2 DEF Beginning, BeginAssign, BeginTransition, BeginAnswer, BeginResubmit, BeginPost
    <3>2. ASSUME NEW g \in Handlers, txn'[g] # None PROVE txn'[g].since = now'
      BY <3>1, <3>2 DEF Begin, Instant, TypeInv, TypeOK
    <3> QED  BY <3>1, <3>2 DEF Begin, Instant
  <2>3. CASE Committing
    <3>1. PICK h \in Handlers : txn' = [txn EXCEPT ![h] = None] /\ UNCHANGED <<sweep, now>>
      BY <2>3 DEF Committing, CommitAssign, CommitPost, CommitTransition, CommitAnswer,
                  CommitResubmit, CommitStatus, Commit, Abort
    <3> QED  BY <3>1 DEF Instant, TypeInv, TypeOK
  <2>4. CASE Sweeping
    BY <2>4 DEF Sweeping, SweepBegin, SweepCommit, SweepAbort, Instant
  <2>5. CASE Tick
    <3>1. \A h \in Handlers : txn[h] = None
      BY <2>5 DEF Tick, Instant, TypeInv, TypeOK
    <3>2. sweep = None
      BY <2>5 DEF Tick, Instant, TypeInv, TypeOK
    <3> QED  BY <2>5, <3>1, <3>2 DEF Tick, Instant
  <2>6. CASE UNCHANGED vars
    BY <2>6 DEF vars, Instant
  <2> QED  BY <2>1, <2>2, <2>3, <2>4, <2>5, <2>6 DEF Next
<1>5. Init => TypeInv
  BY InitType
<1>6. TypeInv /\ [Next]_vars => TypeInv'
  BY NextType
<1>7. Spec => []Instant
  BY <1>3, <1>4, <1>5, <1>6, PTL DEF Spec
<1>8. []Disjoint
  BY <1>1, PTL
<1> QED  BY <1>7, <1>8, PTL

-----------------------------------------------------------------------------
(* What a commit does                                                      *)

Parts == TypeInv /\ AnswerInv /\ LogsInv

LEMMA PartsHold == Spec => []Parts
<1>1. Init => Parts
  BY InitType, InitAnswer, InitLogs DEF Parts
<1>2. Parts /\ [Next]_vars => Parts'
  BY NextType, NextAnswer, NextLogs DEF Parts
<1> QED  BY <1>1, <1>2, PTL DEF Spec

(* A commit that leaves the clock and the answer alone.                    *)
Keeps(copy, after) ==
  /\ after.status = copy.status
  /\ after.answer = copy.answer
  /\ after.closed = copy.closed
  /\ after.paused = copy.paused
  /\ after.deadline = copy.deadline
  /\ after.warned = copy.warned
  /\ after.breached = copy.breached

(* A commit that changes the status, perhaps with an answer.               *)
Moves(copy, after, new, answer, at) ==
  /\ copy.status \in Open
  /\ new \in {"in_progress", "returned", "completed"} \ {copy.status}
  /\ after = ApplyStatus([copy EXCEPT !.answer = answer], new, at)

LEMMA CommitKinds ==
  ASSUME Parts, Committing
  PROVE  \E h \in Handlers :
           /\ txn[h] # None
           /\ \/ Abort(h)
              \/ \E after \in Row :
                   /\ \E entry, published : Commit(h, after, entry, published)
                   /\ Keeps(txn[h].copy, after)
              \/ \E after \in Row, answer \in Maybe(Answer), new \in Status, at \in ClockReads(h) :
                   /\ \E entry, published : Commit(h, after, entry, published)
                   /\ Moves(txn[h].copy, after, new, answer, at)
<1>1. PICK h \in Handlers :
        \/ CommitAssign(h)
        \/ CommitPost(h)
        \/ Abort(h)
        \/ \E at \in ClockReads(h) :
             CommitTransition(h, at) \/ CommitAnswer(h, at) \/ CommitResubmit(h, at)
  BY DEF Committing
<1>2. txn[h] # None
  BY <1>1 DEF CommitAssign, CommitPost, CommitTransition, CommitAnswer, CommitResubmit,
              Doing, Abort
<1> DEFINE copy == txn[h].copy
<1>3. /\ txn[h] \in Txn /\ copy \in Row /\ copy.status \in Open
      /\ copy.answer \in Maybe(Answer)
  BY <1>2, InFlightType DEF Parts, AnswerInv, CopiesInFlight, Row
<1>4. CASE CommitAssign(h)
  <2> DEFINE after == [copy EXCEPT !.assigned = txn[h].op.to]
  <2>1. after \in Row
    BY <1>3, <1>4 DEF CommitAssign, Doing, Txn, Op, Row, Maybe
  <2>2. Keeps(copy, after)
    BY <1>3 DEF Keeps, Row
  <2>3. \E entry, published : Commit(h, after, entry, published)
    BY <1>4 DEF CommitAssign
  <2> QED  BY <1>2, <2>1, <2>2, <2>3
<1>5. CASE CommitPost(h)
  BY <1>2, <1>3, <1>5 DEF CommitPost, Keeps
<1>6. ASSUME NEW at \in ClockReads(h), NEW new \in {"in_progress", "returned", "completed"},
             NEW answer \in Maybe(Answer), NEW published,
             new # copy.status,
             CommitStatus(h, [copy EXCEPT !.answer = answer], new, at, published)
      PROVE  \E after \in Row :
               /\ \E entry, more : Commit(h, after, entry, more)
               /\ Moves(copy, after, new, answer, at)
  <2> DEFINE after == ApplyStatus([copy EXCEPT !.answer = answer], new, at)
  <2>1. [copy EXCEPT !.answer = answer] \in Row /\ new \in Status /\ at \in Nat
    BY <1>3, ClockReadsType DEF Parts, Row, Status, Open, Closed
  <2>2. after \in Row
    BY <2>1, ApplyStatusType
  <2>3. \E entry, more : Commit(h, after, entry, more)
    BY <1>6 DEF CommitStatus
  <2>4. Moves(copy, after, new, answer, at)
    BY <1>3, <1>6 DEF Moves
  <2> QED  BY <2>2, <2>3, <2>4
<1>7. [copy EXCEPT !.answer = copy.answer] = copy
  BY <1>3 DEF Row
<1>8. ASSUME NEW at \in ClockReads(h), CommitTransition(h, at)
      PROVE  \E after \in Row, answer \in Maybe(Answer), new \in Status :
               /\ \E entry, published : Commit(h, after, entry, published)
               /\ Moves(copy, after, new, answer, at)
  <2> DEFINE new == txn[h].op.to
  <2>1. new \in {"in_progress", "returned"} /\ new # copy.status
    BY <1>2, <1>8 DEF CommitTransition, Doing, Parts, AnswerInv, CopiesInFlight, LogsInv,
                      ChangesStatus
  <2>2. CommitStatus(h, [copy EXCEPT !.answer = copy.answer], new, at, << >>)
    BY <1>7, <1>8 DEF CommitTransition
  <2> HIDE DEF new
  <2>3. new \in {"in_progress", "returned", "completed"}
    BY <2>1
  <2>4. \E after \in Row :
          /\ \E entry, more : Commit(h, after, entry, more)
          /\ Moves(copy, after, new, copy.answer, at)
    BY <1>3, <1>6, <2>1, <2>2, <2>3
  <2> QED  BY <1>3, <2>1, <2>4 DEF Status, Open
<1>9. ASSUME NEW at \in ClockReads(h), CommitAnswer(h, at)
      PROVE  \E after \in Row, answer \in Maybe(Answer), new \in Status :
               /\ \E entry, published : Commit(h, after, entry, published)
               /\ Moves(copy, after, new, answer, at)
  <2> DEFINE answer == [by |-> txn[h].actor, at |-> at]
  <2>1. txn[h].op.kind = "answer" /\ txn[h].actor \in Assignees
    BY <1>3, <1>9 DEF CommitAnswer, Doing, Txn
  <2>2. at \in Nat
    BY ClockReadsType DEF Parts
  <2>3. answer \in Maybe(Answer)
    BY <2>1, <2>2 DEF Answer, Maybe, Time
  <2>4. "completed" # copy.status
    BY <1>3 DEF Open
  <2>5. \E published : CommitStatus(h, [copy EXCEPT !.answer = answer], "completed", at, published)
    BY <1>9 DEF CommitAnswer
  <2> HIDE DEF answer
  <2>6. \E after \in Row :
          /\ \E entry, more : Commit(h, after, entry, more)
          /\ Moves(copy, after, "completed", answer, at)
    BY <1>6, <2>3, <2>4, <2>5
  <2> QED  BY <2>3, <2>6 DEF Status, Closed
<1>10. ASSUME NEW at \in ClockReads(h), CommitResubmit(h, at)
      PROVE  \E after \in Row, answer \in Maybe(Answer), new \in Status :
               /\ \E entry, published : Commit(h, after, entry, published)
               /\ Moves(copy, after, new, answer, at)
  <2>1. copy.status = "returned"
    BY <1>2, <1>10 DEF CommitResubmit, Doing, Parts, LogsInv, ChangesStatus
  <2>2. CommitStatus(h, [copy EXCEPT !.answer = copy.answer], "in_progress", at, << >>)
    BY <1>7, <1>10 DEF CommitResubmit
  <2>3. \E after \in Row :
          /\ \E entry, more : Commit(h, after, entry, more)
          /\ Moves(copy, after, "in_progress", copy.answer, at)
    BY <1>3, <1>6, <2>1, <2>2
  <2> QED  BY <1>3, <2>3 DEF Status, Open
<1>11. CASE \E at \in ClockReads(h) :
              CommitTransition(h, at) \/ CommitAnswer(h, at) \/ CommitResubmit(h, at)
  BY <1>2, <1>8, <1>9, <1>10, <1>11
<1> QED  BY <1>1, <1>2, <1>4, <1>5, <1>11
-----------------------------------------------------------------------------
(* A handler's copy is current, but for the markers of the sweep           *)

CopyIsCurrent ==
  \A h \in Handlers : txn[h] # None =>
    LET copy == txn[h].copy
        row  == rows[txn[h].req]
    IN /\ copy.status = row.status
       /\ copy.answer = row.answer
       /\ copy.closed = row.closed
       /\ copy.assigned = row.assigned
       /\ copy.paused = row.paused
       /\ copy.deadline = row.deadline

SerialInv == Parts /\ CopyIsCurrent /\ PausedIffReturned

LEMMA SerialTypes == SerialInv => TypeInv /\ TypeOK
BY DEF SerialInv, Parts, TypeInv

(* What a commit leaves of its row: every column as the handler has it, the *)
(* two markers merged with what the sweep wrote meanwhile.                  *)
LEMMA CommitWrites ==
  ASSUME SerialInv, NEW h \in Handlers, txn[h] # None,
         NEW after \in Row, NEW entry, NEW published,
         Commit(h, after, entry, published)
  PROVE  LET r    == txn[h].req
             copy == txn[h].copy
         IN /\ r \in RequestIds /\ Filed(r) /\ rows[r] \in Row /\ copy \in Row
            /\ rows'[r] \in Row
            /\ rows'[r].status = after.status
            /\ rows'[r].answer = after.answer
            /\ rows'[r].closed = after.closed
            /\ rows'[r].assigned = after.assigned
            /\ rows'[r].paused = after.paused
            /\ rows'[r].deadline = after.deadline
            /\ rows'[r].warned = Column(rows[r].warned, copy.warned, after.warned)
            /\ rows'[r].breached = Column(rows[r].breached, copy.breached, after.breached)
            /\ \A q \in RequestIds \ {r} : rows'[q] = rows[q]
            /\ txn' = [txn EXCEPT ![h] = None]
            /\ UNCHANGED <<sweep, now>>
<1> DEFINE r       == txn[h].req
           copy    == txn[h].copy
           written == WriteBack(rows[r], copy, after)
<1>1. r \in RequestIds /\ Filed(r) /\ rows[r] \in Row /\ copy \in Row
  BY SerialTypes, InFlightType DEF TypeInv, InFlightFiled
<1>2. written \in Row
  BY <1>1, WriteBackType
<1>3. /\ rows' = [rows EXCEPT ![r] = written]
      /\ txn' = [txn EXCEPT ![h] = None]
      /\ UNCHANGED <<sweep, now>>
  BY DEF Commit
<1>4. rows'[r] = written /\ \A q \in RequestIds \ {r} : rows'[q] = rows[q]
  BY <1>1, <1>3, SerialTypes DEF TypeOK
<1>5. /\ copy.status = rows[r].status
      /\ copy.answer = rows[r].answer
      /\ copy.closed = rows[r].closed
      /\ copy.assigned = rows[r].assigned
      /\ copy.paused = rows[r].paused
      /\ copy.deadline = rows[r].deadline
  BY DEF SerialInv, CopyIsCurrent
<1>6. /\ written.status = after.status
      /\ written.answer = after.answer
      /\ written.closed = after.closed
      /\ written.assigned = after.assigned
      /\ written.paused = after.paused
      /\ written.deadline = after.deadline
      /\ written.warned = Column(rows[r].warned, copy.warned, after.warned)
      /\ written.breached = Column(rows[r].breached, copy.breached, after.breached)
  BY <1>5 DEF WriteBack, Column
<1> HIDE DEF written
<1> QED  BY <1>1, <1>2, <1>3, <1>4, <1>6

(* The six columns a change of status sets, on a copy that was open.       *)
LEMMA MovesWrites ==
  ASSUME NEW copy \in Row, NEW answer \in Maybe(Answer), NEW new \in Status, NEW at \in Nat,
         NEW after, Moves(copy, after, new, answer, at)
  PROVE  LET leaving   == copy.status = "returned"
             remaining == IF leaving /\ copy.paused # None
                          THEN WorkingTimeBetween(copy.paused, copy.deadline) ELSE 0
         IN /\ after.status = new
            /\ after.answer = answer
            /\ after.assigned = copy.assigned
            /\ after.closed = IF new = "completed" THEN at ELSE copy.closed
            /\ after.paused = IF leaving THEN None
                              ELSE IF new = "returned" /\ copy.paused = None
                                   THEN at ELSE copy.paused
            /\ after.deadline = IF remaining > 0 THEN at + remaining ELSE copy.deadline
            /\ after.warned = IF remaining > 0 THEN None ELSE copy.warned
            /\ after.breached = IF remaining > 0 THEN None ELSE copy.breached
<1> DEFINE base == [copy EXCEPT !.answer = answer]
<1>1. /\ base \in Row
      /\ base.status = copy.status /\ base.answer = answer /\ base.assigned = copy.assigned
      /\ base.closed = copy.closed /\ base.paused = copy.paused
      /\ base.deadline = copy.deadline
      /\ base.warned = copy.warned /\ base.breached = copy.breached
  BY DEF Row
<1>2. after = ApplyStatus(base, new, at)
  BY DEF Moves
<1>3. new # copy.status /\ new \in {"in_progress", "returned", "completed"}
  BY DEF Moves
<1>4. new \in Closed <=> new = "completed"
  BY <1>3 DEF Closed
<1> HIDE DEF base
<1> QED  BY <1>1, <1>2, <1>3, <1>4 DEF ApplyStatus, AddWorkingTime, Row

(* That a closed row stays and, with it, the two parts of the invariant a  *)
(* commit could break.                                                     *)
LEMMA CommittingSerial ==
  SerialInv /\ Disjoint /\ Committing
    => CopyIsCurrent' /\ PausedIffReturned' /\ ClosedStays
<1> SUFFICES ASSUME SerialInv, Disjoint, Committing
             PROVE  /\ CopyIsCurrent' /\ PausedIffReturned'
                    /\ ClosedStays
  OBVIOUS
<1>1. PICK h \in Handlers :
        /\ txn[h] # None
        /\ \/ Abort(h)
           \/ \E after \in Row :
                /\ \E entry, published : Commit(h, after, entry, published)
                /\ Keeps(txn[h].copy, after)
           \/ \E after \in Row, answer \in Maybe(Answer), new \in Status, at \in ClockReads(h) :
                /\ \E entry, published : Commit(h, after, entry, published)
                /\ Moves(txn[h].copy, after, new, answer, at)
  BY CommitKinds DEF SerialInv
<1> DEFINE r    == txn[h].req
           copy == txn[h].copy
<1>2. /\ r \in RequestIds /\ copy \in Row /\ rows[r] \in Row
      /\ copy.status \in Open
      /\ copy.status = rows[r].status /\ copy.answer = rows[r].answer
      /\ copy.assigned = rows[r].assigned /\ copy.paused = rows[r].paused
  BY <1>1, SerialTypes, InFlightType
     DEF SerialInv, CopyIsCurrent, Parts, AnswerInv, CopiesInFlight
<1>3. copy.paused # None <=> copy.status = "returned"
  BY <1>1, <1>2, SerialTypes DEF SerialInv, PausedIffReturned, TypeInv, InFlightFiled
<1>4. /\ txn' = [txn EXCEPT ![h] = None]
      /\ \A q \in RequestIds \ {r} : rows'[q] = rows[q]
  BY <1>1, CommitWrites DEF Abort
<1>5. CopyIsCurrent'
  <2> SUFFICES ASSUME NEW g \in Handlers, txn'[g] # None
               PROVE  /\ txn'[g] = txn[g] /\ rows'[txn[g].req] = rows[txn[g].req]
                      /\ txn[g] # None
    BY DEF SerialInv, CopyIsCurrent
  <2>1. g # h /\ txn'[g] = txn[g] /\ txn[g] # None
    BY <1>4, SerialTypes DEF TypeOK
  <2>2. txn[g].req # r /\ txn[g].req \in RequestIds
    BY <1>1, <2>1, SerialTypes, InFlightType DEF Disjoint
  <2> QED  BY <1>4, <2>1, <2>2
<1>6. ClosedStays
  <2>1. ~Has(r, Closed)
    BY <1>2 DEF Has, Open, Closed
  <2> QED  BY <1>4, <2>1 DEF ClosedStays
<1>7. rows'[r].paused # None <=> rows'[r].status = "returned"
  <2>1. CASE Abort(h)
    BY <1>2, <1>3, <2>1 DEF Abort
  <2>2. ASSUME NEW after \in Row, NEW entry, NEW published,
               Commit(h, after, entry, published), Keeps(copy, after)
        PROVE  rows'[r].paused # None <=> rows'[r].status = "returned"
    BY <1>1, <1>2, <1>3, <2>2, CommitWrites DEF Keeps
  <2>3. ASSUME NEW after \in Row, NEW answer \in Maybe(Answer), NEW new \in Status,
               NEW at \in ClockReads(h), NEW entry, NEW published,
               Commit(h, after, entry, published), Moves(copy, after, new, answer, at)
        PROVE  rows'[r].paused # None <=> rows'[r].status = "returned"
    <3>1. at \in Nat /\ at # None
      BY ClockReadsType, SerialTypes, NullAssumption
    <3>2. /\ after.status = new /\ after.answer = answer
          /\ after.paused = IF copy.status = "returned" THEN None
                            ELSE IF new = "returned" /\ copy.paused = None
                                 THEN at ELSE copy.paused
      BY <1>2, <2>3, <3>1, MovesWrites
    <3>3. rows'[r].status = new /\ rows'[r].answer = answer /\ rows'[r].paused = after.paused
      BY <1>1, <2>3, <3>2, CommitWrites
    <3>4. new # copy.status
      BY <2>3 DEF Moves
    <3> QED  BY <1>3, <3>1, <3>2, <3>3, <3>4
  <2> QED  BY <1>1, <2>1, <2>2, <2>3
<1>8. PausedIffReturned'
  BY <1>4, <1>7 DEF SerialInv, PausedIffReturned, Filed
<1> QED  BY <1>5, <1>6, <1>8

LEMMA BeginningSerial ==
  SerialInv /\ Beginning
    => CopyIsCurrent' /\ PausedIffReturned' /\ ClosedStays
<1> SUFFICES ASSUME SerialInv, NEW h \in Handlers, NEW r \in RequestIds,
                    \/ \E to \in Assignees : BeginAssign(h, r, to)
                    \/ \E to \in Status, a \in Assignees : BeginTransition(h, r, to, a)
                    \/ \E n \in 0 .. MaxFiles, a \in Assignees : BeginAnswer(h, r, n, a)
                    \/ BeginResubmit(h, r)
                    \/ \E what \in {"message", "file"}, a \in Actors : BeginPost(h, r, what, a)
             PROVE  /\ CopyIsCurrent' /\ PausedIffReturned'
                    /\ ClosedStays
  BY DEF Beginning
<1>1. PICK op, actor : Begin(h, r, op, actor)
  <2>1. CASE \E to \in Assignees : BeginAssign(h, r, to)
    BY <2>1 DEF BeginAssign
  <2>2. CASE \E to \in Status, a \in Assignees : BeginTransition(h, r, to, a)
    BY <2>2 DEF BeginTransition
  <2>3. CASE \E n \in 0 .. MaxFiles, a \in Assignees : BeginAnswer(h, r, n, a)
    BY <2>3 DEF BeginAnswer
  <2>4. CASE BeginResubmit(h, r)
    BY <2>4 DEF BeginResubmit
  <2>5. CASE \E what \in {"message", "file"}, a \in Actors : BeginPost(h, r, what, a)
    BY <2>5 DEF BeginPost
  <2> QED  BY <2>1, <2>2, <2>3, <2>4, <2>5
<1>2. /\ txn' = [txn EXCEPT ![h] = [req |-> r, op |-> op, actor |-> actor,
                                    copy |-> rows[r], since |-> now]]
      /\ rows' = rows
  BY <1>1 DEF Begin
<1>3. CopyIsCurrent'
  BY <1>2, SerialTypes DEF SerialInv, CopyIsCurrent, TypeOK
<1> QED
  BY <1>2, <1>3 DEF SerialInv, PausedIffReturned, Filed, ClosedStays

LEMMA CreatingSerial ==
  SerialInv /\ Creating
    => CopyIsCurrent' /\ PausedIffReturned' /\ ClosedStays
<1> SUFFICES ASSUME SerialInv, Creating
             PROVE  /\ CopyIsCurrent' /\ PausedIffReturned'
                    /\ ClosedStays
  OBVIOUS
<1>1. PICK r \in RequestIds, row \in {NewRow(a) : a \in Assignees} \cup {AutoReply} :
        /\ ~Filed(r)
        /\ rows' = [rows EXCEPT ![r] = row]
        /\ UNCHANGED txn
  BY DEF Creating, CreateRouted, CreateAutoReplied, Create
<1>2. rows'[r] = row /\ \A q \in RequestIds \ {r} : rows'[q] = rows[q]
  BY <1>1, SerialTypes DEF TypeOK
<1>3. \A h \in Handlers : txn[h] # None => txn[h].req # r /\ txn[h].req \in RequestIds
  BY <1>1, SerialTypes, InFlightType DEF TypeInv, InFlightFiled
<1>4. CopyIsCurrent'
  BY <1>1, <1>2, <1>3 DEF SerialInv, CopyIsCurrent
<1>5. row.paused = None /\ row.status \in {"in_progress", "completed"}
  <2>1. CASE row = AutoReply
    BY <2>1, SerialTypes, NewRowType DEF AutoReply, NewRow, Row, Maybe
  <2>2. CASE row \in {NewRow(a) : a \in Assignees}
    BY <2>2 DEF NewRow
  <2> QED  BY <1>1, <2>1, <2>2
<1>6. PausedIffReturned'
  BY <1>2, <1>5 DEF SerialInv, PausedIffReturned, Filed
<1> QED  BY <1>1, <1>2, <1>4, <1>6 DEF ClosedStays, Has

LEMMA SweepSerial ==
  SerialInv /\ SweepCommit
    => CopyIsCurrent' /\ PausedIffReturned' /\ ClosedStays
<1> SUFFICES ASSUME SerialInv, SweepCommit
             PROVE  /\ CopyIsCurrent' /\ PausedIffReturned'
                    /\ ClosedStays
  OBVIOUS
<1>1. \A r \in RequestIds : Filed(r) =>
        /\ rows'[r].status = rows[r].status
        /\ rows'[r].answer = rows[r].answer
        /\ rows'[r].closed = rows[r].closed
        /\ rows'[r].assigned = rows[r].assigned
        /\ rows'[r].paused = rows[r].paused
        /\ rows'[r].deadline = rows[r].deadline
  BY SerialTypes, SweepCommitKeeps
<1>2. \A r \in RequestIds : Filed(r)' => Filed(r)
  BY SerialTypes DEF Picked, SweepCommit, Filed, TypeInv, InFlightFiled
<1>3. \A h \in Handlers : txn[h] # None => txn[h].req \in RequestIds /\ Filed(txn[h].req)
  BY SerialTypes, InFlightType DEF TypeInv, InFlightFiled
<1>4. CopyIsCurrent'
  BY <1>1, <1>3 DEF SweepCommit, SerialInv, CopyIsCurrent
<1>5. PausedIffReturned'
  BY <1>1, <1>2 DEF SerialInv, PausedIffReturned
<1> QED  BY <1>1, <1>4, <1>5 DEF ClosedStays, Has

LEMMA InitSerial == Init => SerialInv
<1> SUFFICES ASSUME Init PROVE SerialInv
  OBVIOUS
<1>1. Parts /\ CopyIsCurrent
  BY InitType, InitAnswer, InitLogs DEF Init, Parts, CopyIsCurrent
<1>2. ASSUME NEW r \in RequestIds, Filed(r)
      PROVE  rows[r].paused = None /\ rows[r].status # "returned"
  <2>1. PICK s \in Legacy : rows[r] = LegacyRow(s)
    BY <1>2 DEF Init, Maybe, Filed
  <2> QED  BY <2>1, RequestsAssumption DEF LegacyRow
<1> QED  BY <1>1, <1>2 DEF SerialInv, PausedIffReturned

LEMMA NextSerial ==
  SerialInv /\ Disjoint /\ [Next]_vars => SerialInv' /\ [ClosedStays]_vars
<1> SUFFICES ASSUME SerialInv, Disjoint, [Next]_vars
             PROVE  /\ CopyIsCurrent' /\ PausedIffReturned'
                    /\ [ClosedStays]_vars
  BY NextType, NextAnswer, NextLogs DEF SerialInv, Parts
<1>1. CASE SweepBegin \/ SweepAbort \/ Tick \/ UNCHANGED vars
  BY <1>1 DEF SweepBegin, SweepAbort, Tick, vars, SerialInv, CopyIsCurrent,
              PausedIffReturned, Filed, ClosedStays
<1> QED
  BY <1>1, CreatingSerial, BeginningSerial, CommittingSerial, SweepSerial DEF Next, Sweeping

LEMMA SerialInvariant == Spec /\ []Disjoint => []SerialInv
BY InitSerial, NextSerial, PTL DEF Spec

(* assert_open: while no two handlers overlap on a row, a closed request   *)
(* keeps its status, its answer, its closing time and its handler.         *)
THEOREM SerialClosedIsFinal == Spec /\ []Disjoint => ClosedIsFinal
<1>1. Spec /\ []Disjoint => []SerialInv
  BY SerialInvariant
<1>2. SerialInv /\ Disjoint /\ [Next]_vars => [ClosedStays]_vars
  BY NextSerial
<1> QED  BY <1>1, <1>2, PTL DEF Spec, ClosedIsFinal

(* _apply_status: the SLA clock is stopped exactly while the request waits *)
(* for the student, through every path out of `returned`.                  *)
THEOREM SerialPausedIffReturned == Spec /\ []Disjoint => []PausedIffReturned
<1>1. Spec /\ []Disjoint => []SerialInv
  BY SerialInvariant
<1>2. SerialInv => PausedIffReturned
  BY DEF SerialInv
<1> QED  BY <1>1, <1>2, PTL

-----------------------------------------------------------------------------
(* No hour passes inside a transaction                                     *)
(*                                                                         *)
(* A sweep that runs beside a handler writes markers the handler has not   *)
(* seen.  They stay true because the deadline they were written for does   *)
(* not move under them: a row the sweep picked was running this very hour, *)
(* so a pause its handler ends was begun this hour, and what _apply_status *)
(* measures and adds again is the same number of hours.                    *)

PausedInPast ==
  \A r \in RequestIds : Filed(r) /\ rows[r].paused # None => rows[r].paused <= now

SweepIsCurrent ==
  sweep # None => \A r \in RequestIds : sweep.copies[r] # None =>
    /\ rows[r].deadline = sweep.copies[r].deadline
    /\ \/ sweep.copies[r].deadline < sweep.at
       \/ sweep.copies[r].deadline < sweep.at + WarnBefore
    /\ rows[r].paused \in {None, now}

MarkersCurrent ==
  \A h \in Handlers : txn[h] # None =>
    LET copy == txn[h].copy
        row  == rows[txn[h].req]
    IN \/ copy.warned = row.warned /\ copy.breached = row.breached
       \/ copy.paused \in {None, now}

TimedInv == PausedInPast /\ SweepIsCurrent /\ MarkersCurrent /\ MarkersMatchDeadline

(* A change of status, seen from the row.  The deadline stays, or it moves *)
(* past a pause that began in an earlier hour, without the old markers.    *)
Moved(row, after) ==
  /\ row.status \in Open
  /\ after.status \in {"in_progress", "returned", "completed"} \ {row.status}
  /\ after.closed = IF after.status = "completed" THEN now ELSE row.closed
  /\ after.paused = IF after.status = "returned" THEN now ELSE None
  /\ \/ /\ after.deadline = row.deadline
        /\ row.status = "returned" => row.paused = now \/ row.deadline <= row.paused
        /\ after.warned \in {None, row.warned}
        /\ after.breached \in {None, row.breached}
     \/ /\ row.status = "returned" /\ row.paused # now /\ row.deadline > row.paused
        /\ after.deadline = now + (row.deadline - row.paused)
        /\ after.warned = None /\ after.breached = None

Same(row, after) ==
  /\ after.status = row.status
  /\ after.closed = row.closed
  /\ after.paused = row.paused
  /\ after.deadline = row.deadline
  /\ after.warned = row.warned
  /\ after.breached = row.breached

LEMMA CommitEffect ==
  ASSUME SerialInv, TimedInv, Instant, Committing
  PROVE  \E h \in Handlers :
           LET r == txn[h].req
           IN /\ txn[h] # None
              /\ txn' = [txn EXCEPT ![h] = None]
              /\ UNCHANGED <<sweep, now>>
              /\ r \in RequestIds /\ rows[r] \in Row /\ rows'[r] \in Row
              /\ \A q \in RequestIds \ {r} : rows'[q] = rows[q]
              /\ Same(rows[r], rows'[r]) \/ Moved(rows[r], rows'[r])
<1>1. PICK h \in Handlers :
        /\ txn[h] # None
        /\ \/ Abort(h)
           \/ \E after \in Row :
                /\ \E entry, published : Commit(h, after, entry, published)
                /\ Keeps(txn[h].copy, after)
           \/ \E after \in Row, answer \in Maybe(Answer), new \in Status, at \in ClockReads(h) :
                /\ \E entry, published : Commit(h, after, entry, published)
                /\ Moves(txn[h].copy, after, new, answer, at)
  BY CommitKinds DEF SerialInv
<1> DEFINE r    == txn[h].req
           copy == txn[h].copy
           row  == rows[r]
<1>2. /\ r \in RequestIds /\ copy \in Row /\ row \in Row
      /\ copy.status \in Open
      /\ copy.status = row.status /\ copy.closed = row.closed
      /\ copy.paused = row.paused /\ copy.deadline = row.deadline
  BY <1>1, SerialTypes, InFlightType
     DEF SerialInv, CopyIsCurrent, Parts, AnswerInv, CopiesInFlight
<1>3. row.paused # None <=> row.status = "returned"
  BY <1>1, <1>2, SerialTypes DEF SerialInv, PausedIffReturned, TypeInv, InFlightFiled
<1>4. /\ now \in Nat /\ row.deadline \in Nat /\ row.paused \in Maybe(Nat)
      /\ row.paused # None => row.paused <= now
  BY <1>1, <1>2, SerialTypes DEF TypeOK, Row, Time, TimedInv, PausedInPast, TypeInv, InFlightFiled
<1>6. ASSUME NEW after \in Row, NEW entry, NEW published,
             Commit(h, after, entry, published), Keeps(copy, after)
      PROVE  Same(row, rows'[r]) /\ rows'[r] \in Row
  BY <1>1, <1>2, <1>6, CommitWrites DEF Keeps, Same, Column
<1>7. ASSUME NEW after \in Row, NEW answer \in Maybe(Answer), NEW new \in Status,
             NEW at \in ClockReads(h), NEW entry, NEW published,
             Commit(h, after, entry, published), Moves(copy, after, new, answer, at)
      PROVE  Moved(row, rows'[r]) /\ rows'[r] \in Row
  <2>1. at = now
    BY <1>1, <1>4 DEF ClockReads, Instant
  <2> DEFINE remaining == IF row.status = "returned" /\ row.paused # None
                          THEN WorkingTimeBetween(row.paused, row.deadline) ELSE 0
             done      == rows'[r]
  <2>2. /\ after.status = new
        /\ after.closed = IF new = "completed" THEN now ELSE row.closed
        /\ after.paused = IF row.status = "returned" THEN None
                          ELSE IF new = "returned" /\ row.paused = None THEN now ELSE row.paused
        /\ after.deadline = IF remaining > 0 THEN now + remaining ELSE row.deadline
        /\ after.warned = IF remaining > 0 THEN None ELSE copy.warned
        /\ after.breached = IF remaining > 0 THEN None ELSE copy.breached
    BY <1>2, <1>4, <1>7, <2>1, MovesWrites
  <2>3. /\ done \in Row
        /\ done.status = new /\ done.closed = after.closed
        /\ done.paused = after.paused /\ done.deadline = after.deadline
        /\ done.warned = Column(row.warned, copy.warned, after.warned)
        /\ done.breached = Column(row.breached, copy.breached, after.breached)
    BY <1>1, <1>7, <2>2, CommitWrites
  <2>4. new \in {"in_progress", "returned", "completed"} \ {row.status}
    BY <1>2, <1>7 DEF Moves
  <2>5. done.paused = IF done.status = "returned" THEN now ELSE None
    BY <1>3, <2>2, <2>3, <2>4
  <2>6. done.closed = IF done.status = "completed" THEN now ELSE row.closed
    BY <2>2, <2>3
  <2>7. CASE remaining > 0
    <3>1. row.status = "returned" /\ row.paused \in Nat /\ row.deadline > row.paused
          /\ remaining = row.deadline - row.paused
      BY <1>4, <2>7 DEF WorkingTimeBetween, Maybe
    <3>2. done.deadline = now + (row.deadline - row.paused)
      BY <2>2, <2>3, <2>7, <3>1
    <3>3. done.warned \in {None, row.warned} /\ done.breached \in {None, row.breached}
      BY <2>2, <2>3, <2>7 DEF Column
    <3>4. CASE row.paused = now
      <4>1. done.deadline = row.deadline
        BY <1>4, <3>1, <3>2, <3>4
      <4> QED  BY <1>2, <2>3, <2>4, <2>5, <2>6, <3>3, <3>4, <4>1 DEF Moved
    <3>5. CASE row.paused # now
      <4>1. copy.warned = row.warned /\ copy.breached = row.breached
        BY <1>1, <1>2, <1>4, <3>1, <3>5, NullAssumption DEF TimedInv, MarkersCurrent
      <4>2. done.warned = None /\ done.breached = None
        BY <2>2, <2>3, <2>7, <4>1 DEF Column
      <4> QED  BY <1>2, <2>3, <2>4, <2>5, <2>6, <3>1, <3>2, <3>5, <4>2 DEF Moved
    <3> QED  BY <3>4, <3>5
  <2>8. CASE ~(remaining > 0)
    <3>1. done.deadline = row.deadline
      BY <2>2, <2>3, <2>8
    <3>2. done.warned = row.warned /\ done.breached = row.breached
      BY <2>2, <2>3, <2>8 DEF Column
    <3>3. row.status = "returned" => row.deadline <= row.paused
      BY <1>3, <1>4, <2>8 DEF WorkingTimeBetween, Maybe
    <3> QED  BY <1>2, <2>3, <2>4, <2>5, <2>6, <3>1, <3>2, <3>3 DEF Moved
  <2> QED  BY <2>7, <2>8
<1>8. /\ txn' = [txn EXCEPT ![h] = None]
      /\ UNCHANGED <<sweep, now>>
      /\ \A q \in RequestIds \ {r} : rows'[q] = rows[q]
  BY <1>1, CommitWrites DEF Abort
<1>9. rows'[r] \in Row /\ (Same(row, rows'[r]) \/ Moved(row, rows'[r]))
  <2>1. CASE Abort(h)
    BY <1>2, <2>1 DEF Abort, Same
  <2> QED  BY <1>1, <1>6, <1>7, <2>1
<1> HIDE DEF r, copy, row
<1> QED  BY <1>1, <1>2, <1>8, <1>9 DEF r, row

LEMMA CommittingTimed ==
  SerialInv /\ TimedInv /\ Disjoint /\ Instant /\ Committing => TimedInv'
<1> SUFFICES ASSUME SerialInv, TimedInv, Disjoint, Instant, Committing PROVE TimedInv'
  OBVIOUS
<1>1. PICK h \in Handlers :
        LET r == txn[h].req
        IN /\ txn[h] # None
           /\ txn' = [txn EXCEPT ![h] = None]
           /\ UNCHANGED <<sweep, now>>
           /\ r \in RequestIds /\ rows[r] \in Row /\ rows'[r] \in Row
           /\ \A q \in RequestIds \ {r} : rows'[q] = rows[q]
           /\ Same(rows[r], rows'[r]) \/ Moved(rows[r], rows'[r])
  BY CommitEffect
<1> DEFINE r == txn[h].req
<1>2. /\ Filed(r) /\ now \in Nat /\ now # None
      /\ rows[r].deadline \in Nat /\ rows[r].paused \in Maybe(Nat)
      /\ rows[r].warned \in Maybe(Nat) /\ rows[r].breached \in Maybe(Nat)
  BY <1>1, NullAssumption, SerialTypes DEF TypeOK, Row, Time, TypeInv, InFlightFiled
<1>3. rows[r].paused # None <=> rows[r].status = "returned"
  BY <1>1, <1>2 DEF SerialInv, PausedIffReturned
<1>4. ASSUME rows[r].paused \in {None, now}
      PROVE  rows'[r].deadline = rows[r].deadline /\ rows'[r].paused \in {None, now}
  BY <1>1, <1>2, <1>3, <1>4 DEF Same, Moved
<1>5. PausedInPast'
  <2>1. rows'[r].paused # None => rows'[r].paused <= now
    BY <1>1, <1>2 DEF Same, Moved, TimedInv, PausedInPast
  <2> QED  BY <1>1, <2>1 DEF TimedInv, PausedInPast, Filed
<1>6. SweepIsCurrent'
  BY <1>1, <1>4 DEF TimedInv, SweepIsCurrent
<1>7. MarkersCurrent'
  <2> SUFFICES ASSUME NEW g \in Handlers, txn'[g] # None
               PROVE  /\ txn'[g] = txn[g] /\ rows'[txn[g].req] = rows[txn[g].req]
                      /\ txn[g] # None
    BY <1>1 DEF TimedInv, MarkersCurrent
  <2>1. g # h /\ txn'[g] = txn[g] /\ txn[g] # None
    BY <1>1, SerialTypes DEF TypeOK
  <2>2. txn[g].req # r /\ txn[g].req \in RequestIds
    BY <1>1, <2>1, SerialTypes, InFlightType DEF Disjoint
  <2> QED  BY <1>1, <2>1, <2>2
<1>8. MarkersMatchDeadline'
  <2>1. /\ rows'[r].breached # None => rows'[r].deadline < rows'[r].breached
        /\ rows'[r].warned # None => rows'[r].deadline < rows'[r].warned + WarnBefore
                                      \/ rows'[r].deadline < rows'[r].warned
    BY <1>1, <1>2 DEF Same, Moved, TimedInv, MarkersMatchDeadline
  <2> QED  BY <1>1, <2>1 DEF TimedInv, MarkersMatchDeadline, Filed
<1> QED  BY <1>5, <1>6, <1>7, <1>8 DEF TimedInv

LEMMA CreatingTimed ==
  SerialInv /\ TimedInv /\ Creating => TimedInv'
<1> SUFFICES ASSUME SerialInv, TimedInv, Creating PROVE TimedInv'
  OBVIOUS
<1>1. PICK r \in RequestIds, row \in {NewRow(a) : a \in Assignees} \cup {AutoReply} :
        /\ ~Filed(r)
        /\ rows' = [rows EXCEPT ![r] = row]
        /\ UNCHANGED <<txn, sweep, now>>
  BY DEF Creating, CreateRouted, CreateAutoReplied, Create
<1>2. rows'[r] = row /\ \A q \in RequestIds \ {r} : rows'[q] = rows[q]
  BY <1>1, SerialTypes DEF TypeOK
<1>3. \A h \in Handlers : txn[h] # None => txn[h].req # r /\ txn[h].req \in RequestIds
  BY <1>1, SerialTypes, InFlightType DEF TypeInv, InFlightFiled
<1>4. sweep # None => sweep.copies[r] = None
  BY <1>1, SerialTypes DEF TypeInv, InFlightFiled
<1>5. row.paused = None /\ row.warned = None /\ row.breached = None
  <2>1. CASE row = AutoReply
    BY <2>1, SerialTypes, NewRowType DEF AutoReply, NewRow, Row, Maybe
  <2>2. CASE row \in {NewRow(a) : a \in Assignees}
    BY <2>2 DEF NewRow
  <2> QED  BY <1>1, <2>1, <2>2
<1>6. PausedInPast' /\ MarkersMatchDeadline'
  BY <1>1, <1>2, <1>5 DEF TimedInv, PausedInPast, MarkersMatchDeadline, Filed
<1>7. SweepIsCurrent'
  BY <1>1, <1>2, <1>4 DEF TimedInv, SweepIsCurrent
<1>8. MarkersCurrent'
  BY <1>1, <1>2, <1>3 DEF TimedInv, MarkersCurrent
<1> QED  BY <1>6, <1>7, <1>8 DEF TimedInv

LEMMA BeginningTimed ==
  SerialInv /\ TimedInv /\ Beginning => TimedInv'
<1> SUFFICES ASSUME SerialInv, TimedInv, Beginning PROVE TimedInv'
  OBVIOUS
<1>1. PICK h \in Handlers, r \in RequestIds : \E op, actor : Begin(h, r, op, actor)
  BY DEF Beginning, BeginAssign, BeginTransition, BeginAnswer, BeginResubmit, BeginPost
<1>2. MarkersCurrent'
  BY <1>1, SerialTypes DEF Begin, TimedInv, MarkersCurrent, TypeOK
<1> QED
  BY <1>1, <1>2 DEF Begin, TimedInv, PausedInPast, SweepIsCurrent, MarkersMatchDeadline, Filed

LEMMA SweepBeginTimed ==
  SerialInv /\ TimedInv /\ SweepBegin => TimedInv'
<1> SUFFICES ASSUME SerialInv, TimedInv, SweepBegin PROVE TimedInv'
  OBVIOUS
<1>1. PICK picked \in SUBSET Due :
        sweep' = [at |-> now,
                  copies |-> [r \in RequestIds |-> IF r \in picked THEN rows[r] ELSE None]]
  BY DEF SweepBegin
<1>2. ASSUME NEW r \in RequestIds, sweep'.copies[r] # None
      PROVE  /\ sweep'.copies[r] = rows[r] /\ Filed(r) /\ IsDue(rows[r])
             /\ rows[r].paused = None
  <2>1. r \in picked /\ sweep'.copies[r] = rows[r] /\ Filed(r) /\ IsDue(rows[r])
    BY <1>1, <1>2 DEF Due
  <2>2. rows[r].status # "returned"
    BY <2>1 DEF IsDue, Running
  <2> QED  BY <2>1, <2>2 DEF SerialInv, PausedIffReturned
<1>3. SweepIsCurrent'
  BY <1>1, <1>2 DEF SweepBegin, SweepIsCurrent, IsDue
<1> QED
  BY <1>3 DEF SweepBegin, TimedInv, PausedInPast, MarkersCurrent, MarkersMatchDeadline, Filed

LEMMA SweepCommitTimed ==
  SerialInv /\ TimedInv /\ Instant /\ SweepCommit => TimedInv'
<1> SUFFICES ASSUME SerialInv, TimedInv, Instant, SweepCommit PROVE TimedInv'
  OBVIOUS
<1>1. sweep # None /\ sweep' = None /\ UNCHANGED <<txn, now>> /\ now \in Nat
  BY SerialTypes DEF SweepCommit, TypeOK
<1>2. \A r \in RequestIds : Filed(r) =>
        /\ rows'[r].paused = rows[r].paused
        /\ rows'[r].deadline = rows[r].deadline
  BY SerialTypes, SweepCommitKeeps
<1>3. \A r \in RequestIds : Filed(r)' => Filed(r)
  BY SerialTypes DEF Picked, SweepCommit, Filed, TypeInv, InFlightFiled
<1>4. \A r \in RequestIds : ~Picked(r) => rows'[r] = rows[r]
  BY DEF SweepCommit
<1>5. ASSUME NEW r \in RequestIds, Picked(r)
      PROVE  /\ Filed(r) /\ sweep.copies[r] \in Row
             /\ sweep.copies[r].deadline = rows[r].deadline
             /\ rows[r].deadline \in Nat
             /\ rows[r].deadline < now \/ rows[r].deadline < now + WarnBefore
             /\ rows[r].paused \in {None, now}
             /\ rows'[r].warned \in {rows[r].warned, now}
             /\ \/ rows'[r].breached = rows[r].breached
                \/ rows'[r].breached = now /\ rows[r].deadline < now
  <2> DEFINE copy    == sweep.copies[r]
             updated == Noticed(copy, now)
  <2>1. /\ Filed(r) /\ copy \in Row /\ rows[r] \in Row /\ sweep.at = now
    BY <1>1, <1>5, SerialTypes DEF Picked, TypeInv, InFlightFiled, TypeOK, Pass, Maybe, Filed, Instant
  <2>2. /\ copy.deadline = rows[r].deadline
        /\ copy.deadline < now \/ copy.deadline < now + WarnBefore
        /\ rows[r].paused \in {None, now}
    BY <1>1, <1>5, <2>1 DEF TimedInv, SweepIsCurrent, Picked
  <2>3. /\ updated.warned \in {copy.warned, now}
        /\ \/ updated.breached = copy.breached
           \/ updated.breached = now /\ copy.deadline < now
    BY <2>1 DEF Noticed, Row
  <2>4. rows'[r] = WriteBack(rows[r], copy, updated)
    BY <1>5, <2>1 DEF SweepCommit
  <2>5. /\ rows'[r].warned = Column(rows[r].warned, copy.warned, updated.warned)
        /\ rows'[r].breached = Column(rows[r].breached, copy.breached, updated.breached)
    BY <2>4 DEF WriteBack
  <2>6. rows[r].deadline \in Nat
    BY <2>1 DEF Row, Time
  <2> HIDE DEF updated
  <2>7. rows'[r].warned \in {rows[r].warned, now}
    BY <2>3, <2>5 DEF Column
  <2>8. \/ rows'[r].breached = rows[r].breached
        \/ rows'[r].breached = now /\ rows[r].deadline < now
    BY <2>2, <2>3, <2>5 DEF Column
  <2> QED  BY <2>1, <2>2, <2>6, <2>7, <2>8
<1>6. PausedInPast'
  BY <1>1, <1>2, <1>3 DEF TimedInv, PausedInPast
<1>7. MarkersCurrent'
  <2> SUFFICES ASSUME NEW h \in Handlers, txn[h] # None
               PROVE  LET copy == txn[h].copy
                          row  == rows'[txn[h].req]
                      IN \/ copy.warned = row.warned /\ copy.breached = row.breached
                         \/ copy.paused \in {None, now}
    BY <1>1 DEF MarkersCurrent
  <2>1. txn[h].req \in RequestIds /\ txn[h].copy.paused = rows[txn[h].req].paused
    BY SerialTypes, InFlightType DEF SerialInv, CopyIsCurrent
  <2>2. CASE Picked(txn[h].req)
    BY <1>5, <2>1, <2>2
  <2>3. CASE ~Picked(txn[h].req)
    BY <1>4, <2>1, <2>3 DEF TimedInv, MarkersCurrent
  <2> QED  BY <2>2, <2>3
<1>8. MarkersMatchDeadline'
  <2> SUFFICES ASSUME NEW r \in RequestIds, Filed(r)
               PROVE  /\ rows'[r].breached # None => rows'[r].deadline < rows'[r].breached
                      /\ rows'[r].warned # None
                           => rows'[r].deadline < rows'[r].warned + WarnBefore
                              \/ rows'[r].deadline < rows'[r].warned
    BY <1>3 DEF MarkersMatchDeadline
  <2>1. CASE Picked(r)
    BY <1>2, <1>5, <2>1 DEF TimedInv, MarkersMatchDeadline
  <2>2. CASE ~Picked(r)
    BY <1>4, <2>2 DEF TimedInv, MarkersMatchDeadline
  <2> QED  BY <2>1, <2>2
<1>9. SweepIsCurrent'
  BY <1>1 DEF SweepIsCurrent
<1> QED  BY <1>6, <1>7, <1>8, <1>9 DEF TimedInv

(* With the clock, no transaction is left open.                            *)
LEMMA TickAlone ==
  ASSUME SerialInv, Instant, Instant', Tick
  PROVE  /\ now' = now + 1 /\ now \in Nat
         /\ rows' = rows /\ txn' = txn
         /\ sweep = None /\ sweep' = None
         /\ \A h \in Handlers : txn[h] = None
BY SerialTypes DEF Instant, Tick, TypeOK

LEMMA NextTimed ==
  SerialInv /\ TimedInv /\ Disjoint /\ Instant /\ Instant' /\ [Next]_vars => TimedInv'
<1> SUFFICES ASSUME SerialInv, TimedInv, Disjoint, Instant, Instant', [Next]_vars
             PROVE  TimedInv'
  OBVIOUS
<1>1. CASE SweepAbort
  BY <1>1 DEF SweepAbort, TimedInv, PausedInPast, SweepIsCurrent, MarkersCurrent,
              MarkersMatchDeadline, Filed
<1>2. CASE Tick
  <2>1. \A r \in RequestIds : Filed(r) => rows[r].paused \in Maybe(Nat)
    BY SerialTypes DEF TypeOK, Filed, Maybe, Row, Time
  <2>2. PausedInPast'
    BY <1>2, <2>1, TickAlone DEF TimedInv, PausedInPast, Filed, Maybe
  <2> QED
    BY <1>2, <2>2, TickAlone DEF TimedInv, SweepIsCurrent, MarkersCurrent, MarkersMatchDeadline, Filed
<1>3. CASE UNCHANGED vars
  BY <1>3 DEF vars, TimedInv, PausedInPast, SweepIsCurrent, MarkersCurrent,
              MarkersMatchDeadline, Filed
<1> QED
  BY <1>1, <1>2, <1>3, CreatingTimed, BeginningTimed, CommittingTimed, SweepBeginTimed,
     SweepCommitTimed
     DEF Next, Sweeping

LEMMA InitTimed == Init => TimedInv
<1> SUFFICES ASSUME Init PROVE TimedInv
  OBVIOUS
<1>1. ASSUME NEW r \in RequestIds, Filed(r)
      PROVE  rows[r].paused = None /\ rows[r].warned = None /\ rows[r].breached = None
  <2>1. PICK s \in Legacy : rows[r] = LegacyRow(s)
    BY <1>1 DEF Init, Maybe, Filed
  <2> QED  BY <2>1 DEF LegacyRow
<1> QED
  BY <1>1 DEF Init, TimedInv, PausedInPast, SweepIsCurrent, MarkersCurrent, MarkersMatchDeadline

LEMMA TimedInvariant == Spec /\ []Disjoint /\ []Instant => [](SerialInv /\ TimedInv)
BY InitSerial, NextSerial, InitTimed, NextTimed, PTL DEF Spec

(* A breach was after the deadline it stands beside and a warning within   *)
(* the warning window of it, although the sweep and _apply_status write    *)
(* markers and deadline from copies neither locks.                         *)
THEOREM SerialMarkersMatch == Spec /\ []Disjoint /\ []Instant => []MarkersMatchDeadline
<1>1. Spec /\ []Disjoint /\ []Instant => [](SerialInv /\ TimedInv)
  BY TimedInvariant
<1>2. SerialInv /\ TimedInv => MarkersMatchDeadline
  BY DEF TimedInv
<1> QED  BY <1>1, <1>2, PTL

-----------------------------------------------------------------------------
(* The workflow implements Lifecycle                                       *)

(* A step that moves no request leaves the abstract state alone; one that  *)
(* moves a single request is a step of that case alone.                    *)
LEMMA AbstractUnchanged ==
  ASSUME now' = now,
         \A q \in RequestIds :
           /\ Filed(q)' <=> Filed(q)
           /\ Filed(q) => /\ rows'[q].status = rows[q].status
                          /\ rows'[q].closed = rows[q].closed
                          /\ rows'[q].paused = rows[q].paused
                          /\ rows'[q].deadline = rows[q].deadline
  PROVE  UNCHANGED Abstract!lifecycleVars
<1>1. \A q \in RequestIds : Phase(q)' = Phase(q) /\ HoursLeft(q)' = HoursLeft(q)
  BY DEF Phase, HoursLeft, StoppedAt, Has, Filed, WorkingTimeBetween
<1> QED  BY <1>1 DEF Abstract!lifecycleVars

LEMMA AbstractMove ==
  ASSUME NEW r \in RequestIds, now' = now,
         \A q \in RequestIds \ {r} : rows'[q] = rows[q],
         HoursLeft(r)' = HoursLeft(r)
  PROVE  /\ [q \in RequestIds |-> Phase(q)']
              = [[q \in RequestIds |-> Phase(q)] EXCEPT ![r] = Phase(r)']
         /\ [q \in RequestIds |-> HoursLeft(q)'] = [q \in RequestIds |-> HoursLeft(q)]
<1>1. \A q \in RequestIds \ {r} : Phase(q)' = Phase(q) /\ HoursLeft(q)' = HoursLeft(q)
  BY DEF Phase, HoursLeft, StoppedAt, Has, Filed, WorkingTimeBetween
<1> QED  BY <1>1

LEMMA InitAbstract == Init => Abstract!LInit
<1> SUFFICES ASSUME Init PROVE Abstract!LInit
  OBVIOUS
<1>1. ASSUME NEW r \in RequestIds
      PROVE  Phase(r) \in {"unfiled", "office", "closed"} /\ HoursLeft(r) = SlaHours
  <2>1. CASE ~Filed(r)
    BY <2>1 DEF Phase, HoursLeft
  <2>2. CASE Filed(r)
    <3>1. PICK s \in Legacy : rows[r] = LegacyRow(s)
      BY <2>2 DEF Init, Maybe, Filed
    <3>2. /\ rows[r].status = s /\ rows[r].deadline = SlaHours
          /\ s = "rejected" => rows[r].closed = 0
          /\ s \in {"new", "accepted", "rejected"} /\ SlaHours \in Nat /\ now = 0
      BY <3>1, RequestsAssumption DEF LegacyRow, Init
    <3> QED
      BY <2>2, <3>2 DEF Phase, HoursLeft, StoppedAt, Has, Closed, WorkingTimeBetween
  <2> QED  BY <2>1, <2>2
<1> QED  BY <1>1 DEF Abstract!LInit

LEMMA CreatingAbstract == SerialInv /\ Creating => Abstract!LNext
<1> SUFFICES ASSUME SerialInv, Creating PROVE Abstract!LNext
  OBVIOUS
<1>1. PICK r \in RequestIds, row \in {NewRow(a) : a \in Assignees} \cup {AutoReply} :
        /\ ~Filed(r)
        /\ rows' = [rows EXCEPT ![r] = row]
        /\ UNCHANGED <<txn, sweep, now>>
  BY DEF Creating, CreateRouted, CreateAutoReplied, Create
<1>2. rows'[r] = row /\ \A q \in RequestIds \ {r} : rows'[q] = rows[q]
  BY <1>1, SerialTypes DEF TypeOK
<1>3. /\ row \in Row /\ row.deadline = now + SlaHours
      /\ row.status \in {"in_progress", "completed"}
      /\ row.status = "completed" => row.closed = now
  <2>1. CASE row = AutoReply
    <3>1. NewRow(None) \in Row /\ AutoReply \in Row
      BY SerialTypes, NewRowType, AutoReplyType DEF Maybe
    <3> QED  BY <2>1, <3>1 DEF AutoReply, NewRow, Row, AddWorkingTime
  <2>2. CASE row \in {NewRow(a) : a \in Assignees}
    BY <2>2, SerialTypes, NewRowType DEF NewRow, AddWorkingTime, Maybe
  <2> QED  BY <1>1, <2>1, <2>2
<1>4. row # None /\ now \in Nat /\ SlaHours \in Nat
  BY <1>3, NullAssumption, RequestsAssumption, SerialTypes DEF TypeOK
<1>5. Phase(r) = "unfiled" /\ HoursLeft(r) = SlaHours
  BY <1>1 DEF Phase, HoursLeft
<1>6. Phase(r)' \in {"office", "closed"} /\ HoursLeft(r)' = SlaHours
  BY <1>1, <1>2, <1>3, <1>4
     DEF Phase, HoursLeft, StoppedAt, Has, Filed, Closed, WorkingTimeBetween
<1>7. Abstract!File(r)
  BY <1>1, <1>2, <1>5, <1>6, AbstractMove DEF Abstract!File, Abstract!Move
<1> QED  BY <1>7 DEF Abstract!LNext

LEMMA CommittingAbstract ==
  SerialInv /\ TimedInv /\ Instant /\ Committing => [Abstract!LNext]_(Abstract!lifecycleVars)
<1> SUFFICES ASSUME SerialInv, TimedInv, Instant, Committing
             PROVE  Abstract!LNext \/ UNCHANGED Abstract!lifecycleVars
  OBVIOUS
<1>1. PICK h \in Handlers :
        LET r == txn[h].req
        IN /\ txn[h] # None
           /\ txn' = [txn EXCEPT ![h] = None]
           /\ UNCHANGED <<sweep, now>>
           /\ r \in RequestIds /\ rows[r] \in Row /\ rows'[r] \in Row
           /\ \A q \in RequestIds \ {r} : rows'[q] = rows[q]
           /\ Same(rows[r], rows'[r]) \/ Moved(rows[r], rows'[r])
  BY CommitEffect
<1>2. PICK r \in RequestIds : r = txn[h].req
  BY <1>1
<1>3. /\ rows[r] \in Row /\ rows'[r] \in Row /\ now' = now
      /\ \A q \in RequestIds \ {r} : rows'[q] = rows[q]
      /\ Same(rows[r], rows'[r]) \/ Moved(rows[r], rows'[r])
  BY <1>1, <1>2
<1>4. Filed(r) /\ rows[r] # None /\ rows'[r] # None
  BY <1>3, NullAssumption DEF Filed
<1>5. CASE Same(rows[r], rows'[r])
  BY <1>3, <1>4, <1>5, AbstractUnchanged DEF Same, Filed
<1>6. CASE Moved(rows[r], rows'[r])
  <2>1. /\ now \in Nat /\ rows[r].deadline \in Nat /\ rows[r].paused \in Maybe(Nat)
        /\ rows[r].paused # None => rows[r].paused <= now
    BY <1>3, <1>4, SerialTypes DEF TypeOK, Row, Time, TimedInv, PausedInPast
  <2>2. rows[r].paused # None <=> rows[r].status = "returned"
    BY <1>4 DEF SerialInv, PausedIffReturned
  <2>3. /\ Phase(r) = IF rows[r].status = "returned" THEN "student" ELSE "office"
        /\ StoppedAt(r) = IF rows[r].status = "returned" THEN rows[r].paused ELSE now
        /\ HoursLeft(r) = WorkingTimeBetween(StoppedAt(r), rows[r].deadline)
    BY <1>4, <1>6 DEF Moved, Open, Closed, Phase, StoppedAt, HoursLeft, Has
  <2>4. /\ Phase(r)' = CASE rows'[r].status = "returned" -> "student"
                         [] rows'[r].status = "in_progress" -> "office"
                         [] rows'[r].status = "completed" -> "closed"
        /\ StoppedAt(r)' = now
        /\ HoursLeft(r)' = WorkingTimeBetween(now, rows'[r].deadline)
    BY <1>3, <1>4, <1>6 DEF Moved, Closed, Phase, StoppedAt, HoursLeft, Has, Filed, WorkingTimeBetween
  <2>5. HoursLeft(r)' = HoursLeft(r)
    BY <1>6, <2>1, <2>2, <2>3, <2>4 DEF Moved, Maybe, WorkingTimeBetween
  <2>6. rows'[r].status \in {"in_progress", "returned", "completed"} \ {rows[r].status}
    BY <1>6 DEF Moved
  <2>7. CASE rows[r].status = "returned" /\ rows'[r].status = "in_progress"
    <3>1. Abstract!Resume(r)
      BY <1>3, <2>3, <2>4, <2>5, <2>7, AbstractMove DEF Abstract!Resume, Abstract!Move
    <3> QED  BY <3>1 DEF Abstract!LNext
  <2>8. CASE rows'[r].status = "completed"
    <3>1. Abstract!Close(r)
      BY <1>3, <2>3, <2>4, <2>5, <2>8, AbstractMove DEF Abstract!Close, Abstract!Move
    <3> QED  BY <3>1 DEF Abstract!LNext
  <2>9. CASE rows[r].status # "returned" /\ rows'[r].status = "returned"
    <3>1. Abstract!Return(r)
      BY <1>3, <2>3, <2>4, <2>5, <2>9, AbstractMove DEF Abstract!Return, Abstract!Move
    <3> QED  BY <3>1 DEF Abstract!LNext
  <2>10. CASE rows[r].status # "returned" /\ rows'[r].status = "in_progress"
    <3>1. Phase(r)' = Phase(r)
      BY <2>3, <2>4, <2>10
    <3>2. UNCHANGED Abstract!lifecycleVars
      BY <1>3, <2>5, <3>1, AbstractMove DEF Abstract!lifecycleVars
    <3> QED  BY <3>2
  <2> QED  BY <2>6, <2>7, <2>8, <2>9, <2>10
<1> QED  BY <1>3, <1>5, <1>6

LEMMA SweepCommitAbstract == SerialInv /\ SweepCommit => UNCHANGED Abstract!lifecycleVars
<1> SUFFICES ASSUME SerialInv, SweepCommit PROVE UNCHANGED Abstract!lifecycleVars
  OBVIOUS
<1>1. \A r \in RequestIds : Filed(r) =>
        /\ rows'[r] # None
        /\ rows'[r].status = rows[r].status
        /\ rows'[r].closed = rows[r].closed
        /\ rows'[r].paused = rows[r].paused
        /\ rows'[r].deadline = rows[r].deadline
  BY SerialTypes, SweepCommitKeeps
<1>2. \A r \in RequestIds : Filed(r)' => Filed(r)
  BY SerialTypes DEF Picked, SweepCommit, Filed, TypeInv, InFlightFiled
<1>3. \A r \in RequestIds : Filed(r)' <=> Filed(r)
  BY <1>1, <1>2 DEF Filed
<1>4. now' = now
  BY DEF SweepCommit
<1> QED  BY <1>1, <1>3, <1>4, AbstractUnchanged

LEMMA TickAbstract == SerialInv /\ Instant /\ Instant' /\ Tick => Abstract!Hour
<1> SUFFICES ASSUME SerialInv, Instant, Instant', Tick PROVE Abstract!Hour
  OBVIOUS
<1>1. now' = now + 1 /\ now \in Nat /\ rows' = rows
  BY TickAlone
<1>2. ASSUME NEW r \in RequestIds
      PROVE  /\ Phase(r)' = Phase(r)
             /\ HoursLeft(r)' = IF Phase(r) = "office" /\ HoursLeft(r) > 0
                                THEN HoursLeft(r) - 1 ELSE HoursLeft(r)
  <2>1. Phase(r)' = Phase(r)
    BY <1>1 DEF Phase, Has, Filed
  <2>2. CASE Filed(r) /\ Phase(r) = "office"
    <3>1. rows[r].deadline \in Nat
      BY <2>2, SerialTypes DEF TypeOK, Filed, Maybe, Row, Time
    <3>2. StoppedAt(r) = now /\ StoppedAt(r)' = now + 1
      BY <1>1, <2>2 DEF Phase, StoppedAt, Has, Filed
    <3>3. /\ HoursLeft(r) = WorkingTimeBetween(now, rows[r].deadline)
          /\ HoursLeft(r)' = WorkingTimeBetween(now + 1, rows[r].deadline)
      BY <1>1, <2>2, <3>2 DEF HoursLeft, Filed, WorkingTimeBetween
    <3> QED  BY <1>1, <2>1, <2>2, <3>1, <3>3 DEF WorkingTimeBetween
  <2>3. CASE ~(Filed(r) /\ Phase(r) = "office")
    <3>1. Phase(r) # "office"
      BY <2>3 DEF Phase
    <3>2. HoursLeft(r)' = HoursLeft(r)
      BY <1>1, <3>1 DEF HoursLeft, StoppedAt, Phase, Has, Filed, WorkingTimeBetween
    <3> QED  BY <2>1, <3>1, <3>2
  <2> QED  BY <2>2, <2>3
<1> QED  BY <1>2 DEF Abstract!Hour

LEMMA NextAbstract ==
  SerialInv /\ TimedInv /\ Instant /\ Instant' /\ [Next]_vars
    => [Abstract!LNext]_(Abstract!lifecycleVars)
<1> SUFFICES ASSUME SerialInv, TimedInv, Instant, Instant', [Next]_vars
             PROVE  Abstract!LNext \/ UNCHANGED Abstract!lifecycleVars
  OBVIOUS
<1>1. CASE Beginning \/ SweepBegin \/ SweepAbort \/ UNCHANGED vars
  <2>1. rows' = rows /\ now' = now
    BY <1>1 DEF Beginning, BeginAssign, BeginTransition, BeginAnswer, BeginResubmit, BeginPost,
                Begin, SweepBegin, SweepAbort, vars
  <2> QED  BY <2>1, AbstractUnchanged DEF Filed
<1>2. CASE Tick
  BY <1>2, TickAbstract DEF Abstract!LNext
<1> QED
  BY <1>1, <1>2, CreatingAbstract, CommittingAbstract, SweepCommitAbstract DEF Next, Sweeping

(* The workflow, its optimistic handlers and its sweep implement the life  *)
(* cycle promised to the student: a request is filed, moves between office *)
(* and student and closes once, and a return costs the office no hour.     *)
THEOREM SerialImplementsLifecycle == Spec /\ []Disjoint /\ []Instant => ImplementsLifecycle
<1>1. Spec /\ []Disjoint /\ []Instant => [](SerialInv /\ TimedInv)
  BY TimedInvariant
<1>2. Init => Abstract!LInit
  BY InitAbstract
<1>3. SerialInv /\ TimedInv /\ Instant /\ Instant' /\ [Next]_vars
        => [Abstract!LNext]_(Abstract!lifecycleVars)
  BY NextAbstract
<1> QED  BY <1>1, <1>2, <1>3, PTL DEF Spec, ImplementsLifecycle, Abstract!LSpec

=============================================================================
