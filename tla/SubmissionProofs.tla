-------------------------- MODULE SubmissionProofs --------------------------
(***************************************************************************)
(* Theorems about Submission for every set of callers, keys and calls in   *)
(* flight, every base and width of the tracking number, and any number of  *)
(* failures and losses of the counter.                                     *)
(*                                                                         *)
(* Nothing is assumed of the numbers themselves: the argument holds even   *)
(* where the counter hands out a number twice, since it rests on the two   *)
(* unique indexes alone.                                                   *)
(***************************************************************************)
EXTENDS Submission, TLAPS

(* Every call in flight is a record of a caller, a key, a number, a stage. *)
CallsKept ==
  /\ calls = [h \in Calls |-> calls[h]]
  /\ \A h \in Calls : calls[h] # None =>
       /\ calls[h] = [client |-> calls[h].client, key |-> calls[h].key,
                      no |-> calls[h].no, stage |-> calls[h].stage]
       /\ calls[h].key \in Keys \cup {None}

(* The unique index on the key: no two rows, neither committed nor about   *)
(* to commit, carry the same one.                                          *)
KeyIsFree(key) == \A q \in requests : q.key # key

OneRowPerKey ==
  /\ \A p, q \in requests : p.key = q.key /\ p.key # None => p = q
  /\ \A h \in Calls : Stage(h, "commit") /\ calls[h].key # None =>
       /\ KeyIsFree(calls[h].key)
       /\ \A g \in Calls : Stage(g, "commit") /\ calls[g].key = calls[h].key => g = h

RepliesTrue ==
  \A r \in replies :
    /\ r.key \in Keys
    /\ r.no # 0 => \E q \in requests : q.no = r.no /\ q.key = r.key

SubmissionInv == CallsKept /\ OneRowPerKey /\ RepliesTrue

LEMMA RepliesSettle == SubmissionInv => OneRequestPerKey
<1> SUFFICES ASSUME SubmissionInv, NEW r \in replies, NEW s \in replies
             PROVE  /\ r.no # 0 /\ s.no # 0 /\ r.key = s.key => r.no = s.no
                    /\ r.no # 0 => \E q \in requests : q.no = r.no /\ q.key = r.key
  BY DEF OneRequestPerKey
<1>1. r.key # None
  BY SubmissionAssumption DEF SubmissionInv, RepliesTrue
<1> QED  BY <1>1 DEF SubmissionInv, RepliesTrue, OneRowPerKey

LEMMA InitSubmission == Init => SubmissionInv
<1> SUFFICES ASSUME Init PROVE SubmissionInv
  OBVIOUS
<1>1. PICK n \in FirstNumbers : requests = [no : 1 .. n, key : {None}, client : {None}]
  BY DEF Init
<1>2. \A q \in requests : q.key = None
  BY <1>1
<1>3. calls = [h \in Calls |-> None] /\ replies = {}
  BY DEF Init
<1>4. CallsKept
  BY <1>3 DEF CallsKept
<1>5. OneRowPerKey
  BY <1>2, <1>3 DEF OneRowPerKey, Stage
<1> QED  BY <1>3, <1>4, <1>5 DEF SubmissionInv, RepliesTrue

(* A step that leaves the rows alone and brings no call to its commit.     *)
LEMMA NoRowWritten ==
  ASSUME SubmissionInv, NEW h \in Calls, NEW new, calls' = [calls EXCEPT ![h] = new],
         requests' = requests,
         new = None \/ new.stage # "commit",
         new # None => /\ new = [client |-> new.client, key |-> new.key,
                                 no |-> new.no, stage |-> new.stage]
                       /\ new.key \in Keys \cup {None}
  PROVE  CallsKept' /\ OneRowPerKey'
<1>1. calls'[h] = new /\ \A g \in Calls \ {h} : calls'[g] = calls[g]
  BY DEF SubmissionInv, CallsKept
<1>2. calls' = [g \in Calls |-> calls'[g]]
  BY DEF SubmissionInv, CallsKept
<1>3. CallsKept'
  BY <1>1, <1>2 DEF SubmissionInv, CallsKept
<1>4. \A g \in Calls : Stage(g, "commit")' => g # h /\ Stage(g, "commit") /\ calls'[g] = calls[g]
  BY <1>1 DEF Stage
<1>5. OneRowPerKey'
  BY <1>4 DEF SubmissionInv, OneRowPerKey, KeyIsFree
<1> QED  BY <1>3, <1>5

(* What a caller is told.                                                  *)
LEMMA AnswersTrue ==
  ASSUME RepliesTrue, requests \subseteq requests',
         NEW client, NEW key \in Keys \cup {None}, NEW code, NEW no,
         Answers(client, key, code, no),
         no # 0 => \E q \in requests' : q.no = no /\ q.key = key
  PROVE  RepliesTrue'
<1>1. CASE UNCHANGED replies
  BY <1>1 DEF RepliesTrue
<1>2. CASE key \in Keys /\ replies' = replies \cup {[client |-> client, key |-> key,
                                                     code |-> code, no |-> no]}
  <2> DEFINE reply == [client |-> client, key |-> key, code |-> code, no |-> no]
  <2>1. reply.key \in Keys /\ (reply.no # 0 => \E q \in requests' : q.no = reply.no /\ q.key = reply.key)
    BY <1>2
  <2> HIDE DEF reply
  <2>2. ASSUME NEW r \in replies'
        PROVE  r.key \in Keys /\ (r.no # 0 => \E q \in requests' : q.no = r.no /\ q.key = r.key)
    <3>1. CASE r \in replies
      BY <3>1 DEF RepliesTrue
    <3>2. CASE r \notin replies
      <4>1. r = reply
        BY <1>2, <3>2 DEF reply
      <4> QED  BY <2>1, <4>1
    <3> QED  BY <3>1, <3>2
  <2> QED  BY <2>2 DEF RepliesTrue
<1> QED  BY <1>1, <1>2 DEF Answers

LEMMA SubmitKeeps ==
  ASSUME SubmissionInv, NEW h \in Calls, NEW client \in Callers, NEW key \in Keys,
         Submit(h, client, key)
  PROVE  SubmissionInv'
<1>1. CASE Replay(h, client, key)
  <2>1. UNCHANGED <<requests, calls>>
    BY <1>1 DEF Replay
  <2>2. CallsKept' /\ OneRowPerKey'
    BY <2>1 DEF SubmissionInv, CallsKept, OneRowPerKey, KeyIsFree, Stage
  <2>3. PICK q \in Found(key) : \/ Answers(client, key, "replayed", q.no)
                                \/ Answers(client, key, "foreign", 0)
    BY <1>1 DEF Replay
  <2>4. q \in requests /\ q.key = key
    BY SubmissionAssumption DEF Found
  <2>5. RepliesTrue'
    BY <2>1, <2>3, <2>4, AnswersTrue DEF SubmissionInv
  <2> QED  BY <2>2, <2>5 DEF SubmissionInv
<1>2. CASE Start(h, client, key)
  <2> DEFINE new == [client |-> client, key |-> key, no |-> 0, stage |-> "number"]
  <2>1. calls' = [calls EXCEPT ![h] = new] /\ UNCHANGED <<requests, replies>>
    BY <1>2 DEF Start
  <2>2. /\ new = [client |-> new.client, key |-> new.key, no |-> new.no, stage |-> new.stage]
        /\ new.key \in Keys \cup {None} /\ new.stage # "commit"
    OBVIOUS
  <2> HIDE DEF new
  <2>3. CallsKept' /\ OneRowPerKey'
    BY <2>1, <2>2, NoRowWritten
  <2> QED  BY <2>1, <2>3 DEF SubmissionInv, RepliesTrue
<1> QED  BY <1>1, <1>2 DEF Submit

LEMMA SubmitKeylessKeeps ==
  ASSUME SubmissionInv, NEW h \in Calls, SubmitKeyless(h)
  PROVE  SubmissionInv'
<1> DEFINE new == [client |-> Web, key |-> None, no |-> 0, stage |-> "number"]
<1>1. calls' = [calls EXCEPT ![h] = new] /\ UNCHANGED <<requests, replies>>
  BY DEF SubmitKeyless
<1>2. /\ new = [client |-> new.client, key |-> new.key, no |-> new.no, stage |-> new.stage]
      /\ new.key \in Keys \cup {None} /\ new.stage # "commit"
  OBVIOUS
<1> HIDE DEF new
<1>3. CallsKept' /\ OneRowPerKey'
  BY <1>1, <1>2, NoRowWritten
<1> QED  BY <1>1, <1>3 DEF SubmissionInv, RepliesTrue

LEMMA FieldUpdates ==
  ASSUME NEW client, NEW key, NEW no, NEW stage, NEW c, NEW n, NEW s,
         c = [client |-> client, key |-> key, no |-> no, stage |-> stage]
  PROVE  /\ [c EXCEPT !.no = n] = [client |-> client, key |-> key, no |-> n, stage |-> stage]
         /\ [c EXCEPT !.stage = s] = [client |-> client, key |-> key, no |-> no, stage |-> s]
<1>1. [c EXCEPT !.no = n] = [client |-> client, key |-> key, no |-> n, stage |-> stage]
  OBVIOUS
<1>2. [c EXCEPT !.stage = s] = [client |-> client, key |-> key, no |-> no, stage |-> s]
  OBVIOUS
<1> QED  BY <1>1, <1>2

(* Taking a number, in one round trip to Redis or in three.                *)
LEMMA NumberingKeeps ==
  ASSUME SubmissionInv, NEW h \in Calls, Increment(h) \/ ReadHighest(h) \/ SetCounter(h)
  PROVE  SubmissionInv'
<1>1. PICK client, key, no, stage :
        /\ key \in Keys \cup {None}
        /\ calls[h] = [client |-> client, key |-> key, no |-> no, stage |-> stage]
  BY DEF Increment, ReadHighest, SetCounter, Stage, SubmissionInv, CallsKept
<1>2. UNCHANGED <<requests, replies>>
  BY DEF Increment, ReadHighest, SetCounter
<1>3. h \in DOMAIN calls
  BY DEF SubmissionInv, CallsKept
<1> DEFINE Made(n, s) == [client |-> client, key |-> key, no |-> n, stage |-> s]
<1>4. PICK n, s :
        /\ s \in {"reseed", "set", "insert"}
        /\ calls' = [calls EXCEPT ![h] = Made(n, s)]
  <2>1. CASE Increment(h)
    <3> DEFINE seq == IF counter = None THEN 1 ELSE counter + 1
               to  == IF seq = 1 THEN "reseed" ELSE "insert"
               c   == [calls[h] EXCEPT !.no = seq]
    <3>1. calls' = [calls EXCEPT ![h].no = seq, ![h].stage = to]
      BY <2>1 DEF Increment
    <3>2. to \in {"reseed", "set", "insert"}
      OBVIOUS
    <3> HIDE DEF seq, to
    <3>3. calls' = [calls EXCEPT ![h] = [c EXCEPT !.stage = to]]
      BY <1>3, <3>1
    <3>4. c = Made(seq, stage)
      BY <1>1, FieldUpdates
    <3> HIDE DEF c
    <3>5. [c EXCEPT !.stage = to] = Made(seq, to)
      BY <3>4, FieldUpdates
    <3> QED  BY <3>2, <3>3, <3>5
  <2>2. CASE ReadHighest(h)
    <3>1. CASE calls' = [calls EXCEPT ![h].stage = "insert"]
      <4>1. calls' = [calls EXCEPT ![h] = [calls[h] EXCEPT !.stage = "insert"]]
        BY <1>3, <3>1
      <4>2. [calls[h] EXCEPT !.stage = "insert"] = Made(no, "insert")
        BY <1>1, FieldUpdates
      <4> QED  BY <4>1, <4>2
    <3>2. CASE calls' = [calls EXCEPT ![h].stage = "set", ![h].no = Highest + 1]
      <4> DEFINE c == [calls[h] EXCEPT !.stage = "set"]
                 top == Highest + 1
      <4>1. calls' = [calls EXCEPT ![h] = [c EXCEPT !.no = top]]
        BY <1>3, <3>2
      <4>2. c = Made(no, "set")
        BY <1>1, FieldUpdates
      <4> HIDE DEF c, top
      <4>3. [c EXCEPT !.no = top] = Made(top, "set")
        BY <4>2, FieldUpdates
      <4> QED  BY <4>1, <4>3
    <3> QED  BY <2>2, <3>1, <3>2 DEF ReadHighest
  <2>3. CASE SetCounter(h)
    <3>1. calls' = [calls EXCEPT ![h] = [calls[h] EXCEPT !.stage = "insert"]]
      BY <1>3, <2>3 DEF SetCounter, To
    <3>2. [calls[h] EXCEPT !.stage = "insert"] = Made(no, "insert")
      BY <1>1, FieldUpdates
    <3> QED  BY <3>1, <3>2
  <2> QED  BY <2>1, <2>2, <2>3
<1> DEFINE new == [client |-> client, key |-> key, no |-> n, stage |-> s]
<1>5. /\ new = [client |-> new.client, key |-> new.key, no |-> new.no, stage |-> new.stage]
      /\ new.key \in Keys \cup {None} /\ new.stage # "commit"
  BY <1>1, <1>4
<1>6. calls' = [calls EXCEPT ![h] = new]
  BY <1>4
<1> HIDE DEF new
<1>7. CallsKept' /\ OneRowPerKey'
  BY <1>2, <1>5, <1>6, NoRowWritten
<1> QED  BY <1>2, <1>7 DEF SubmissionInv, RepliesTrue

(* The row goes in only where the index finds neither a committed row nor  *)
(* one that waits for its commit with the same key.                        *)
LEMMA InsertKeeps ==
  ASSUME SubmissionInv, NEW h \in Calls, Insert(h)
  PROVE  SubmissionInv'
<1>1. /\ calls[h] # None
      /\ calls[h] = [client |-> calls[h].client, key |-> calls[h].key,
                     no |-> calls[h].no, stage |-> calls[h].stage]
      /\ calls[h].key \in Keys \cup {None}
  BY DEF Insert, Stage, SubmissionInv, CallsKept
<1>2. UNCHANGED <<requests, replies>> /\ calls' = [calls EXCEPT ![h].stage = "commit"]
  BY DEF Insert, To
<1>3. /\ calls'[h] = [client |-> calls[h].client, key |-> calls[h].key,
                      no |-> calls[h].no, stage |-> "commit"]
      /\ \A g \in Calls \ {h} : calls'[g] = calls[g]
      /\ calls' = [g \in Calls |-> calls'[g]]
  BY <1>1, <1>2 DEF SubmissionInv, CallsKept
<1>4. calls'[h].key = calls[h].key
  BY <1>3
<1>5. CallsKept'
  BY <1>1, <1>3 DEF SubmissionInv, CallsKept
<1>6. calls[h].key # None => KeyIsFree(calls[h].key)
  BY DEF Insert, SameKey, Found, KeyIsFree
<1>7. \A g \in Calls \ {h} : Stage(g, "commit") /\ calls[h].key # None => calls[g].key # calls[h].key
  BY DEF Insert, Waits
<1>8. \A g \in Calls \ {h} : Stage(g, "commit")' => Stage(g, "commit") /\ calls'[g] = calls[g]
  BY <1>3 DEF Stage
<1>9. OneRowPerKey'
  BY <1>2, <1>4, <1>6, <1>7, <1>8 DEF SubmissionInv, OneRowPerKey, KeyIsFree
<1> QED  BY <1>2, <1>5, <1>9 DEF SubmissionInv, RepliesTrue

LEMMA RefusedKeeps ==
  ASSUME SubmissionInv, NEW h \in Calls, Refused(h)
  PROVE  SubmissionInv'
<1>1. requests' = requests /\ calls' = [calls EXCEPT ![h] = None]
  BY DEF Refused, Ends
<1>2. CallsKept' /\ OneRowPerKey'
  BY <1>1, NoRowWritten
<1>3. calls[h].key \in Keys \cup {None}
  BY DEF Refused, Stage, SubmissionInv, CallsKept
<1>4. \/ Answers(calls[h].client, calls[h].key, "collision", 0)
      \/ Answers(calls[h].client, calls[h].key, "duplicate", 0)
  BY DEF Refused
<1>5. RepliesTrue'
  BY <1>1, <1>3, <1>4, AnswersTrue DEF SubmissionInv
<1> QED  BY <1>2, <1>5 DEF SubmissionInv

LEMMA CommitKeeps ==
  ASSUME SubmissionInv, NEW h \in Calls, CommitCall(h)
  PROVE  SubmissionInv'
<1> DEFINE c   == calls[h]
           row == [no |-> c.no, key |-> c.key, client |-> c.client]
<1>1. /\ Stage(h, "commit") /\ c.key \in Keys \cup {None}
      /\ requests' = requests \cup {row}
      /\ calls' = [calls EXCEPT ![h] = None]
      /\ Answers(c.client, c.key, "created", c.no)
  BY DEF CommitCall, Ends, Stage, SubmissionInv, CallsKept
<1>2. row.key = c.key /\ row.no = c.no
  OBVIOUS
<1> HIDE DEF row
<1>3. /\ calls'[h] = None /\ \A g \in Calls \ {h} : calls'[g] = calls[g]
      /\ calls' = [g \in Calls |-> calls'[g]]
  BY <1>1 DEF SubmissionInv, CallsKept
<1>4. CallsKept'
  BY <1>3 DEF SubmissionInv, CallsKept
<1>5. \A g \in Calls : Stage(g, "commit")' => g # h /\ Stage(g, "commit") /\ calls'[g] = calls[g]
  BY <1>3 DEF Stage
<1>6. c.key # None => KeyIsFree(c.key)
  BY <1>1 DEF SubmissionInv, OneRowPerKey
<1>7. \A g \in Calls \ {h} : Stage(g, "commit") /\ calls[g].key # None => calls[g].key # c.key
  BY <1>1 DEF SubmissionInv, OneRowPerKey
<1>8. OneRowPerKey'
  <2>1. \A p, q \in requests' : p.key = q.key /\ p.key # None => p = q
    BY <1>1, <1>2, <1>6 DEF SubmissionInv, OneRowPerKey, KeyIsFree
  <2>2. \A g \in Calls : Stage(g, "commit")' /\ calls'[g].key # None =>
          /\ \A q \in requests' : q.key # calls'[g].key
          /\ \A f \in Calls : Stage(f, "commit")' /\ calls'[f].key = calls'[g].key => f = g
    BY <1>1, <1>2, <1>5, <1>7 DEF SubmissionInv, OneRowPerKey, KeyIsFree
  <2> QED  BY <2>1, <2>2 DEF OneRowPerKey, KeyIsFree
<1>9. row \in requests' /\ requests \subseteq requests'
  BY <1>1
<1>10. RepliesTrue'
  BY <1>1, <1>2, <1>9, AnswersTrue DEF SubmissionInv
<1> QED  BY <1>4, <1>8, <1>10 DEF SubmissionInv

LEMMA NextSubmission == SubmissionInv /\ [Next]_vars => SubmissionInv'
<1> SUFFICES ASSUME SubmissionInv, [Next]_vars PROVE SubmissionInv'
  OBVIOUS
<1>1. CASE LoseCounter \/ UNCHANGED vars
  BY <1>1 DEF LoseCounter, vars, SubmissionInv, CallsKept, OneRowPerKey, KeyIsFree, RepliesTrue, Stage
<1>2. ASSUME NEW h \in Calls, Fail(h)
      PROVE  SubmissionInv'
  <2>1. calls' = [calls EXCEPT ![h] = None] /\ UNCHANGED <<requests, replies>>
    BY <1>2 DEF Fail, Ends
  <2>2. CallsKept' /\ OneRowPerKey'
    BY <2>1, NoRowWritten
  <2> QED  BY <2>1, <2>2 DEF SubmissionInv, RepliesTrue
<1> QED
  BY <1>1, <1>2, SubmitKeeps, SubmitKeylessKeeps, NumberingKeeps, InsertKeeps, RefusedKeeps,
     CommitKeeps
     DEF Next, Work

(* "A retried POST never files twice": whatever answers are lost, whatever *)
(* retries overlap and whatever becomes of the counter, all the answers a  *)
(* key ever gets name one request, and that request is stored.             *)
THEOREM NeverFiledTwice == Spec => []OneRequestPerKey
<1>1. Init => SubmissionInv
  BY InitSubmission
<1>2. SubmissionInv /\ [Next]_vars => SubmissionInv'
  BY NextSubmission
<1>3. SubmissionInv => OneRequestPerKey
  BY RepliesSettle
<1> QED  BY <1>1, <1>2, <1>3, PTL DEF Spec

=============================================================================
