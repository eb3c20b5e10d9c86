# Verification of ROYD, the student request register

ROYD (`src/`) takes requests ("murojaat") from students, mostly through a
partner platform that files them over the API, routes each to a member of
staff, and sees to it that the student gets an answer in time. The backend is
a FastAPI service over PostgreSQL and Redis, run as several `uvicorn` workers;
the frontend is a React application for the staff.

This directory holds TLA+ models of the parts whose correctness depends on
concurrency, failure or time, the TLC configurations that check them, and
proofs. Paths below are relative to `src/backend/app/` unless they say
otherwise. `PROJECT.json` maps every definition to the lines it models.

## 1. Inventory

| Component | State it keeps | Operations | Hard behaviour | What makes it correct |
|---|---|---|---|---|
| **Request workflow** `services/request_service.py`, `api/v1/requests.py`, `models/request.py` | row of `requests`, `request_history`, messages, files | file, auto-reply, assign, transition, answer, resubmit, message, file | every handler decides on a copy from a plain `SELECT`; overlapping handlers, reassignment while somebody works, rows of the former triage flow | a completed request has an answer; history tells the status; a closed request stays closed; return and resubmission cost the office nothing |
| **Partner events** `services/events.py` | webhook rows in the outbox | publish | events of overlapping handlers | the newest status event tells the status |
| **SLA sweep** `services/sla_service.py` | `sla_warned_at`, `sla_breached_at` | one pass every few minutes, one worker at a time | holds copies of a whole batch while it sends notices | one warning and one breach per deadline; nobody overdue is overlooked |
| **SLA calendar** `services/sla_calendar.py` | settings only | `add_working_time`, `working_time_between` | local days against UTC, weekends, holidays, a calendar with no working day | the deadline is the exact moment the working hours are over |
| **Outbox** `services/outbox_service.py`, `core/locks.py`, `models/outbox.py` | row: status, attempts, next attempt; Redis claim | enqueue, deliver a batch, back off, give up | claim expires under a long batch; crash between send and commit; time-outs | one pair of hands per row; sent means taken; every row settles |
| **Submission** `api/v1/integration.py`, `services/request_service.py` (numbers), `core/errors.py` | `client_ref`, `tracking_no` (both unique), Redis counter | look up key, take number, insert, replay | retries overtaking their first call; lost counter; text comparison of numbers | one key, one request, and its caller learns which |
| **Routing** `services/routing_service.py` | reads employees, services and loads | resolve handler | counts are stale under concurrent filing; the assignee of a service may leave | an active, suitable handler or a refusal; among equals, loads stay as even as the routing can see |
| **Student upsert** `services/auth_service.py` | users, students, faculties, groups | `sync_student_from_profile` | name and codes looked up in separate queries, then inserted; names without a unique key | a name is stored no more often than submissions miss it together |
| **Sessions** `core/security.py`, `api/v1/auth.py` | refresh ids, idle windows, reset links in Redis | log in, refresh, log out, change or reset a password | rotation in several round trips; expiry; password change during a refresh; deactivation | what is over stays over; old sessions end; a used link is dead; the cookie works |
| **Two-factor codes** `core/totp.py`, `api/v1/auth.py` | secrets in the row, used steps in Redis | enrol, prove, sign in, remove | the same code twice; a secret replaced while it is proved | a code is good once; a factor in force was proved |
| **Guessing budget** `core/security.py` | failure counters per identity and address in Redis | check before an attempt, count after it | attempts in flight together | the lockout is exceeded only by what was in flight |
| **User administration** `api/v1/users.py` | users, roles | create, update, delete | check of the last administrator after the change, concurrently | an active administrator remains |
| **Service catalogue** `services/catalog_service.py`, `api/v1/catalogs.py` | categories, automatic answers and files | create, update, attach | check against a copy; count-then-insert | two levels; an automatic service has an answer; its files are there |
| **API clients** `services/api_client_service.py`, `api/v1/api_clients.py` | clients, hashed secrets, token versions | create, rotate, disable, token endpoint | tokens bought before; rotations that overlap | only the present secret's tokens pass |
| **Notifications and live push** `services/notification_service.py`, `api/v1/ws.py`; `frontend/.../notifications/` | notification rows, sockets, a pub/sub listener; lists and badge in the browser, the hook's closures and its reference to a socket | create, push, read, exchange the token | pushed before commit; the listener dies; an old closure reconnects after a token was exchanged; another user signs in on the tab | what is stored is seen, and by whom it is for |
| **Files** `services/file_service.py` | bytes on disk, rows | store, serve | bytes without row after a rollback | every row has its bytes |
| **Browser session** `frontend/src/shared/api/base.ts` (in `src/`) | access token in memory, refresh cookie | refresh on 401 | several tabs on one cookie | one refresh at a time |
| Rate limit `middleware/rate_limit.py` | counters per minute | count | Redis down | none beyond the counter |
| Reports, statistics, audit, e-mail text, pages, deployment, migrations, document generator | — | — | read-only, presentation or operator scripts | not modelled |

How they meet: a handler runs in one database session (`core/db.get_db`); the
workflow, the history, the notification rows and the outbox rows of a change
commit together or not at all. The outbox worker and the sweep run in every
worker's scheduler (`main.lifespan`) and are kept apart by `core/locks.claim`.
Redis holds what is not transactional: the tracking counter, claims, refresh
tokens, idle windows, burnt codes, failure counters; and it carries what is
pushed to browsers. A handler reaches it in round trips of its own, before, in
the middle of and after its database transaction. Nothing in the backend locks
a row before it decides on it, except the outbox (`FOR UPDATE SKIP LOCKED`).

## 2. Modules

| Module | Models | One action per |
|---|---|---|
| `Lifecycle` | nothing in the code: what a request promises (a budget of working hours, a single close); `Requests` refines it | promise |
| `Requests` | request workflow, partner events, SLA sweep | `Begin...` (load and checks) and `Commit...` (write, history, events, commit) of a handler |
| `Outbox` | outbox delivery and the claim | `BeginPass`, one `Deliver...` per row, `CommitPass`, `Crash` |
| `Submission` | idempotency keys and tracking numbers | round trip: look up, `INCR`, `MAX`, `SET`, insert, commit |
| `SlaCalendar` | both calendar loops and their use in `_apply_status` | iteration |
| `Sessions` | refresh tokens, idle windows, cookie, passwords and reset links of one user | round trip to Redis or the database |
| `Accounts` | sign-in, second factor, guessing budget, user administration | round trip; load, flush and commit of a change |
| `Notifications` | rows, publishing, listener, sockets, and the browser's tabs | step of a process, and each message or answer between them |
| `Calls` | what the four modules below share: a bound on calls, slots for those in flight, column-wise write-back | |
| `Clients` | API clients, their secrets and tokens | load and commit |
| `Directory` | employees, students, faculties, groups; what the profile upsert finds and stores | administrator's handler |
| `Catalog` | the two-level catalogue and the files of automatic answers | load and commit; count, store and commit of an upload |
| `Intake` | a submission from its token to its handler, over all of these; which requests are open and whose they are | query: look up, try a code, find the group, route, commit; close, reopen, reassign |
| `RequestsProofs`, `OutboxProofs`, `SubmissionProofs`, `SlaCalendarProofs`, `AccountsProofs`, `SessionsProofs`, `IntakeProofs`, `NotificationsProofs` | theorems about the module they extend | |
| `MC...` | symmetry sets and bounded inputs for TLC | |

`Directory`, `Catalog` and `Clients` extend `Calls`; `Catalog` extends
`Directory`, and `Intake` extends `Catalog` and `Clients`: its next-state
relation is theirs, each leaving the others' variables alone, and the steps of
a submission, which read all of them. `Requests` is refined from `Lifecycle`
by `INSTANCE ... WITH`.

### Requests

`rows[r]` is the committed row (or `None`), `txn[h]` what a handler in flight
has loaded, `sweep` the copies of a pass, `history[r]` and `events[r]` the two
logs, `now` a clock of working hours. A commit applies `WriteBack`: SQLAlchemy
updates the columns whose value differs from the loaded one, and only those,
onto whatever the row is by then. The UPDATE takes the row lock and keeps it to
the commit, so writing, recording and publishing are one step. `datetime.now()`
is read anywhere between load and lock (`ClockReads`). A rollback is `Abort`.

Abstracted: texts, titles and validation of input (a refused request changes
nothing); internal notes (they touch only the messages table and publish
nothing); faculty and department of a request; the read-only leadership roles;
who is notified. `Registrar` stands for administrators too, who have the same
rights here. Webhooks are taken to be configured. The events of an answer's
files, published just before the close, belong to the commit of the answer.
A pass of the sweep is taken to end before its claim does, so there is at most
one.

Rows of the former workflow start in the statuses `LegacyRow` names. Its
completed and returned rows are left out: migration 0009 adds the answer and
pause columns as NULL and fills nothing in, so such a completed row has no
answer and such a returned one no pause, and `CompletedIsAnswered` and
`PausedIffReturned` are claims about rows the present workflow wrote.
`AutoReply` takes the service's answer text to be there; that two overlapping
updates of the service can leave it without one is in `Intake`
(`OwnedOrAnswered`, `crossed`).

### Outbox

Times are what is left of them: `wait` until `next_attempt_at`, `lock` the rest
of the claim. `pass[w].held` are the rows a pass has locked, as its session
sees them; they reach `outbox` with the one commit at its end. `sends` and
`accepted` are history variables for what left the service and what the other
side took. Without Redis no worker claims, which is a pass that does not begin.

### Submission

One student and one year; the student's profile is not changed by the calls (a
call that changes it holds a row lock through its lookup, and a retry behind it
would wait there and be replayed). `Digits` and `TextBefore` give the text order of
zero-padded numbers in any base, so that outgrowing the padding happens at 4
instead of 100000. `failures` bounds failed calls, lost answers and calls
without a key together.

### SlaCalendar

Moments are whole hours; the local zone has a fixed offset, as Asia/Tashkent
has. `Worked` is the reference: the number of hours in an interval that lie on
working days. The same arithmetic appears in `Requests` as plain addition on a
clock of working hours, which `DeadlineIsExact`, `RemainderIsExact` and
`ReturnCostsNothing` justify. A holiday may fall on any of the chosen days, so
fixed and dated holidays are not told apart.

### Sessions

One user, any number of tabs and devices. `live`, `blocked`, `seen` and `links`
are the keys in Redis, `cookie` what the user's browser holds; `calls[h]` is a
handler between two round trips, at its `stage`. Each key that expires is an
hour glass that `Tick` runs down; the seven days of a refresh token are longer
than any behaviour, so it never expires by itself. A password is the number of
the write that set it. Tokens from before tokens named their session have
session 0, which has no window. Any token somebody was given may be presented
at any time, by the browser or by anybody else. `revoke_all_refresh_tokens` is
two round trips, a `SCAN` and a deletion of what it found.

A password reset reads the link's key, deletes it, loads the user, sets and
commits the password, and sweeps: each is a step, and so are the load and the
check of a change of password. Two resets that both read the key before either
deletes it both go on, as the deletion's result is not asked. What remains is
`UsedLinkIsDead`: a link through which a password was set is gone for whoever
comes later; what overlaps is in section 3. Logging out takes any token
of the user that was given out, from the cookie or from the body.

Two histories make the properties say what the code can promise. A call that
is in flight during a sweep may mint a token the sweep never saw; such a token
and its descendants are `slipped`. `undisturbed` says that the browser sent its
calls one by one and got their answers, as `base.ts` does within one tab: two
tabs on one cookie, or a lost answer, can log the user out. `over` and `barred`
remember sessions and users that ended with no call past its check, because a
call past it may still slide the window or mint once.

### Accounts

`users[u]` is the committed row, `calls[h]` a handler with its copy. A change
is loaded, flushed (which takes the row's lock) and committed; the count of
administrators runs between the two, in the transaction's own view
(`READ COMMITTED`). Time is counted in steps of the one-time codes, a code is
the pair of secret and step. A burnt step is remembered for `BurnSteps`; that
this is longer than the code can match (120 s against three steps of 30 s) is
the assumption the theorem about codes rests on; in the run the clock ends
before a burnt code is forgotten, and it is the theorem that goes beyond.

Left out: the general-manager flag (in `Directory`; a change of role leaves it
set), the time of the last sign-in and the profile; one address only; the delay
that grows with every failure below the lockout, which only makes attempts
later. `mixed` and `skewed` record what overlapping handlers really break: an
enrolment written over a newer factor, and two checks of the last
administrator that miss each other. The run `last_admin` shows the second.

### Notifications

Both ends of the push. A writer flushes a row, publishes it, and commits or
rolls back afterwards; a worker's listener passes it to the sockets the worker
holds, one by one; a tab takes it as a hint to ask again, and shows what the
answer says, which may be older. Signing out empties the cache; a delivery, an
answer or a refused handshake may still be on its way.

`useNotificationSocket.ts` is modelled closure by closure, because its effect
runs again for every access token while `socketRef` and `closedByUsRef` are
shared. When a token is exchanged, the cleanup closes the socket `socketRef`
names and sets `closedByUsRef`; the next effect clears the flag at once, and the
old socket's `onclose`, which comes later, therefore reconnects with the old
token and overwrites `socketRef`. A socket's `closure` says whose it is:
`newest`, `older` (its effect was cleaned up, yet it goes on: `late` counts the
connections such closures still have to make, by whether their token is
accepted), or `gone` (the page was left, and nothing reconnects). `Cleanup`
closes the one socket the hook refers to and no other, so that signing out may
leave a socket open (`SignOut`); the server lets go of it when its session or
token ends or the page does, and until then goes on sending to it. A token is
exchanged after a 401 or by a change of password; `exchanged` remembers the tabs
where that happened. The answer of a refresh may come after signing out
(`LateAnswer`), but not after the next sign-in: a bound.

`faults` bounds the errors: a publish or a send that fails, a listener that
ends, a restarted worker, a broken connection, an expired access token, a
password changed to get another, a query that fails. An idle window that closes
refuses a handshake as an expired token does (`_authenticate`), and is the same
step, `TokenExpires`.

Modelled as the code is: only the badge is polled, the list is asked again on a
push or an own change; a listener that ended stays ended until its worker
restarts, and its tabs live by the poll; the socket of a session that ended
stays open until the browser closes it; "read all" marks rows the tab has not
shown yet.

### Clients, Directory, Catalog, Intake

A token carries the version of the secret it was bought with and the scopes it
was granted; a call is checked against the client's row as it is now. Two
rotations that overlap count the version up once, so that a token of the secret
in between passes as one of the last (`rotatedOver`). The `UPDATE` of
`last_used_at`, which makes the token endpoint wait behind a rotation, is left
out, so the model has behaviours more than the code.

An administrator's handler on an employee, a faculty or a group reads and
writes one row and is one step. A profile is looked up query by query, each a
step of its own under `READ COMMITTED`: student and faculty by name
(`Lookup`), then one code after the other until one is free (`TryCode`), then
the group (`FindGroup`); it is stored with the request, at the commit. A
faculty's code is its initials and a number and is unique; its name is not. Two
transactions that try the same code conflict, but a faculty committed between
another's lookup by name and its lookup by code only moves that one on to the
next code, and the name is stored twice (section 3): from then on
`scalar_one_or_none` raises for every profile of that name. Groups have no
unique index at all. What bounds the damage is that a name already stored once
is found: `TwinsBounded`. An administrator may also give a faculty a name that
is taken (`edited`).

An update of the catalogue is checked against a copy and written back column by
column. Two that overlap can leave a service automatic without an answer
(`crossed`); that they cannot break the two levels is a theorem. The checks and
the insert of a new entry are one step: what they read that could change is
whether the parent is a request type, and a request type never becomes a
service. An upload is
counted, written to disk and inserted; a rollback leaves the bytes.

A submission reads what is committed at each of its steps and locks nothing.
The load of an employee is the number of open requests, as `_open_load` counts
them: `Close` ends one (an answer, a rejection, a cancellation), `Reopen` is a
handler that writes its status from a copy over a closing (the interleaving is
in `Requests`), `AssignRequest` gives one to whom a registrator names. With
these, the loads of two equals may differ without bound: everything one of them
has may be closed. What the routing does promise is about growth: it gives
nobody a request who has more than another (`Balanced`). `peak` is the most open
requests an employee ever had, `handed` are those who were given requests by
name or got one back. Departments, and the active flag of a faculty, are
only read. Ids, files and calls in flight take the first free slot, as the
slots are alike.

Each module also holds deliberately faulty variants of some definitions, named
for what is wrong with them (`ApplyStatusKeepingPause`); no action uses them.
Put in the place of the original they make a property fail, which shows the
property is about the code.

## 3. Runs

A counter's bound is a constant named `Max...` (`begun`, `writes`, `faults` and
the `budget` of the intake count against them); the guards it appears in are
the only ones without a line in the code. The bounded systems really come to rest (no call left, deadline
found), so their runs do not check deadlock. `outbox` has a clock that always
ticks and checks it.

| Run | Question | Instance, and why it is enough |
|---|---|---|
| `overlap` | What holds of a row although no handler locks what it decides on? | one request, two handlers and the sweep at once, three operations, an `accepted` row of the former flow, two hours; a lost update needs two writers and one row, and the third operation meets what they left |
| `serial` | Do the rules of the workflow hold when handlers of a request do not overlap, and do they implement `Lifecycle`? | one handler at a time, the sweep beside it, four operations, four hours, two former statuses; four operations reach answer after resubmission after return |
| `overdue` | Is every overdue request noticed? | two requests, a batch of one, passes that may fail |
| `second_answer` | May an answer be replaced? | *violated*, two overlapping handlers |
| `outbox` | Do row locks and the one commit keep rows and sends true, and is every message sent or given up? | two messages, one of them a webhook, two workers, batches of two, two attempts, one crash; the claim of one tick expires under every pass that lasts longer |
| `retries` | Does a key name one request, and does its caller learn which? | two clients, the student's own form, one key, two calls in flight, one failure, one lost counter, numbering from nothing and from where the padding ends |
| `calendar` | Do the loops compute working time, and do they end? | every hour of a week, every subset of four holidays (Monday, Thursday, Friday and the Monday after the weekend), services of 1 to 7 hours in days of 3, each return and resumption within the six days that follow, and a calendar with no working day |
| `sessions` | What do rotation, expiry, sweeps and deactivation leave of a session? | three calls, two at a time, one link, a window of two ticks and access tokens of one, two devices of the user or a single token of an old browser, three tokens, two passwords set; a sweep that meets a refresh or a login, a refresh that meets a logout or the end of the window, and a third call that meets what they left |
| `accounts` | Is a code good once, a factor proved, the lockout kept, an administrator left? | two users, two secrets, three calls, two at a time, drift of one step, a code burnt for four, time past the first; lockout after one failure, an address good for two |
| `last_admin` | Is there always an administrator? | *violated*, two calls that overlap |
| `notifications` | Who is sent what, does a settled tab show what it was told of, do badge and connection come back? | one user who signs in, out and in again on a tab, one notification, a worker, two sockets, one error or exchanged token anywhere; tabs share nothing, two sockets are what two closures of one hook need. A second user adds nothing to who may be sent a push: a tab on which nobody is signed in already must not be sent one |
| `submissions` | Does a submission come in under a valid token, do loads stay even, how often is a name stored, do directory and catalogue stay sound, is nobody left without an answer? | two submissions at a time; two staffings of three employees, a catalogue of one service under each routing, room for a fourth entry, one file to an answer, one earlier request; the budgets below |

The budget of a behaviour of `submissions` is one of the mixes of `MCMaxCalls`:
three submissions, or one or two of them with calls of one other kind beside
them (to requests, to the directory, about clients, to the catalogue), or calls
of one kind alone, three or four calls in all. Two calls make every overlap, the
third meets what they left. Calls of two further kinds in one behaviour are left
to the theorems: they meet only through what a submission reads.

`overlap` and `serial` ask different questions of the same actions. What
`serial` shows needs handlers that do not overlap (`Handlers` has one member);
what `overlap` shows does not. `MaxHold` is the number of hours a sweep may sit
on its copies; `serial` has none, so its markers are right. `notifications` has
one worker: a second one only adds sockets that a push reaches later, and makes
the liveness run too long.

### Violations

Both have a finding in `PROJECT.json` with the quotation they contradict.

- `second_answer`: `assert_can_answer` looks at a copy from a plain `SELECT`.
  Two answers that overlap are both accepted and the later commit overwrites
  text, author and time of the first.
- `last_admin`: `_assert_admin_remains` counts inside the transaction that
  makes the change. Two administrators who demote or deactivate each other at
  the same moment each count the other, and both commit.

Four more properties of this kind are stated in the modules and have no run of
their own. Each is violated when it is put in place of the properties of the
`.cfg` named.

- `AnsweredByHandler` (`MCRequests_second_answer.cfg`): `_assert_handler`
  (`services/request_service.py:350`, "Staff act only on requests assigned to
  them") looks at a copy. When a registrator gives the request to somebody else
  before an answer commits, the answer of the one it was taken from is accepted
  all the same.
- `LinkUsedOnce` (`MCSessions_rotation.cfg`): `reset_password` reads the key of a
  link and deletes it (`api/v1/auth.py:401`, "Single use"), and does not ask
  whether it was there to delete. Two resets that overlap both set a password.
- `HeardByOwner` (`MCNotifications_tabs.cfg`): after a token was exchanged, the
  older closure of `useNotificationSocket` (`:37`, `:75-82`) takes `socketRef`;
  signing out closes that socket (`:93`) and leaves the newer one, which goes on
  receiving the former user's pushes, also when the next one has signed in. With
  no token exchanged, or on the socket the hook refers to, this cannot happen
  (`HeardUnlessLost`).
- `FacultiesFoundOnce` (`MCIntake_submissions.cfg`): a profile that commits
  between another's lookup by name and by code (`services/auth_service.py:48`,
  "Find a Faculty by name, creating it if missing") makes that one store the
  same faculty under the next code.

Other places where code and text disagree, seen while modelling:

- A pass of the sweep writes the markers of its whole batch at its end, from
  the copies of its start (`services/sla_service.py:157`). A row returned and
  resumed in between gets the old marker beside its new deadline, and a breach
  marker hides it for good. (`MaxHold` above 0 in `serial` shows it.)
- `message.created` and `attachment.added` carry the status of the copy their
  handler loaded (`services/events.py:43`). After an overlapping answer the
  newest event says `in_progress`, while `docs/INTEGRATION.md:183-184` tells
  the partner to follow `occurred_at`. Created and status events alone suffice
  (`StatusEventsTellStatus`).
- A retry that looks up its key before the first call commits inserts too,
  waits for the unique index and is answered 409 (`core/errors.py:25`), which
  `docs/INTEGRATION.md:50` explains as "no handler" or "another integration's
  key". A further call is replayed, which is what `EveryKeySettles` says.
- `MAX(tracking_no)` compares text (`services/request_service.py:78`). After
  number 99999 of a year a lost counter restarts below numbers in use, and
  filings fail until it has passed them.
- The comment of `api/v1/ws.py:43` takes a pushed row to be committed already;
  the push goes out before the commit. What follows for the browser is in
  `SettledTabIsCurrent` and `BadgeCatchesUp`.

### Fairness

- `Requests!FairSpec` is fair to the scheduler only: a free sweep begins
  (weak), and a pass that begins again and again commits in the end (strong: a
  pass may fail, but not for ever). Handlers and people owe nobody anything.
- `Outbox!FairSpec`: time passes, and every worker begins, works off and
  commits its passes. Crashes are finitely many: a pass that always crashes
  delivers nothing in the program either.
- `Submission!FairSpec`: a call that began proceeds (the database answers) and
  a caller that did not learn the outcome retries, as the partner's
  documentation asks it to. Failures and lost answers are finitely many.
- `SlaCalendar!FairSpec`: a loop that can take a step takes it.
- `Notifications!FairSpec`: transactions end, listeners and deliveries proceed,
  the server's socket handlers and the browser's timers and queries run (all
  weak). Users click or do not, and nothing need ever go wrong.
- `Sessions`, `Accounts` and `Intake` have no liveness and no fairness: every
  property of theirs must hold wherever their callers stop.

## 4. Proofs

Every safety property the passing runs check, as an invariant or of steps, is
also a theorem of its module's `Spec`, for every value of the constants. What
the theorems assume of those values is named in the modules and evaluated by
TLC on every instance:

- `None` is none of the values it stands beside (`NullAssumption`,
  `RowAssumption`, `RowsAssumption`), and sizes and bounds are natural numbers.
- `Accounts`: a burnt code is remembered for longer than it can match.
- `Catalog`: a body names values of the columns (`BodyAssumption`), as pydantic
  sees to.
- `Intake`: the catalogue of the start has two levels and every service of it
  that answers by itself has an answer; profiles name a student, a faculty and
  a group; earlier requests went to somebody and left the loads even
  (`IntakeAssumption`, `ProfileAssumption`, `EarlierAssumption`). Each says of
  the first state what the theorems show of every later one.
- `Directory`: the sets of names and ids are not empty.

Where a theorem bounds something by the number of calls in flight, the set of
calls is assumed finite in its statement. Each theorem rests on an inductive
invariant, preserved by one lemma per action or kind of action; what follows
says which, and why the property alone is not inductive.

### `RequestsProofs`

`TypeCorrect` needs one fact more than the types: a handler is in flight only
on a request that was filed (`TypeInv`).

`CompletedAnswered` survives overlapping handlers although a handler commits
what it saw. `AnswerInv` adds `CopiesInFlight`: every copy was open when
loaded, and an answer or closing time it holds is still in the row, since no
handler ever erases one. The column-wise `WriteBack` then cannot complete a row
without an answer and a time, nor take them from a completed one.

`HistoryTruthful` and `EventsTruthful` are about the newest matching entry of a
log, which the properties find with `CHOOSE`. `LogsInv` says the same by a
witness: some entry tells the row's status and none after it names a status;
appending keeps either form, and `NewestEntry`, `NewestEvent` bring the two
together. What makes the step go through is that a commit that does not change
the status column publishes none, and one that does records the status it
writes, after whatever was committed since its copy was loaded.

The theorems whose names begin with `Serial` are about handlers that do not
overlap. The hypothesis is one about the behaviour, `[]Disjoint` - no two
handlers have the same request open - and not the instance's single handler:
any number of handlers may work, on different requests, and the sweep beside
them. `SingleHandler` shows that the instance of the run `serial` meets it,
and `second_answer` that it cannot be dropped. `SerialInv` adds to the
properties that a handler's copy is current in the columns it decides on
(`CopyIsCurrent`). Two theorems also assume `[]Instant`: no hour passes between
load and commit. `SerialMarkersMatch` needs it because a sweep that sits on its
copies writes markers of an older deadline (section 3). `TimedInv` says that
the deadline of a sweep's copy is the row's and the row's pause none or of this
very hour (`SweepIsCurrent`), and that a handler's copy has the row's markers
or a pause of this hour (`MarkersCurrent`): a row the sweep picked was running
this hour, so a pause that a handler ends was begun this hour, and
`_apply_status` gives back the hours that were left, which moves no deadline.
`SerialImplementsLifecycle` maps every step to a step or a stutter of
`Lifecycle`, one lemma per operation; the budget of hours it keeps is
`HoursLeft`.

### `OutboxProofs`

`OneHolder`, `SentIsTrue`, `FailedIsTrue` and `SettledForever` all rest on
`OutboxInv`. Each of the properties speaks about committed rows, but those are
written from the session of a pass, so the invariant says the same of the rows
a pass holds (`HeldIsTrue`), that what it has still to send are pending rows it
has locked, and that pending rows have attempts left. `TrueStaysTrue` is the
common step: facts about sends and acceptance survive because neither is ever
undone. That back-off is a natural number (`PowerType`) goes by counting
subsets, there being no induction to prove it with.

### `SubmissionProofs`

`NeverFiledTwice`: the property is about answers, which outlive their calls.
`SubmissionInv` ties them to rows: every answer with a number has its stored
row (`RepliesTrue`), no two committed rows carry one key, and a call about to
commit has inserted under a key that no committed row has and no other call
about to commit (`OneRowPerKey`). A lookup that finds nothing says nothing; it is
the index, and the wait for an uncommitted row, that carry the proof.

### `SlaCalendarProofs`

`DeadlinesAreExact`, `RemaindersAreExact` and `ReturnsCostNothing` hold of any
length of day and zone, any working days and holidays and any moments, while
the run tries a week. `WorkedOnDay` is the lemma all three use: hours up to the
next local midnight all lie on one local day (`SameDay`, by `QuotientIs`), so
that a day adds all of them or none. `CalendarInv` says what the loops have
counted: what was worked from the start to `cursor` and what is left to give
make up the hours asked for (`Counts`), and what was measured is what was
worked from the pause to `cursor`.

### `AccountsProofs`

`TypeInv` gives every kind of call its stages and its copy (`Shapes`).
`CodeIsUsedOnce` needs `Burning`: whatever was accepted is burnt until later
than it can match, which is where `BurnSteps > 2 * Drift` comes in; the check
and the burning are one `SET NX`, so that calls in flight together cannot both
pass. `AnAdminRemains`: `AdminInv` keeps what a call counted true until it
commits, as only another administrator's change touches role or flag, and one
that is in flight at the same moment sets `skewed`. `EnabledWasProven`:
`FactorInv` says of every enabling call about to commit that a code of its
copy's secret was accepted; where the row has another secret by then, the
commit is what `mixed` records. `BudgetIsKept`: `BudgetInv` counts, with the
failures of an identity, the calls that passed its check and have not been
counted; a call that passes finds fewer failures than the lockout, and there
are at most `Cardinality(Handlers)` calls.

### `SessionsProofs`

One relation carries all of it: `StepKept` says what a step may make of each
call in flight (`Follows`, from stage to stage, with the check that stands
between them), who may slide a window (`Slides`), mint (`Mints`), use a link
(`LinksUsed`) or begin and end a sweep (`Sweeps`). It is proved once per action
(`NextKeeps`), together with the types; the theorems are then case analyses on
it. `UsedLinksAreDead` needs that a link is gone for every call past its
deletion; `OverIsFinal` that no call of an over session is past its check;
`NothingAfterDeactivation` the same of a barred user. `OldSessionsAreEnded`
rests on `SweepInv`: what may still mint speaks for the present password or
meets a sweep, and what a sweep is about to delete is every live token but
those that slipped. `TypeInv` also numbers the sessions (`Numbered`), without
which a new session might reuse an old one's name.
`CookieIsAccepted` rests on `CookieInv`: a token minted and not yet handed over
is known to no other call (`OpensApart`); while the browser is undisturbed it
has at most one call under way (`OneByOne`), and a cookie that is not valid is
one that call is replacing or dropping (`Replaces`).

### `IntakeProofs`

- `TwoLevelsStay`: `LevelsInv` adds to the property that every update in flight
  leaves its entry on the level its copy had, beneath a request type. Because
  no entry ever changes its level, what the copy said of levels is still so
  when it is written, however stale the rest.
- `TokensBuyTheSecretInForce`: `TokensInv` says of everything that is held of a
  client - tokens, and copies in calls - that it is older than the row or has
  the row's secret. A rotation makes all of it older; only a rotation in
  between can give a version twice.
- `NobodyLeftUnanswered`: `AnswersInv` adds that an entry no updates crossed
  answers or routes, that every update in flight leaves it so, and that a
  submission under way was found by what its service said when it was looked
  up.
- `AnswersKeepTheirFiles`: `FewFiles` counts an upload on its way as a file
  already; the cap was free when it was counted, which leaves room for the
  uploads of the other editors and no more.
- `TwinsStayFew`: `NamesCounted` counts, with the rows of a name, the
  submissions under way that have missed it and will store another. A lookup
  misses a name only when no row has it, so whoever joins them finds at most
  other submissions counted; a commit turns one of them into a row. `ProfilesInv`
  holds this until an administrator edits a name.
- `LoadsStayEven`: `EvenlyLoaded` counts with a handler's load the submissions
  on their way to them (`Pending`); whoever was chosen had the least load, which
  is at most the other's `peak`, so that load and pending exceed that peak by
  no more than the submissions in flight. Closings lower a load and no peak, a
  peak only rises, and whoever gets a request in another way is `handed`.

### `NotificationsProofs`

`HeardUnlessLostSight`: a push chooses sockets by the user they were accepted
for, and the property speaks of the user signed in on the tab. `HeardInv` ties
them. The socket a hook refers to is open and for the user signed in (`TabOK`);
an open socket of a closure that is not gone is for them too, and as long as no
token was exchanged on the tab, no open socket but the referred one exists and
none is to be opened beside it (`SocketOK`); a delivery goes to sockets of its
note's user only, for as long as their identity lasts (`Deliveries`). Most steps
leave connections what they are (`ConnectionsStay`); the others change those of
one tab (`TabReconnects`).

`TabsSettleOnWhatIsTold`: a settled tab shows what its last answer said, so the
invariant must follow the answer. `ShownInv` says of a tab that is not stale
that the rows of an answer under way - or, where none takes their place, the
rows shown - contain what the tab is owed and nothing it marked (`Told`). A
question the server has not read yet promises nothing, a push or a mark makes
the tab stale, and other people's commits and marks undo nothing (`ShowsStays`,
from `RowsGrow`: a stored row stays stored, a read one read).

### Only model-checked

- Liveness: `OverdueIsNoticed`, `EverythingSettles`, `EveryKeySettles`,
  `LoopsEnd`, `BadgeCatchesUp`, `SocketComesBack`. The prover has no rule for
  fairness.
- The type invariants of `Submission` (the width of a number is a power, which
  needs induction), `SlaCalendar` and `Notifications` as theorems of their own;
  what the proofs need of them is in their invariants.
- That a number's text has the order `TextBefore` gives it, and whatever else
  the operators compute by recursion.
- The violations, which TLC finds and no theorem states.

## 5. Not modelled

Each component of `PROJECT.json` with status `not_modelled` has its reason.
Three kinds: read-only or presentation (reports, statistics, pages, e-mail
texts, audit log, document generator); operator scripts and migrations, which
run alone; and the rate limit, one counter in one pipeline that decides about
the call at hand and nothing else. Of the modelled parts, validation of input,
visibility of a request to a reader and the choice of recipients are left out:
they change no state these properties speak of. Signatures, hashes and file
types are data conversion and do what they promise. The delivery of e-mail
beyond the outbox and what the partner does with a webhook are outside the
repository.

## 6. Plan

1. Proofs: that `Disjoint` holds of any number of handlers who take turns on a
   row, from a constant that says so; `TypeOK` of `Notifications`; a bound on
   the rounds of the calendar loops, from which their end follows for every
   calendar with a working day.
2. Composition: `Submission` in front of `Intake`, and `Requests` with `Outbox`
   behind it, so that a key, a routed request, its event and the closings that
   routing counts are those of one row.
3. Departments and the active flag of a faculty as rows that administrators
   change; files of requests and messages beside those of automatic answers.
