-------------------------------- MODULE Intake ---------------------------------
(***************************************************************************)
(* How a request comes in: through the partner platform's token with a     *)
(* student's profile, or from a student who is signed in; under a service  *)
(* of the catalogue; to the employee its routing finds, or answered on the *)
(* spot.  The catalogue, the directory and the clients change meanwhile.   *)
(*                                                                         *)
(* A submission is one transaction in several steps: its queries by name,  *)
(* by code and by group, the service, the routing, and the commit.  Each   *)
(* reads what is committed then; nothing is locked.  Keys and tracking     *)
(* numbers are in Submission, what becomes of a request in Requests: here  *)
(* it is only open or closed, and may change hands.                        *)
(***************************************************************************)
EXTENDS Catalog, Clients, Sequences

CONSTANTS
  Filers,             \* submissions that may be in flight
  Catalogs,           \* the catalogues a system may start with
  Profiles,           \* the students, faculties and groups a partner sends
  Earlier,            \* the requests that may be there already
  WriteScope          \* requests:write

\* A system starts with a catalogue of two levels, whose automatic services
\* have an answer.
ASSUME IntakeAssumption ==
  \A start \in Catalogs :
    /\ start \in [Cats -> Category \cup {None}]
    /\ \A id \in Cats : start[id] # None /\ ~IsRoot(start[id]) =>
         /\ start[start[id].parent] # None /\ IsRoot(start[start[id].parent])
         /\ HasAnswer(start[id])

ASSUME ProfileAssumption ==
  Profiles \subseteq [id : StudentIds, faculty : FacultyNames, group : GroupNames]

VARIABLES
  filings,            \* the submissions in flight, or None
  requests,           \* requests, in the order they were committed
  peak,               \* history: the most open requests an employee ever had
  handed              \* history: employees given a request without being picked

intakeVars == <<filings, requests, peak, handed>>
vars == <<directoryVars, catalogVars, clientVars, intakeVars, budget>>

Request == [cat : Cats, handler : Employees \cup {None}, text : BOOLEAN,
            files : SUBSET Files, open : BOOLEAN]

\* _open_load
LoadIn(list, e) == Cardinality({i \in DOMAIN list : list[i].handler = e /\ list[i].open})
Load(e)         == LoadIn(requests, e)

\* The requests that are there already were routed to somebody, as evenly as
\* those that come.
ASSUME EarlierAssumption ==
  \A earlier \in Earlier :
    /\ earlier \in Seq(Request)
    /\ \A i \in DOMAIN earlier : earlier[i].handler # None /\ earlier[i].files = {}
    /\ \A e, d \in Employees : LoadIn(earlier, e) - LoadIn(earlier, d) <= Cardinality(Filers)

-----------------------------------------------------------------------------
(* routing_service: a set of candidates, and the one of them with the      *)
(* fewest open requests.                                                   *)

\* Nobody counts: the first one gets it.
FirstCandidate(candidates) ==
  IF candidates = {} THEN None ELSE Min(candidates)

LeastLoaded(candidates) ==
  IF candidates = {} THEN None
  ELSE LET fewest == Min({Load(e) : e \in candidates})
       IN  Min({e \in candidates : Load(e) = fewest})

BoundEmployees(role, faculty) ==
  {e \in Employees : MayHandle(e) /\ employees[e].role = role /\ employees[e].faculty = faculty}

GeneralManagers == {e \in Employees : MayHandle(e) /\ employees[e].manager}

StaffFor(faculty, department) ==
  LET staff == BoundEmployees("staff", faculty)
      own   == {e \in staff : department # None /\ employees[e].department = department}
  IN  LeastLoaded(IF own # {} THEN own ELSE staff)

FacultyManager(faculty, department) ==
  LET staff == StaffFor(faculty, department) IN
  IF staff # None THEN staff ELSE LeastLoaded(BoundEmployees("registrator", faculty))

\* resolve_handler
Handler(service, student) ==
  IF service.routing = "general_manager"
  THEN IF service.assignee # None /\ MayHandle(service.assignee)
       THEN service.assignee ELSE LeastLoaded(GeneralManagers)
  ELSE IF student.faculty = None THEN None
  ELSE FacultyManager(student.faculty, student.department)

-----------------------------------------------------------------------------
(* Submissions.                                                            *)

\* resolve_service: an active service under an active request type.
Usable(id) ==
  /\ Exists(id) /\ cats[id].active /\ ~IsRoot(cats[id])
  /\ Exists(cats[id].parent) /\ cats[cats[id].parent].active

Begin(h, filing) ==
  /\ Takes(filings, h)
  /\ filings' = [filings EXCEPT ![h] = filing]
  /\ UNCHANGED <<directoryVars, catalogVars, clientVars, requests, peak, handed>>

\* A submission goes on: what it is now, and nothing else changes.
Goes(h, filing) ==
  /\ filings' = [filings EXCEPT ![h] = filing]
  /\ UNCHANGED <<directoryVars, catalogVars, clientVars, requests, peak, handed, budget>>

\* The integration's create_request up to the lookup of the faculty.  One the
\* transaction is about to create is its own: nobody is bound to it.
BeginWithProfile(h, token, profile, id) ==
  /\ Spend("profile")
  /\ Passes(token, WriteScope) /\ Single(FacultiesNamed(profile.faculty))
  /\ LET sync == Lookup(profile) IN
     /\ sync.copy # None => sync.copy.active
     /\ Begin(h, [stage |-> IF sync.faculty = None THEN "code" ELSE "group", sync |-> sync,
                  student |-> [faculty |-> sync.faculty,
                               department |-> IF sync.copy = None THEN None
                                              ELSE sync.copy.department],
                  cat |-> id, service |-> None, handler |-> None, files |-> {}])

\* The student's own create up to resolve_service, from the row of the student
\* who is signed in.
BeginSignedIn(h, s, id) ==
  /\ Spend("student")
  /\ students[s] # None /\ students[s].active /\ Usable(id)
  /\ Begin(h, [stage |-> "route", sync |-> None,
               student |-> [faculty |-> students[s].faculty,
                            department |-> students[s].department],
               cat |-> id, service |-> cats[id], handler |-> None, files |-> {}])

At(h, stage) == filings[h] # None /\ filings[h].stage = stage

\* _upsert_faculty, one pass of its loop: a code that is taken gets the next
\* number, one that is free is the new faculty's.
TryCode(h) ==
  /\ At(h, "code")
  /\ Goes(h, IF CodeTaken(filings[h].sync.code)
             THEN [filings[h] EXCEPT !.sync.code.suffix = @ + 1]
             ELSE [filings[h] EXCEPT !.stage = "group"])

\* _upsert_student_group: a faculty of its own has no groups.
GroupsSought(sync) ==
  IF sync.faculty = None THEN {} ELSE GroupsNamed(sync.profile.group, sync.faculty)

\* The lookup of the group, and resolve_service: they read other tables.
FindGroup(h) ==
  /\ At(h, "group")
  /\ LET f == filings[h] IN
     /\ Single(GroupsSought(f.sync)) /\ Usable(f.cat)
     /\ Goes(h, [f EXCEPT !.stage = "route", !.service = cats[f.cat],
                          !.sync.group = The(GroupsSought(f.sync))])

\* create_request between resolve_service and the insert: the handler, or
\* the files of the answer.
Route(h) ==
  /\ At(h, "route")
  /\ LET f == filings[h]
         auto == f.service.routing = "auto_reply"
         handler == IF auto THEN None ELSE Handler(f.service, f.student)
     IN
     /\ auto \/ handler # None
     /\ Goes(h, [f EXCEPT !.stage = "commit", !.handler = handler,
                          !.files = IF auto THEN FilesOf(f.cat) ELSE {}])

\* Two groups found, no such service; NoGeneralManager, NoHandlerForFaculty,
\* StudentHasNoFaculty.
Refuse(h) ==
  /\ \/ /\ At(h, "group")
        /\ ~Single(GroupsSought(filings[h].sync)) \/ ~Usable(filings[h].cat)
     \/ /\ At(h, "route") /\ filings[h].service.routing # "auto_reply"
        /\ Handler(filings[h].service, filings[h].student) = None
  /\ Goes(h, None)

\* What is remembered of the loads after a step.
Remember ==
  peak' = [e \in Employees |-> IF peak[e] < Load(e)' THEN Load(e)' ELSE peak[e]]

\* The commit: the profile, and the request; an automatic answer closes it.
Commit(h) ==
  /\ At(h, "commit")
  /\ LET f == filings[h]
         auto == f.service.routing = "auto_reply" IN
     /\ requests' = Append(requests,
          [cat |-> f.cat, handler |-> f.handler, text |-> auto /\ f.service.text,
           files |-> f.files, open |-> ~auto])
     /\ handed' = IF f.handler # None /\ f.handler = f.service.assignee
                  THEN handed \cup {f.handler} ELSE handed
     /\ IF f.sync = None
        THEN UNCHANGED <<students, faculties, groups>>
        ELSE ~Conflicts(f.sync) /\ HasRoom(f.sync) /\ StoreProfile(f.sync)
  /\ Remember
  /\ filings' = [filings EXCEPT ![h] = None]
  /\ UNCHANGED <<employees, edited, reassigned, catalogVars, clientVars, budget>>

\* A unique index, or anything else that rolls the transaction back.
Fail(h) == filings[h] # None /\ Goes(h, None)

-----------------------------------------------------------------------------
(* What becomes of requests, as far as the loads depend on it.             *)

\* An answer, a rejection, a cancellation: a status that is not OPEN.
Close(i) ==
  /\ Spend("request")
  /\ requests[i].open
  /\ requests' = [requests EXCEPT ![i].open = FALSE]
  /\ UNCHANGED <<directoryVars, catalogVars, clientVars, filings, peak, handed>>

\* A handler whose copy was still open writes its status over the closing
\* (Requests): the request comes back to whoever has it.
Reopen(i) ==
  /\ Spend("request")
  /\ ~requests[i].open /\ requests[i].handler # None
  /\ requests' = [requests EXCEPT ![i].open = TRUE]
  /\ handed' = handed \cup {requests[i].handler}
  /\ Remember
  /\ UNCHANGED <<directoryVars, catalogVars, clientVars, filings>>

\* assign_request: a request goes to whom a registrator names.  It was open
\* when it was loaded, which one that was answered at once never is.
AssignRequest(i, e) ==
  /\ Spend("request")
  /\ requests[i].handler # None /\ MayHandle(e)
  /\ requests' = [requests EXCEPT ![i].handler = e]
  /\ handed' = handed \cup {e}
  /\ Remember
  /\ UNCHANGED <<directoryVars, catalogVars, clientVars, filings>>

-----------------------------------------------------------------------------
\* A request type with a service of each routing, and one without services.
CatalogInit ==
  /\ cats \in Catalogs /\ edits = [h \in Editors |-> None] /\ crossed = {}
  /\ \E stored \in SUBSET (Files \X {id \in Cats : cats[id] # None /\ cats[id].text}) :
       /\ Cardinality(stored) <= 1 /\ \A p \in stored : p[1] = First(Files)
       /\ files = [f \in Files |-> IF \E p \in stored : p[1] = f
                                   THEN (CHOOSE p \in stored : p[1] = f)[2] ELSE None]
       /\ disk = {p[1] : p \in stored}

Init ==
  /\ DirectoryInit /\ CatalogInit /\ ClientsInit
  /\ filings = [h \in Filers |-> None] /\ requests \in Earlier
  /\ peak = [e \in Employees |-> Load(e)] /\ handed = {}
  /\ budget \in MaxCalls

Next ==
  \/ DirectoryNext /\ UNCHANGED <<catalogVars, clientVars, intakeVars>>
  \/ CatalogNext /\ UNCHANGED <<clientVars, intakeVars>>
  \/ ClientsNext /\ UNCHANGED <<directoryVars, catalogVars, intakeVars>>
  \/ \E h \in Filers :
       \/ \E id \in Cats :
            \/ \E token \in tokens, profile \in Profiles : BeginWithProfile(h, token, profile, id)
            \/ \E s \in StudentIds : BeginSignedIn(h, s, id)
       \/ TryCode(h) \/ FindGroup(h) \/ Route(h) \/ Refuse(h) \/ Commit(h) \/ Fail(h)
  \/ \E i \in DOMAIN requests :
       Close(i) \/ Reopen(i) \/ \E e \in Employees : AssignRequest(i, e)

Spec == Init /\ [][Next]_vars

-----------------------------------------------------------------------------
(* "An unroutable request must not be silently created with no owner"      *)
(* (resolve_handler_for_student), and an automatic service "must have      *)
(* something to answer with" (_check_auto_reply): every request has a      *)
(* handler or carries an answer, unless two updates of its service         *)
(* overlapped.                                                             *)
OwnedOrAnswered ==
  \A i \in DOMAIN requests :
    requests[i].handler # None \/ requests[i].text \/ requests[i].cat \in crossed

(* _least_loaded evens out open requests only as far as it sees them: of   *)
(* employees alike to the routing, whom no administrator touched, one to   *)
(* whom nobody gave a request by name, or back after it was closed, never  *)
(* got more open requests than another at his fullest, plus the            *)
(* submissions in flight - those that chose him by the same count -        *)
(* however requests were closed and taken away meanwhile.                  *)
Alike(e, d) == employees[e] = employees[d] /\ {e, d} \cap reassigned = {}
Balanced ==
  \A e, d \in Rows(employees) :
    Alike(e, d) /\ e \notin handed => peak[e] - peak[d] <= Cardinality(Filers)

(* An automatic answer's files: the cap is exceeded at most by the uploads *)
(* that were counted together (add_auto_reply_file), and every file a      *)
(* service sends, and every file a request was once answered with, is      *)
(* stored, whatever was taken off the service since                        *)
(* (remove_auto_reply_file: "the bytes stay on disk").                     *)
AnswerFiles ==
  /\ \A id \in Cats : Cardinality(FilesOf(id)) < MaxAnswerFiles + Cardinality(Editors)
  /\ \A f \in Files : files[f] # None => f \in disk
  /\ \A i \in DOMAIN requests : requests[i].files \subseteq disk

(* scalar_one_or_none raises when it finds two rows, so that a name found  *)
(* twice keeps every later request of that faculty or group from coming    *)
(* in.  Nothing makes names unique; but unless an administrator edits      *)
(* them, a name is never stored more often than submissions were in flight *)
(* that all missed it (_upsert_faculty, _upsert_student_group).            *)
TwinsBounded ==
  edited \/
    /\ \A name \in FacultyNames : Cardinality(FacultiesNamed(name)) <= Cardinality(Filers)
    /\ \A name \in GroupNames, f \in Rows(faculties) :
         Cardinality(GroupsNamed(name, f)) <= Cardinality(Filers)

=============================================================================
