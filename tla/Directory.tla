------------------------------- MODULE Directory -------------------------------
(***************************************************************************)
(* Who is who: employees and where they work, students, faculties and      *)
(* groups; what an administrator changes about them, and what a profile    *)
(* sent with a request makes of them.                                      *)
(*                                                                         *)
(* A handler of an administrator reads and writes one row and is one step. *)
(* A profile is looked up query by query, and stored when the transaction  *)
(* of the request it came with commits (Intake): Lookup is what the first  *)
(* queries find, StoreProfile what the transaction leaves behind.          *)
(*                                                                         *)
(* A faculty's code is a stem, made of the initials of its name, and the   *)
(* number appended to it.                                                  *)
(***************************************************************************)
EXTENDS Calls

CONSTANTS
  Employees,          \* ids of users who are not students, in their order
  StudentIds,         \* external student numbers
  FacultyIds, FacultyNames, GroupIds, GroupNames,
  Departments,
  Stem,               \* the initials of a faculty's name
  Staffing,           \* the employees a system may start with
  EmployeeChanges,    \* bodies an administrator sends about an employee
  FacultyRows         \* and the faculties an administrator writes

ASSUME DirectoryAssumption ==
  /\ Employees \subseteq Nat /\ FacultyIds \subseteq Nat /\ GroupIds \subseteq Nat
  /\ IsFiniteSet(FacultyIds) /\ IsFiniteSet(GroupIds)
  /\ {} \notin {FacultyIds, FacultyNames, GroupIds, GroupNames}
  /\ None \notin Employees \cup FacultyIds \cup GroupIds \cup FacultyNames \cup Departments

VARIABLES
  employees, students, faculties, groups,
  edited,             \* history: an administrator changed a faculty or a group
  reassigned          \* history: employees an administrator created or changed

directoryVars == <<employees, students, faculties, groups, edited, reassigned>>

Handling == {"staff", "registrator"}
Employee == [role : Handling \cup {"admin", "leadership"}, active : BOOLEAN,
             faculty : FacultyIds \cup {None}, department : Departments \cup {None},
             manager : BOOLEAN]
Student  == [faculty : FacultyIds \cup {None}, group : GroupIds \cup {None},
             department : Departments \cup {None}, active : BOOLEAN]
Code     == [stem : {Stem[n] : n \in FacultyNames}, suffix : Nat]
Faculty  == [name : FacultyNames, code : Code]
Group    == [name : GroupNames, faculty : FacultyIds]

ASSUME RowsAssumption ==
  None \notin Faculty \cup Group /\ Staffing \subseteq [Employees -> Employee \cup {None}]

MayHandle(e) == employees[e] # None /\ employees[e].active /\ employees[e].role \in Handling

-----------------------------------------------------------------------------
(* What an administrator does.                                             *)

\* create_user
CreateEmployee(e, row) ==
  /\ Spend("directory")
  /\ employees[e] = None /\ row.active /\ (row.manager => row.role \in Handling)
  /\ employees' = [employees EXCEPT ![e] = row]
  /\ reassigned' = reassigned \cup {e}
  /\ UNCHANGED <<students, faculties, groups, edited>>

\* update_user and delete_user, as far as routing reads what they write.
UpdateEmployee(e, change) ==
  /\ Spend("directory")
  /\ employees[e] # None
  /\ LET after == [f \in DOMAIN employees[e] |->
                     IF f \in DOMAIN change THEN change[f] ELSE employees[e][f]] IN
     /\ ("manager" \in DOMAIN change /\ change.manager) => after.role \in Handling
     /\ employees' = [employees EXCEPT ![e] = after]
  /\ reassigned' = reassigned \cup {e}
  /\ UNCHANGED <<students, faculties, groups, edited>>

\* delete_user, and update_user with is_active, of a student.
SwitchStudent(s, active) ==
  /\ Spend("directory")
  /\ students[s] # None /\ students[s].active # active
  /\ students' = [students EXCEPT ![s].active = active]
  /\ UNCHANGED <<employees, faculties, groups, edited, reassigned>>

\* The unique index on faculties.code.
CodeTaken(code) == \E f \in Rows(faculties) : faculties[f].code = code

\* create_faculty: the name may be one that is there already.
CreateFaculty(f, row) ==
  /\ Spend("directory")
  /\ Takes(faculties, f) /\ ~CodeTaken(row.code)
  /\ faculties' = [faculties EXCEPT ![f] = row]
  /\ edited' = TRUE
  /\ UNCHANGED <<employees, students, groups, reassigned>>

\* update_faculty: deactivation is left out, nothing here reads it.
UpdateFaculty(f, row) ==
  /\ Spend("directory")
  /\ faculties[f] # None /\ (row.code = faculties[f].code \/ ~CodeTaken(row.code))
  /\ faculties' = [faculties EXCEPT ![f] = row]
  /\ edited' = TRUE
  /\ UNCHANGED <<employees, students, groups, reassigned>>

\* update_student_group: nothing keeps two groups apart.
UpdateGroup(g, row) ==
  /\ Spend("directory")
  /\ groups[g] # None
  /\ groups' = [groups EXCEPT ![g] = row]
  /\ edited' = TRUE
  /\ UNCHANGED <<employees, students, faculties, reassigned>>

-----------------------------------------------------------------------------
(* sync_student_from_profile                                               *)

FacultiesNamed(name)     == {f \in Rows(faculties) : faculties[f].name = name}
GroupsNamed(name, faculty) ==
  {g \in Rows(groups) : groups[g].name = name /\ groups[g].faculty = faculty}

\* What one lookup finds: the one row, or None.  More than one raises.
The(found)    == IF found = {} THEN None ELSE CHOOSE i \in found : TRUE
Single(found) == Cardinality(found) <= 1

\* Whatever is there, a faculty is created, under a number nobody has.
LookupUnreturned(profile) ==
  [profile |-> profile, copy |-> students[profile.id], faculty |-> None, group |-> None,
   code |-> [stem |-> Stem[profile.faculty], suffix |-> Cardinality(Rows(faculties))]]

\* The student and the faculty of a profile [id, faculty, group].  A faculty
\* nobody has needs a code: its initials are the first to be tried.
Lookup(profile) ==
  LET faculty == The(FacultiesNamed(profile.faculty)) IN
  [profile |-> profile,
   copy    |-> students[profile.id],
   faculty |-> faculty,
   code    |-> IF faculty # None THEN None
               ELSE [stem |-> Stem[profile.faculty], suffix |-> 0],
   group   |-> None]

\* Rows that lookups did not find and the transaction inserted: the unique
\* indexes on the student's number and on the code refuse a second one.
Conflicts(sync) ==
  \/ sync.copy = None /\ students[sync.profile.id] # None
  \/ sync.faculty = None /\ CodeTaken(sync.code)

\* Bound: a transaction that needs a row has one to take.
HasRoom(sync) == (sync.faculty = None => Unused(faculties) # {})
              /\ (sync.group = None => Unused(groups) # {})

\* The rows the transaction leaves behind once it commits.
StoredFaculty(sync) == IF sync.faculty = None THEN Min(Unused(faculties)) ELSE sync.faculty
StoredGroup(sync)   == IF sync.group = None THEN Min(Unused(groups)) ELSE sync.group
StoreProfile(sync) ==
  LET id == sync.profile.id
      after == [faculty |-> StoredFaculty(sync), group |-> StoredGroup(sync),
                department |-> IF sync.copy = None THEN None ELSE sync.copy.department,
                active |-> TRUE]
  IN
  /\ faculties' = IF sync.faculty # None THEN faculties ELSE
       [faculties EXCEPT ![StoredFaculty(sync)] =
          [name |-> sync.profile.faculty, code |-> sync.code]]
  /\ groups' = IF sync.group # None THEN groups ELSE
       [groups EXCEPT ![StoredGroup(sync)] =
          [name |-> sync.profile.group, faculty |-> StoredFaculty(sync)]]
  /\ students' = [students EXCEPT ![id] =
       IF sync.copy = None THEN after ELSE Written(@, sync.copy, after)]

-----------------------------------------------------------------------------
\* One faculty with one group and one student of it; the others are new.
DirectoryInit ==
  /\ employees \in Staffing
  /\ faculties = [f \in FacultyIds |-> IF f # Min(FacultyIds) THEN None ELSE
       [name |-> First(FacultyNames), code |-> [stem |-> Stem[First(FacultyNames)], suffix |-> 0]]]
  /\ groups = [g \in GroupIds |-> IF g # Min(GroupIds) THEN None ELSE
       [name |-> First(GroupNames), faculty |-> Min(FacultyIds)]]
  /\ students = [s \in StudentIds |-> IF s # First(StudentIds) THEN None ELSE
       [faculty |-> Min(FacultyIds), group |-> Min(GroupIds),
        department |-> First(Departments), active |-> TRUE]]
  /\ edited = FALSE /\ reassigned = {}

DirectoryNext ==
  \/ \E e \in Employees :
       \/ \E row \in {staffing[e] : staffing \in Staffing} \ {None} : CreateEmployee(e, row)
       \/ \E change \in EmployeeChanges : UpdateEmployee(e, change)
  \/ \E s \in StudentIds, active \in BOOLEAN : SwitchStudent(s, active)
  \/ \E f \in FacultyIds, row \in FacultyRows : CreateFaculty(f, row) \/ UpdateFaculty(f, row)
  \/ \E g \in GroupIds, name \in GroupNames, f \in Rows(faculties) :
       UpdateGroup(g, [name |-> name, faculty |-> f])

-----------------------------------------------------------------------------
(* "Find a Faculty by name, creating it if missing" (_upsert_faculty): a   *)
(* name is found once unless an administrator wrote a second row.  The     *)
(* code does not keep this: nothing makes names unique, and a faculty      *)
(* stored between the lookup by name and the lookups by code only moves    *)
(* the second one on to the next code.                                     *)
FacultiesFoundOnce == edited \/ \A name \in FacultyNames : Single(FacultiesNamed(name))

=============================================================================
