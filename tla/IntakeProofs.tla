------------------------------ MODULE IntakeProofs ------------------------------
(***************************************************************************)
(* Theorems about Intake for every catalogue of two levels, any number of  *)
(* administrators' calls, submissions and calls of clients in flight, and  *)
(* whatever bodies they send: the catalogue keeps its levels, a token goes *)
(* with its secret, a request has an owner or an answer, answers keep      *)
(* their files, names are stored no more often than submissions missed     *)
(* them, and loads stay even.                                              *)
(***************************************************************************)
EXTENDS Intake, FiniteSetTheorems, WellFoundedInduction, TLAPS

Update == [op : {"update"}, cat : Cats, copy : Category, after : Category]
Upload == [op : {"upload"}, cat : Cats]

CatalogTypeOK ==
  /\ cats \in [Cats -> Category \cup {None}]
  /\ edits \in [Editors -> Update \cup Upload \cup {None}]

\* What an update in flight will write keeps the entry on its level, which is
\* still the one its copy had, and beneath a request type.
KeepsLevel(edit) ==
  /\ Exists(edit.cat)
  /\ IsRoot(edit.copy) <=> IsRoot(cats[edit.cat])
  /\ IsRoot(edit.after) <=> IsRoot(edit.copy)
  /\ ~IsRoot(edit.after) => IsRequestType(edit.after.parent)
EditsKeepLevels ==
  \A h \in Editors : edits[h] # None /\ edits[h] \in Update => KeepsLevel(edits[h])

LevelsInv == CatalogTypeOK /\ TwoLevels /\ EditsKeepLevels

-----------------------------------------------------------------------------
LEMMA ParentType ==
  ASSUME NEW cat \in Category PROVE cat.parent \in Cats \cup {None}
BY DEF Category

(* What a PATCH makes of a copy.                                           *)
LEMMA AppliedType ==
  ASSUME NEW copy \in Category, NEW payload \in Payloads
  PROVE  /\ Applied(copy, payload) \in Category
         /\ Applied(copy, payload).parent =
              IF "parent" \in DOMAIN payload THEN payload.parent ELSE copy.parent
<1>1. PICK after : after = Sent(copy, payload)
  OBVIOUS
<1>2. after \in Category
  BY <1>1, BodyAssumption
<1>3. after.parent = IF "parent" \in DOMAIN payload THEN payload.parent ELSE copy.parent
  <2>1. "parent" \in DOMAIN copy
    BY DEF Category
  <2> QED  BY <1>1, <2>1 DEF Sent
<1>4. PICK stripped : stripped = [after EXCEPT !.assignee = None]
  OBVIOUS
<1>5. stripped \in Category /\ stripped.parent = after.parent
  BY <1>2, <1>4 DEF Category
<1>6. Applied(copy, payload) = after \/ Applied(copy, payload) = stripped
  BY <1>1, <1>4 DEF Applied
<1> QED  BY <1>2, <1>3, <1>5, <1>6

(* The row an UPDATE leaves behind.                                        *)
LEMMA WrittenType ==
  ASSUME NEW row \in Category, NEW copy \in Category, NEW after \in Category
  PROVE  /\ Written(row, copy, after) \in Category
         /\ Written(row, copy, after).parent =
              IF after.parent # copy.parent THEN after.parent ELSE row.parent
<1>1. PICK new : new = Written(row, copy, after)
  OBVIOUS
<1>2. DOMAIN row = {"parent", "active", "routing", "text", "assignee"}
  BY DEF Category
<1>3. new = [f \in DOMAIN row |-> IF after[f] # copy[f] THEN after[f] ELSE row[f]]
  BY <1>1 DEF Written
<1>4. new = [parent |-> new.parent, active |-> new.active, routing |-> new.routing,
             text |-> new.text, assignee |-> new.assignee]
  BY <1>2, <1>3
<1>5. /\ new.parent = IF after.parent # copy.parent THEN after.parent ELSE row.parent
      /\ new.active = IF after.active # copy.active THEN after.active ELSE row.active
      /\ new.routing = IF after.routing # copy.routing THEN after.routing ELSE row.routing
      /\ new.text = IF after.text # copy.text THEN after.text ELSE row.text
      /\ new.assignee = IF after.assignee # copy.assignee THEN after.assignee ELSE row.assignee
  BY <1>2, <1>3
<1>6. new \in Category
  BY <1>4, <1>5 DEF Category
<1> QED  BY <1>1, <1>5, <1>6

(* A step after which every entry is there that was, on its level, keeps   *)
(* what is in flight true.                                                 *)
LEMMA LevelsStay ==
  ASSUME CatalogTypeOK, cats' \in [Cats -> Category \cup {None}],
         \A id \in Cats : Exists(id) =>
           cats'[id] # None /\ (cats'[id].parent = None <=> cats[id].parent = None),
         NEW edit \in Update, KeepsLevel(edit)
  PROVE  KeepsLevel(edit)'
<1>1. edit.cat \in Cats /\ edit.after \in Category
  BY DEF Update
<1>2. ~IsRoot(edit.after) => edit.after.parent \in Cats
  BY <1>1, ParentType DEF IsRoot
<1> QED  BY <1>1, <1>2 DEF KeepsLevel, Exists, IsRoot, IsRequestType

LEMMA NewEdit ==
  ASSUME LevelsInv, NEW h \in Editors, NEW edit \in Update \cup Upload,
         edit \in Update => KeepsLevel(edit), edits' = [edits EXCEPT ![h] = edit], cats' = cats
  PROVE  LevelsInv'
<1>1. CatalogTypeOK'
  BY DEF LevelsInv, CatalogTypeOK
<1>2. TwoLevels'
  BY DEF LevelsInv, TwoLevels, Exists, IsRoot, IsRequestType
<1>3. ASSUME NEW g \in Editors, edits'[g] # None, edits'[g] \in Update PROVE KeepsLevel(edits[g])'
  <2>1. CASE g = h
    BY <1>3, <2>1 DEF LevelsInv, CatalogTypeOK, KeepsLevel, Exists, IsRoot, IsRequestType
  <2>2. CASE g # h
    BY <1>3, <2>2 DEF LevelsInv, CatalogTypeOK, EditsKeepLevels, KeepsLevel, Exists, IsRoot,
                      IsRequestType
  <2> QED  BY <2>1, <2>2
<1> QED  BY <1>1, <1>2, <1>3 DEF LevelsInv, EditsKeepLevels

LEMMA EditDone ==
  ASSUME LevelsInv, NEW h \in Editors, edits' = [edits EXCEPT ![h] = None],
         cats' \in [Cats -> Category \cup {None}], TwoLevels',
         \A id \in Cats : Exists(id) =>
           cats'[id] # None /\ (cats'[id].parent = None <=> cats[id].parent = None)
  PROVE  LevelsInv'
<1>1. CatalogTypeOK'
  BY DEF LevelsInv, CatalogTypeOK
<1>2. ASSUME NEW g \in Editors, edits'[g] # None, edits'[g] \in Update
      PROVE  KeepsLevel(edits[g])'
  <2>0. edits'[g] = edits[g]
    BY <1>2 DEF LevelsInv, CatalogTypeOK
  <2>1. PICK edit : edit = edits[g]
    OBVIOUS
  <2>2. edit \in Update /\ KeepsLevel(edit)
    BY <1>2, <2>0, <2>1 DEF LevelsInv, EditsKeepLevels
  <2>3. KeepsLevel(edit)'
    BY <2>2, LevelsStay DEF LevelsInv
  <2> QED  BY <2>0, <2>1, <2>3 DEF KeepsLevel
<1> QED  BY <1>1, <1>2 DEF LevelsInv, EditsKeepLevels

-----------------------------------------------------------------------------
LEMMA LevelsAtStart == Init => LevelsInv
<1> SUFFICES ASSUME Init PROVE LevelsInv
  OBVIOUS
<1>1. cats \in Catalogs /\ edits = [h \in Editors |-> None]
  BY DEF Init, CatalogInit
<1>2. CatalogTypeOK
  BY <1>1, IntakeAssumption DEF CatalogTypeOK
<1>3. TwoLevels
  BY <1>1, IntakeAssumption DEF TwoLevels, Exists, IsRequestType
<1> QED  BY <1>1, <1>2, <1>3 DEF LevelsInv, EditsKeepLevels

LEMMA CreateKeepsLevels ==
  ASSUME LevelsInv, NEW id \in Cats, NEW cat \in NewCategories, CreateCategory(id, cat)
  PROVE  LevelsInv'
<1>1. cat \in Category /\ cat # None
  BY BodyAssumption
<1>2. cats[id] = None /\ cats' = [cats EXCEPT ![id] = cat] /\ edits' = edits
  BY DEF CreateCategory, Exists
<1>3. ~IsRoot(cat) => IsRequestType(cat.parent)
  BY DEF CreateCategory
<1>4. cats' \in [Cats -> Category \cup {None}]
  BY <1>1, <1>2 DEF LevelsInv, CatalogTypeOK
<1>5. \A old \in Cats : Exists(old) => cats'[old] = cats[old]
  BY <1>2 DEF Exists, LevelsInv, CatalogTypeOK
<1>6. TwoLevels'
  <2> SUFFICES ASSUME NEW x \in Cats, cats'[x] # None, cats'[x].parent # None
               PROVE  cats'[cats'[x].parent] # None /\ cats'[cats'[x].parent].parent = None
    BY DEF TwoLevels, Exists, IsRoot, IsRequestType
  <2>1. CASE x = id
    <3>1. cats'[x] = cat
      BY <1>2, <2>1 DEF LevelsInv, CatalogTypeOK
    <3>2. cat.parent \in Cats /\ cats[cat.parent] # None /\ cats[cat.parent].parent = None
      BY <1>1, <1>3, <3>1, ParentType DEF IsRoot, IsRequestType, Exists
    <3> QED  BY <1>5, <3>1, <3>2 DEF Exists
  <2>2. CASE x # id
    <3>1. cats'[x] = cats[x]
      BY <1>2, <2>2 DEF LevelsInv, CatalogTypeOK
    <3>2. PICK p : p = cats[x].parent
      OBVIOUS
    <3>3. p \in Cats
      BY <3>1, <3>2, ParentType DEF LevelsInv, CatalogTypeOK
    <3>4. cats[p] # None /\ cats[p].parent = None
      BY <3>1, <3>2 DEF LevelsInv, TwoLevels, Exists, IsRoot, IsRequestType
    <3> QED  BY <1>5, <3>1, <3>2, <3>3, <3>4 DEF Exists
  <2> QED  BY <2>1, <2>2
<1>7. ASSUME NEW g \in Editors, edits'[g] # None, edits'[g] \in Update
      PROVE  KeepsLevel(edits[g])'
  <2>1. PICK edit : edit = edits[g]
    OBVIOUS
  <2>2. edit \in Update /\ KeepsLevel(edit)
    BY <1>2, <1>7, <2>1 DEF LevelsInv, EditsKeepLevels
  <2>3. KeepsLevel(edit)'
    BY <1>4, <1>5, <2>2, LevelsStay DEF LevelsInv, Exists
  <2> QED  BY <1>2, <2>1, <2>3 DEF KeepsLevel
<1> QED  BY <1>2, <1>4, <1>6, <1>7 DEF LevelsInv, CatalogTypeOK, EditsKeepLevels

LEMMA BeginKeepsLevels ==
  ASSUME LevelsInv, NEW h \in Editors, NEW id \in Cats,
         \/ \E payload \in Payloads : BeginUpdate(h, id, payload)
         \/ BeginDeactivate(h, id) \/ BeginUpload(h, id)
  PROVE  LevelsInv'
<1>0. Exists(id) => cats[id] \in Category
  BY DEF LevelsInv, CatalogTypeOK, Exists
<1>1. ASSUME NEW payload \in Payloads, BeginUpdate(h, id, payload) PROVE LevelsInv'
  <2>1. PICK after : after = Applied(cats[id], payload)
    OBVIOUS
  <2>2. PICK edit : edit = [op |-> "update", cat |-> id, copy |-> cats[id], after |-> after]
    OBVIOUS
  <2>3. Exists(id) /\ KeepsItsLevel(id, cats[id], payload)
        /\ edits' = [edits EXCEPT ![h] = edit] /\ cats' = cats
    BY <1>1, <2>1, <2>2 DEF BeginUpdate, MayUpdate
  <2>4. cats[id] \in Category
    BY <1>0, <2>3
  <2>5. /\ after \in Category
        /\ after.parent = IF "parent" \in DOMAIN payload THEN payload.parent ELSE cats[id].parent
    BY <2>1, <2>4, AppliedType
  <2>6. IsRoot(after) <=> IsRoot(cats[id])
    BY <2>3, <2>5 DEF KeepsItsLevel, IsRoot
  <2>7. ~IsRoot(after) => IsRequestType(after.parent)
    <3>1. CASE "parent" \in DOMAIN payload
      BY <2>3, <2>5, <3>1 DEF KeepsItsLevel, IsRoot
    <3>2. CASE "parent" \notin DOMAIN payload
      BY <2>3, <2>5, <3>2 DEF LevelsInv, TwoLevels, IsRoot
    <3> QED  BY <3>1, <3>2
  <2>8. edit \in Update
    BY <2>2, <2>4, <2>5 DEF Update
  <2>9. KeepsLevel(edit)
    BY <2>2, <2>3, <2>6, <2>7 DEF KeepsLevel
  <2> QED  BY <2>3, <2>8, <2>9, NewEdit
<1>2. CASE BeginDeactivate(h, id)
  <2>1. PICK after : after = [cats[id] EXCEPT !.active = FALSE]
    OBVIOUS
  <2>2. PICK edit : edit = [op |-> "update", cat |-> id, copy |-> cats[id], after |-> after]
    OBVIOUS
  <2>3. Exists(id) /\ edits' = [edits EXCEPT ![h] = edit] /\ cats' = cats
    BY <1>2, <2>1, <2>2 DEF BeginDeactivate
  <2>4. cats[id] \in Category
    BY <1>0, <2>3
  <2>5. after \in Category /\ after.parent = cats[id].parent
    BY <2>1, <2>4 DEF Category
  <2>6. edit \in Update
    BY <2>2, <2>4, <2>5 DEF Update
  <2>7. KeepsLevel(edit)
    BY <2>2, <2>3, <2>5 DEF KeepsLevel, LevelsInv, TwoLevels, IsRoot
  <2> QED  BY <2>3, <2>6, <2>7, NewEdit
<1>3. CASE BeginUpload(h, id)
  <2>1. PICK edit : edit = [op |-> "upload", cat |-> id]
    OBVIOUS
  <2>2. edits' = [edits EXCEPT ![h] = edit] /\ cats' = cats
    BY <1>3, <2>1 DEF BeginUpload
  <2>3. edit \in Upload /\ edit.op = "upload"
    BY <2>1 DEF Upload
  <2>4. edit \notin Update
    BY <2>3 DEF Update
  <2> QED  BY <2>2, <2>3, <2>4, NewEdit
<1> QED  BY <1>1, <1>2, <1>3

LEMMA CommitKeepsLevels ==
  ASSUME LevelsInv, NEW h \in Editors, CommitUpdate(h)
  PROVE  LevelsInv'
<1>1. PICK edit : edit = edits[h]
  OBVIOUS
<1>2. edit # None /\ edit.op = "update"
  BY <1>1 DEF CommitUpdate
<1>3. edit \in Update /\ KeepsLevel(edit)
  BY <1>1, <1>2 DEF LevelsInv, CatalogTypeOK, EditsKeepLevels, Upload
<1>4. PICK id \in Cats, copy \in Category, after \in Category :
        id = edit.cat /\ copy = edit.copy /\ after = edit.after
  BY <1>3 DEF Update
<1>5. cats[id] # None /\ cats[id] \in Category
  BY <1>3, <1>4 DEF KeepsLevel, Exists, LevelsInv, CatalogTypeOK
<1>6. PICK row : row = Written(cats[id], copy, after)
  OBVIOUS
<1>7. /\ row \in Category
      /\ row.parent = IF after.parent # copy.parent THEN after.parent ELSE cats[id].parent
  BY <1>5, <1>6, WrittenType
<1>8. cats' = [cats EXCEPT ![id] = row] /\ edits' = [edits EXCEPT ![h] = None]
  BY <1>1, <1>4, <1>6 DEF CommitUpdate
<1>9. row # None /\ cats' \in [Cats -> Category \cup {None}]
  BY <1>7, <1>8, BodyAssumption DEF LevelsInv, CatalogTypeOK
<1>10. /\ copy.parent = None <=> cats[id].parent = None
       /\ after.parent = None <=> copy.parent = None
       /\ after.parent # None => IsRequestType(after.parent)
  BY <1>3, <1>4 DEF KeepsLevel, IsRoot
<1>11. row.parent = None <=> cats[id].parent = None
  BY <1>7, <1>10
<1>12. row.parent # None => IsRequestType(row.parent)
  <2>1. cats[id].parent # None => IsRequestType(cats[id].parent)
    BY <1>5 DEF LevelsInv, TwoLevels, Exists, IsRoot
  <2> QED  BY <1>7, <1>10, <2>1
<1>13. \A x \in Cats : Exists(x) =>
         cats'[x] # None /\ (cats'[x].parent = None <=> cats[x].parent = None)
  BY <1>8, <1>9, <1>11 DEF Exists, LevelsInv, CatalogTypeOK
<1>14. TwoLevels'
  <2> SUFFICES ASSUME NEW x \in Cats, cats'[x] # None, cats'[x].parent # None
               PROVE  cats'[cats'[x].parent] # None /\ cats'[cats'[x].parent].parent = None
    BY DEF TwoLevels, Exists, IsRoot, IsRequestType
  <2>1. PICK p : p = cats'[x].parent
    OBVIOUS
  <2>2. p \in Cats
    BY <1>9, <2>1, ParentType
  <2>3. IsRequestType(p)
    <3>1. CASE x = id
      BY <1>8, <1>12, <2>1, <3>1 DEF LevelsInv, CatalogTypeOK
    <3>2. CASE x # id
      <4>1. cats'[x] = cats[x]
        BY <1>8, <3>2 DEF LevelsInv, CatalogTypeOK
      <4> QED  BY <2>1, <4>1 DEF LevelsInv, TwoLevels, Exists, IsRoot
    <3> QED  BY <3>1, <3>2
  <2> QED  BY <1>13, <2>1, <2>2, <2>3 DEF IsRequestType, Exists, IsRoot
<1> QED  BY <1>8, <1>9, <1>13, <1>14, EditDone

LEMMA CatalogKeepsLevels == LevelsInv /\ CatalogNext => LevelsInv'
<1> SUFFICES ASSUME LevelsInv, CatalogNext PROVE LevelsInv'
  OBVIOUS
<1>1. ASSUME NEW h \in Editors, NEW committed \in BOOLEAN, FinishUpload(h, committed)
      PROVE  LevelsInv'
  <2>1. cats' = cats /\ edits' = [edits EXCEPT ![h] = None]
    BY <1>1 DEF FinishUpload
  <2>2. cats' \in [Cats -> Category \cup {None}] /\ TwoLevels'
    BY <2>1 DEF LevelsInv, CatalogTypeOK, TwoLevels, Exists, IsRoot, IsRequestType
  <2> QED  BY <2>1, <2>2, EditDone DEF Exists
<1>2. ASSUME NEW f \in Files, RemoveFile(f) PROVE LevelsInv'
  BY <1>2 DEF RemoveFile, LevelsInv, CatalogTypeOK, TwoLevels, EditsKeepLevels, KeepsLevel,
              Exists, IsRoot, IsRequestType
<1> QED  BY <1>1, <1>2, CreateKeepsLevels, BeginKeepsLevels, CommitKeepsLevels DEF CatalogNext

(* The steps of submissions and requests.                                  *)
FilingTurn(h) == TryCode(h) \/ FindGroup(h) \/ Route(h) \/ Refuse(h) \/ Fail(h)
IntakeNext ==
  \/ \E h \in Filers, id \in Cats :
       \/ \E token \in tokens, profile \in Profiles : BeginWithProfile(h, token, profile, id)
       \/ \E s \in StudentIds : BeginSignedIn(h, s, id)
  \/ \E h \in Filers : FilingTurn(h) \/ Commit(h)
  \/ \E i \in DOMAIN requests :
       Close(i) \/ Reopen(i) \/ \E e \in Employees : AssignRequest(i, e)

(* A submission that begins takes its place, and nothing else changes.     *)
LEMMA FilingBegins ==
  ASSUME NEW h \in Filers, NEW id \in Cats,
         \/ \E token \in tokens, profile \in Profiles : BeginWithProfile(h, token, profile, id)
         \/ \E s \in StudentIds : BeginSignedIn(h, s, id)
  PROVE  \E f : Begin(h, f) /\ f.stage # "commit"
<1>1. ASSUME NEW token \in tokens, NEW profile \in Profiles, BeginWithProfile(h, token, profile, id)
      PROVE  \E f : Begin(h, f) /\ f.stage # "commit"
  <2>1. PICK sync : sync = Lookup(profile)
    OBVIOUS
  <2>2. PICK student : student = [faculty |-> sync.faculty,
                                  department |-> IF sync.copy = None THEN None
                                                 ELSE sync.copy.department]
    OBVIOUS
  <2>3. PICK f : f = [stage |-> IF sync.faculty = None THEN "code" ELSE "group", sync |-> sync,
                      student |-> student, cat |-> id, service |-> None, handler |-> None,
                      files |-> {}]
    OBVIOUS
  <2>4. Begin(h, f)
    BY <1>1, <2>1, <2>2, <2>3 DEF BeginWithProfile
  <2>5. f.stage # "commit"
    BY <2>3
  <2> QED  BY <2>4, <2>5
<1>2. ASSUME NEW s \in StudentIds, BeginSignedIn(h, s, id)
      PROVE  \E f : Begin(h, f) /\ f.stage # "commit"
  <2>1. PICK f : f = [stage |-> "route", sync |-> None,
                      student |-> [faculty |-> students[s].faculty,
                                   department |-> students[s].department],
                      cat |-> id, service |-> cats[id], handler |-> None, files |-> {}]
    OBVIOUS
  <2>2. Begin(h, f)
    BY <1>2, <2>1 DEF BeginSignedIn
  <2>3. f.stage # "commit"
    BY <2>1
  <2> QED  BY <2>2, <2>3
<1> QED  BY <1>1, <1>2

LEMMA FilingTurnGoes == ASSUME NEW h, FilingTurn(h) PROVE \E f : Goes(h, f)
BY Zenon DEF FilingTurn, TryCode, FindGroup, Route, Refuse, Fail

LEMMA StepOfIntake ==
  IntakeNext => UNCHANGED <<catalogVars, clientVars, employees, edited, reassigned>>
<1>1. ASSUME NEW h \in Filers, NEW id \in Cats,
             \/ \E token \in tokens, profile \in Profiles :
                  BeginWithProfile(h, token, profile, id)
             \/ \E s \in StudentIds : BeginSignedIn(h, s, id)
      PROVE  UNCHANGED <<catalogVars, clientVars, employees, edited, reassigned>>
  BY <1>1, FilingBegins DEF Begin, directoryVars
<1>2. ASSUME NEW h \in Filers, FilingTurn(h)
      PROVE  UNCHANGED <<catalogVars, clientVars, employees, edited, reassigned>>
  BY <1>2, FilingTurnGoes DEF Goes, directoryVars
<1>3. ASSUME NEW h \in Filers, Commit(h)
      PROVE  UNCHANGED <<catalogVars, clientVars, employees, edited, reassigned>>
  BY <1>3 DEF Commit
<1>4. ASSUME NEW i \in DOMAIN requests,
             Close(i) \/ Reopen(i) \/ \E e \in Employees : AssignRequest(i, e)
      PROVE  UNCHANGED <<catalogVars, clientVars, employees, edited, reassigned>>
  BY <1>4 DEF Close, Reopen, AssignRequest, directoryVars
<1> QED  BY <1>1, <1>2, <1>3, <1>4 DEF IntakeNext

(* Whose step it is.                                                       *)
LEMMA NextIsOneOf ==
  [Next]_vars =>
    \/ DirectoryNext /\ UNCHANGED <<catalogVars, clientVars, intakeVars>>
    \/ CatalogNext /\ UNCHANGED <<clientVars, intakeVars>>
    \/ ClientsNext /\ UNCHANGED <<directoryVars, catalogVars, intakeVars>>
    \/ IntakeNext
    \/ UNCHANGED vars
BY DEF Next, IntakeNext, FilingTurn

(* Every step is the catalogue's or leaves the catalogue alone.            *)
LEMMA StepOfCatalog == [Next]_vars => CatalogNext \/ UNCHANGED catalogVars
<1> SUFFICES ASSUME [Next]_vars PROVE CatalogNext \/ UNCHANGED catalogVars
  OBVIOUS
<1> QED  BY NextIsOneOf, StepOfIntake DEF vars

LEMMA StepKeepsLevels == LevelsInv /\ [Next]_vars => LevelsInv'
<1> SUFFICES ASSUME LevelsInv, [Next]_vars PROVE LevelsInv'
  OBVIOUS
<1>1. ASSUME UNCHANGED catalogVars PROVE LevelsInv'
  BY <1>1 DEF catalogVars, LevelsInv, CatalogTypeOK, TwoLevels, EditsKeepLevels, KeepsLevel,
              Exists, IsRoot, IsRequestType
<1> QED  BY <1>1, StepOfCatalog, CatalogKeepsLevels

(* Under a request type there are services and under a service nothing:    *)
(* every update is checked against a copy, yet no overlap of updates,      *)
(* creations and deactivations breaks the two levels, because an entry     *)
(* never changes its level (apply_category_update, _parent_request_type).  *)
THEOREM TwoLevelsStay == Spec => []TwoLevels
<1>1. Init => LevelsInv
  BY LevelsAtStart
<1>2. LevelsInv /\ [Next]_vars => LevelsInv'
  BY StepKeepsLevels
<1>3. LevelsInv => TwoLevels
  BY DEF LevelsInv
<1> QED  BY <1>1, <1>2, <1>3, PTL DEF Spec

-----------------------------------------------------------------------------
(* Tokens and the secret in force.                                         *)

Carrying == [op : {"token", "rotate"}, client : Clients, copy : Client]
Amending == [op : {"update"}, client : Clients, copy : Client, wanted : Changes]

ClientsTypeOK ==
  /\ clients \in [Clients -> Client \cup {None}]
  /\ tokens \subseteq Token
  /\ secrets \in Nat
  /\ clientCalls \in [ClientCalls -> Carrying \cup Amending \cup {None}]

\* What somebody holds of a client - a token, or a copy of its row - is older
\* than the row, or has the secret of the row.
Fits(row, held) ==
  /\ held.version <= row.version
  /\ held.version = row.version => held.secret = row.secret
HeldOf(c, held) == Registered(c) /\ (c \notin rotatedOver => Fits(clients[c], held))

TokensInv ==
  /\ ClientsTypeOK
  /\ \A t \in tokens : HeldOf(t.client, t)
  /\ \A h \in ClientCalls :
       clientCalls[h] # None => HeldOf(clientCalls[h].client, clientCalls[h].copy)

\* A new row of a client makes what others hold of it older, or is a first row.
OnlyAges(c, row) ==
  \A held \in Client \cup Token :
    Registered(c) /\ c \notin rotatedOver' /\ Fits(clients[c], held) => Fits(row, held)

(* A step that writes the row of one client, and only makes what others    *)
(* hold of it older, leaves them with the truth.                           *)
LEMMA HeldStays ==
  ASSUME ClientsTypeOK, NEW c \in Clients, NEW row \in Client,
         clients' = [clients EXCEPT ![c] = row], rotatedOver \subseteq rotatedOver',
         OnlyAges(c, row),
         NEW d \in Clients, NEW held \in Client \cup Token, HeldOf(d, held)
  PROVE  HeldOf(d, held)'
<1>0. row # None
  BY RowAssumption
<1>1. CASE d = c
  <2>1. clients'[d] = row
    BY <1>1 DEF ClientsTypeOK
  <2>2. Registered(d) /\ Registered(d)'
    BY <1>0, <2>1 DEF HeldOf, Registered
  <2>3. c \notin rotatedOver' => Fits(row, held)
    BY <1>1, <2>2 DEF HeldOf, OnlyAges
  <2> QED  BY <1>1, <2>1, <2>2, <2>3 DEF HeldOf, Fits
<1>2. CASE d # c
  <2>1. clients'[d] = clients[d]
    BY <1>2 DEF ClientsTypeOK
  <2> QED  BY <1>2, <2>1 DEF HeldOf, Registered, Fits
<1> QED  BY <1>1, <1>2

(* A call that is answered, and writes the row of its client.              *)
LEMMA RowWritten ==
  ASSUME TokensInv, NEW c \in Clients, NEW row \in Client,
         clients' = [clients EXCEPT ![c] = row], rotatedOver \subseteq rotatedOver',
         OnlyAges(c, row),
         tokens' = tokens, secrets' \in Nat,
         clientCalls' \in [ClientCalls -> Carrying \cup Amending \cup {None}],
         \A h \in ClientCalls : clientCalls'[h] = None \/ clientCalls'[h] = clientCalls[h]
  PROVE  TokensInv'
<1>1. ClientsTypeOK'
  BY DEF TokensInv, ClientsTypeOK
<1>2. ASSUME NEW t \in tokens PROVE HeldOf(t.client, t)'
  <2>1. t.client \in Clients /\ t \in Token
    BY DEF TokensInv, ClientsTypeOK, Token
  <2> QED  BY <2>1, HeldStays DEF TokensInv
<1>3. ASSUME NEW h \in ClientCalls, clientCalls'[h] # None
      PROVE  HeldOf(clientCalls[h].client, clientCalls[h].copy)'
  <2>1. clientCalls'[h] = clientCalls[h]
    BY <1>3
  <2>2. PICK call : call = clientCalls[h]
    OBVIOUS
  <2>3. call.client \in Clients /\ call.copy \in Client
    BY <1>3, <2>1, <2>2 DEF TokensInv, ClientsTypeOK, Carrying, Amending
  <2>4. HeldOf(call.client, call.copy)
    BY <1>3, <2>1, <2>2 DEF TokensInv
  <2>5. HeldOf(call.client, call.copy)'
    BY <2>3, <2>4, HeldStays DEF TokensInv
  <2> QED  BY <2>1, <2>2, <2>5 DEF HeldOf, Registered, Fits
<1> QED  BY <1>1, <1>2, <1>3 DEF TokensInv

(* A call that has loaded the row as it is now.                            *)
LEMMA RowLoaded ==
  ASSUME TokensInv, NEW h \in ClientCalls, NEW call \in Carrying \cup Amending,
         Registered(call.client), call.copy = clients[call.client],
         BeginClient(h, call), UNCHANGED <<clients, tokens, secrets, rotatedOver>>
  PROVE  TokensInv'
<1>1. call.client \in Clients /\ call.copy \in Client
  BY DEF Carrying, Amending
<1>2. HeldOf(call.client, call.copy)
  BY <1>1 DEF HeldOf, Fits, Client
<1>3. clientCalls' = [clientCalls EXCEPT ![h] = call]
  BY DEF BeginClient
<1>4. ClientsTypeOK'
  BY <1>3 DEF TokensInv, ClientsTypeOK
<1> QED  BY <1>2, <1>3, <1>4 DEF TokensInv, ClientsTypeOK, HeldOf, Registered, Fits

LEMMA TokensAtStart == Init => TokensInv
<1> SUFFICES ASSUME Init PROVE TokensInv
  OBVIOUS
<1>0. ClientsInit
  BY DEF Init
<1>1. PICK granted \in SUBSET Scopes \ {{}} :
        clients \in [Clients -> {None, [secret |-> 1, version |-> 1, scopes |-> granted,
                                        active |-> TRUE]}]
  BY <1>0 DEF ClientsInit
<1>2. PICK row : row = [secret |-> 1, version |-> 1, scopes |-> granted, active |-> TRUE]
  OBVIOUS
<1>3. row \in Client /\ row.version = 1 /\ row.secret = 1
  BY <1>2 DEF Client
<1>4. clients \in [Clients -> {None, row}]
  BY <1>1, <1>2
<1>5. tokens = {[client |-> c, version |-> 1, scopes |-> clients[c].scopes, secret |-> 1] :
                 c \in {c \in Clients : Registered(c)}}
  BY <1>0 DEF ClientsInit
<1>6. \A t \in tokens : t \in Token /\ HeldOf(t.client, t)
  <2> SUFFICES ASSUME NEW c \in Clients, Registered(c), NEW t,
                      t = [client |-> c, version |-> 1, scopes |-> clients[c].scopes, secret |-> 1]
               PROVE  t \in Token /\ HeldOf(t.client, t)
    BY <1>5
  <2>1. clients[c] = row
    BY <1>4 DEF Registered
  <2>2. t.client = c /\ t.version = 1 /\ t.secret = 1 /\ t \in Token
    BY <1>3, <2>1 DEF Token, Client
  <2> QED  BY <1>3, <2>1, <2>2 DEF HeldOf, Fits
<1>7. secrets = 1 /\ clientCalls = [h \in ClientCalls |-> None]
  BY <1>0 DEF ClientsInit
<1> QED  BY <1>3, <1>4, <1>6, <1>7 DEF TokensInv, ClientsTypeOK

LEMMA CreateKeepsTokens ==
  ASSUME TokensInv, NEW c \in Clients, NEW scopes \in SUBSET Scopes, CreateClient(c, scopes)
  PROVE  TokensInv'
<1>1. PICK row : row = [secret |-> secrets + 1, version |-> 1, scopes |-> scopes, active |-> TRUE]
  OBVIOUS
<1>2. row \in Client
  BY <1>1 DEF Client, TokensInv, ClientsTypeOK
<1>3. /\ ~Registered(c) /\ clients' = [clients EXCEPT ![c] = row] /\ secrets' = secrets + 1
      /\ UNCHANGED <<tokens, clientCalls, rotatedOver>>
  BY <1>1 DEF CreateClient
<1>4. OnlyAges(c, row) /\ rotatedOver \subseteq rotatedOver' /\ tokens' = tokens
  BY <1>3 DEF OnlyAges
<1>5. /\ secrets' \in Nat /\ clientCalls' \in [ClientCalls -> Carrying \cup Amending \cup {None}]
      /\ \A h \in ClientCalls : clientCalls'[h] = clientCalls[h]
  BY <1>3 DEF TokensInv, ClientsTypeOK
<1> QED  BY <1>2, <1>3, <1>4, <1>5, RowWritten

LEMMA MintKeepsTokens ==
  ASSUME TokensInv, NEW h \in ClientCalls, NEW scopes \in SUBSET Scopes, MintToken(h, scopes)
  PROVE  TokensInv'
<1>1. PICK call : call = clientCalls[h]
  OBVIOUS
<1>2. call \in Carrying \cup Amending /\ HeldOf(call.client, call.copy)
  BY <1>1 DEF MintToken, Doing, TokensInv, ClientsTypeOK
<1>3. PICK c \in Clients, copy \in Client : c = call.client /\ copy = call.copy
  BY <1>2 DEF Carrying, Amending
<1>4. PICK t : t = [client |-> c, version |-> copy.version, scopes |-> scopes,
                    secret |-> copy.secret]
  OBVIOUS
<1>5. t \in Token /\ t.client = c /\ t.version = copy.version /\ t.secret = copy.secret
  BY <1>4 DEF Token, Client
<1>6. /\ tokens' = tokens \cup {t} /\ clientCalls' = [clientCalls EXCEPT ![h] = None]
      /\ UNCHANGED <<clients, secrets, rotatedOver>>
  BY <1>1, <1>3, <1>4 DEF MintToken, EndClient
<1>7. HeldOf(c, t)
  BY <1>2, <1>3, <1>5 DEF HeldOf, Fits
<1>8. ClientsTypeOK'
  BY <1>5, <1>6 DEF TokensInv, ClientsTypeOK
<1>9. ASSUME NEW u \in tokens' PROVE HeldOf(u.client, u)'
  <2>1. HeldOf(u.client, u)
    BY <1>5, <1>6, <1>7 DEF TokensInv
  <2> QED  BY <1>6, <2>1 DEF HeldOf, Registered, Fits
<1>10. ASSUME NEW g \in ClientCalls, clientCalls'[g] # None
       PROVE  HeldOf(clientCalls[g].client, clientCalls[g].copy)'
  <2>1. clientCalls'[g] = clientCalls[g] /\ clientCalls[g] # None
    BY <1>6, <1>10 DEF TokensInv, ClientsTypeOK
  <2>2. HeldOf(clientCalls[g].client, clientCalls[g].copy)
    BY <2>1 DEF TokensInv
  <2> QED  BY <1>6, <2>1, <2>2 DEF HeldOf, Registered, Fits
<1> QED  BY <1>8, <1>9, <1>10 DEF TokensInv

LEMMA RotateKeepsTokens ==
  ASSUME TokensInv, NEW h \in ClientCalls, RotateSecret(h)
  PROVE  TokensInv'
<1>1. PICK call : call = clientCalls[h]
  OBVIOUS
<1>2. call \in Carrying \cup Amending /\ HeldOf(call.client, call.copy)
  BY <1>1 DEF RotateSecret, Doing, TokensInv, ClientsTypeOK
<1>3. PICK c \in Clients, copy \in Client : c = call.client /\ copy = call.copy
  BY <1>2 DEF Carrying, Amending
<1>4. clients[c] \in Client
  BY <1>2, <1>3 DEF HeldOf, Registered, TokensInv, ClientsTypeOK
<1>5. PICK row : row = [clients[c] EXCEPT !.secret = secrets + 1, !.version = copy.version + 1]
  OBVIOUS
<1>6. row \in Client /\ row.version = copy.version + 1
  <2>1. secrets + 1 \in Nat
    BY DEF TokensInv, ClientsTypeOK
  <2>2. copy.version + 1 \in Nat
    BY DEF Client
  <2>3. row = [secret |-> secrets + 1, version |-> copy.version + 1,
               scopes |-> clients[c].scopes, active |-> clients[c].active]
    BY <1>4, <1>5 DEF Client
  <2>4. clients[c].scopes \in SUBSET Scopes /\ clients[c].active \in BOOLEAN
    BY <1>4 DEF Client
  <2> QED  BY <2>1, <2>2, <2>3, <2>4 DEF Client
<1>7. clients' = [clients EXCEPT ![c] = row]
  BY <1>1, <1>3, <1>5 DEF RotateSecret, TokensInv, ClientsTypeOK
<1>8. /\ rotatedOver' = IF clients[c].version = copy.version THEN rotatedOver
                        ELSE rotatedOver \cup {c}
      /\ secrets' = secrets + 1 /\ clientCalls' = [clientCalls EXCEPT ![h] = None]
      /\ tokens' = tokens
  BY <1>1, <1>3 DEF RotateSecret, EndClient
<1>9. ASSUME NEW held \in Client \cup Token, c \notin rotatedOver', Fits(clients[c], held)
      PROVE  Fits(row, held)
  <2>1. clients[c].version = copy.version
    BY <1>8, <1>9
  <2>2. held.version \in Nat /\ copy.version \in Nat
    BY DEF Client, Token
  <2> QED  BY <1>6, <1>9, <2>1, <2>2 DEF Fits
<1>10. /\ rotatedOver \subseteq rotatedOver' /\ secrets' \in Nat
       /\ clientCalls' \in [ClientCalls -> Carrying \cup Amending \cup {None}]
       /\ \A g \in ClientCalls : clientCalls'[g] = None \/ clientCalls'[g] = clientCalls[g]
  BY <1>8 DEF TokensInv, ClientsTypeOK
<1>11. OnlyAges(c, row)
  BY <1>9 DEF OnlyAges
<1>12. tokens' = tokens
  BY <1>8
<1> QED  BY <1>6, <1>7, <1>10, <1>11, <1>12, RowWritten

(* An update writes neither the secret nor its version.                    *)
LEMMA UpdateKeepsTokens ==
  ASSUME TokensInv, NEW h \in ClientCalls, UpdateClient(h)
  PROVE  TokensInv'
<1>1. PICK call : call = clientCalls[h]
  OBVIOUS
<1>2. call \in Amending /\ HeldOf(call.client, call.copy)
  BY <1>1 DEF UpdateClient, Doing, TokensInv, ClientsTypeOK, Carrying
<1>3. PICK c \in Clients, wanted \in Changes : c = call.client /\ wanted = call.wanted
  BY <1>2 DEF Amending
<1>4. clients[c] \in Client
  BY <1>2, <1>3 DEF HeldOf, Registered, TokensInv, ClientsTypeOK
<1>5. PICK dirty : dirty = {f \in DOMAIN wanted : wanted[f] # call.copy[f]}
  OBVIOUS
<1>6. PICK row : row = [f \in DOMAIN clients[c] |-> IF f \in dirty THEN wanted[f]
                                                    ELSE clients[c][f]]
  OBVIOUS
<1>7. clients' = [clients EXCEPT ![c] = row]
  BY <1>1, <1>3, <1>5, <1>6 DEF UpdateClient, TokensInv, ClientsTypeOK
<1>8. /\ "active" \in dirty => wanted["active"] \in BOOLEAN
      /\ "scopes" \in dirty => wanted["scopes"] \in SUBSET Scopes
      /\ "secret" \notin dirty /\ "version" \notin dirty
  BY <1>3, <1>5 DEF Changes
<1>9. DOMAIN clients[c] = {"secret", "version", "scopes", "active"}
  BY <1>4 DEF Client
<1>10. /\ row = [secret |-> row.secret, version |-> row.version, scopes |-> row.scopes,
                 active |-> row.active]
       /\ row.secret = clients[c].secret /\ row.version = clients[c].version
  BY <1>6, <1>8, <1>9
<1>11. row.scopes \in SUBSET Scopes /\ row.active \in BOOLEAN
  <2>1. clients[c].scopes \in SUBSET Scopes /\ clients[c].active \in BOOLEAN
    BY <1>4 DEF Client
  <2>2. row.scopes = IF "scopes" \in dirty THEN wanted["scopes"] ELSE clients[c].scopes
    BY <1>6, <1>9
  <2>3. row.active = IF "active" \in dirty THEN wanted["active"] ELSE clients[c].active
    BY <1>6, <1>9
  <2> QED  BY <1>8, <2>1, <2>2, <2>3
<1>12. row \in Client
  BY <1>4, <1>10, <1>11 DEF Client
<1>13. /\ UNCHANGED <<tokens, secrets, rotatedOver>>
       /\ clientCalls' = [clientCalls EXCEPT ![h] = None]
  BY DEF UpdateClient, EndClient
<1>14. /\ secrets' \in Nat /\ clientCalls' \in [ClientCalls -> Carrying \cup Amending \cup {None}]
       /\ \A g \in ClientCalls : clientCalls'[g] = None \/ clientCalls'[g] = clientCalls[g]
  BY <1>13 DEF TokensInv, ClientsTypeOK
<1>15. OnlyAges(c, row)
  BY <1>10 DEF OnlyAges, Fits
<1> QED  BY <1>7, <1>12, <1>13, <1>14, <1>15, RowWritten

LEMMA ClientsKeepTokens == TokensInv /\ ClientsNext => TokensInv'
<1> SUFFICES ASSUME TokensInv, ClientsNext PROVE TokensInv'
  OBVIOUS
<1>0. \A c \in Clients : Registered(c) => clients[c] \in Client
  BY DEF TokensInv, ClientsTypeOK, Registered
<1>1. ASSUME NEW h \in ClientCalls, NEW c \in Clients, NEW secret, BeginToken(h, c, secret)
      PROVE  TokensInv'
  <2>1. PICK call : call = [op |-> "token", client |-> c, copy |-> clients[c]]
    OBVIOUS
  <2>2. /\ Registered(c) /\ BeginClient(h, call)
        /\ UNCHANGED <<clients, tokens, secrets, rotatedOver>>
    BY <1>1, <2>1 DEF BeginToken
  <2>3. call \in Carrying /\ call.client = c /\ call.copy = clients[c]
    BY <1>0, <2>1, <2>2 DEF Carrying
  <2> QED  BY <2>2, <2>3, RowLoaded
<1>2. ASSUME NEW h \in ClientCalls, NEW c \in Clients, BeginRotate(h, c) PROVE TokensInv'
  <2>1. PICK call : call = [op |-> "rotate", client |-> c, copy |-> clients[c]]
    OBVIOUS
  <2>2. /\ Registered(c) /\ BeginClient(h, call)
        /\ UNCHANGED <<clients, tokens, secrets, rotatedOver>>
    BY <1>2, <2>1 DEF BeginRotate
  <2>3. call \in Carrying /\ call.client = c /\ call.copy = clients[c]
    BY <1>0, <2>1, <2>2 DEF Carrying
  <2> QED  BY <2>2, <2>3, RowLoaded
<1>3. ASSUME NEW h \in ClientCalls, NEW c \in Clients, NEW wanted \in Changes,
             BeginUpdateClient(h, c, wanted)
      PROVE  TokensInv'
  <2>1. PICK call : call = [op |-> "update", client |-> c, copy |-> clients[c], wanted |-> wanted]
    OBVIOUS
  <2>2. /\ Registered(c) /\ BeginClient(h, call)
        /\ UNCHANGED <<clients, tokens, secrets, rotatedOver>>
    BY <1>3, <2>1 DEF BeginUpdateClient
  <2>3. call \in Amending /\ call.client = c /\ call.copy = clients[c]
    BY <1>0, <2>1, <2>2 DEF Amending
  <2> QED  BY <2>2, <2>3, RowLoaded
<1> QED  BY <1>1, <1>2, <1>3, CreateKeepsTokens, MintKeepsTokens, RotateKeepsTokens,
            UpdateKeepsTokens DEF ClientsNext

LEMMA StepKeepsTokens == TokensInv /\ [Next]_vars => TokensInv'
<1> SUFFICES ASSUME TokensInv, [Next]_vars PROVE TokensInv'
  OBVIOUS
<1>1. ASSUME UNCHANGED clientVars PROVE TokensInv'
  BY <1>1 DEF clientVars, TokensInv, ClientsTypeOK, HeldOf, Registered, Fits
<1>2. ClientsNext \/ UNCHANGED clientVars
  BY NextIsOneOf, StepOfIntake DEF vars
<1> QED  BY <1>1, <1>2, ClientsKeepTokens

(* A token that gets through was bought with the secret in force: a        *)
(* rotation makes everything held of the client older than the row, and    *)
(* only another rotation in between can give a version twice               *)
(* (rotate_secret, get_current_client).                                    *)
THEOREM TokensBuyTheSecretInForce == Spec => []TokenOfCurrentSecret
<1>1. Init => TokensInv
  BY TokensAtStart
<1>2. TokensInv /\ [Next]_vars => TokensInv'
  BY StepKeepsTokens
<1>3. TokensInv => TokenOfCurrentSecret
  BY DEF TokensInv, TokenOfCurrentSecret, Passes, HeldOf, Fits
<1> QED  BY <1>1, <1>2, <1>3, PTL DEF Spec

-----------------------------------------------------------------------------
(* Every request has an owner or an answer, and every file of an answer    *)
(* its bytes.                                                              *)

\* What the catalogue offers, and what an update in flight will make of it.
EntriesAnswer ==
  \A id \in Cats : Exists(id) => id \in crossed \/ IsRoot(cats[id]) \/ HasAnswer(cats[id])
UpdatesAnswer ==
  \A h \in Editors : edits[h] # None /\ edits[h] \in Update =>
    edits[h].cat \in crossed \/ IsRoot(edits[h].after) \/ HasAnswer(edits[h].after)

FilesStored ==
  /\ files \in [Files -> Cats \cup {None}] /\ disk \subseteq Files
  /\ \A f \in Files : files[f] # None => f \in disk

\* A submission in flight, and a request that came in.
FilingHolds(f) ==
  /\ f = [stage |-> f.stage, sync |-> f.sync, student |-> f.student, cat |-> f.cat,
          service |-> f.service, handler |-> f.handler, files |-> f.files]
  /\ f.cat \in Cats
  /\ f.stage \in {"route", "commit"} =>
       f.service \in Category /\ (f.cat \in crossed \/ HasAnswer(f.service))
  /\ f.stage = "commit" => /\ f.handler # None \/ f.service.routing = "auto_reply"
                           /\ f.files \subseteq disk
RequestHolds(r) ==
  /\ r = [cat |-> r.cat, handler |-> r.handler, text |-> r.text, files |-> r.files,
          open |-> r.open]
  /\ r.handler # None \/ r.text \/ r.cat \in crossed
  /\ r.files \subseteq disk

FilingsHold ==
  /\ DOMAIN filings = Filers
  /\ \A h \in Filers : filings[h] # None => FilingHolds(filings[h])
RequestsHold ==
  /\ \E S : requests \in Seq(S)
  /\ \A i \in DOMAIN requests : RequestHolds(requests[i])

CatalogInv == LevelsInv /\ EntriesAnswer /\ UpdatesAnswer /\ FilesStored
AnswersInv == CatalogInv /\ FilingsHold /\ RequestsHold

-----------------------------------------------------------------------------
LEMMA AnswersAtStart == Init => AnswersInv
<1> SUFFICES ASSUME Init PROVE AnswersInv
  OBVIOUS
<1>1. cats \in Catalogs /\ edits = [h \in Editors |-> None]
  BY DEF Init, CatalogInit
<1>2. EntriesAnswer /\ UpdatesAnswer
  BY <1>1, IntakeAssumption DEF EntriesAnswer, UpdatesAnswer, Exists
<1>3. FilesStored
  <2>1. PICK stored \in SUBSET (Files \X {id \in Cats : cats[id] # None /\ cats[id].text}) :
          /\ files = [f \in Files |-> IF \E p \in stored : p[1] = f
                                      THEN (CHOOSE p \in stored : p[1] = f)[2] ELSE None]
          /\ disk = {p[1] : p \in stored}
    BY DEF Init, CatalogInit
  <2>2. ASSUME NEW f \in Files
        PROVE  files[f] \in Cats \cup {None} /\ (files[f] # None => f \in disk)
    <3>1. CASE \E p \in stored : p[1] = f
      <4>1. PICK p : p = CHOOSE q \in stored : q[1] = f
        OBVIOUS
      <4>2. p \in stored /\ p[1] = f
        BY <3>1, <4>1
      <4>3. p[2] \in Cats
        BY <4>2
      <4>4. files[f] = p[2]
        BY <2>1, <3>1, <4>1
      <4> QED  BY <2>1, <4>2, <4>3, <4>4
    <3>2. CASE ~\E p \in stored : p[1] = f
      BY <2>1, <3>2
    <3> QED  BY <3>1, <3>2
  <2>3. disk \subseteq Files
    BY <2>1
  <2>4. files \in [Files -> Cats \cup {None}]
    <3>1. \A f \in Files : files[f] \in Cats \cup {None}
      BY <2>2
    <3> QED  BY <2>1, <3>1
  <2> QED  BY <2>2, <2>3, <2>4 DEF FilesStored
<1>4. FilingsHold
  BY DEF Init, FilingsHold
<1>5. RequestsHold
  <2>1. requests \in Seq(Request)
        /\ \A i \in DOMAIN requests : requests[i].handler # None /\ requests[i].files = {}
    BY EarlierAssumption DEF Init
  <2>2. ASSUME NEW i \in DOMAIN requests PROVE RequestHolds(requests[i])
    <3>1. requests[i] \in Request
      BY <2>1
    <3>2. PICK r : r = requests[i]
      OBVIOUS
    <3>3. r = [cat |-> r.cat, handler |-> r.handler, text |-> r.text, files |-> r.files,
               open |-> r.open]
      BY <3>1, <3>2 DEF Request
    <3> QED  BY <2>1, <3>2, <3>3 DEF RequestHolds
  <2> QED  BY <2>1, <2>2 DEF RequestsHold
<1> QED  BY <1>2, <1>3, <1>4, <1>5, LevelsAtStart DEF AnswersInv, CatalogInv

-----------------------------------------------------------------------------
(* What an administrator's update makes of a copy, the assignee aside.     *)
LEMMA AppliedAnswers ==
  ASSUME NEW copy \in Category, NEW payload \in Payloads
  PROVE  /\ IsRoot(Applied(copy, payload)) <=> IsRoot(Sent(copy, payload))
         /\ HasAnswer(Applied(copy, payload)) <=> HasAnswer(Sent(copy, payload))
<1>1. PICK after : after = Sent(copy, payload)
  OBVIOUS
<1>2. after \in Category
  BY <1>1, BodyAssumption
<1>3. PICK stripped : stripped = [after EXCEPT !.assignee = None]
  OBVIOUS
<1>4. stripped.parent = after.parent /\ stripped.routing = after.routing
      /\ stripped.text = after.text
  BY <1>2, <1>3 DEF Category
<1>5. Applied(copy, payload) = after \/ Applied(copy, payload) = stripped
  BY <1>1, <1>3 DEF Applied
<1> QED  BY <1>1, <1>4, <1>5 DEF IsRoot, HasAnswer

LEMMA WrittenOverItsCopy ==
  ASSUME NEW copy \in Category, NEW after \in Category
  PROVE  Written(copy, copy, after) = after
BY DEF Written, Category

LEMMA CreateAnswers ==
  ASSUME CatalogInv, NEW id \in Cats, NEW cat \in NewCategories, CreateCategory(id, cat)
  PROVE  CatalogInv'
<1>1. cats' = [cats EXCEPT ![id] = cat] /\ UNCHANGED <<edits, files, disk, crossed>>
  BY DEF CreateCategory
<1>2. IsRoot(cat) \/ HasAnswer(cat)
  BY DEF CreateCategory
<1>3. \A x \in Cats : cats'[x] = IF x = id THEN cat ELSE cats[x]
  BY <1>1 DEF CatalogInv, LevelsInv, CatalogTypeOK
<1>4. EntriesAnswer'
  BY <1>1, <1>2, <1>3 DEF CatalogInv, EntriesAnswer, Exists, IsRoot, HasAnswer
<1>5. UpdatesAnswer' /\ FilesStored'
  BY <1>1 DEF CatalogInv, UpdatesAnswer, FilesStored, IsRoot, HasAnswer
<1>6. LevelsInv'
  BY CreateKeepsLevels DEF CatalogInv
<1> QED  BY <1>4, <1>5, <1>6 DEF CatalogInv

LEMMA NewUpdateAnswers ==
  ASSUME CatalogInv, NEW h \in Editors, NEW edit,
         edits' = [edits EXCEPT ![h] = edit], UNCHANGED <<cats, files, disk, crossed>>,
         edit \in Update =>
           edit.cat \in crossed \/ IsRoot(edit.after) \/ HasAnswer(edit.after)
  PROVE  EntriesAnswer' /\ UpdatesAnswer' /\ FilesStored'
<1>1. EntriesAnswer' /\ FilesStored'
  BY DEF CatalogInv, EntriesAnswer, FilesStored, Exists, IsRoot, HasAnswer
<1>2. \A g \in Editors : edits'[g] = IF g = h THEN edit ELSE edits[g]
  BY DEF CatalogInv, LevelsInv, CatalogTypeOK
<1>3. UpdatesAnswer'
  BY <1>2 DEF CatalogInv, UpdatesAnswer, IsRoot, HasAnswer
<1> QED  BY <1>1, <1>3

LEMMA BeginAnswers ==
  ASSUME CatalogInv, NEW h \in Editors, NEW id \in Cats,
         \/ \E payload \in Payloads : BeginUpdate(h, id, payload)
         \/ BeginDeactivate(h, id) \/ BeginUpload(h, id)
  PROVE  CatalogInv'
<1>0. LevelsInv'
  BY BeginKeepsLevels DEF CatalogInv
<1>1. ASSUME NEW payload \in Payloads, BeginUpdate(h, id, payload) PROVE CatalogInv'
  <2>1. PICK after : after = Applied(cats[id], payload)
    OBVIOUS
  <2>2. PICK edit : edit = [op |-> "update", cat |-> id, copy |-> cats[id], after |-> after]
    OBVIOUS
  <2>3. /\ Exists(id) /\ MayUpdate(id, cats[id], payload)
        /\ edits' = [edits EXCEPT ![h] = edit] /\ UNCHANGED <<cats, files, disk, crossed>>
    BY <1>1, <2>1, <2>2 DEF BeginUpdate
  <2>4. cats[id] \in Category
    BY <2>3 DEF CatalogInv, LevelsInv, CatalogTypeOK, Exists
  <2>5. IsRoot(after) \/ HasAnswer(after)
    BY <2>1, <2>3, <2>4, AppliedAnswers DEF MayUpdate
  <2>6. edit.after = after
    BY <2>2
  <2> QED  BY <1>0, <2>3, <2>5, <2>6, NewUpdateAnswers DEF CatalogInv
<1>2. CASE BeginDeactivate(h, id)
  <2>1. PICK after : after = [cats[id] EXCEPT !.active = FALSE]
    OBVIOUS
  <2>2. PICK edit : edit = [op |-> "update", cat |-> id, copy |-> cats[id], after |-> after]
    OBVIOUS
  <2>3. /\ Exists(id)
        /\ edits' = [edits EXCEPT ![h] = edit] /\ UNCHANGED <<cats, files, disk, crossed>>
    BY <1>2, <2>1, <2>2 DEF BeginDeactivate
  <2>4. cats[id] \in Category
    BY <2>3 DEF CatalogInv, LevelsInv, CatalogTypeOK, Exists
  <2>5. after.parent = cats[id].parent /\ after.routing = cats[id].routing
        /\ after.text = cats[id].text
    BY <2>1, <2>4 DEF Category
  <2>6. edit.after = after /\ edit.cat = id
    BY <2>2
  <2>7. id \in crossed \/ IsRoot(after) \/ HasAnswer(after)
    BY <2>3, <2>5 DEF CatalogInv, EntriesAnswer, IsRoot, HasAnswer
  <2> QED  BY <1>0, <2>3, <2>6, <2>7, NewUpdateAnswers DEF CatalogInv
<1>3. CASE BeginUpload(h, id)
  <2>1. PICK edit : edit = [op |-> "upload", cat |-> id]
    OBVIOUS
  <2>2. edits' = [edits EXCEPT ![h] = edit] /\ UNCHANGED <<cats, files, disk, crossed>>
    BY <1>3, <2>1 DEF BeginUpload
  <2>3. edit \notin Update
    BY <2>1 DEF Update
  <2> QED  BY <1>0, <2>2, <2>3, NewUpdateAnswers DEF CatalogInv
<1> QED  BY <1>1, <1>2, <1>3

(* An update whose row is no longer its copy puts the service among those  *)
(* that two updates crossed; any other writes what was checked.            *)
LEMMA CommitAnswers ==
  ASSUME CatalogInv, NEW h \in Editors, CommitUpdate(h)
  PROVE  CatalogInv'
<1>1. PICK edit : edit = edits[h]
  OBVIOUS
<1>2. edit # None /\ edit.op = "update"
  BY <1>1 DEF CommitUpdate
<1>3. edit \in Update
  BY <1>1, <1>2 DEF CatalogInv, LevelsInv, CatalogTypeOK, Upload
<1>4. PICK id \in Cats, copy \in Category, after \in Category :
        id = edit.cat /\ copy = edit.copy /\ after = edit.after
  BY <1>3 DEF Update
<1>5. id \in crossed \/ IsRoot(after) \/ HasAnswer(after)
  BY <1>1, <1>2, <1>3, <1>4 DEF CatalogInv, UpdatesAnswer
<1>6. PICK row : row = Written(cats[id], copy, after)
  OBVIOUS
<1>7. /\ cats' = [cats EXCEPT ![id] = row] /\ edits' = [edits EXCEPT ![h] = None]
      /\ crossed' = IF cats[id] = copy THEN crossed ELSE crossed \cup {id}
      /\ UNCHANGED <<files, disk>>
  BY <1>1, <1>4, <1>6 DEF CommitUpdate
<1>8. cats[id] = copy => row = after
  BY <1>6, WrittenOverItsCopy
<1>9. \A x \in Cats : cats'[x] = IF x = id THEN row ELSE cats[x]
  BY <1>7 DEF CatalogInv, LevelsInv, CatalogTypeOK
<1>10. EntriesAnswer'
  <2> SUFFICES ASSUME NEW x \in Cats, cats'[x] # None
               PROVE  x \in crossed' \/ IsRoot(cats'[x]) \/ HasAnswer(cats'[x])
    BY DEF EntriesAnswer, Exists, IsRoot, HasAnswer
  <2>1. CASE x = id
    BY <1>5, <1>7, <1>8, <1>9, <2>1
  <2>2. CASE x # id
    BY <1>7, <1>9, <2>2 DEF CatalogInv, EntriesAnswer, Exists
  <2> QED  BY <2>1, <2>2
<1>11. UpdatesAnswer'
  <2>1. \A g \in Editors : edits'[g] = None \/ edits'[g] = edits[g]
    BY <1>7 DEF CatalogInv, LevelsInv, CatalogTypeOK
  <2>2. crossed \subseteq crossed'
    BY <1>7
  <2> QED  BY <2>1, <2>2 DEF CatalogInv, UpdatesAnswer, IsRoot, HasAnswer
<1>12. FilesStored'
  BY <1>7 DEF CatalogInv, FilesStored
<1>13. LevelsInv'
  BY CommitKeepsLevels DEF CatalogInv
<1> QED  BY <1>10, <1>11, <1>12, <1>13 DEF CatalogInv

LEMMA UploadAnswers ==
  ASSUME CatalogInv, NEW h \in Editors, NEW committed \in BOOLEAN, FinishUpload(h, committed)
  PROVE  CatalogInv'
<1>1. PICK f : f = First(Files \ disk)
  OBVIOUS
<1>2. f \in Files /\ f \notin disk
  BY <1>1 DEF FinishUpload, First
<1>3. /\ disk' = disk \cup {f} /\ edits' = [edits EXCEPT ![h] = None]
      /\ files' = IF committed THEN [files EXCEPT ![f] = edits[h].cat] ELSE files
      /\ UNCHANGED <<cats, crossed>>
  BY <1>1 DEF FinishUpload
<1>4. edits[h].cat \in Cats
  BY DEF FinishUpload, CatalogInv, LevelsInv, CatalogTypeOK, Update, Upload
<1>5. FilesStored'
  BY <1>2, <1>3, <1>4 DEF CatalogInv, FilesStored
<1>6. EntriesAnswer'
  BY <1>3 DEF CatalogInv, EntriesAnswer, Exists, IsRoot, HasAnswer
<1>7. UpdatesAnswer'
  <2>1. \A g \in Editors : edits'[g] = None \/ edits'[g] = edits[g]
    BY <1>3 DEF CatalogInv, LevelsInv, CatalogTypeOK
  <2> QED  BY <1>3, <2>1 DEF CatalogInv, UpdatesAnswer, IsRoot, HasAnswer
<1>8. LevelsInv'
  BY CatalogKeepsLevels DEF CatalogInv, CatalogNext
<1> QED  BY <1>5, <1>6, <1>7, <1>8 DEF CatalogInv

LEMMA RemoveAnswers ==
  ASSUME CatalogInv, NEW f \in Files, RemoveFile(f)
  PROVE  CatalogInv'
<1>1. files' = [files EXCEPT ![f] = None] /\ UNCHANGED <<cats, disk, edits, crossed>>
  BY DEF RemoveFile
<1>2. FilesStored'
  BY <1>1 DEF CatalogInv, FilesStored
<1>3. EntriesAnswer' /\ UpdatesAnswer'
  BY <1>1 DEF CatalogInv, EntriesAnswer, UpdatesAnswer, Exists, IsRoot, HasAnswer
<1>4. LevelsInv'
  BY CatalogKeepsLevels DEF CatalogInv, CatalogNext
<1> QED  BY <1>2, <1>3, <1>4 DEF CatalogInv

LEMMA CatalogAnswers == CatalogInv /\ CatalogNext => CatalogInv'
BY CreateAnswers, BeginAnswers, CommitAnswers, UploadAnswers, RemoveAnswers DEF CatalogNext

(* No step takes bytes off the disk, or a service out of the crossed ones. *)
LEMMA CatalogOnlyAdds ==
  ASSUME CatalogNext
  PROVE  crossed \subseteq crossed' /\ disk \subseteq disk'
<1>1. ASSUME NEW h \in Editors, CommitUpdate(h) PROVE crossed \subseteq crossed' /\ disk' = disk
  BY <1>1 DEF CommitUpdate
<1>2. ASSUME NEW h \in Editors, NEW committed \in BOOLEAN, FinishUpload(h, committed)
      PROVE  crossed' = crossed /\ disk \subseteq disk'
  BY <1>2 DEF FinishUpload
<1>3. ASSUME NEW id \in Cats, NEW cat \in NewCategories, CreateCategory(id, cat)
      PROVE  UNCHANGED <<crossed, disk>>
  BY <1>3 DEF CreateCategory
<1>4. ASSUME NEW h \in Editors, NEW id \in Cats,
             \/ \E payload \in Payloads : BeginUpdate(h, id, payload)
             \/ BeginDeactivate(h, id) \/ BeginUpload(h, id)
      PROVE  UNCHANGED <<crossed, disk>>
  BY <1>4 DEF BeginUpdate, BeginDeactivate, BeginUpload
<1>5. ASSUME NEW f \in Files, RemoveFile(f) PROVE UNCHANGED <<crossed, disk>>
  BY <1>5 DEF RemoveFile
<1> QED  BY <1>1, <1>2, <1>3, <1>4, <1>5 DEF CatalogNext

-----------------------------------------------------------------------------
(* One submission turns; the catalogue stays.                              *)
LEMMA FilingTurns ==
  ASSUME AnswersInv, NEW h \in Filers, NEW f, f # None => FilingHolds(f),
         filings' = [filings EXCEPT ![h] = f], UNCHANGED catalogVars
  PROVE  CatalogInv' /\ FilingsHold'
<1>1. CatalogInv'
  BY DEF AnswersInv, CatalogInv, catalogVars, LevelsInv, CatalogTypeOK, TwoLevels, EditsKeepLevels,
         KeepsLevel, EntriesAnswer, UpdatesAnswer, FilesStored, Exists, IsRoot, IsRequestType,
         HasAnswer
<1>2. DOMAIN filings' = Filers
      /\ \A g \in Filers : filings'[g] = IF g = h THEN f ELSE filings[g]
  BY DEF AnswersInv, FilingsHold
<1>3. ASSUME NEW g \in Filers, filings'[g] # None PROVE FilingHolds(filings[g])'
  <2>1. FilingHolds(filings'[g])
    BY <1>2, <1>3 DEF AnswersInv, FilingsHold
  <2> QED  BY <2>1 DEF FilingHolds, catalogVars, HasAnswer
<1> QED  BY <1>1, <1>2, <1>3 DEF FilingsHold

LEMMA RequestsStay ==
  ASSUME RequestsHold, requests' = requests, crossed \subseteq crossed', disk \subseteq disk'
  PROVE  RequestsHold'
BY DEF RequestsHold, RequestHolds

LEMMA FilingsStay ==
  ASSUME FilingsHold, filings' = filings, crossed \subseteq crossed', disk \subseteq disk'
  PROVE  FilingsHold'
<1>1. ASSUME NEW f, FilingHolds(f) PROVE FilingHolds(f)'
  BY <1>1 DEF FilingHolds, HasAnswer
<1> QED  BY <1>1 DEF FilingsHold

(* A submission turns and no request comes or goes.                        *)
LEMMA TurnHolds ==
  ASSUME AnswersInv, NEW h \in Filers, NEW f, f # None => FilingHolds(f),
         Begin(h, f) \/ Goes(h, f)
  PROVE  AnswersInv'
<1>1. filings' = [filings EXCEPT ![h] = f] /\ UNCHANGED catalogVars /\ requests' = requests
  BY DEF Begin, Goes
<1>2. CatalogInv' /\ FilingsHold'
  BY <1>1, FilingTurns
<1>3. RequestsHold'
  BY <1>1, RequestsStay DEF AnswersInv, catalogVars
<1> QED  BY <1>2, <1>3 DEF AnswersInv

LEMMA UsableAnswers ==
  ASSUME AnswersInv, NEW id \in Cats, Usable(id)
  PROVE  cats[id] \in Category /\ (id \in crossed \/ HasAnswer(cats[id]))
BY DEF Usable, Exists, AnswersInv, CatalogInv, LevelsInv, CatalogTypeOK, EntriesAnswer

LEMMA BeginHolds ==
  ASSUME AnswersInv, NEW h \in Filers, NEW id \in Cats,
         \/ \E token \in tokens, profile \in Profiles : BeginWithProfile(h, token, profile, id)
         \/ \E s \in StudentIds : BeginSignedIn(h, s, id)
  PROVE  AnswersInv'
<1>1. ASSUME NEW token \in tokens, NEW profile \in Profiles, BeginWithProfile(h, token, profile, id)
      PROVE  AnswersInv'
  <2>1. PICK sync : sync = Lookup(profile)
    OBVIOUS
  <2>2. PICK student : student = [faculty |-> sync.faculty,
                                  department |-> IF sync.copy = None THEN None
                                                 ELSE sync.copy.department]
    OBVIOUS
  <2>3. PICK stage : stage = IF sync.faculty = None THEN "code" ELSE "group"
    OBVIOUS
  <2>4. PICK f : f = [stage |-> stage, sync |-> sync, student |-> student, cat |-> id,
                      service |-> None, handler |-> None, files |-> {}]
    OBVIOUS
  <2>5. Begin(h, f)
    BY <1>1, <2>1, <2>2, <2>3, <2>4 DEF BeginWithProfile
  <2>6. FilingHolds(f)
    BY <2>3, <2>4 DEF FilingHolds
  <2> QED  BY <2>5, <2>6, TurnHolds
<1>2. ASSUME NEW s \in StudentIds, BeginSignedIn(h, s, id) PROVE AnswersInv'
  <2>1. PICK student : student = [faculty |-> students[s].faculty,
                                  department |-> students[s].department]
    OBVIOUS
  <2>2. PICK f : f = [stage |-> "route", sync |-> None, student |-> student, cat |-> id,
                      service |-> cats[id], handler |-> None, files |-> {}]
    OBVIOUS
  <2>3. Begin(h, f) /\ Usable(id)
    BY <1>2, <2>1, <2>2 DEF BeginSignedIn
  <2>4. FilingHolds(f)
    BY <2>2, <2>3, UsableAnswers DEF FilingHolds
  <2> QED  BY <2>3, <2>4, TurnHolds
<1> QED  BY <1>1, <1>2

(* What the lookups of a submission make of it.                            *)
LEMMA TriedFiling ==
  ASSUME AnswersInv, NEW h \in Filers, TryCode(h)
  PROVE  \E f, sync :
           /\ Goes(h, f) /\ FilingHolds(f) /\ f.sync = sync /\ f.stage \in {"code", "group"}
           /\ \/ sync = filings[h].sync
              \/ sync = [filings[h].sync EXCEPT !.code.suffix = @ + 1]
<1>1. PICK f : f = filings[h]
  OBVIOUS
<1>2. f # None /\ f.stage = "code" /\ FilingHolds(f)
  BY <1>1 DEF TryCode, At, AnswersInv, FilingsHold
<1>3. CASE CodeTaken(f.sync.code)
  <2>1. PICK sync : sync = [f.sync EXCEPT !.code.suffix = @ + 1]
    OBVIOUS
  <2>2. PICK new : new = [f EXCEPT !.sync = sync]
    OBVIOUS
  <2>3. new = [f EXCEPT !.sync.code.suffix = @ + 1]
    BY <2>1, <2>2
  <2>4. Goes(h, new)
    BY <1>1, <1>3, <2>3 DEF TryCode
  <2>5. /\ new = [stage |-> f.stage, sync |-> sync, student |-> f.student, cat |-> f.cat,
                  service |-> f.service, handler |-> f.handler, files |-> f.files]
    BY <1>2, <2>2 DEF FilingHolds
  <2>6. new.stage = "code" /\ new.sync = sync /\ new.cat = f.cat
    BY <1>2, <2>5
  <2>7. FilingHolds(new)
    BY <1>2, <2>5, <2>6 DEF FilingHolds
  <2> QED  BY <1>1, <2>1, <2>4, <2>6, <2>7
<1>4. CASE ~CodeTaken(f.sync.code)
  <2>1. PICK new : new = [f EXCEPT !.stage = "group"]
    OBVIOUS
  <2>2. Goes(h, new)
    BY <1>1, <1>4, <2>1 DEF TryCode
  <2>3. new = [stage |-> "group", sync |-> f.sync, student |-> f.student, cat |-> f.cat,
               service |-> f.service, handler |-> f.handler, files |-> f.files]
    BY <1>2, <2>1 DEF FilingHolds
  <2>4. new.stage = "group" /\ new.sync = f.sync /\ new.cat = f.cat
    BY <2>3
  <2>5. FilingHolds(new)
    BY <1>2, <2>3, <2>4 DEF FilingHolds
  <2> QED  BY <1>1, <2>2, <2>4, <2>5
<1> QED  BY <1>3, <1>4

LEMMA FoundFiling ==
  ASSUME AnswersInv, NEW h \in Filers, FindGroup(h)
  PROVE  \E f, sync :
           /\ Goes(h, f) /\ FilingHolds(f) /\ f.sync = sync /\ f.stage = "route"
           /\ sync = [filings[h].sync EXCEPT !.group = The(GroupsSought(filings[h].sync))]
<1>1. PICK f : f = filings[h]
  OBVIOUS
<1>2. f # None /\ f.stage = "group" /\ FilingHolds(f)
  BY <1>1 DEF FindGroup, At, AnswersInv, FilingsHold
<1>3. PICK sync : sync = [f.sync EXCEPT !.group = The(GroupsSought(f.sync))]
  OBVIOUS
<1>4. PICK new : new = [f EXCEPT !.stage = "route", !.service = cats[f.cat], !.sync = sync]
  OBVIOUS
<1>5. new = [f EXCEPT !.stage = "route", !.service = cats[f.cat],
                      !.sync.group = The(GroupsSought(f.sync))]
  BY <1>3, <1>4
<1>6. Goes(h, new) /\ Usable(f.cat)
  BY <1>1, <1>5 DEF FindGroup
<1>7. new = [stage |-> "route", sync |-> sync, student |-> f.student, cat |-> f.cat,
             service |-> cats[f.cat], handler |-> f.handler, files |-> f.files]
  BY <1>2, <1>4 DEF FilingHolds
<1>8. new.stage = "route" /\ new.sync = sync /\ new.cat = f.cat /\ new.service = cats[f.cat]
  BY <1>7
<1>9. FilingHolds(new)
  BY <1>2, <1>6, <1>7, <1>8, UsableAnswers DEF FilingHolds
<1> QED  BY <1>1, <1>3, <1>6, <1>8, <1>9

(* What the routing of a submission makes of it.                           *)
LEMMA RoutedFiling ==
  ASSUME AnswersInv, NEW h \in Filers, Route(h)
  PROVE  \E routed :
           /\ Goes(h, routed) /\ FilingHolds(routed)
           /\ routed.stage = "commit" /\ routed.sync = filings[h].sync
           /\ routed.service = filings[h].service
           /\ routed.handler = None \/
                routed.handler = Handler(filings[h].service, filings[h].student)
<1>1. PICK f : f = filings[h]
  OBVIOUS
<1>2. f # None /\ f.stage = "route" /\ FilingHolds(f)
  BY <1>1 DEF Route, At, AnswersInv, FilingsHold
<1>3. PICK handler : handler = IF f.service.routing = "auto_reply" THEN None
                               ELSE Handler(f.service, f.student)
  OBVIOUS
<1>4. PICK sent : sent = IF f.service.routing = "auto_reply" THEN FilesOf(f.cat) ELSE {}
  OBVIOUS
<1>5. PICK routed : routed = [f EXCEPT !.stage = "commit", !.handler = handler, !.files = sent]
  OBVIOUS
<1>6. f.service.routing = "auto_reply" \/ handler # None
  BY <1>1, <1>3 DEF Route
<1>7. Goes(h, routed)
  BY <1>1, <1>3, <1>4, <1>5 DEF Route
<1>8. sent \subseteq disk
  <2>1. f.cat # None
    BY <1>2, CatalogAssumption DEF FilingHolds
  <2> QED  BY <1>4, <2>1 DEF FilesOf, AnswersInv, CatalogInv, FilesStored
<1>9. routed = [stage |-> "commit", sync |-> f.sync, student |-> f.student, cat |-> f.cat,
                service |-> f.service, handler |-> handler, files |-> sent]
  BY <1>2, <1>5 DEF FilingHolds
<1>10. /\ routed.stage = "commit" /\ routed.sync = f.sync /\ routed.student = f.student
       /\ routed.cat = f.cat /\ routed.service = f.service /\ routed.handler = handler
       /\ routed.files = sent
  BY <1>9
<1>11. FilingHolds(routed)
  BY <1>2, <1>6, <1>8, <1>9, <1>10 DEF FilingHolds
<1> QED  BY <1>1, <1>3, <1>7, <1>10, <1>11

LEMMA TurnKeepsAnswers ==
  ASSUME AnswersInv, NEW h \in Filers, FilingTurn(h)
  PROVE  AnswersInv'
<1>1. ASSUME Refuse(h) \/ Fail(h) PROVE AnswersInv'
  BY <1>1, TurnHolds DEF Refuse, Fail
<1> QED  BY <1>1, TriedFiling, FoundFiling, RoutedFiling, TurnHolds DEF FilingTurn

LEMMA CommitHolds ==
  ASSUME AnswersInv, NEW h \in Filers, Commit(h)
  PROVE  AnswersInv'
<1>1. PICK f : f = filings[h]
  OBVIOUS
<1>2. FilingHolds(f) /\ f.stage = "commit"
  BY <1>1 DEF Commit, At, AnswersInv, FilingsHold
<1>3. PICK auto : auto = (f.service.routing = "auto_reply")
  OBVIOUS
<1>4. PICK r : r = [cat |-> f.cat, handler |-> f.handler, text |-> auto /\ f.service.text,
                    files |-> f.files, open |-> ~auto]
  OBVIOUS
<1>5. /\ requests' = Append(requests, r) /\ filings' = [filings EXCEPT ![h] = None]
      /\ UNCHANGED catalogVars
  BY <1>1, <1>3, <1>4 DEF Commit
<1>6. RequestHolds(r)
  <2>1. r.handler = f.handler /\ r.cat = f.cat /\ r.files = f.files
        /\ (r.text <=> auto /\ f.service.text)
        /\ r = [cat |-> r.cat, handler |-> r.handler, text |-> r.text, files |-> r.files,
                open |-> r.open]
    BY <1>4
  <2>2. f.handler # None \/ auto
    BY <1>2, <1>3 DEF FilingHolds
  <2>3. f.cat \in crossed \/ (auto => f.service.text)
    BY <1>2, <1>3 DEF FilingHolds, HasAnswer
  <2>4. f.files \subseteq disk
    BY <1>2 DEF FilingHolds
  <2> QED  BY <2>1, <2>2, <2>3, <2>4 DEF RequestHolds
<1>7. CatalogInv' /\ FilingsHold'
  BY <1>5, FilingTurns
<1>8. RequestsHold'
  <2>1. PICK S : requests \in Seq(S)
    BY DEF AnswersInv, RequestsHold
  <2>2. requests' \in Seq(S \cup {r})
    BY <1>5, <2>1
  <2>3. ASSUME NEW i \in DOMAIN requests' PROVE RequestHolds(requests'[i])
    <3>1. requests'[i] = r \/ (i \in DOMAIN requests /\ requests'[i] = requests[i])
      BY <1>5, <2>1
    <3> QED  BY <1>6, <3>1 DEF AnswersInv, RequestsHold
  <2>4. crossed' = crossed /\ disk' = disk
    BY <1>5 DEF catalogVars
  <2> QED  BY <2>2, <2>3, <2>4 DEF RequestsHold, RequestHolds
<1> QED  BY <1>7, <1>8 DEF AnswersInv

(* A request is closed or opened, or given to somebody.                    *)
LEMMA RequestKept ==
  ASSUME AnswersInv, UNCHANGED <<catalogVars, filings>>, NEW i \in DOMAIN requests, NEW e,
         NEW b,
         \/ requests' = [requests EXCEPT ![i].open = b]
         \/ e # None /\ requests' = [requests EXCEPT ![i].handler = e]
  PROVE  AnswersInv'
<1>1. PICK S : requests \in Seq(S)
  BY DEF AnswersInv, RequestsHold
<1>2. PICK old : old = requests[i]
  OBVIOUS
<1>3. RequestHolds(old)
  BY <1>2 DEF AnswersInv, RequestsHold
<1>5. \E r : requests' = [requests EXCEPT ![i] = r] /\ RequestHolds(r)
  <2>1. CASE requests' = [requests EXCEPT ![i].open = b]
    <3>1. PICK r : r = [old EXCEPT !.open = b]
      OBVIOUS
    <3>2. r = [cat |-> old.cat, handler |-> old.handler, text |-> old.text,
               files |-> old.files, open |-> b]
      BY <1>3, <3>1 DEF RequestHolds
    <3>3. RequestHolds(r)
      BY <1>3, <3>2 DEF RequestHolds
    <3> QED  BY <1>2, <2>1, <3>1, <3>3
  <2>2. CASE e # None /\ requests' = [requests EXCEPT ![i].handler = e]
    <3>1. PICK r : r = [old EXCEPT !.handler = e]
      OBVIOUS
    <3>2. r = [cat |-> old.cat, handler |-> e, text |-> old.text,
               files |-> old.files, open |-> old.open]
      BY <1>3, <3>1 DEF RequestHolds
    <3>3. RequestHolds(r)
      BY <1>3, <2>2, <3>2 DEF RequestHolds
    <3> QED  BY <1>2, <2>2, <3>1, <3>3
  <2> QED  BY <2>1, <2>2
<1>6. PICK r : requests' = [requests EXCEPT ![i] = r] /\ RequestHolds(r)
  BY <1>5
<1>7. requests' \in Seq(S \cup {r}) /\ DOMAIN requests' = DOMAIN requests
      /\ \A j \in DOMAIN requests : requests'[j] = IF j = i THEN r ELSE requests[j]
  BY <1>1, <1>6
<1>8. RequestsHold'
  BY <1>6, <1>7 DEF AnswersInv, RequestsHold, RequestHolds, catalogVars
<1>9. CatalogInv'
  BY DEF AnswersInv, CatalogInv, catalogVars, LevelsInv, CatalogTypeOK, TwoLevels, EditsKeepLevels,
         KeepsLevel, EntriesAnswer, UpdatesAnswer, FilesStored, Exists, IsRoot, IsRequestType,
         HasAnswer
<1> QED  BY <1>8, <1>9, FilingsStay DEF AnswersInv, catalogVars

LEMMA StepKeepsAnswers == AnswersInv /\ [Next]_vars => AnswersInv'
<1> SUFFICES ASSUME AnswersInv, [Next]_vars PROVE AnswersInv'
  OBVIOUS
<1>1. ASSUME UNCHANGED <<catalogVars, intakeVars>> PROVE AnswersInv'
  <2>1. CatalogInv'
    BY <1>1 DEF AnswersInv, CatalogInv, catalogVars, LevelsInv, CatalogTypeOK, TwoLevels,
                EditsKeepLevels, KeepsLevel, EntriesAnswer, UpdatesAnswer, FilesStored, Exists,
                IsRoot, IsRequestType, HasAnswer
  <2> QED  BY <1>1, <2>1, FilingsStay, RequestsStay DEF AnswersInv, catalogVars, intakeVars
<1>2. ASSUME CatalogNext, UNCHANGED intakeVars PROVE AnswersInv'
  BY <1>2, CatalogAnswers, CatalogOnlyAdds, FilingsStay, RequestsStay DEF AnswersInv, intakeVars
<1>3. ASSUME IntakeNext PROVE AnswersInv'
  <2>1. ASSUME NEW i \in DOMAIN requests, Close(i) \/ Reopen(i) PROVE AnswersInv'
    BY <2>1, RequestKept DEF Close, Reopen
  <2>2. ASSUME NEW i \in DOMAIN requests, NEW e \in Employees, AssignRequest(i, e)
        PROVE  AnswersInv'
    BY <2>2, RequestKept, DirectoryAssumption DEF AssignRequest
  <2> QED  BY <1>3, <2>1, <2>2, BeginHolds, TurnKeepsAnswers, CommitHolds DEF IntakeNext
<1> QED  BY <1>1, <1>2, <1>3, NextIsOneOf DEF vars

(* Every request has a handler or carries an answer: what an update was    *)
(* checked for is what it writes unless another crossed it, so a service   *)
(* found while a submission began either answers or routes                 *)
(* (create_request, _check_auto_reply, resolve_handler_for_student).       *)
THEOREM NobodyLeftUnanswered == Spec => []OwnedOrAnswered
<1>1. Init => AnswersInv
  BY AnswersAtStart
<1>2. AnswersInv /\ [Next]_vars => AnswersInv'
  BY StepKeepsAnswers
<1>3. AnswersInv => OwnedOrAnswered
  BY DEF AnswersInv, RequestsHold, RequestHolds, OwnedOrAnswered
<1> QED  BY <1>1, <1>2, <1>3, PTL DEF Spec

-----------------------------------------------------------------------------
(* How many files an automatic answer may have.                            *)

UploadsOf(id) == {h \in Editors : edits[h] # None /\ edits[h].op = "upload" /\ edits[h].cat = id}

\* A file is counted before it is a row: those on their way count too.
FilesCounted ==
  \A id \in Cats :
    /\ IsFiniteSet(FilesOf(id))
    /\ Cardinality(FilesOf(id)) + Cardinality(UploadsOf(id))
         < MaxAnswerFiles + Cardinality(Editors)

FewFiles == AnswersInv /\ FilesCounted

LEMMA UploadsFinite ==
  ASSUME IsFiniteSet(Editors), NEW id
  PROVE  /\ IsFiniteSet(UploadsOf(id)) /\ Cardinality(UploadsOf(id)) \in Nat
         /\ Cardinality(UploadsOf(id)) <= Cardinality(Editors)
         /\ Cardinality(Editors) \in Nat
<1>1. UploadsOf(id) \subseteq Editors
  BY DEF UploadsOf
<1> QED  BY <1>1, FS_Subset, FS_CardinalityType

LEMMA FewFilesAtStart ==
  ASSUME IsFiniteSet(Editors), Editors # {}, Init
  PROVE  FewFiles
<1>1. AnswersInv
  BY AnswersAtStart
<1>2. ASSUME NEW id \in Cats PROVE FilesOf(id) \subseteq {First(Files)} /\ UploadsOf(id) = {}
  <2>1. PICK stored \in SUBSET (Files \X {c \in Cats : cats[c] # None /\ cats[c].text}) :
          /\ \A p \in stored : p[1] = First(Files)
          /\ files = [f \in Files |-> IF \E p \in stored : p[1] = f
                                      THEN (CHOOSE p \in stored : p[1] = f)[2] ELSE None]
    BY DEF Init, CatalogInit
  <2>2. id # None
    BY CatalogAssumption
  <2>3. \A f \in Files : files[f] = id => f = First(Files)
    BY <2>1, <2>2
  <2>4. edits = [h \in Editors |-> None]
    BY DEF Init, CatalogInit
  <2> QED  BY <2>3, <2>4 DEF FilesOf, UploadsOf
<1>3. Cardinality(Editors) \in Nat \ {0}
  BY FS_CardinalityType, FS_EmptySet
<1>4. ASSUME NEW id \in Cats
      PROVE  /\ IsFiniteSet(FilesOf(id))
             /\ Cardinality(FilesOf(id)) + Cardinality(UploadsOf(id))
                  < MaxAnswerFiles + Cardinality(Editors)
  <2>1. /\ IsFiniteSet(FilesOf(id)) /\ Cardinality(FilesOf(id)) \in Nat
        /\ Cardinality(FilesOf(id)) <= 1
    <3>1. IsFiniteSet({First(Files)}) /\ Cardinality({First(Files)}) = 1
      BY FS_Singleton
    <3>2. IsFiniteSet(FilesOf(id)) /\ Cardinality(FilesOf(id)) <= Cardinality({First(Files)})
      BY <1>2, <3>1, FS_Subset
    <3> QED  BY <3>1, <3>2, FS_CardinalityType
  <2>2. Cardinality(UploadsOf(id)) = 0
    BY <1>2, FS_EmptySet
  <2> QED  BY <1>3, <2>1, <2>2, CatalogAssumption
<1> QED  BY <1>1, <1>4 DEF FewFiles, FilesCounted

(* A step after which no service has more files, and none more on their    *)
(* way.                                                                    *)
LEMMA NoMoreFiles ==
  ASSUME IsFiniteSet(Editors), FilesCounted,
         \A id \in Cats : /\ FilesOf(id)' \subseteq FilesOf(id)
                         /\ UploadsOf(id)' \subseteq UploadsOf(id)
  PROVE  FilesCounted'
<1> SUFFICES ASSUME NEW id \in Cats
             PROVE  /\ IsFiniteSet(FilesOf(id)')
                    /\ Cardinality(FilesOf(id)') + Cardinality(UploadsOf(id)')
                         < MaxAnswerFiles + Cardinality(Editors)
  BY DEF FilesCounted
<1>1. IsFiniteSet(FilesOf(id)) /\ IsFiniteSet(UploadsOf(id))
  BY UploadsFinite DEF FilesCounted
<1>2. /\ IsFiniteSet(FilesOf(id)') /\ IsFiniteSet(UploadsOf(id)')
      /\ Cardinality(FilesOf(id)') <= Cardinality(FilesOf(id))
      /\ Cardinality(UploadsOf(id)') <= Cardinality(UploadsOf(id))
  BY <1>1, FS_Subset
<1>3. /\ Cardinality(FilesOf(id)') \in Nat /\ Cardinality(UploadsOf(id)') \in Nat
      /\ Cardinality(FilesOf(id)) \in Nat /\ Cardinality(UploadsOf(id)) \in Nat
      /\ Cardinality(Editors) \in Nat
  BY <1>1, <1>2, FS_CardinalityType
<1>4. Cardinality(FilesOf(id)) + Cardinality(UploadsOf(id)) < MaxAnswerFiles + Cardinality(Editors)
  BY DEF FilesCounted
<1> QED  BY <1>2, <1>3, <1>4, CatalogAssumption

(* An upload begins while there is room, and at most every editor's.       *)
LEMMA UploadCounted ==
  ASSUME IsFiniteSet(Editors), FewFiles, NEW h \in Editors, NEW id \in Cats, BeginUpload(h, id)
  PROVE  FilesCounted'
<1>1. PICK edit : edit = [op |-> "upload", cat |-> id]
  OBVIOUS
<1>2. /\ edits' = [edits EXCEPT ![h] = edit] /\ files' = files
      /\ Cardinality(FilesOf(id)) < MaxAnswerFiles
  BY <1>1 DEF BeginUpload
<1>3. ASSUME NEW c \in Cats
      PROVE  /\ IsFiniteSet(FilesOf(c)')
             /\ Cardinality(FilesOf(c)') + Cardinality(UploadsOf(c)')
                  < MaxAnswerFiles + Cardinality(Editors)
  <2>1. FilesOf(c)' = FilesOf(c) /\ IsFiniteSet(FilesOf(c)) /\ Cardinality(FilesOf(c)) \in Nat
    BY <1>2, FS_CardinalityType DEF FilesOf, FewFiles, FilesCounted
  <2>2. CASE c = id
    <3>1. UploadsOf(c)' \subseteq Editors
      BY DEF UploadsOf
    <3>2. /\ Cardinality(UploadsOf(c)') \in Nat /\ Cardinality(Editors) \in Nat
          /\ Cardinality(UploadsOf(c)') <= Cardinality(Editors)
      BY <3>1, FS_Subset, FS_CardinalityType
    <3> QED  BY <1>2, <2>1, <2>2, <3>2, CatalogAssumption
  <2>3. CASE c # id
    <3>1. UploadsOf(c)' \subseteq UploadsOf(c)
      BY <1>1, <1>2, <2>3 DEF UploadsOf, FewFiles, AnswersInv, CatalogInv, LevelsInv, CatalogTypeOK
    <3>2. /\ Cardinality(UploadsOf(c)') <= Cardinality(UploadsOf(c))
          /\ Cardinality(UploadsOf(c)') \in Nat /\ Cardinality(UploadsOf(c)) \in Nat
          /\ Cardinality(Editors) \in Nat
      BY <3>1, UploadsFinite, FS_Subset, FS_CardinalityType
    <3>3. Cardinality(FilesOf(c)) + Cardinality(UploadsOf(c))
            < MaxAnswerFiles + Cardinality(Editors)
      BY DEF FewFiles, FilesCounted
    <3> QED  BY <2>1, <3>2, <3>3, CatalogAssumption
  <2> QED  BY <2>2, <2>3
<1> QED  BY <1>3 DEF FilesCounted

(* The one that was on its way becomes a row, or only bytes.               *)
LEMMA UploadStored ==
  ASSUME IsFiniteSet(Editors), FewFiles, NEW h \in Editors, NEW committed \in BOOLEAN,
         FinishUpload(h, committed)
  PROVE  FilesCounted'
<1>1. PICK f : f = First(Files \ disk)
  OBVIOUS
<1>2. PICK id : id = edits[h].cat
  OBVIOUS
<1>3. f \in Files /\ f \notin disk /\ files[f] = None
  BY <1>1 DEF FinishUpload, First, FewFiles, AnswersInv, CatalogInv, FilesStored
<1>4. /\ edits[h] # None /\ edits[h].op = "upload"
      /\ files' = IF committed THEN [files EXCEPT ![f] = id] ELSE files
      /\ edits' = [edits EXCEPT ![h] = None]
  BY <1>1, <1>2 DEF FinishUpload
<1>5. DOMAIN files = Files /\ DOMAIN edits = Editors
  BY DEF FewFiles, AnswersInv, CatalogInv, FilesStored, LevelsInv, CatalogTypeOK
<1>6. \A c : UploadsOf(c)' = UploadsOf(c) \ {h}
  BY <1>4, <1>5 DEF UploadsOf
<1>7. \A c : c # id => FilesOf(c)' \subseteq FilesOf(c)
  BY <1>3, <1>4, <1>5 DEF FilesOf
<1>8. FilesOf(id)' \subseteq FilesOf(id) \cup {f}
  BY <1>3, <1>4, <1>5 DEF FilesOf
<1>9. ASSUME NEW c \in Cats
      PROVE  /\ IsFiniteSet(FilesOf(c)')
             /\ Cardinality(FilesOf(c)') + Cardinality(UploadsOf(c)')
                  < MaxAnswerFiles + Cardinality(Editors)
  <2>1. /\ IsFiniteSet(FilesOf(c)) /\ Cardinality(FilesOf(c)) \in Nat
        /\ IsFiniteSet(UploadsOf(c)) /\ Cardinality(UploadsOf(c)) \in Nat
        /\ Cardinality(Editors) \in Nat
        /\ Cardinality(FilesOf(c)) + Cardinality(UploadsOf(c))
             < MaxAnswerFiles + Cardinality(Editors)
    BY UploadsFinite, FS_CardinalityType DEF FewFiles, FilesCounted
  <2>2. /\ IsFiniteSet(UploadsOf(c)') /\ Cardinality(UploadsOf(c)') \in Nat
        /\ Cardinality(UploadsOf(c)') = IF h \in UploadsOf(c) THEN Cardinality(UploadsOf(c)) - 1
                                        ELSE Cardinality(UploadsOf(c))
    BY <1>6, <2>1, FS_RemoveElement, FS_CardinalityType
  <2>3. CASE c = id
    <3>1. h \in UploadsOf(c)
      BY <1>2, <1>4, <2>3 DEF UploadsOf
    <3>2. /\ IsFiniteSet(FilesOf(c) \cup {f})
          /\ Cardinality(FilesOf(c) \cup {f}) <= Cardinality(FilesOf(c)) + 1
          /\ Cardinality(FilesOf(c) \cup {f}) \in Nat
      <4>1. /\ IsFiniteSet(FilesOf(c) \cup {f})
            /\ Cardinality(FilesOf(c) \cup {f}) = IF f \in FilesOf(c) THEN Cardinality(FilesOf(c))
                                                  ELSE Cardinality(FilesOf(c)) + 1
        BY <2>1, FS_AddElement
      <4> QED  BY <2>1, <4>1
    <3>3. /\ IsFiniteSet(FilesOf(c)') /\ Cardinality(FilesOf(c)') \in Nat
          /\ Cardinality(FilesOf(c)') <= Cardinality(FilesOf(c) \cup {f})
      BY <1>8, <2>3, <3>2, FS_Subset, FS_CardinalityType
    <3> QED  BY <2>1, <2>2, <3>1, <3>2, <3>3, CatalogAssumption
  <2>4. CASE c # id
    <3>1. /\ IsFiniteSet(FilesOf(c)') /\ Cardinality(FilesOf(c)') \in Nat
          /\ Cardinality(FilesOf(c)') <= Cardinality(FilesOf(c))
      BY <1>7, <2>1, <2>4, FS_Subset, FS_CardinalityType
    <3> QED  BY <2>1, <2>2, <3>1, CatalogAssumption
  <2> QED  BY <2>3, <2>4
<1> QED  BY <1>9 DEF FilesCounted

LEMMA CatalogKeepsFew ==
  ASSUME IsFiniteSet(Editors), FewFiles, CatalogNext
  PROVE  FilesCounted'
<1>0. /\ edits \in [Editors -> Update \cup Upload \cup {None}]
      /\ files \in [Files -> Cats \cup {None}]
  BY DEF FewFiles, AnswersInv, CatalogInv, FilesStored, LevelsInv, CatalogTypeOK
<1>1. ASSUME NEW id \in Cats, NEW cat \in NewCategories, CreateCategory(id, cat)
      PROVE  FilesCounted'
  BY <1>1 DEF CreateCategory, FewFiles, FilesCounted, FilesOf, UploadsOf
<1>2. ASSUME NEW h \in Editors, NEW edit, edit.op = "update" \/ edit = None,
             edits' = [edits EXCEPT ![h] = edit], files' = files
      PROVE  FilesCounted'
  <2>1. \A id \in Cats : /\ FilesOf(id)' \subseteq FilesOf(id)
                         /\ UploadsOf(id)' \subseteq UploadsOf(id)
    BY <1>0, <1>2 DEF FilesOf, UploadsOf
  <2> QED  BY <2>1, NoMoreFiles DEF FewFiles
<1>3. ASSUME NEW h \in Editors, NEW id \in Cats, NEW payload \in Payloads,
             BeginUpdate(h, id, payload)
      PROVE  FilesCounted'
  <2>1. PICK edit : edit = [op |-> "update", cat |-> id, copy |-> cats[id],
                            after |-> Applied(cats[id], payload)]
    OBVIOUS
  <2>2. edits' = [edits EXCEPT ![h] = edit] /\ files' = files
    BY <1>3, <2>1 DEF BeginUpdate
  <2>3. edit.op = "update"
    BY <2>1
  <2> QED  BY <1>2, <2>2, <2>3
<1>4. ASSUME NEW h \in Editors, NEW id \in Cats, BeginDeactivate(h, id) PROVE FilesCounted'
  <2>1. PICK edit : edit = [op |-> "update", cat |-> id, copy |-> cats[id],
                            after |-> [cats[id] EXCEPT !.active = FALSE]]
    OBVIOUS
  <2>2. edits' = [edits EXCEPT ![h] = edit] /\ files' = files
    BY <1>4, <2>1 DEF BeginDeactivate
  <2>3. edit.op = "update"
    BY <2>1
  <2> QED  BY <1>2, <2>2, <2>3
<1>5. ASSUME NEW h \in Editors, CommitUpdate(h) PROVE FilesCounted'
  <2>1. edits' = [edits EXCEPT ![h] = None] /\ files' = files
    BY <1>5 DEF CommitUpdate
  <2> QED  BY <1>2, <2>1
<1>6. ASSUME NEW f \in Files, RemoveFile(f) PROVE FilesCounted'
  <2>1. files' = [files EXCEPT ![f] = None] /\ edits' = edits
    BY <1>6 DEF RemoveFile
  <2>2. \A id \in Cats : /\ FilesOf(id)' \subseteq FilesOf(id)
                         /\ UploadsOf(id)' \subseteq UploadsOf(id)
    BY <1>0, <2>1, CatalogAssumption DEF FilesOf, UploadsOf
  <2> QED  BY <2>2, NoMoreFiles DEF FewFiles
<1> QED  BY <1>1, <1>3, <1>4, <1>5, <1>6, UploadCounted, UploadStored DEF CatalogNext

LEMMA StepKeepsFew ==
  ASSUME IsFiniteSet(Editors), FewFiles, [Next]_vars
  PROVE  FewFiles'
<1>1. AnswersInv'
  BY StepKeepsAnswers DEF FewFiles
<1>2. CatalogNext \/ UNCHANGED catalogVars
  BY StepOfCatalog
<1>3. ASSUME UNCHANGED catalogVars PROVE FilesCounted'
  BY <1>3 DEF catalogVars, FewFiles, FilesCounted, FilesOf, UploadsOf
<1> QED  BY <1>1, <1>2, <1>3, CatalogKeepsFew DEF FewFiles

(* A service has fewer files than its cap and the administrators' calls    *)
(* together, and no file is sent whose bytes are gone: an upload on its    *)
(* way counts like a file, and a cap that was free when it was counted     *)
(* leaves room for all of them (add_auto_reply_file,                       *)
(* remove_auto_reply_file).                                                *)
THEOREM AnswersKeepTheirFiles ==
  ASSUME IsFiniteSet(Editors), Editors # {}
  PROVE  Spec => []AnswerFiles
<1>1. Init => FewFiles
  BY FewFilesAtStart
<1>2. FewFiles /\ [Next]_vars => FewFiles'
  BY StepKeepsFew
<1>3. FewFiles => AnswerFiles
  <2> SUFFICES ASSUME FewFiles PROVE AnswerFiles
    OBVIOUS
  <2>1. ASSUME NEW id \in Cats
        PROVE  Cardinality(FilesOf(id)) < MaxAnswerFiles + Cardinality(Editors)
    <3>1. /\ Cardinality(FilesOf(id)) \in Nat /\ Cardinality(UploadsOf(id)) \in Nat
          /\ Cardinality(Editors) \in Nat
          /\ Cardinality(FilesOf(id)) + Cardinality(UploadsOf(id))
               < MaxAnswerFiles + Cardinality(Editors)
      BY UploadsFinite, FS_CardinalityType DEF FewFiles, FilesCounted
    <3> QED  BY <3>1, CatalogAssumption
  <2>2. \A f \in Files : files[f] # None => f \in disk
    BY DEF FewFiles, AnswersInv, CatalogInv, FilesStored
  <2>3. \A i \in DOMAIN requests : requests[i].files \subseteq disk
    BY DEF FewFiles, AnswersInv, RequestsHold, RequestHolds
  <2> QED  BY <2>1, <2>2, <2>3 DEF AnswerFiles
<1> QED  BY <1>1, <1>2, <1>3, PTL DEF Spec

-----------------------------------------------------------------------------
(* A name is stored no more often than submissions in flight missed it.    *)

LEMMA MinIsLeast ==
  ASSUME NEW S \in SUBSET Nat, S # {}
  PROVE  Min(S) \in S /\ \A n \in S : Min(S) <= n
<1>1. PICK Less : Less = {p \in Nat \X Nat : p[1] < p[2]}
  OBVIOUS
<1>2. IsWellFoundedOn(Less, Nat)
  BY <1>1, NatLessThanWellFounded DEF OpToRel
<1>3. PICK x \in S : \A y \in S : <<y, x>> \notin Less
  BY <1>2, WFMin
<1>4. ASSUME NEW y \in S PROVE x <= y
  <2>1. x \in Nat /\ y \in Nat /\ ~(y < x)
    <3>1. <<y, x>> \in Nat \X Nat
      OBVIOUS
    <3> QED  BY <1>1, <1>3, <3>1
  <2> QED  BY <2>1
<1> QED  BY <1>4 DEF Min

Profile == [id : StudentIds, faculty : FacultyNames, group : GroupNames]

\* What a profile in flight has found, and not found.
SyncHolds(s) ==
  /\ s = [profile |-> s.profile, copy |-> s.copy, faculty |-> s.faculty, code |-> s.code,
          group |-> s.group]
  /\ s.profile \in Profile
  /\ s.faculty # None => s.faculty \in Rows(faculties)
  /\ s.faculty = None => s.group = None /\ s.code \in Code

\* Submissions that will store a faculty of this name, or such a group in f.
Brings(f)  == f # None /\ (f.sync # None \/ f.stage \in {"code", "group"})
Syncing(h) == Brings(filings[h])
Seekers(name) ==
  {h \in Filers : /\ Syncing(h) /\ filings[h].sync.faculty = None
                  /\ filings[h].sync.profile.faculty = name}
GroupSeekers(name, f) ==
  {h \in Filers : /\ Syncing(h) /\ filings[h].stage \in {"route", "commit"}
                  /\ filings[h].sync.group = None /\ filings[h].sync.faculty = f
                  /\ filings[h].sync.profile.group = name}

DirectoryHolds ==
  /\ DOMAIN faculties = FacultyIds /\ DOMAIN groups = GroupIds
  /\ \A g \in Rows(groups) : groups[g].faculty \in Rows(faculties)
  /\ \A h \in Filers : Syncing(h) => SyncHolds(filings[h].sync)
NamesCounted ==
  /\ \A name \in FacultyNames :
       Cardinality(FacultiesNamed(name)) + Cardinality(Seekers(name)) <= Cardinality(Filers)
  /\ \A name \in GroupNames, f \in Rows(faculties) :
       Cardinality(GroupsNamed(name, f)) + Cardinality(GroupSeekers(name, f))
         <= Cardinality(Filers)
NamesInv == DirectoryHolds /\ NamesCounted

ProfilesInv == AnswersInv /\ (edited \/ NamesInv)

-----------------------------------------------------------------------------
(* Counting rows and those who will add one.                               *)
LEMMA FewerCounted ==
  ASSUME NEW A, NEW B, IsFiniteSet(A), IsFiniteSet(B), NEW A2 \in SUBSET A, NEW B2 \in SUBSET B,
         NEW n \in Nat, Cardinality(A) + Cardinality(B) <= n
  PROVE  Cardinality(A2) + Cardinality(B2) <= n
<1>1. /\ Cardinality(A2) \in Nat /\ Cardinality(A) \in Nat /\ Cardinality(A2) <= Cardinality(A)
      /\ Cardinality(B2) \in Nat /\ Cardinality(B) \in Nat /\ Cardinality(B2) <= Cardinality(B)
  BY FS_Subset, FS_CardinalityType
<1> QED  BY <1>1

LEMMA OneMoved ==
  ASSUME NEW A, NEW B, IsFiniteSet(A), IsFiniteSet(B), NEW x, NEW h \in B,
         NEW A2 \in SUBSET (A \cup {x}), NEW B2 \in SUBSET (B \ {h}),
         NEW n \in Nat, Cardinality(A) + Cardinality(B) <= n
  PROVE  Cardinality(A2) + Cardinality(B2) <= n
<1>1. Cardinality(A) \in Nat /\ Cardinality(B) \in Nat
  BY FS_CardinalityType
<1>2. /\ IsFiniteSet(A \cup {x})
      /\ Cardinality(A \cup {x}) = Cardinality(A) \/ Cardinality(A \cup {x}) = Cardinality(A) + 1
  BY FS_AddElement
<1>3. IsFiniteSet(B \ {h}) /\ Cardinality(B \ {h}) = Cardinality(B) - 1
  BY FS_RemoveElement
<1>4. Cardinality(A \cup {x}) + Cardinality(B \ {h}) <= n
  BY <1>1, <1>2, <1>3
<1> QED  BY <1>2, <1>3, <1>4, FewerCounted

LEMMA NobodyThere ==
  ASSUME IsFiniteSet(Filers), NEW B \in SUBSET Filers
  PROVE  /\ Cardinality({}) + Cardinality(B) <= Cardinality(Filers)
         /\ Cardinality(Filers) \in Nat
<1>1. /\ Cardinality(B) \in Nat /\ Cardinality(Filers) \in Nat
      /\ Cardinality(B) <= Cardinality(Filers)
  BY FS_Subset, FS_CardinalityType
<1> QED  BY <1>1, FS_EmptySet

LEMMA CountedSetsFinite ==
  ASSUME IsFiniteSet(Filers), DOMAIN faculties = FacultyIds, DOMAIN groups = GroupIds
  PROVE  /\ \A name : IsFiniteSet(FacultiesNamed(name)) /\ IsFiniteSet(Seekers(name))
         /\ \A name, f : IsFiniteSet(GroupsNamed(name, f)) /\ IsFiniteSet(GroupSeekers(name, f))
<1>1. ASSUME NEW name PROVE IsFiniteSet(FacultiesNamed(name)) /\ IsFiniteSet(Seekers(name))
  <2>1. FacultiesNamed(name) \subseteq FacultyIds /\ Seekers(name) \subseteq Filers
    BY DEF FacultiesNamed, Rows, Seekers
  <2> QED  BY <2>1, FS_Subset, DirectoryAssumption
<1>2. ASSUME NEW name, NEW f
      PROVE  IsFiniteSet(GroupsNamed(name, f)) /\ IsFiniteSet(GroupSeekers(name, f))
  <2>1. GroupsNamed(name, f) \subseteq GroupIds /\ GroupSeekers(name, f) \subseteq Filers
    BY DEF GroupsNamed, Rows, GroupSeekers
  <2> QED  BY <2>1, FS_Subset, DirectoryAssumption
<1> QED  BY <1>1, <1>2

-----------------------------------------------------------------------------
LEMMA ProfilesAtStart ==
  ASSUME IsFiniteSet(Filers), Filers # {}, Init
  PROVE  ProfilesInv
<1>1. PICK f0 \in FacultyIds, g0 \in GroupIds : f0 = Min(FacultyIds) /\ g0 = Min(GroupIds)
  BY MinIsLeast, DirectoryAssumption
<1>2. PICK faculty : faculty = [name |-> First(FacultyNames),
                                code |-> [stem |-> Stem[First(FacultyNames)], suffix |-> 0]]
  OBVIOUS
<1>3. PICK group : group = [name |-> First(GroupNames), faculty |-> f0]
  OBVIOUS
<1>4. /\ faculties = [f \in FacultyIds |-> IF f # f0 THEN None ELSE faculty]
      /\ groups = [g \in GroupIds |-> IF g # g0 THEN None ELSE group]
  BY <1>1, <1>2, <1>3 DEF Init, DirectoryInit
<1>5. filings = [h \in Filers |-> None]
  BY DEF Init
<1>6. faculty # None /\ group.faculty = f0
  <2>1. First(FacultyNames) \in FacultyNames
    BY DirectoryAssumption DEF First
  <2>2. [stem |-> Stem[First(FacultyNames)], suffix |-> 0] \in Code
    BY <2>1 DEF Code
  <2>3. faculty \in Faculty
    BY <1>2, <2>1, <2>2 DEF Faculty
  <2> QED  BY <1>3, <2>3, RowsAssumption
<1>7. Rows(faculties) = {f0} /\ Rows(groups) \subseteq {g0} /\ groups[g0] = group
  BY <1>4, <1>6 DEF Rows
<1>8. DirectoryHolds
  BY <1>4, <1>5, <1>6, <1>7 DEF DirectoryHolds, Syncing, Brings
<1>9. PICK h \in Filers : TRUE
  OBVIOUS
<1>10. /\ IsFiniteSet({}) /\ IsFiniteSet({h}) /\ Cardinality(Filers) \in Nat
       /\ Cardinality({}) + Cardinality({h}) <= Cardinality(Filers)
  BY NobodyThere, FS_EmptySet, FS_Singleton
<1>11. ASSUME NEW x, NEW A \in SUBSET {x}, NEW B, B = {}
       PROVE  Cardinality(A) + Cardinality(B) <= Cardinality(Filers)
  BY <1>10, <1>11, OneMoved
<1>12. /\ \A name : FacultiesNamed(name) \subseteq {f0} /\ Seekers(name) = {}
       /\ \A name, f : GroupsNamed(name, f) \subseteq {g0} /\ GroupSeekers(name, f) = {}
  BY <1>5, <1>7 DEF FacultiesNamed, GroupsNamed, Seekers, GroupSeekers, Syncing, Brings
<1>13. NamesCounted
  BY <1>11, <1>12 DEF NamesCounted
<1> QED  BY <1>8, <1>13, AnswersAtStart DEF ProfilesInv, NamesInv

-----------------------------------------------------------------------------
(* Steps of submissions that leave the tables alone: one that has yet to   *)
(* store a row found none when it looked, or was counted already.          *)
LEMMA TurnKeepsNames ==
  ASSUME IsFiniteSet(Filers), NamesInv, DOMAIN filings = Filers, NEW h \in Filers, NEW f,
         filings' = [filings EXCEPT ![h] = f], UNCHANGED <<faculties, groups>>,
         Brings(f) =>
           /\ SyncHolds(f.sync)
           /\ f.sync.faculty = None =>
                FacultiesNamed(f.sync.profile.faculty) = {} \/ h \in Seekers(f.sync.profile.faculty)
           /\ f.stage \in {"route", "commit"} /\ f.sync.group = None /\ f.sync.faculty # None =>
                \/ GroupsNamed(f.sync.profile.group, f.sync.faculty) = {}
                \/ h \in GroupSeekers(f.sync.profile.group, f.sync.faculty)
  PROVE  NamesInv'
<1>1. \A g \in Filers : filings'[g] = IF g = h THEN f ELSE filings[g]
  OBVIOUS
<1>2. /\ Rows(faculties)' = Rows(faculties) /\ Rows(groups)' = Rows(groups)
      /\ \A name : FacultiesNamed(name)' = FacultiesNamed(name)
      /\ \A name, x : GroupsNamed(name, x)' = GroupsNamed(name, x)
  BY DEF Rows, FacultiesNamed, GroupsNamed
<1>3. ASSUME NEW s, SyncHolds(s) PROVE SyncHolds(s)'
  BY <1>2, <1>3 DEF SyncHolds
<1>4. ASSUME NEW g \in Filers, Syncing(g)' PROVE SyncHolds(filings[g].sync)'
  <2>1. PICK s : s = filings'[g].sync
    OBVIOUS
  <2>2. SyncHolds(s)
    BY <1>1, <1>4, <2>1 DEF NamesInv, DirectoryHolds, Syncing, Brings
  <2>3. SyncHolds(s)'
    BY <1>3, <2>2
  <2> QED  BY <2>1, <2>3 DEF SyncHolds
<1>5. DirectoryHolds'
  BY <1>2, <1>4 DEF NamesInv, DirectoryHolds
<1>6. ASSUME NEW name \in FacultyNames
      PROVE  Cardinality(FacultiesNamed(name)') + Cardinality(Seekers(name)')
               <= Cardinality(Filers)
  <2>1. CASE FacultiesNamed(name) = {}
    BY <1>2, <2>1, NobodyThere DEF Seekers
  <2>2. CASE FacultiesNamed(name) # {}
    <3>1. Seekers(name)' \subseteq Seekers(name)
      BY <1>1, <2>2 DEF Seekers, Syncing, Brings
    <3> QED  BY <1>2, <3>1, FewerCounted, CountedSetsFinite, NobodyThere
             DEF NamesInv, NamesCounted, DirectoryHolds
  <2> QED  BY <2>1, <2>2
<1>7. ASSUME NEW name \in GroupNames, NEW x \in Rows(faculties)
      PROVE  Cardinality(GroupsNamed(name, x)') + Cardinality(GroupSeekers(name, x)')
               <= Cardinality(Filers)
  <2>1. CASE GroupsNamed(name, x) = {}
    BY <1>2, <2>1, NobodyThere DEF GroupSeekers
  <2>2. CASE GroupsNamed(name, x) # {}
    <3>0. x # None
      BY DirectoryAssumption DEF NamesInv, DirectoryHolds, Rows
    <3>1. GroupSeekers(name, x)' \subseteq GroupSeekers(name, x)
      BY <1>1, <2>2, <3>0 DEF GroupSeekers, Syncing, Brings
    <3> QED  BY <1>2, <3>1, FewerCounted, CountedSetsFinite, NobodyThere
             DEF NamesInv, NamesCounted, DirectoryHolds
  <2> QED  BY <2>1, <2>2
<1>8. NamesCounted'
  BY <1>2, <1>6, <1>7 DEF NamesCounted
<1> QED  BY <1>5, <1>8 DEF NamesInv

LEMMA LookedUp ==
  ASSUME NamesInv, NEW profile \in Profiles
  PROVE  LET s == Lookup(profile) IN
         /\ SyncHolds(s) /\ s.profile = profile
         /\ s.faculty = None => FacultiesNamed(s.profile.faculty) = {}
<1>1. PICK s : s = Lookup(profile)
  OBVIOUS
<1>2. PICK faculty : faculty = The(FacultiesNamed(profile.faculty))
  OBVIOUS
<1>3. PICK code : code = IF faculty # None THEN None
                         ELSE [stem |-> Stem[profile.faculty], suffix |-> 0]
  OBVIOUS
<1>4. s = [profile |-> profile, copy |-> students[profile.id], faculty |-> faculty,
           code |-> code, group |-> None]
  BY <1>1, <1>2, <1>3 DEF Lookup
<1>5. /\ s.profile = profile /\ s.faculty = faculty /\ s.code = code /\ s.group = None
      /\ s = [profile |-> s.profile, copy |-> s.copy, faculty |-> s.faculty, code |-> s.code,
              group |-> s.group]
  BY <1>4
<1>6. profile \in Profile /\ profile.faculty \in FacultyNames
  BY ProfileAssumption DEF Profile
<1>7. faculty # None => faculty \in Rows(faculties)
  BY <1>2 DEF The, FacultiesNamed
<1>8. faculty = None => FacultiesNamed(profile.faculty) = {}
  BY <1>2, DirectoryAssumption DEF The, FacultiesNamed, Rows, NamesInv, DirectoryHolds
<1>9. faculty = None => code \in Code
  BY <1>3, <1>6 DEF Code
<1> QED  BY <1>1, <1>5, <1>6, <1>7, <1>8, <1>9 DEF SyncHolds

LEMMA BeginKeepsNames ==
  ASSUME IsFiniteSet(Filers), NamesInv, DOMAIN filings = Filers, NEW h \in Filers, NEW id \in Cats,
         \/ \E token \in tokens, profile \in Profiles : BeginWithProfile(h, token, profile, id)
         \/ \E s \in StudentIds : BeginSignedIn(h, s, id)
  PROVE  NamesInv'
<1>1. ASSUME NEW token \in tokens, NEW profile \in Profiles, BeginWithProfile(h, token, profile, id)
      PROVE  NamesInv'
  <2>1. PICK sync : sync = Lookup(profile)
    OBVIOUS
  <2>2. PICK student : student = [faculty |-> sync.faculty,
                                  department |-> IF sync.copy = None THEN None
                                                 ELSE sync.copy.department]
    OBVIOUS
  <2>3. PICK stage : stage = IF sync.faculty = None THEN "code" ELSE "group"
    OBVIOUS
  <2>4. PICK f : f = [stage |-> stage, sync |-> sync, student |-> student, cat |-> id,
                      service |-> None, handler |-> None, files |-> {}]
    OBVIOUS
  <2>5. Begin(h, f)
    BY <1>1, <2>1, <2>2, <2>3, <2>4 DEF BeginWithProfile
  <2>6. f.sync = sync /\ f.stage \notin {"route", "commit"}
    BY <2>3, <2>4
  <2>7. SyncHolds(sync) /\ (sync.faculty = None => FacultiesNamed(sync.profile.faculty) = {})
    BY <2>1, LookedUp
  <2>8. filings' = [filings EXCEPT ![h] = f] /\ UNCHANGED <<faculties, groups>>
    BY <2>5 DEF Begin, directoryVars
  <2> QED  BY <2>6, <2>7, <2>8, TurnKeepsNames DEF Brings
<1>2. ASSUME NEW s \in StudentIds, BeginSignedIn(h, s, id) PROVE NamesInv'
  <2>1. PICK f : f = [stage |-> "route", sync |-> None,
                      student |-> [faculty |-> students[s].faculty,
                                   department |-> students[s].department],
                      cat |-> id, service |-> cats[id], handler |-> None, files |-> {}]
    OBVIOUS
  <2>2. Begin(h, f)
    BY <1>2, <2>1 DEF BeginSignedIn
  <2>3. f.sync = None /\ f.stage = "route"
    BY <2>1
  <2>4. filings' = [filings EXCEPT ![h] = f] /\ UNCHANGED <<faculties, groups>>
    BY <2>2 DEF Begin, directoryVars
  <2> QED  BY <2>3, <2>4, TurnKeepsNames DEF Brings
<1> QED  BY <1>1, <1>2

LEMMA FilingTurnKeepsNames ==
  ASSUME IsFiniteSet(Filers), NamesInv, AnswersInv, NEW h \in Filers, FilingTurn(h)
  PROVE  NamesInv'
<1>1. DOMAIN filings = Filers
  BY DEF AnswersInv, FilingsHold
<1>2. ASSUME NEW f, Goes(h, f)
      PROVE  filings' = [filings EXCEPT ![h] = f] /\ UNCHANGED <<faculties, groups>>
  BY <1>2 DEF Goes, directoryVars
<1>3. PICK s : s = filings[h].sync
  OBVIOUS
<1>4. CASE Refuse(h) \/ Fail(h)
  <2>1. Goes(h, None)
    BY <1>4 DEF Refuse, Fail
  <2> QED  BY <1>1, <1>2, <2>1, TurnKeepsNames DEF Brings
<1>5. CASE Route(h)
  <2>1. PICK f : Goes(h, f) /\ f.stage = "commit" /\ f.sync = s
    BY <1>3, <1>5, RoutedFiling
  <2>2. filings[h] # None /\ filings[h].stage = "route"
    BY <1>5 DEF Route, At
  <2>3. s # None => /\ SyncHolds(s)
                    /\ s.faculty = None => h \in Seekers(s.profile.faculty)
                    /\ s.group = None => h \in GroupSeekers(s.profile.group, s.faculty)
    BY <1>3, <2>2 DEF NamesInv, DirectoryHolds, Syncing, Brings, Seekers, GroupSeekers
  <2> QED  BY <1>1, <1>2, <2>1, <2>3, TurnKeepsNames DEF Brings
<1>6. CASE TryCode(h)
  <2>1. PICK f, sync :
          /\ Goes(h, f) /\ f.sync = sync /\ f.stage \in {"code", "group"}
          /\ sync = s \/ sync = [s EXCEPT !.code.suffix = @ + 1]
    BY <1>3, <1>6, TriedFiling
  <2>2. /\ SyncHolds(s) /\ (s.faculty = None => h \in Seekers(s.profile.faculty))
    BY <1>3, <1>6 DEF TryCode, At, NamesInv, DirectoryHolds, Syncing, Brings, Seekers
  <2>3. CASE sync = [s EXCEPT !.code.suffix = @ + 1]
    <3>1. PICK code : code = [s.code EXCEPT !.suffix = @ + 1]
      OBVIOUS
    <3>2. sync = [s EXCEPT !.code = code]
      BY <2>3, <3>1
    <3>3. sync = [profile |-> s.profile, copy |-> s.copy, faculty |-> s.faculty,
                  code |-> code, group |-> s.group]
      BY <2>2, <3>2 DEF SyncHolds
    <3>4. s.code \in Code => code \in Code
      <4> SUFFICES ASSUME s.code \in Code PROVE code \in Code
        OBVIOUS
      <4>1. code = [stem |-> s.code.stem, suffix |-> s.code.suffix + 1]
        BY <3>1 DEF Code
      <4>2. s.code.suffix + 1 \in Nat /\ s.code.stem \in {Stem[n] : n \in FacultyNames}
        BY DEF Code
      <4> QED  BY <4>1, <4>2 DEF Code
    <3>5. /\ sync.profile = s.profile /\ sync.faculty = s.faculty /\ sync.group = s.group
          /\ sync.copy = s.copy /\ sync.code = code
      BY <3>3
    <3>6. SyncHolds(sync)
      BY <2>2, <3>3, <3>4, <3>5 DEF SyncHolds
    <3> QED  BY <1>1, <1>2, <2>1, <2>2, <3>5, <3>6, TurnKeepsNames
  <2>4. CASE sync = s
    BY <1>1, <1>2, <2>1, <2>2, <2>4, TurnKeepsNames
  <2> QED  BY <2>1, <2>3, <2>4
<1>7. CASE FindGroup(h)
  <2>1. PICK f, sync :
          /\ Goes(h, f) /\ f.sync = sync /\ f.stage = "route"
          /\ sync = [s EXCEPT !.group = The(GroupsSought(s))]
    BY <1>3, <1>7, FoundFiling
  <2>3. SyncHolds(s) /\ (s.faculty = None => h \in Seekers(s.profile.faculty))
    BY <1>3, <1>7 DEF FindGroup, At, NamesInv, DirectoryHolds, Syncing, Brings, Seekers
  <2>4. PICK group : group = The(GroupsSought(s))
    OBVIOUS
  <2>5. sync = [profile |-> s.profile, copy |-> s.copy, faculty |-> s.faculty,
                code |-> s.code, group |-> group]
    BY <2>1, <2>3, <2>4 DEF SyncHolds
  <2>6. /\ sync.profile = s.profile /\ sync.faculty = s.faculty /\ sync.group = group
        /\ sync.copy = s.copy /\ sync.code = s.code
    BY <2>5
  <2>7. s.faculty = None => group = None
    BY <2>4 DEF GroupsSought, The
  <2>8. SyncHolds(sync)
    BY <2>3, <2>5, <2>6, <2>7 DEF SyncHolds
  <2>9. s.faculty # None /\ group = None => GroupsNamed(s.profile.group, s.faculty) = {}
    BY <2>4, DirectoryAssumption DEF GroupsSought, The, GroupsNamed, Rows, NamesInv, DirectoryHolds
  <2>10. /\ SyncHolds(f.sync)
         /\ f.sync.faculty = None => h \in Seekers(f.sync.profile.faculty)
         /\ f.sync.group = None /\ f.sync.faculty # None =>
              GroupsNamed(f.sync.profile.group, f.sync.faculty) = {}
    BY <2>1, <2>3, <2>6, <2>8, <2>9
  <2> QED  BY <1>1, <1>2, <2>1, <2>10, TurnKeepsNames
<1> QED  BY <1>4, <1>5, <1>6, <1>7 DEF FilingTurn

-----------------------------------------------------------------------------
(* What becomes of the tables when a profile is stored: the faculty is f0, *)
(* stored now or found before, and a group is stored in it or was found.   *)
LEMMA ProfileStored ==
  ASSUME DirectoryHolds, NEW s, SyncHolds(s), HasRoom(s), StoreProfile(s)
  PROVE  \E f0 \in FacultyIds :
           /\ IF s.faculty # None THEN f0 = s.faculty /\ faculties' = faculties
              ELSE \E row \in Faculty :
                     /\ faculties[f0] = None /\ faculties' = [faculties EXCEPT ![f0] = row]
                     /\ row.name = s.profile.faculty
           /\ IF s.group # None THEN groups' = groups
              ELSE \E g0 \in GroupIds, group \in Group :
                     /\ groups[g0] = None /\ groups' = [groups EXCEPT ![g0] = group]
                     /\ group.name = s.profile.group /\ group.faculty = f0
<1>1. PICK f0 : f0 = StoredFaculty(s)
  OBVIOUS
<1>2. /\ faculties' = IF s.faculty # None THEN faculties ELSE
           [faculties EXCEPT ![f0] = [name |-> s.profile.faculty, code |-> s.code]]
      /\ groups' = IF s.group # None THEN groups ELSE
           [groups EXCEPT ![StoredGroup(s)] = [name |-> s.profile.group, faculty |-> f0]]
  BY <1>1 DEF StoreProfile
<1>3. /\ s.profile.faculty \in FacultyNames /\ s.profile.group \in GroupNames
  BY DEF SyncHolds, Profile
<1>4. s.faculty # None => f0 = s.faculty /\ f0 \in FacultyIds
  BY <1>1 DEF StoredFaculty, SyncHolds, DirectoryHolds, Rows
<1>5. s.faculty = None => f0 \in FacultyIds /\ faculties[f0] = None
  <2> SUFFICES ASSUME s.faculty = None PROVE f0 \in FacultyIds /\ faculties[f0] = None
    OBVIOUS
  <2>1. Unused(faculties) \in SUBSET Nat /\ Unused(faculties) # {}
    BY DirectoryAssumption DEF HasRoom, Unused, DirectoryHolds
  <2>2. f0 = Min(Unused(faculties))
    BY <1>1 DEF StoredFaculty
  <2>3. f0 \in Unused(faculties)
    BY <2>1, <2>2, MinIsLeast
  <2> QED  BY <2>3 DEF Unused, DirectoryHolds
<1>6. s.group = None => StoredGroup(s) \in GroupIds /\ groups[StoredGroup(s)] = None
  <2> SUFFICES ASSUME s.group = None
               PROVE  StoredGroup(s) \in GroupIds /\ groups[StoredGroup(s)] = None
    OBVIOUS
  <2>1. Unused(groups) \in SUBSET Nat /\ Unused(groups) # {}
    BY DirectoryAssumption DEF HasRoom, Unused, DirectoryHolds
  <2>2. StoredGroup(s) = Min(Unused(groups))
    BY DEF StoredGroup
  <2>3. StoredGroup(s) \in Unused(groups)
    BY <2>1, <2>2, MinIsLeast
  <2> QED  BY <2>3 DEF Unused, DirectoryHolds
<1>7. ASSUME s.faculty = None
      PROVE  \E row \in Faculty :
               /\ faculties[f0] = None /\ faculties' = [faculties EXCEPT ![f0] = row]
               /\ row.name = s.profile.faculty
  <2>1. PICK row : row = [name |-> s.profile.faculty, code |-> s.code]
    OBVIOUS
  <2>2. s.code \in Code
    BY <1>7 DEF SyncHolds
  <2>3. row \in Faculty /\ row.name = s.profile.faculty
    BY <1>3, <2>1, <2>2 DEF Faculty
  <2>4. faculties' = [faculties EXCEPT ![f0] = row]
    BY <1>2, <1>7, <2>1
  <2> QED  BY <1>5, <1>7, <2>3, <2>4
<1>8. f0 \in FacultyIds
  BY <1>4, <1>5
<1>9. ASSUME s.group = None
      PROVE  \E g0 \in GroupIds, group \in Group :
               /\ groups[g0] = None /\ groups' = [groups EXCEPT ![g0] = group]
               /\ group.name = s.profile.group /\ group.faculty = f0
  <2>1. PICK group : group = [name |-> s.profile.group, faculty |-> f0]
    OBVIOUS
  <2>2. group \in Group /\ group.name = s.profile.group /\ group.faculty = f0
    BY <1>3, <1>8, <2>1 DEF Group
  <2>3. groups' = [groups EXCEPT ![StoredGroup(s)] = group]
    BY <1>2, <1>9, <2>1
  <2> QED  BY <1>6, <1>9, <2>2, <2>3
<1> QED  BY <1>2, <1>4, <1>7, <1>8, <1>9

(* A row more of a name, and one less of those who were to store it.       *)
LEMMA StoreKeepsNames ==
  ASSUME IsFiniteSet(Filers), NamesInv, DOMAIN filings = Filers, NEW h \in Filers,
         filings[h] # None, filings[h].stage = "commit", NEW s, s = filings[h].sync, s # None,
         filings' = [filings EXCEPT ![h] = None], HasRoom(s), StoreProfile(s)
  PROVE  NamesInv'
<1>1. SyncHolds(s) /\ DirectoryHolds /\ s.profile.faculty \in FacultyNames
  BY DEF NamesInv, DirectoryHolds, Syncing, Brings, SyncHolds, Profile
<1>2. PICK f0 \in FacultyIds :
           /\ IF s.faculty # None THEN f0 = s.faculty /\ faculties' = faculties
              ELSE \E row \in Faculty :
                     /\ faculties[f0] = None /\ faculties' = [faculties EXCEPT ![f0] = row]
                     /\ row.name = s.profile.faculty
           /\ IF s.group # None THEN groups' = groups
              ELSE \E g0 \in GroupIds, group \in Group :
                     /\ groups[g0] = None /\ groups' = [groups EXCEPT ![g0] = group]
                     /\ group.name = s.profile.group /\ group.faculty = f0
  BY <1>1, ProfileStored
<1>3. /\ DOMAIN faculties' = FacultyIds /\ Rows(faculties)' = Rows(faculties) \cup {f0}
      /\ s.faculty = None => f0 \notin Rows(faculties)
      /\ \A name : FacultiesNamed(name)' \subseteq
           FacultiesNamed(name) \cup
             (IF s.faculty = None /\ name = s.profile.faculty THEN {f0} ELSE {})
  <2>1. CASE s.faculty # None
    BY <1>1, <1>2, <2>1 DEF SyncHolds, Rows, DirectoryHolds, FacultiesNamed
  <2>2. CASE s.faculty = None
    <3>1. PICK row \in Faculty :
            /\ faculties[f0] = None /\ faculties' = [faculties EXCEPT ![f0] = row]
            /\ row.name = s.profile.faculty
      BY <1>2, <2>2
    <3>2. row # None
      BY RowsAssumption
    <3> QED  BY <1>1, <2>2, <3>1, <3>2 DEF Rows, DirectoryHolds, FacultiesNamed
  <2> QED  BY <2>1, <2>2
<1>4. PICK g0 :
        /\ DOMAIN groups' = GroupIds
        /\ \A g \in Rows(groups)' : groups'[g].faculty \in Rows(faculties) \cup {f0}
        /\ \A name, f : GroupsNamed(name, f)' \subseteq
             GroupsNamed(name, f) \cup
               (IF s.group = None /\ name = s.profile.group /\ f = f0 THEN {g0} ELSE {})
  <2>1. CASE s.group # None
    BY <1>1, <1>2, <2>1 DEF Rows, DirectoryHolds, GroupsNamed
  <2>2. CASE s.group = None
    <3>1. PICK g0 \in GroupIds, group \in Group :
            /\ groups[g0] = None /\ groups' = [groups EXCEPT ![g0] = group]
            /\ group.name = s.profile.group /\ group.faculty = f0
      BY <1>2, <2>2
    <3>2. group # None
      BY RowsAssumption
    <3>3. /\ DOMAIN groups' = GroupIds
          /\ \A g \in Rows(groups)' : groups'[g].faculty \in Rows(faculties) \cup {f0}
      BY <1>1, <3>1, <3>2 DEF Rows, DirectoryHolds
    <3>4. \A name, f : GroupsNamed(name, f)' \subseteq
             GroupsNamed(name, f) \cup
               (IF s.group = None /\ name = s.profile.group /\ f = f0 THEN {g0} ELSE {})
      BY <1>1, <2>2, <3>1, <3>2 DEF Rows, DirectoryHolds, GroupsNamed
    <3> QED  BY <3>3, <3>4
  <2> QED  BY <2>1, <2>2
<1>5. \A g \in Filers : filings'[g] = IF g = h THEN None ELSE filings[g]
  OBVIOUS
<1>6. /\ \A name : Seekers(name)' \subseteq Seekers(name) \ {h}
      /\ \A name, f : GroupSeekers(name, f)' \subseteq GroupSeekers(name, f) \ {h}
  BY <1>5 DEF Seekers, GroupSeekers, Syncing, Brings
<1>7. /\ s.faculty = None => h \in Seekers(s.profile.faculty)
      /\ s.group = None /\ s.faculty # None => h \in GroupSeekers(s.profile.group, s.faculty)
  BY DEF Seekers, GroupSeekers, Syncing, Brings
<1>8. DirectoryHolds'
  <2>1. ASSUME NEW t, SyncHolds(t) PROVE SyncHolds(t)'
    BY <1>3, <2>1 DEF SyncHolds
  <2>2. ASSUME NEW g \in Filers, Syncing(g)' PROVE SyncHolds(filings[g].sync)'
    <3>1. PICK t : t = filings'[g].sync
      OBVIOUS
    <3>2. SyncHolds(t)
      BY <1>1, <1>5, <2>2, <3>1 DEF DirectoryHolds, Syncing, Brings
    <3>3. SyncHolds(t)'
      BY <2>1, <3>2
    <3> QED  BY <3>1, <3>3 DEF SyncHolds
  <2> QED  BY <1>3, <1>4, <2>2 DEF DirectoryHolds
<1>9. /\ \A name : IsFiniteSet(FacultiesNamed(name)) /\ IsFiniteSet(Seekers(name))
      /\ \A name, f : IsFiniteSet(GroupsNamed(name, f)) /\ IsFiniteSet(GroupSeekers(name, f))
      /\ Cardinality(Filers) \in Nat
  BY <1>1, CountedSetsFinite, NobodyThere DEF DirectoryHolds
<1>10. ASSUME NEW name \in FacultyNames
       PROVE  Cardinality(FacultiesNamed(name)') + Cardinality(Seekers(name)')
                <= Cardinality(Filers)
  <2>0. Cardinality(FacultiesNamed(name)) + Cardinality(Seekers(name)) <= Cardinality(Filers)
    BY DEF NamesInv, NamesCounted
  <2>1. CASE s.faculty = None /\ name = s.profile.faculty
    <3>1. /\ FacultiesNamed(name)' \subseteq FacultiesNamed(name) \cup {f0}
          /\ Seekers(name)' \subseteq Seekers(name) \ {h} /\ h \in Seekers(name)
      BY <1>3, <1>6, <1>7, <2>1
    <3> QED  BY <1>9, <2>0, <3>1, OneMoved
  <2>2. CASE ~(s.faculty = None /\ name = s.profile.faculty)
    <3>1. FacultiesNamed(name)' \subseteq FacultiesNamed(name) /\ Seekers(name)' \subseteq Seekers(name)
      BY <1>3, <1>6, <2>2
    <3> QED  BY <1>9, <2>0, <3>1, FewerCounted
  <2> QED  BY <2>1, <2>2
<1>11. ASSUME s.faculty = None, NEW name
       PROVE  GroupsNamed(name, f0) = {} /\ GroupSeekers(name, f0) = {}
  <2>1. f0 \notin Rows(faculties) /\ f0 # None
    BY <1>3, <1>11, DirectoryAssumption
  <2>2. GroupsNamed(name, f0) = {}
    BY <1>1, <2>1 DEF GroupsNamed, DirectoryHolds
  <2>3. ASSUME NEW g \in GroupSeekers(name, f0) PROVE FALSE
    <3>1. PICK t : t = filings[g].sync
      OBVIOUS
    <3>2. SyncHolds(t) /\ t.faculty = f0
      BY <1>1, <3>1 DEF GroupSeekers, DirectoryHolds
    <3> QED  BY <2>1, <3>2 DEF SyncHolds
  <2> QED  BY <2>2, <2>3
<1>12. ASSUME NEW name \in GroupNames, NEW f \in Rows(faculties)'
       PROVE  Cardinality(GroupsNamed(name, f)') + Cardinality(GroupSeekers(name, f)')
                <= Cardinality(Filers)
  <2>1. CASE f \in Rows(faculties) /\ s.group = None /\ name = s.profile.group /\ f = f0
    <3>1. s.faculty = f0 /\ h \in GroupSeekers(name, f)
      BY <1>2, <1>3, <1>7, <2>1
    <3>2. GroupsNamed(name, f)' \subseteq GroupsNamed(name, f) \cup {g0}
      BY <1>4, <2>1
    <3>3. /\ GroupSeekers(name, f)' \subseteq GroupSeekers(name, f) \ {h}
          /\ Cardinality(GroupsNamed(name, f)) + Cardinality(GroupSeekers(name, f))
               <= Cardinality(Filers)
      BY <1>6, <2>1 DEF NamesInv, NamesCounted
    <3> QED  BY <1>9, <3>1, <3>2, <3>3, OneMoved
  <2>2. CASE f \in Rows(faculties) /\ ~(s.group = None /\ name = s.profile.group /\ f = f0)
    <3>1. /\ GroupsNamed(name, f)' \subseteq GroupsNamed(name, f)
          /\ GroupSeekers(name, f)' \subseteq GroupSeekers(name, f)
      BY <1>4, <1>6, <2>2
    <3> QED  BY <1>9, <2>2, <3>1, FewerCounted DEF NamesInv, NamesCounted
  <2>3. CASE f \notin Rows(faculties)
    <3>1. f = f0 /\ s.faculty = None
      BY <1>1, <1>2, <1>3, <1>12, <2>3 DEF SyncHolds
    <3>2. GroupsNamed(name, f)' \subseteq {} \cup {g0} /\ GroupSeekers(name, f)' \subseteq {h} \ {h}
      BY <1>4, <1>6, <1>11, <3>1
    <3>3. /\ IsFiniteSet({}) /\ IsFiniteSet({h}) /\ h \in {h}
          /\ Cardinality({}) + Cardinality({h}) <= Cardinality(Filers)
      BY NobodyThere, FS_EmptySet, FS_Singleton
    <3> QED  BY <1>9, <3>2, <3>3, OneMoved
  <2> QED  BY <2>1, <2>2, <2>3
<1> QED  BY <1>8, <1>10, <1>12 DEF NamesInv, NamesCounted

-----------------------------------------------------------------------------
(* Steps after which faculties, groups and submissions are as they were.   *)
LEMMA NamesStay ==
  ASSUME NamesInv, UNCHANGED <<faculties, groups, filings>>
  PROVE  NamesInv'
<1>1. /\ Rows(faculties)' = Rows(faculties) /\ Rows(groups)' = Rows(groups)
      /\ \A name : FacultiesNamed(name)' = FacultiesNamed(name)
      /\ \A name, f : GroupsNamed(name, f)' = GroupsNamed(name, f)
      /\ \A h : Syncing(h)' <=> Syncing(h)
  BY DEF Rows, FacultiesNamed, GroupsNamed, Syncing, Brings
<1>2. /\ \A name : Seekers(name)' = Seekers(name)
      /\ \A name, f : GroupSeekers(name, f)' = GroupSeekers(name, f)
  BY <1>1 DEF Seekers, GroupSeekers
<1>3. ASSUME NEW h \in Filers, Syncing(h)' PROVE SyncHolds(filings[h].sync)'
  BY <1>1, <1>3 DEF NamesInv, DirectoryHolds, SyncHolds
<1> QED  BY <1>1, <1>2, <1>3 DEF NamesInv, NamesCounted, DirectoryHolds

LEMMA CatalogLeavesDirectory == CatalogNext => UNCHANGED directoryVars
<1>1. ASSUME NEW h \in Editors,
             \/ \E id \in Cats :
                  \/ \E payload \in Payloads : BeginUpdate(h, id, payload)
                  \/ BeginDeactivate(h, id) \/ BeginUpload(h, id)
             \/ CommitUpdate(h)
             \/ \E committed \in BOOLEAN : FinishUpload(h, committed)
      PROVE  UNCHANGED directoryVars
  BY <1>1 DEF BeginUpdate, BeginDeactivate, BeginUpload, CommitUpdate, FinishUpload
<1>2. ASSUME NEW id \in Cats, NEW cat \in NewCategories, CreateCategory(id, cat)
      PROVE  UNCHANGED directoryVars
  BY <1>2 DEF CreateCategory
<1>3. ASSUME NEW f \in Files, RemoveFile(f) PROVE UNCHANGED directoryVars
  BY <1>3 DEF RemoveFile
<1> QED  BY <1>1, <1>2, <1>3 DEF CatalogNext

(* An administrator touches names only by editing them.                    *)
LEMMA DirectoryTouches ==
  DirectoryNext => edited' \/ UNCHANGED <<faculties, groups, edited>>
<1>1. ASSUME NEW e \in Employees, NEW row, CreateEmployee(e, row)
      PROVE  UNCHANGED <<faculties, groups, edited>>
  BY <1>1 DEF CreateEmployee
<1>2. ASSUME NEW e \in Employees, NEW change, UpdateEmployee(e, change)
      PROVE  UNCHANGED <<faculties, groups, edited>>
  BY <1>2 DEF UpdateEmployee
<1>3. ASSUME NEW s \in StudentIds, NEW active, SwitchStudent(s, active)
      PROVE  UNCHANGED <<faculties, groups, edited>>
  BY <1>3 DEF SwitchStudent
<1>4. ASSUME NEW f \in FacultyIds, NEW row \in FacultyRows,
             CreateFaculty(f, row) \/ UpdateFaculty(f, row)
      PROVE  edited'
  BY <1>4 DEF CreateFaculty, UpdateFaculty
<1>5. ASSUME NEW g \in GroupIds, NEW row, UpdateGroup(g, row) PROVE edited'
  BY <1>5 DEF UpdateGroup
<1> QED  BY <1>1, <1>2, <1>3, <1>4, <1>5 DEF DirectoryNext

LEMMA StepKeepsProfiles ==
  ASSUME IsFiniteSet(Filers), ProfilesInv, [Next]_vars
  PROVE  ProfilesInv'
<1>0. DOMAIN filings = Filers /\ AnswersInv'
  BY StepKeepsAnswers DEF ProfilesInv, AnswersInv, FilingsHold
<1>1. CASE edited
  <2>1. edited'
    <3>1. DirectoryNext => edited'
      BY <1>1, DirectoryTouches
    <3> QED  BY <1>1, <3>1, NextIsOneOf, CatalogLeavesDirectory, StepOfIntake
             DEF vars, directoryVars
  <2> QED  BY <1>0, <2>1 DEF ProfilesInv
<1>2. CASE ~edited
  <2>0. NamesInv
    BY <1>2 DEF ProfilesInv
  <2>1. ASSUME UNCHANGED <<faculties, groups, filings>> PROVE NamesInv'
    BY <2>0, <2>1, NamesStay
  <2>2. CASE DirectoryNext /\ UNCHANGED intakeVars
    BY <1>0, <2>1, <2>2, DirectoryTouches DEF intakeVars, ProfilesInv
  <2>3. CASE UNCHANGED <<directoryVars, intakeVars>>
    BY <1>0, <2>1, <2>3 DEF directoryVars, intakeVars, ProfilesInv
  <2>4. CASE IntakeNext
    <3>1. ASSUME NEW h \in Filers, Commit(h) PROVE NamesInv'
      <4>1. PICK s : s = filings[h].sync
        OBVIOUS
      <4>2. /\ filings[h] # None /\ filings[h].stage = "commit"
            /\ filings' = [filings EXCEPT ![h] = None]
            /\ IF s = None THEN UNCHANGED <<faculties, groups>>
               ELSE HasRoom(s) /\ StoreProfile(s)
        BY <3>1, <4>1 DEF Commit, At
      <4>3. CASE s = None
        <5>1. ~Brings(None)
          BY DEF Brings
        <5>2. UNCHANGED <<faculties, groups>>
          BY <4>2, <4>3
        <5> QED  BY <1>0, <2>0, <4>2, <5>1, <5>2, TurnKeepsNames
      <4>4. CASE s # None
        BY <1>0, <2>0, <4>1, <4>2, <4>4, StoreKeepsNames
      <4> QED  BY <4>3, <4>4
    <3>2. ASSUME NEW i \in DOMAIN requests,
                 Close(i) \/ Reopen(i) \/ \E e \in Employees : AssignRequest(i, e)
          PROVE  NamesInv'
      BY <2>1, <3>2 DEF Close, Reopen, AssignRequest, directoryVars
    <3>3. AnswersInv
      BY DEF ProfilesInv
    <3> QED  BY <1>0, <2>0, <2>4, <3>1, <3>2, <3>3, BeginKeepsNames, FilingTurnKeepsNames
             DEF IntakeNext, ProfilesInv
  <2> QED  BY <2>2, <2>3, <2>4, NextIsOneOf, CatalogLeavesDirectory DEF vars, directoryVars
<1> QED  BY <1>1, <1>2

(* However many profiles bring one new name, its rows stay as few as the   *)
(* submissions in flight when it was new: a row and a submission that will *)
(* store one are counted together, and nobody joins them once a row is     *)
(* there to be found (_upsert_faculty, _upsert_student_group).             *)
THEOREM TwinsStayFew ==
  ASSUME IsFiniteSet(Filers), Filers # {}
  PROVE  Spec => []TwinsBounded
<1>1. Init => ProfilesInv
  BY ProfilesAtStart
<1>2. ProfilesInv /\ [Next]_vars => ProfilesInv'
  BY StepKeepsProfiles
<1>3. ProfilesInv => TwinsBounded
  <2> SUFFICES ASSUME NamesInv, IsFiniteSet(Filers) PROVE TwinsBounded
    BY DEF ProfilesInv, TwinsBounded
  <2>1. /\ \A name : IsFiniteSet(FacultiesNamed(name)) /\ IsFiniteSet(Seekers(name))
        /\ \A name, f : IsFiniteSet(GroupsNamed(name, f)) /\ IsFiniteSet(GroupSeekers(name, f))
    BY CountedSetsFinite DEF NamesInv, DirectoryHolds
  <2>2. Cardinality(Filers) \in Nat
    BY FS_CardinalityType
  <2>3. ASSUME NEW A, NEW B, IsFiniteSet(A), IsFiniteSet(B),
               Cardinality(A) + Cardinality(B) <= Cardinality(Filers)
        PROVE  Cardinality(A) <= Cardinality(Filers)
    <3>1. Cardinality(A) \in Nat /\ Cardinality(B) \in Nat
      BY <2>3, FS_CardinalityType
    <3> QED  BY <2>2, <2>3, <3>1
  <2> QED  BY <2>1, <2>3 DEF NamesInv, NamesCounted, TwinsBounded
<1> QED  BY <1>1, <1>2, <1>3, PTL DEF Spec

-----------------------------------------------------------------------------
(* Loads of employees the routing cannot tell apart.                       *)

\* Submissions that will put a request on e whom nobody named.
Pending(e) ==
  {h \in Filers : /\ filings[h] # None /\ filings[h].stage = "commit"
                  /\ filings[h].handler = e /\ filings[h].service.assignee # e}

\* Counted with what is on its way, an employee's load is ahead of another's
\* highest by at most the submissions that may be in flight.
EvenlyLoaded ==
  /\ peak \in [Employees -> Nat]
  /\ \A e \in Employees : Load(e) <= peak[e]
  /\ \A e, d \in Rows(employees) : Alike(e, d) /\ e \notin handed =>
       /\ Load(e) + Cardinality(Pending(e)) <= peak[d] + Cardinality(Filers)
       /\ peak[e] <= peak[d] + Cardinality(Filers)

BalanceInv == AnswersInv /\ DOMAIN employees = Employees /\ EvenlyLoaded

LEMMA LoadType ==
  ASSUME NEW S, requests \in Seq(S), NEW e
  PROVE  /\ IsFiniteSet({i \in DOMAIN requests : requests[i].handler = e /\ requests[i].open})
         /\ Load(e) \in Nat
<1>1. IsFiniteSet(DOMAIN requests)
  <2>1. DOMAIN requests = 1 .. Len(requests) /\ Len(requests) \in Nat
    OBVIOUS
  <2> QED  BY <2>1, FS_Interval
<1>2. IsFiniteSet({i \in DOMAIN requests : requests[i].handler = e /\ requests[i].open})
  BY <1>1, FS_Subset
<1> QED  BY <1>2, FS_CardinalityType DEF Load, LoadIn

LEMMA PendingType ==
  ASSUME IsFiniteSet(Filers), NEW e
  PROVE  /\ IsFiniteSet(Pending(e)) /\ Cardinality(Pending(e)) \in Nat
         /\ Cardinality(Pending(e)) <= Cardinality(Filers) /\ Cardinality(Filers) \in Nat
<1>1. Pending(e) \subseteq Filers
  BY DEF Pending
<1> QED  BY <1>1, FS_Subset, FS_CardinalityType

LEMMA LeastLoadedIsLeast ==
  ASSUME \A x \in Employees : Load(x) \in Nat, NEW C \in SUBSET Employees,
         LeastLoaded(C) # None
  PROVE  LeastLoaded(C) \in C /\ \A d \in C : Load(LeastLoaded(C)) <= Load(d)
<1>1. C # {}
  BY DEF LeastLoaded
<1>2. PICK loads : loads = {Load(x) : x \in C}
  OBVIOUS
<1>3. loads \in SUBSET Nat /\ loads # {}
  BY <1>1, <1>2
<1>4. PICK fewest \in loads : fewest = Min(loads) /\ \A n \in loads : fewest <= n
  BY <1>3, MinIsLeast
<1>5. PICK best : best = {x \in C : Load(x) = fewest}
  OBVIOUS
<1>6. best \in SUBSET Nat /\ best # {}
  BY <1>2, <1>4, <1>5, DirectoryAssumption
<1>7. Min(best) \in best
  BY <1>6, MinIsLeast
<1>8. LeastLoaded(C) = Min(best)
  BY <1>1, <1>2, <1>4, <1>5 DEF LeastLoaded
<1> QED  BY <1>2, <1>4, <1>5, <1>7, <1>8

(* Whoever routing picks for a service has, of all who are like him, the   *)
(* fewest requests - unless the service names him.                         *)
LEMMA PickedIsLeast ==
  ASSUME \A x \in Employees : Load(x) \in Nat, NEW service, NEW student,
         NEW e \in Employees, NEW d \in Employees, employees[e] = employees[d],
         Handler(service, student) = e, service.assignee # e
  PROVE  Load(e) <= Load(d)
<1>0. e # None
  BY DirectoryAssumption
<1>1. \A C \in SUBSET Employees : LeastLoaded(C) = e /\ (e \in C => d \in C) => Load(e) <= Load(d)
  BY <1>0, LeastLoadedIsLeast
<1>2. MayHandle(e) <=> MayHandle(d)
  BY DEF MayHandle
<1>3. CASE service.routing = "general_manager"
  <2>1. LeastLoaded(GeneralManagers) = e
    BY <1>3 DEF Handler
  <2> QED  BY <1>1, <1>2, <2>1 DEF GeneralManagers
<1>4. CASE service.routing # "general_manager"
  <2>1. FacultyManager(student.faculty, student.department) = e
    BY <1>0, <1>4 DEF Handler
  <2>2. \A role, faculty :
          /\ BoundEmployees(role, faculty) \in SUBSET Employees
          /\ e \in BoundEmployees(role, faculty) => d \in BoundEmployees(role, faculty)
    BY <1>2 DEF BoundEmployees
  <2>3. CASE StaffFor(student.faculty, student.department) = None
    <3>1. LeastLoaded(BoundEmployees("registrator", student.faculty)) = e
      BY <2>1, <2>3 DEF FacultyManager
    <3> QED  BY <1>1, <2>2, <3>1
  <2>4. CASE StaffFor(student.faculty, student.department) # None
    <3>1. StaffFor(student.faculty, student.department) = e
      BY <2>1, <2>4 DEF FacultyManager
    <3>2. PICK staff : staff = BoundEmployees("staff", student.faculty)
      OBVIOUS
    <3>3. PICK own : own = {x \in staff : /\ student.department # None
                                         /\ employees[x].department = student.department}
      OBVIOUS
    <3>4. LeastLoaded(IF own # {} THEN own ELSE staff) = e
      BY <3>1, <3>2, <3>3 DEF StaffFor
    <3>5. own \in SUBSET Employees /\ staff \in SUBSET Employees
          /\ (e \in own => d \in own) /\ (e \in staff => d \in staff)
      BY <2>2, <3>2, <3>3
    <3> QED  BY <1>1, <3>4, <3>5
  <2> QED  BY <2>3, <2>4
<1> QED  BY <1>3, <1>4

-----------------------------------------------------------------------------
LEMMA LoadsAreNaturals ==
  ASSUME AnswersInv, NEW e
  PROVE  Load(e) \in Nat
BY LoadType DEF AnswersInv, RequestsHold

LEMMA LoadsStayNaturals ==
  ASSUME AnswersInv', NEW e
  PROVE  Load(e)' \in Nat
<1>1. PICK S : requests' \in Seq(S)
  BY DEF AnswersInv, RequestsHold
<1>2. PICK after : after = requests'
  OBVIOUS
<1>3. IsFiniteSet({i \in DOMAIN after : after[i].handler = e /\ after[i].open})
  <2>1. DOMAIN after = 1 .. Len(after) /\ Len(after) \in Nat
    BY <1>1, <1>2
  <2>2. IsFiniteSet(DOMAIN after)
    BY <2>1, FS_Interval
  <2> QED  BY <2>2, FS_Subset
<1>4. Cardinality({i \in DOMAIN after : after[i].handler = e /\ after[i].open}) \in Nat
  BY <1>3, FS_CardinalityType
<1> QED  BY <1>2, <1>4 DEF Load, LoadIn

LEMMA BalanceAtStart == ASSUME IsFiniteSet(Filers), Init PROVE BalanceInv
<1>1. AnswersInv
  BY AnswersAtStart
<1>2. employees \in [Employees -> Employee \cup {None}]
  BY RowsAssumption DEF Init, DirectoryInit
<1>3. \A e, d \in Employees : Load(e) - Load(d) <= Cardinality(Filers)
  BY EarlierAssumption DEF Init, Load
<1>4. \A e : Pending(e) = {}
  BY DEF Init, Pending
<1>5. peak = [e \in Employees |-> Load(e)]
  BY DEF Init
<1>6. ASSUME NEW e \in Rows(employees), NEW d \in Rows(employees)
      PROVE  /\ Load(e) + Cardinality(Pending(e)) <= peak[d] + Cardinality(Filers)
             /\ peak[e] <= peak[d] + Cardinality(Filers)
  <2>1. e \in Employees /\ d \in Employees
    BY <1>2 DEF Rows
  <2>2. Cardinality(Pending(e)) = 0
    BY <1>4, FS_EmptySet
  <2>3. Load(e) \in Nat /\ Load(d) \in Nat /\ Cardinality(Filers) \in Nat
    BY <1>1, LoadsAreNaturals, FS_CardinalityType
  <2>4. Load(e) - Load(d) <= Cardinality(Filers)
    BY <1>3, <2>1
  <2> QED  BY <1>5, <2>1, <2>2, <2>3, <2>4
<1>7. peak \in [Employees -> Nat] /\ \A e \in Employees : Load(e) <= peak[e]
  <2>1. \A e \in Employees : Load(e) \in Nat
    BY <1>1, LoadsAreNaturals
  <2> QED  BY <1>5, <2>1
<1> QED  BY <1>1, <1>2, <1>6, <1>7 DEF BalanceInv, EvenlyLoaded

(* A load, with what is on its way, only falls - or was the lowest when it *)
(* grew; or its owner has been given a request by name.                    *)
LEMMA LoadsMove ==
  ASSUME IsFiniteSet(Filers), BalanceInv, AnswersInv', Remember, handed \subseteq handed',
         \A e, d \in Rows(employees)' : Alike(e, d)' =>
           e \in Rows(employees) /\ d \in Rows(employees) /\ Alike(e, d),
         \A e, d \in Rows(employees) : Alike(e, d) /\ e \notin handed' =>
           \/ Load(e)' + Cardinality(Pending(e)') <= Load(e) + Cardinality(Pending(e))
           \/ Load(e)' + Cardinality(Pending(e)') <= Load(d) + Cardinality(Filers)
  PROVE  EvenlyLoaded'
<1>1. PICK now : now = [e \in Employees |-> Load(e)']
  OBVIOUS
<1>2. \A e \in Employees : now[e] \in Nat /\ now[e] = Load(e)'
  BY <1>1, LoadsStayNaturals
<1>3. peak' = [e \in Employees |-> IF peak[e] < now[e] THEN now[e] ELSE peak[e]]
  BY <1>2 DEF Remember
<1>4. peak \in [Employees -> Nat] /\ \A e \in Employees : Load(e) <= peak[e]
  BY DEF BalanceInv, EvenlyLoaded
<1>5. /\ peak' \in [Employees -> Nat]
      /\ \A e \in Employees : now[e] <= peak'[e] /\ peak[e] <= peak'[e]
                              /\ (peak'[e] = peak[e] \/ peak'[e] = now[e])
  BY <1>2, <1>3, <1>4
<1>6. ASSUME NEW e \in Rows(employees)', NEW d \in Rows(employees)', Alike(e, d)', e \notin handed'
      PROVE  /\ Load(e)' + Cardinality(Pending(e)') <= peak'[d] + Cardinality(Filers)
             /\ peak'[e] <= peak'[d] + Cardinality(Filers)
  <2>1. /\ e \in Rows(employees) /\ d \in Rows(employees) /\ Alike(e, d) /\ e \notin handed
        /\ e \in Employees /\ d \in Employees
    BY <1>6 DEF BalanceInv, Rows
  <2>2. /\ Load(e) + Cardinality(Pending(e)) <= peak[d] + Cardinality(Filers)
        /\ peak[e] <= peak[d] + Cardinality(Filers)
    BY <2>1 DEF BalanceInv, EvenlyLoaded
  <2>3. \/ now[e] + Cardinality(Pending(e)') <= Load(e) + Cardinality(Pending(e))
        \/ now[e] + Cardinality(Pending(e)') <= Load(d) + Cardinality(Filers)
    BY <1>2, <1>6, <2>1
  <2>4. /\ Cardinality(Pending(e)) \in Nat /\ Cardinality(Pending(e)') \in Nat
        /\ Cardinality(Filers) \in Nat /\ Load(e) \in Nat /\ Load(d) \in Nat
    <3>1. IsFiniteSet(Pending(e)') /\ IsFiniteSet(Pending(e))
      <4>1. Pending(e)' \subseteq Filers /\ Pending(e) \subseteq Filers
        BY DEF Pending
      <4> QED  BY <4>1, FS_Subset
    <3> QED  BY <3>1, LoadsAreNaturals, FS_CardinalityType DEF BalanceInv
  <2>5. now[e] + Cardinality(Pending(e)') <= peak[d] + Cardinality(Filers)
    <3>1. PICK then, nowOn : then = Cardinality(Pending(e)) /\ nowOn = Cardinality(Pending(e)')
      OBVIOUS
    <3>2. PICK le, ld, all : le = Load(e) /\ ld = Load(d) /\ all = Cardinality(Filers)
      OBVIOUS
    <3>3. /\ now[e] \in Nat /\ peak[d] \in Nat /\ ld <= peak[d] /\ then \in Nat /\ nowOn \in Nat
          /\ le \in Nat /\ ld \in Nat /\ all \in Nat
      BY <1>2, <1>4, <2>1, <2>4, <3>1, <3>2
    <3>4. /\ le + then <= peak[d] + all
          /\ now[e] + nowOn <= le + then \/ now[e] + nowOn <= ld + all
      BY <2>2, <2>3, <3>1, <3>2
    <3>5. now[e] + nowOn <= peak[d] + all
      BY <3>3, <3>4
    <3> QED  BY <3>1, <3>2, <3>5
  <2>6. /\ now[e] \in Nat /\ peak[e] \in Nat /\ peak[d] \in Nat /\ peak'[d] \in Nat
        /\ peak[d] <= peak'[d] /\ (peak'[e] = peak[e] \/ peak'[e] = now[e])
    BY <1>2, <1>4, <1>5, <2>1
  <2>7. now[e] + Cardinality(Pending(e)') <= peak'[d] + Cardinality(Filers)
    BY <2>4, <2>5, <2>6
  <2>8. peak'[e] <= peak'[d] + Cardinality(Filers)
    BY <2>2, <2>4, <2>5, <2>6
  <2> QED  BY <1>2, <2>1, <2>7, <2>8
<1> QED  BY <1>2, <1>5, <1>6 DEF EvenlyLoaded

(* What is remembered does not change unless a load grows.                 *)
LEMMA NothingToRemember ==
  ASSUME BalanceInv, AnswersInv', peak' = peak, \A e \in Employees : Load(e)' <= Load(e)
  PROVE  Remember
<1>1. PICK now : now = [e \in Employees |-> Load(e)']
  OBVIOUS
<1>2. \A e \in Employees : now[e] \in Nat /\ now[e] = Load(e)' /\ Load(e) \in Nat
  BY <1>1, LoadsAreNaturals, LoadsStayNaturals DEF BalanceInv
<1>3. peak \in [Employees -> Nat] /\ \A e \in Employees : Load(e) <= peak[e]
  BY DEF BalanceInv, EvenlyLoaded
<1>4. \A e \in Employees : ~(peak[e] < now[e])
  BY <1>2, <1>3
<1>5. peak' = [e \in Employees |-> IF peak[e] < now[e] THEN now[e] ELSE peak[e]]
  BY <1>3, <1>4
<1> QED  BY <1>2, <1>5 DEF Remember

(* Steps that add no request, and put none on its way.                     *)
LEMMA NothingRouted ==
  ASSUME IsFiniteSet(Filers), BalanceInv, AnswersInv', UNCHANGED <<peak, handed>>,
         \A e \in Employees : Load(e)' <= Load(e),
         \A e, d \in Rows(employees)' : Alike(e, d)' =>
           e \in Rows(employees) /\ d \in Rows(employees) /\ Alike(e, d),
         \A e : Pending(e)' \subseteq Pending(e)
  PROVE  EvenlyLoaded'
<1>1. Remember
  BY NothingToRemember
<1>2. ASSUME NEW e \in Rows(employees)
      PROVE  Load(e)' + Cardinality(Pending(e)') <= Load(e) + Cardinality(Pending(e))
  <2>1. e \in Employees
    BY DEF BalanceInv, Rows
  <2>2. /\ Cardinality(Pending(e)') <= Cardinality(Pending(e)) /\ Cardinality(Pending(e)') \in Nat
        /\ Cardinality(Pending(e)) \in Nat
    BY PendingType, FS_Subset, FS_CardinalityType
  <2>3. Load(e)' \in Nat /\ Load(e) \in Nat /\ Load(e)' <= Load(e)
    BY <2>1, LoadsAreNaturals, LoadsStayNaturals DEF BalanceInv
  <2> QED  BY <2>2, <2>3
<1> QED  BY <1>1, <1>2, LoadsMove

LEMMA RouteKeepsBalance ==
  ASSUME IsFiniteSet(Filers), BalanceInv, AnswersInv', NEW h \in Filers, Route(h)
  PROVE  EvenlyLoaded'
<1>1. PICK routed :
        /\ Goes(h, routed) /\ routed.service = filings[h].service
        /\ routed.handler = None \/
             routed.handler = Handler(filings[h].service, filings[h].student)
  BY RoutedFiling DEF BalanceInv
<1>2. /\ filings' = [filings EXCEPT ![h] = routed]
      /\ UNCHANGED <<employees, reassigned, requests, peak, handed>>
  BY <1>1 DEF Goes, directoryVars
<1>3. \A e, d : Alike(e, d)' <=> Alike(e, d)
  BY <1>2 DEF Alike
<1>4. \A e : Load(e)' = Load(e) /\ Load(e) \in Nat
  BY <1>2, LoadsAreNaturals DEF Load, LoadIn, BalanceInv
<1>5. DOMAIN filings = Filers /\ Rows(employees)' = Rows(employees)
      /\ Rows(employees) \subseteq Employees
  BY <1>2 DEF BalanceInv, AnswersInv, FilingsHold, Rows
<1>6. Remember
  BY <1>2, <1>4, NothingToRemember
<1>7. ASSUME NEW e \in Rows(employees), NEW d \in Rows(employees), Alike(e, d)
      PROVE  \/ Load(e)' + Cardinality(Pending(e)') <= Load(e) + Cardinality(Pending(e))
             \/ Load(e)' + Cardinality(Pending(e)') <= Load(d) + Cardinality(Filers)
  <2>1. e \in Employees /\ d \in Employees /\ e # None
    BY <1>5, DirectoryAssumption
  <2>2. /\ Cardinality(Pending(e)') \in Nat /\ Cardinality(Pending(e)') <= Cardinality(Filers)
        /\ Cardinality(Pending(e)) \in Nat /\ Cardinality(Filers) \in Nat
        /\ Pending(e)' \subseteq Pending(e) => Cardinality(Pending(e)') <= Cardinality(Pending(e))
    <3>1. Pending(e)' \subseteq Filers
      BY DEF Pending
    <3> QED  BY <3>1, PendingType, FS_Subset, FS_CardinalityType
  <2>3. CASE routed.handler = e /\ routed.service.assignee # e
    <3>1. Load(e) <= Load(d)
      BY <1>1, <1>4, <1>7, <2>1, <2>3, PickedIsLeast DEF Alike
    <3> QED  BY <1>4, <2>2, <3>1
  <2>4. CASE ~(routed.handler = e /\ routed.service.assignee # e)
    <3>1. Pending(e)' \subseteq Pending(e)
      BY <1>2, <1>5, <2>1, <2>4 DEF Pending
    <3> QED  BY <1>4, <2>2, <3>1
  <2> QED  BY <2>3, <2>4
<1> QED  BY <1>2, <1>3, <1>5, <1>6, <1>7, LoadsMove

(* A request that was on its way is there.                                 *)
LEMMA CommitKeepsBalance ==
  ASSUME IsFiniteSet(Filers), BalanceInv, AnswersInv', NEW h \in Filers, Commit(h)
  PROVE  EvenlyLoaded'
<1>1. PICK f : f = filings[h]
  OBVIOUS
<1>2. /\ f # None /\ f.stage = "commit" /\ filings' = [filings EXCEPT ![h] = None]
      /\ UNCHANGED <<employees, reassigned>> /\ Remember
      /\ handed' = IF f.handler # None /\ f.handler = f.service.assignee
                   THEN handed \cup {f.handler} ELSE handed
  BY <1>1 DEF Commit, At
<1>3. PICK r : requests' = Append(requests, r) /\ r.handler = f.handler
  <2>1. PICK r : r = [cat |-> f.cat, handler |-> f.handler,
                      text |-> f.service.routing = "auto_reply" /\ f.service.text,
                      files |-> f.files, open |-> ~(f.service.routing = "auto_reply")]
    OBVIOUS
  <2>2. requests' = Append(requests, r)
    BY <1>1, <2>1 DEF Commit
  <2>3. r.handler = f.handler
    BY <2>1
  <2> QED  BY <2>2, <2>3
<1>4. PICK S : requests \in Seq(S)
  BY DEF BalanceInv, AnswersInv, RequestsHold
<1>5. PICK n \in Nat : n = Len(requests)
  BY <1>4
<1>6. /\ DOMAIN requests = 1 .. n /\ DOMAIN requests' = 1 .. n + 1
      /\ \A i \in 1 .. n : requests'[i] = requests[i]
      /\ requests'[n + 1] = r
  BY <1>3, <1>4, <1>5
<1>7. ASSUME NEW e
      PROVE  /\ Load(e) \in Nat /\ Load(e)' \in Nat
             /\ Load(e)' <= IF f.handler = e THEN Load(e) + 1 ELSE Load(e)
  <2>1. PICK old : old = {i \in DOMAIN requests : requests[i].handler = e /\ requests[i].open}
    OBVIOUS
  <2>2. IsFiniteSet(old) /\ Load(e) = Cardinality(old) /\ Load(e) \in Nat
    BY <1>4, <2>1, LoadType DEF Load, LoadIn
  <2>3. PICK new : new = {i \in DOMAIN requests' : requests'[i].handler = e /\ requests'[i].open}
    OBVIOUS
  <2>4. Load(e)' = Cardinality(new) /\ Load(e)' \in Nat
    BY <2>3, LoadsStayNaturals DEF Load, LoadIn
  <2>5. new \subseteq IF f.handler = e THEN old \cup {n + 1} ELSE old
    BY <1>3, <1>6, <2>1, <2>3
  <2>6. /\ IsFiniteSet(old \cup {n + 1})
        /\ Cardinality(old \cup {n + 1}) <= Cardinality(old) + 1
    BY <2>2, FS_AddElement
  <2>7. CASE f.handler = e
    <3>1. Cardinality(new) <= Cardinality(old \cup {n + 1})
      BY <2>5, <2>6, <2>7, FS_Subset
    <3>2. Cardinality(old \cup {n + 1}) \in Nat
      BY <2>6, FS_CardinalityType
    <3> QED  BY <2>2, <2>4, <2>6, <2>7, <3>1, <3>2
  <2>8. CASE f.handler # e
    BY <2>2, <2>4, <2>5, <2>8, FS_Subset
  <2> QED  BY <2>2, <2>4, <2>7, <2>8
<1>8. \A e : Pending(e)' = Pending(e) \ {h}
  BY <1>2 DEF Pending, BalanceInv, AnswersInv, FilingsHold
<1>9. /\ \A e, d : Alike(e, d)' <=> Alike(e, d)
      /\ Rows(employees)' = Rows(employees) /\ Rows(employees) \subseteq Employees
  BY <1>2 DEF Alike, Rows, BalanceInv
<1>10. ASSUME NEW e \in Rows(employees), e \notin handed'
       PROVE  Load(e)' + Cardinality(Pending(e)') <= Load(e) + Cardinality(Pending(e))
  <2>1. /\ IsFiniteSet(Pending(e)) /\ Cardinality(Pending(e)) \in Nat
        /\ Cardinality(Pending(e)') = IF h \in Pending(e) THEN Cardinality(Pending(e)) - 1
                                      ELSE Cardinality(Pending(e))
    BY <1>8, PendingType, FS_RemoveElement
  <2>2. f.handler = e => h \in Pending(e)
    <3> SUFFICES ASSUME f.handler = e PROVE h \in Pending(e)
      OBVIOUS
    <3>1. e # None
      BY <1>9, DirectoryAssumption
    <3>2. f.service.assignee # e
      BY <1>2, <1>10, <3>1
    <3> QED  BY <1>1, <1>2, <3>2 DEF Pending
  <2>3. /\ Load(e) \in Nat /\ Load(e)' \in Nat
        /\ Load(e)' <= IF f.handler = e THEN Load(e) + 1 ELSE Load(e)
    BY <1>7
  <2> QED  BY <2>1, <2>2, <2>3
<1>11. handed \subseteq handed'
  BY <1>2
<1> QED  BY <1>2, <1>9, <1>10, <1>11, LoadsMove

(* A request that is there is closed, or given to e0, or back to e0.       *)
LEMMA RequestChanged ==
  ASSUME BalanceInv, AnswersInv', NEW i \in DOMAIN requests, NEW e0,
         \/ requests' = [requests EXCEPT ![i].open = FALSE]
         \/ requests' = [requests EXCEPT ![i].open = TRUE] /\ requests[i].handler = e0
         \/ requests' = [requests EXCEPT ![i].handler = e0],
         NEW e, e # e0
  PROVE  Load(e)' <= Load(e)
<1>1. PICK S : requests \in Seq(S)
  BY DEF BalanceInv, AnswersInv, RequestsHold
<1>2. PICK old : old = {j \in DOMAIN requests : requests[j].handler = e /\ requests[j].open}
  OBVIOUS
<1>3. PICK new : new = {j \in DOMAIN requests' : requests'[j].handler = e /\ requests'[j].open}
  OBVIOUS
<1>4. RequestHolds(requests[i])
  BY DEF BalanceInv, AnswersInv, RequestsHold
<1>5. new \subseteq old
  <2> SUFFICES ASSUME NEW j \in new PROVE j \in old
    OBVIOUS
  <2>1. j \in DOMAIN requests /\ requests'[j].handler = e /\ requests'[j].open
    BY <1>3
  <2>2. CASE j # i
    BY <1>2, <2>1, <2>2
  <2>3. CASE j = i
    <3>1. PICK r : r = requests[i]
      OBVIOUS
    <3>2. r = [cat |-> r.cat, handler |-> r.handler, text |-> r.text, files |-> r.files,
               open |-> r.open]
      BY <1>4, <3>1 DEF RequestHolds
    <3>3. CASE requests' = [requests EXCEPT ![i].open = FALSE]
      <4>1. requests'[i] = [r EXCEPT !.open = FALSE]
        BY <3>1, <3>3
      <4>2. requests'[i].open = FALSE
        BY <3>2, <4>1
      <4> QED  BY <2>1, <2>3, <4>2
    <3>4. CASE requests' = [requests EXCEPT ![i].handler = e0]
      <4>1. requests'[i] = [r EXCEPT !.handler = e0]
        BY <3>1, <3>4
      <4>2. requests'[i].handler = e0
        BY <3>2, <4>1
      <4> QED  BY <2>1, <2>3, <4>2
    <3>5. CASE requests' = [requests EXCEPT ![i].open = TRUE] /\ requests[i].handler = e0
      <4>1. requests'[i] = [r EXCEPT !.open = TRUE]
        BY <3>1, <3>5
      <4>2. requests'[i].handler = e0
        BY <3>1, <3>2, <3>5, <4>1
      <4> QED  BY <2>1, <2>3, <4>2
    <3> QED  BY <3>3, <3>4, <3>5
  <2> QED  BY <2>2, <2>3
<1>6. IsFiniteSet(old) /\ Load(e) = Cardinality(old)
  BY <1>1, <1>2, LoadType DEF Load, LoadIn
<1>7. Load(e)' = Cardinality(new)
  BY <1>3 DEF Load, LoadIn
<1> QED  BY <1>5, <1>6, <1>7, FS_Subset

LEMMA CloseKeepsBalance ==
  ASSUME IsFiniteSet(Filers), BalanceInv, AnswersInv', NEW i \in DOMAIN requests, Close(i)
  PROVE  EvenlyLoaded'
<1>1. /\ requests' = [requests EXCEPT ![i].open = FALSE]
      /\ UNCHANGED <<employees, reassigned, filings, peak, handed>>
  BY DEF Close, directoryVars
<1>2. \A e \in Employees : Load(e)' <= Load(e)
  BY <1>1, RequestChanged, DirectoryAssumption
<1>3. \A e, d : Alike(e, d)' <=> Alike(e, d)
  BY <1>1 DEF Alike
<1>4. Rows(employees)' = Rows(employees) /\ \A e : Pending(e)' = Pending(e)
  BY <1>1 DEF Rows, Pending
<1> QED  BY <1>1, <1>2, <1>3, <1>4, NothingRouted

LEMMA GivingKeepsBalance ==
  ASSUME IsFiniteSet(Filers), BalanceInv, AnswersInv', NEW i \in DOMAIN requests, NEW e0,
         (Reopen(i) /\ requests[i].handler = e0) \/ AssignRequest(i, e0)
  PROVE  EvenlyLoaded'
<1>1. /\ \/ requests' = [requests EXCEPT ![i].open = TRUE] /\ requests[i].handler = e0
         \/ requests' = [requests EXCEPT ![i].handler = e0]
      /\ handed' = handed \cup {e0}
      /\ UNCHANGED <<employees, reassigned, filings>> /\ Remember
  BY DEF Reopen, AssignRequest, directoryVars
<1>2. \A e, d : Alike(e, d)' <=> Alike(e, d)
  BY <1>1 DEF Alike
<1>3. Rows(employees)' = Rows(employees) /\ \A e : Pending(e)' = Pending(e)
  BY <1>1 DEF Rows, Pending
<1>4. ASSUME NEW e, e \notin handed'
      PROVE  Load(e)' + Cardinality(Pending(e)') <= Load(e) + Cardinality(Pending(e))
  <2>1. Load(e)' <= Load(e)
    BY <1>1, <1>4, RequestChanged
  <2>2. Load(e)' \in Nat /\ Load(e) \in Nat /\ Cardinality(Pending(e)) \in Nat
    BY LoadsAreNaturals, LoadsStayNaturals, PendingType DEF BalanceInv
  <2> QED  BY <1>3, <2>1, <2>2
<1>5. handed \subseteq handed'
  BY <1>1
<1> QED  BY <1>1, <1>2, <1>3, <1>4, <1>5, LoadsMove

LEMMA FilingsKeepBalance ==
  ASSUME IsFiniteSet(Filers), BalanceInv, AnswersInv', NEW h \in Filers, NEW f,
         Begin(h, f) \/ Goes(h, f), f = None \/ f.stage # "commit"
  PROVE  EvenlyLoaded'
<1>1. /\ filings' = [filings EXCEPT ![h] = f]
      /\ UNCHANGED <<employees, reassigned, requests, peak, handed>>
  BY DEF Begin, Goes, directoryVars
<1>2. \A e : Pending(e)' \subseteq Pending(e)
  BY <1>1 DEF Pending, BalanceInv, AnswersInv, FilingsHold
<1>3. \A e, d : Alike(e, d)' <=> Alike(e, d)
  BY <1>1 DEF Alike
<1>4. Rows(employees)' = Rows(employees) /\ \A e : Load(e)' = Load(e) /\ Load(e) \in Nat
  BY <1>1, LoadsAreNaturals DEF Rows, Load, LoadIn, BalanceInv
<1> QED  BY <1>1, <1>2, <1>3, <1>4, NothingRouted

LEMMA IntakeKeepsBalance ==
  ASSUME IsFiniteSet(Filers), BalanceInv, AnswersInv', IntakeNext
  PROVE  EvenlyLoaded'
<1>1. ASSUME NEW h \in Filers, NEW id \in Cats,
             \/ \E token \in tokens, profile \in Profiles :
                  BeginWithProfile(h, token, profile, id)
             \/ \E s \in StudentIds : BeginSignedIn(h, s, id)
      PROVE  EvenlyLoaded'
  BY <1>1, FilingBegins, FilingsKeepBalance
<1>2. ASSUME NEW h \in Filers, FilingTurn(h) PROVE EvenlyLoaded'
  <2>1. CASE Refuse(h) \/ Fail(h)
    BY <2>1, FilingsKeepBalance DEF Refuse, Fail
  <2>2. CASE TryCode(h)
    <3>1. PICK f : Goes(h, f) /\ f.stage \in {"code", "group"}
      BY <2>2, TriedFiling DEF BalanceInv
    <3> QED  BY <3>1, FilingsKeepBalance
  <2>3. CASE FindGroup(h)
    <3>1. PICK f : Goes(h, f) /\ f.stage = "route"
      BY <2>3, FoundFiling DEF BalanceInv
    <3> QED  BY <3>1, FilingsKeepBalance
  <2> QED  BY <1>2, <2>1, <2>2, <2>3, RouteKeepsBalance DEF FilingTurn
<1> QED  BY <1>1, <1>2, CommitKeepsBalance, CloseKeepsBalance, GivingKeepsBalance DEF IntakeNext

LEMMA StepKeepsBalance ==
  ASSUME IsFiniteSet(Filers), BalanceInv, [Next]_vars
  PROVE  BalanceInv'
<1>0. AnswersInv' /\ DOMAIN filings = Filers
  BY StepKeepsAnswers DEF BalanceInv, AnswersInv, FilingsHold
<1>1. ASSUME UNCHANGED intakeVars
      PROVE  \A e : Load(e)' = Load(e) /\ Load(e) \in Nat /\ Pending(e)' = Pending(e)
  BY <1>1, LoadsAreNaturals DEF intakeVars, Load, LoadIn, Pending, BalanceInv
<1>2. ASSUME UNCHANGED <<employees, reassigned, intakeVars>>
      PROVE  DOMAIN employees' = Employees /\ EvenlyLoaded'
  BY <1>0, <1>1, <1>2, NothingRouted DEF BalanceInv, intakeVars, Alike, Rows
<1>3. ASSUME NEW e \in Employees, NEW row, employees' = [employees EXCEPT ![e] = row],
             reassigned' = reassigned \cup {e}, UNCHANGED intakeVars
      PROVE  DOMAIN employees' = Employees /\ EvenlyLoaded'
  <2>1. \A x \in Employees : x # e => employees'[x] = employees[x]
    BY <1>3 DEF BalanceInv
  <2>2. DOMAIN employees = Employees /\ DOMAIN employees' = Employees
    BY <1>3 DEF BalanceInv
  <2>3. \A x, d \in Rows(employees)' : Alike(x, d)' =>
           x \in Rows(employees) /\ d \in Rows(employees) /\ Alike(x, d)
    BY <1>3, <2>1, <2>2 DEF Alike, Rows
  <2>4. UNCHANGED <<peak, handed>> /\ \A x \in Employees : Load(x)' <= Load(x)
    BY <1>1, <1>3 DEF intakeVars
  <2>5. \A x : Pending(x)' \subseteq Pending(x)
    BY <1>1, <1>3
  <2> QED  BY <1>0, <2>2, <2>3, <2>4, <2>5, NothingRouted
<1>4. ASSUME DirectoryNext, UNCHANGED intakeVars
      PROVE  DOMAIN employees' = Employees /\ EvenlyLoaded'
  <2>1. ASSUME NEW e \in Employees, NEW row, CreateEmployee(e, row)
        PROVE  DOMAIN employees' = Employees /\ EvenlyLoaded'
    BY <1>3, <1>4, <2>1 DEF CreateEmployee
  <2>2. ASSUME NEW e \in Employees, NEW change, UpdateEmployee(e, change)
        PROVE  DOMAIN employees' = Employees /\ EvenlyLoaded'
    <3>1. PICK after : after = [f \in DOMAIN employees[e] |->
                     IF f \in DOMAIN change THEN change[f] ELSE employees[e][f]]
      OBVIOUS
    <3>2. employees' = [employees EXCEPT ![e] = after] /\ reassigned' = reassigned \cup {e}
      BY <2>2, <3>1 DEF UpdateEmployee
    <3> QED  BY <1>3, <1>4, <3>2
  <2>3. ASSUME NEW s \in StudentIds, NEW active, SwitchStudent(s, active)
        PROVE  UNCHANGED <<employees, reassigned>>
    BY <2>3 DEF SwitchStudent
  <2>4. ASSUME NEW f \in FacultyIds, NEW row, CreateFaculty(f, row) \/ UpdateFaculty(f, row)
        PROVE  UNCHANGED <<employees, reassigned>>
    BY <2>4 DEF CreateFaculty, UpdateFaculty
  <2>5. ASSUME NEW g \in GroupIds, NEW row, UpdateGroup(g, row)
        PROVE  UNCHANGED <<employees, reassigned>>
    BY <2>5 DEF UpdateGroup
  <2> QED  BY <1>2, <1>4, <2>1, <2>2, <2>3, <2>4, <2>5 DEF DirectoryNext
<1>5. DOMAIN employees' = Employees /\ EvenlyLoaded'
  <2>1. CASE UNCHANGED <<directoryVars, intakeVars>>
    BY <1>2, <2>1 DEF directoryVars
  <2>2. \/ DirectoryNext /\ UNCHANGED intakeVars
        \/ UNCHANGED <<directoryVars, intakeVars>>
        \/ IntakeNext
    BY NextIsOneOf, CatalogLeavesDirectory DEF vars
  <2>3. CASE IntakeNext
    BY <1>0, <2>3, StepOfIntake, IntakeKeepsBalance DEF BalanceInv
  <2> QED  BY <1>4, <2>1, <2>2, <2>3
<1> QED  BY <1>0, <1>5 DEF BalanceInv

(* Of employees whom routing cannot tell apart, one to whom nobody gave a  *)
(* request by name, or back after it was closed, never got further ahead   *)
(* of another's fullest moment than the submissions in flight: he was      *)
(* chosen when he had no more open requests than the other, and closing or *)
(* taking away requests only brings a load down (_least_loaded,            *)
(* _open_load, assign_request).                                            *)
THEOREM LoadsStayEven ==
  ASSUME IsFiniteSet(Filers)
  PROVE  Spec => []Balanced
<1>1. Init => BalanceInv
  BY BalanceAtStart
<1>2. BalanceInv /\ [Next]_vars => BalanceInv'
  BY StepKeepsBalance
<1>3. BalanceInv => Balanced
  <2> SUFFICES ASSUME BalanceInv, NEW e \in Rows(employees), NEW d \in Rows(employees),
                      Alike(e, d), e \notin handed
               PROVE  peak[e] - peak[d] <= Cardinality(Filers)
    BY DEF Balanced
  <2>1. peak[e] <= peak[d] + Cardinality(Filers)
    BY DEF BalanceInv, EvenlyLoaded
  <2>2. peak[e] \in Nat /\ peak[d] \in Nat
    BY DEF BalanceInv, EvenlyLoaded, Rows
  <2>3. Cardinality(Filers) \in Nat
    BY FS_CardinalityType
  <2> QED  BY <2>1, <2>2, <2>3
<1> QED  BY <1>1, <1>2, <1>3, PTL DEF Spec

=============================================================================
