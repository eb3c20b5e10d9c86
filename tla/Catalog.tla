-------------------------------- MODULE Catalog --------------------------------
(***************************************************************************)
(* The two-level catalogue: request types, and the service types beneath   *)
(* them that say where a request goes; and the files an automatic answer   *)
(* sends.                                                                  *)
(*                                                                         *)
(* A change of an entry is checked against a copy of its row and written   *)
(* later, only in the columns that differ from the copy; a file is counted *)
(* first, written to disk, and becomes a row when the transaction commits. *)
(* Names, descriptions, the SLA and the priority are left out.             *)
(***************************************************************************)
EXTENDS Directory

CONSTANTS
  Cats,               \* ids of entries
  Files,              \* names of stored files
  Editors,            \* administrators' calls that may be in flight
  NewCategories,      \* bodies of POST /admin/categories
  Payloads,           \* bodies of PATCH /admin/categories
  MaxAnswerFiles

ASSUME CatalogAssumption ==
  /\ MaxAnswerFiles \in Nat \ {0} /\ None \notin Cats \cup Files

VARIABLES
  cats,               \* request_categories
  files,              \* auto_reply_files: the service of each, or None
  disk,               \* files whose bytes are stored
  edits,              \* the calls in flight, or None
  crossed             \* history: services changed by two updates that overlapped

catalogVars == <<cats, files, disk, edits, crossed>>

Routings == {"auto_reply", "faculty_manager", "general_manager"}
Category == [parent : Cats \cup {None}, active : BOOLEAN, routing : Routings,
             text : BOOLEAN, assignee : Employees \cup {None}]

IsRoot(cat) == cat.parent = None
Exists(id)  == cats[id] # None
FilesOf(id) == {f \in Files : files[f] = id}

\* _parent_request_type
IsRequestType(id) == Exists(id) /\ IsRoot(cats[id])

\* _check_auto_reply
HasAnswer(cat) == cat.routing = "auto_reply" => cat.text

\* _check_assignee
MayBeAssigned(cat) ==
  cat.assignee # None => cat.routing = "general_manager" /\ MayHandle(cat.assignee)

\* build_category: a request type, or a service with what the body says.
CreateCategory(id, cat) ==
  /\ Spend("catalog")
  /\ ~Exists(id)
  /\ IF IsRoot(cat)
     THEN cat = [parent |-> None, active |-> TRUE, routing |-> "faculty_manager",
                 text |-> FALSE, assignee |-> None]
     ELSE cat.active /\ IsRequestType(cat.parent) /\ HasAnswer(cat) /\ MayBeAssigned(cat)
  /\ cats' = [cats EXCEPT ![id] = cat]
  /\ UNCHANGED <<files, disk, edits, crossed, directoryVars>>

\* apply_category_update on a copy: the columns sent, and the assignee
\* dropped from a service that takes none.
Sent(copy, payload) ==
  [f \in DOMAIN copy |-> IF f \in DOMAIN payload THEN payload[f] ELSE copy[f]]

\* A body brings values of the columns it names.
ASSUME BodyAssumption ==
  /\ None \notin Category
  /\ NewCategories \subseteq Category
  /\ \A payload \in Payloads, cat \in Category : Sent(cat, payload) \in Category

Applied(copy, payload) ==
  LET after == Sent(copy, payload) IN
  IF "assignee" \in DOMAIN payload \/ after.routing = "general_manager" THEN after
  ELSE [after EXCEPT !.assignee = None]

\* Only the new parent is looked at, not what kind of entry moves.
KeepsItsLevelUnasked(id, copy, payload) ==
  "parent" \in DOMAIN payload /\ payload.parent # None =>
    payload.parent # id /\ IsRequestType(payload.parent)

\* Neither kind turns into the other, and services move under request types.
KeepsItsLevel(id, copy, payload) ==
  "parent" \in DOMAIN payload =>
    /\ (payload.parent = None) = IsRoot(copy)
    /\ payload.parent # None => payload.parent # id /\ IsRequestType(payload.parent)

\* The answer is looked at when the routing changes.
MayUpdateCheckingRouting(id, copy, payload) ==
  LET after == Sent(copy, payload) IN
  /\ KeepsItsLevel(id, copy, payload)
  /\ "routing" \in DOMAIN payload => IsRoot(after) \/ HasAnswer(after)
  /\ "assignee" \in DOMAIN payload => MayBeAssigned(after)

\* The answer is looked at whatever was sent.
MayUpdate(id, copy, payload) ==
  LET after == Sent(copy, payload) IN
  /\ KeepsItsLevel(id, copy, payload)
  /\ IsRoot(after) \/ HasAnswer(after)
  /\ "assignee" \in DOMAIN payload => MayBeAssigned(after)

BeginUpdate(h, id, payload) ==
  /\ Spend("catalog")
  /\ Takes(edits, h) /\ Exists(id) /\ MayUpdate(id, cats[id], payload)
  /\ edits' = [edits EXCEPT ![h] =
       [op |-> "update", cat |-> id, copy |-> cats[id], after |-> Applied(cats[id], payload)]]
  /\ UNCHANGED <<cats, files, disk, crossed, directoryVars>>

\* deactivate_category
BeginDeactivate(h, id) ==
  /\ Spend("catalog")
  /\ Takes(edits, h) /\ Exists(id)
  /\ edits' = [edits EXCEPT ![h] =
       [op |-> "update", cat |-> id, copy |-> cats[id],
        after |-> [cats[id] EXCEPT !.active = FALSE]]]
  /\ UNCHANGED <<cats, files, disk, crossed, directoryVars>>

\* update_category, commit.
CommitUpdate(h) ==
  /\ edits[h] # None /\ edits[h].op = "update"
  /\ LET call == edits[h] IN
     /\ cats' = [cats EXCEPT ![call.cat] = Written(@, call.copy, call.after)]
     /\ crossed' = IF cats[call.cat] = call.copy THEN crossed ELSE crossed \cup {call.cat}
  /\ edits' = [edits EXCEPT ![h] = None]
  /\ UNCHANGED <<files, disk, budget, directoryVars>>

\* add_auto_reply_file, the checks; the stored name is random, hence new.
BeginUpload(h, id) ==
  /\ Spend("catalog")
  /\ Takes(edits, h) /\ Exists(id) /\ ~IsRoot(cats[id]) /\ cats[id].routing = "auto_reply"
  /\ Cardinality(FilesOf(id)) < MaxAnswerFiles
  /\ edits' = [edits EXCEPT ![h] = [op |-> "upload", cat |-> id]]
  /\ UNCHANGED <<cats, files, disk, crossed, directoryVars>>

\* _store and the commit, or only _store; nothing unlinks the bytes.
FinishUpload(h, committed) ==
  /\ edits[h] # None /\ edits[h].op = "upload" /\ Files \ disk # {}
  /\ LET f == First(Files \ disk) IN
     /\ disk' = disk \cup {f}
     /\ files' = IF committed THEN [files EXCEPT ![f] = edits[h].cat] ELSE files
  /\ edits' = [edits EXCEPT ![h] = None]
  /\ UNCHANGED <<cats, crossed, budget, directoryVars>>

\* The bytes go with the row.
RemoveFileAndBytes(f) ==
  /\ Spend("catalog")
  /\ files[f] # None
  /\ files' = [files EXCEPT ![f] = None]
  /\ disk' = disk \ {f}
  /\ UNCHANGED <<cats, edits, crossed, directoryVars>>

\* remove_auto_reply_file: only the row goes.
RemoveFile(f) ==
  /\ Spend("catalog")
  /\ files[f] # None
  /\ files' = [files EXCEPT ![f] = None]
  /\ UNCHANGED <<cats, disk, edits, crossed, directoryVars>>

-----------------------------------------------------------------------------
CatalogNext ==
  \/ \E id \in Cats, cat \in NewCategories : CreateCategory(id, cat)
  \/ \E h \in Editors :
       \/ \E id \in Cats :
            \/ \E payload \in Payloads : BeginUpdate(h, id, payload)
            \/ BeginDeactivate(h, id) \/ BeginUpload(h, id)
       \/ CommitUpdate(h)
       \/ \E committed \in BOOLEAN : FinishUpload(h, committed)
  \/ \E f \in Files : RemoveFile(f)

-----------------------------------------------------------------------------
(* "Every rule the form enforces is therefore re-checked here": under a    *)
(* request type there are services and under a service nothing, whatever   *)
(* updates overlap (apply_category_update, _parent_request_type).          *)
TwoLevels ==
  \A id \in Cats : Exists(id) /\ ~IsRoot(cats[id]) => IsRequestType(cats[id].parent)

=============================================================================
