------------------------------- MODULE MCIntake --------------------------------
(* Three employees, one faculty with two names to come, three entries of   *)
(* the catalogue and room for a fourth.                                    *)
EXTENDS Intake, TLC
CONSTANTS c1, c2, c3, c4, d1, n1, n2, g1, g2, s1, s2, w

Person(role, faculty, department, manager) ==
  [role |-> role, active |-> TRUE, faculty |-> faculty, department |-> department,
   manager |-> manager]
\* What meets in a behaviour: submissions, and calls of one kind beside them.
Mix(profile, student, other, calls) ==
  [kind \in Kinds |-> CASE kind = "profile" -> profile [] kind = "student" -> student
                       [] kind = other -> calls [] OTHER -> 0]
MCMaxCalls ==
  { Mix(3, 0, None, 0), Mix(2, 1, None, 0),
    Mix(1, 1, "request", 1), Mix(0, 2, "request", 2),
    Mix(1, 1, "directory", 1), Mix(1, 0, "directory", 2),
    Mix(1, 1, "client", 1), Mix(1, 0, "client", 2), Mix(0, 0, "client", 3),
    Mix(1, 1, "catalog", 1), Mix(0, 2, "catalog", 1), Mix(0, 1, "catalog", 2),
    Mix(0, 0, "catalog", 3) }
MCStem == [n \in {n1, n2} |-> "F"]
MCStaffing ==
  { (1 :> Person("staff", 1, None, FALSE)) @@ (2 :> Person("staff", 1, None, FALSE))
      @@ (3 :> Person("registrator", None, None, TRUE)),
    (1 :> Person("registrator", 1, None, FALSE)) @@ (2 :> Person("staff", 1, d1, FALSE))
      @@ (3 :> None) }
MCEmployeeChanges ==
  { [active |-> FALSE], [role |-> "leadership"], [faculty |-> None, manager |-> TRUE] }
MCFacultyRows == { [name |-> n2, code |-> [stem |-> "F", suffix |-> 1]] }

Root == [parent |-> None, active |-> TRUE, routing |-> "faculty_manager", text |-> FALSE,
         assignee |-> None]
Service(parent, routing, assignee) ==
  [parent |-> parent, active |-> TRUE, routing |-> routing, text |-> routing = "auto_reply",
   assignee |-> assignee]
MCCatalogs ==
  { (c1 :> Root) @@ (c2 :> Service(c1, routing, None)) @@ (c3 :> Root) @@ (c4 :> None) :
      routing \in Routings }
MCNewCategories == { Root, Service(c1, "general_manager", 1), Service(c2, "faculty_manager", None) }
MCPayloads ==
  { [parent |-> c3], [parent |-> None], [routing |-> "auto_reply"], [text |-> FALSE],
    [routing |-> "general_manager", assignee |-> 2] }
MCProfiles == [id : {s1, s2}, faculty : {n2}, group : {g1}]
                \cup {[id |-> s1, faculty |-> n1, group |-> g2], [id |-> s2, faculty |-> n1, group |-> g2]}
MCEarlier == {<<[cat |-> c2, handler |-> 1, text |-> FALSE, files |-> {}, open |-> TRUE]>>}
================================================================================
