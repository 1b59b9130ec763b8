---------------------------- MODULE Organisation ----------------------------
(***************************************************************************)
(* Departments, their sections and the employees assigned to them          *)
(* (EmployeeService).  A request looks up what it refers to and commits    *)
(* later; what happens if the other row was deleted meanwhile is decided   *)
(* by the tables: a section or an assignment whose target is gone fails,   *)
(* deleting a department takes its sections along, and whoever was         *)
(* assigned to a deleted row is assigned to none.                          *)
(*                                                                         *)
(* Descriptions, the active flags, which nothing looks at, targets and     *)
(* performance reviews (rows of one employee that no other row refers to)  *)
(* are left out.                                                           *)
(***************************************************************************)
EXTENDS FiniteSets

CONSTANTS
  Departments, Sections, Names, Employees,   \* ids of rows, department names
  Reqs,                                      \* requests that may overlap
  None

VARIABLES
  name,      \* employee_department: the department's name, None if there is no row
  within,    \* employee_section: the section's department, None if there is no row
  worksIn,   \* employee_profiles: department_id and section_id, neither required
  req        \* requests under way

vars == <<name, within, worksIn, req>>

Idle == [op |-> "idle"]
Standing == {d \in Departments : name[d] # None}
Open == {s \in Sections : within[s] # None}

Init ==
  /\ name = [d \in Departments |-> None]
  /\ within = [s \in Sections |-> None]
  /\ worksIn = [e \in Employees |-> [department |-> None, section |-> None]]
  /\ req = [r \in Reqs |-> Idle]

Begin(r, new) ==
  /\ req[r] = Idle
  /\ req' = [req EXCEPT ![r] = new]
  /\ UNCHANGED <<name, within, worksIn>>
Done(r) == req' = [req EXCEPT ![r] = Idle]

\* create_department: the name is looked up; update_department does not look.
CreateDepartment(r, d, n) ==
  /\ name[d] = None /\ \A other \in Standing : name[other] # n
  /\ Begin(r, [op |-> "name", department |-> d, name |-> n, fresh |-> TRUE])
RenameDepartment(r, d, n) ==
  /\ d \in Standing
  /\ Begin(r, [op |-> "name", department |-> d, name |-> n, fresh |-> FALSE])

\* The unique name of employee_department.
NameFree(d, n) == \A other \in Departments \ {d} : name[other] # n

\* The insertion, or the update, which finds no row once it was deleted.
NameDepartment(r) ==
  /\ req[r].op = "name"
  /\ LET d == req[r].department
     IN /\ NameFree(d, req[r].name)
        /\ (name[d] = None) = req[r].fresh
        /\ name' = [name EXCEPT ![d] = req[r].name]
  /\ Done(r)
  /\ UNCHANGED <<within, worksIn>>

\* create_section: the department is looked up.
CreateSection(r, s, d) ==
  /\ within[s] = None /\ d \in Standing
  /\ Begin(r, [op |-> "section", section |-> s, department |-> d])

InsertSection(r) ==
  /\ req[r].op = "section"
  /\ within[req[r].section] = None /\ req[r].department \in Standing
  /\ within' = [within EXCEPT ![req[r].section] = req[r].department]
  /\ Done(r)
  /\ UNCHANGED <<name, worksIn>>

\* create_employee and update_employee: both are looked up, each by itself.
Assign(r, e, d, s) ==
  /\ d \in Standing \cup {None} /\ s \in Open \cup {None}
  /\ Begin(r, [op |-> "assign", employee |-> e, department |-> d, section |-> s])

\* A field that was not sent stays, and a target that is gone fails the commit.
WriteAssignment(r) ==
  /\ req[r].op = "assign"
  /\ req[r].department \in Standing \cup {None} /\ req[r].section \in Open \cup {None}
  /\ worksIn' = [worksIn EXCEPT
       ![req[r].employee].department = IF req[r].department = None THEN @ ELSE req[r].department,
       ![req[r].employee].section = IF req[r].section = None THEN @ ELSE req[r].section]
  /\ Done(r)
  /\ UNCHANGED <<name, within>>

Released_Department(d, sections) ==   \* mutant: employees of the sections are not released
  [e \in Employees |->
    [department |-> IF worksIn[e].department = d THEN None ELSE worksIn[e].department,
     section |-> worksIn[e].section]]

\* ON DELETE SET NULL.
Released(d, sections) ==
  [e \in Employees |->
    [department |-> IF worksIn[e].department = d THEN None ELSE worksIn[e].department,
     section |-> IF worksIn[e].section \in sections THEN None ELSE worksIn[e].section]]

\* delete_department: its sections go with it.
DeleteDepartment(d) ==
  /\ d \in Standing
  /\ LET sections == {s \in Open : within[s] = d}
     IN /\ within' = [s \in Sections |-> IF s \in sections THEN None ELSE within[s]]
        /\ worksIn' = Released(d, sections)
  /\ name' = [name EXCEPT ![d] = None]
  /\ UNCHANGED req

\* delete_section.
DeleteSection(s) ==
  /\ s \in Open
  /\ within' = [within EXCEPT ![s] = None]
  /\ worksIn' = Released(None, {s})
  /\ UNCHANGED <<name, req>>

\* The commit fails, on a constraint or otherwise: nothing was written.
Fail(r) == req[r] # Idle /\ Done(r) /\ UNCHANGED <<name, within, worksIn>>

DepartmentCalls(r) ==
  \/ \E d \in Departments, n \in Names : CreateDepartment(r, d, n) \/ RenameDepartment(r, d, n)
  \/ \E d \in Departments : DeleteDepartment(d)
SectionCalls(r) ==
  \/ \E s \in Sections, d \in Departments : CreateSection(r, s, d)
  \/ \E s \in Sections : DeleteSection(s)

Next == \E r \in Reqs :
  \/ DepartmentCalls(r) \/ NameDepartment(r)
  \/ SectionCalls(r) \/ InsertSection(r)
  \/ \E e \in Employees, d \in Departments \cup {None}, s \in Sections \cup {None} : Assign(r, e, d, s)
  \/ WriteAssignment(r)
  \/ Fail(r)

Spec == Init /\ [][Next]_vars

-----------------------------------------------------------------------------

\* Whatever requests overlap, no two departments share a name, every section
\* is in a department that exists, and nobody is assigned to a department or a
\* section that was deleted.
\* (create_department: "Department '...' already exists.")
ChartConsistent ==
  /\ \A d, other \in Standing : name[d] = name[other] => d = other
  /\ \A s \in Open : within[s] \in Standing
  /\ \A e \in Employees : /\ worksIn[e].department \in Standing \cup {None}
                          /\ worksIn[e].section \in Open \cup {None}
=============================================================================
