------------------------------- MODULE People -------------------------------
(* Users of the system and the employees of the shop: logins, tokens, and    *)
(* the edits of one row that administrators and the users themselves make.   *)
(* Each edit finds the row, changes the entity, and hands it to save, which   *)
(* selects the row again and writes the columns that differ. A token carries  *)
(* the role its user had at login; no request looks at the user again.        *)
EXTENDS Integers, FiniteSets

CONSTANTS
    Users, Employees,  \* ids of rows
    Clients,           \* browsers; each has at most a token and a request
    Passwords,
    MaxEdits           \* bound on edits begun

\* What is assumed of the parameters: users and employees are rows of two tables.
Parameters == Users \cap Employees = {}

VARIABLES
    row,      \* id -> its row
    token,    \* client -> <<[user, role]>>, <<>> when logged out
    call,     \* client -> <<the request at work>>, <<>> for none
    edits,
    said,     \* id -> its row as the edits that have ended ask for it
    mingled,  \* ids two of whose edits have been at work at once
    orderly   \* no edit has met another one, or come with an outdated token

vars == <<row, token, call, edits, said, mingled, orderly>>

User(role, password) ==
    [role |-> role, active |-> TRUE, name |-> 1, password |-> password]
Employee == [salary |-> 1, status |-> "ACTIVE", photo |-> 1]

Idle(c) == call[c] = <<>>
At(c, phase) == call[c] # <<>> /\ call[c][1].phase = phase
Waits(c, rec) == call' = [call EXCEPT ![c] = <<rec>>]
Ends(c) == call' = [call EXCEPT ![c] = <<>>]
Editing == {"found", "selected"}
EditsOf(id) == {c \in Clients : call[c] # <<>> /\ call[c][1].phase \in Editing /\ call[c][1].id = id}
AnyEdit == \E id \in Users \cup Employees : EditsOf(id) # {}

-----------------------------------------------------------------------------
(* AuthService and the guards.                                              *)

Credentials(u, password) == row[u].active /\ row[u].password = password

Login(c) ==
    /\ Idle(c) /\ token[c] = <<>>
    /\ \E u \in Users, password \in Passwords :
         /\ Credentials(u, password)
         /\ Waits(c, [phase |-> "signing", user |-> u, role |-> row[u].role])
    /\ UNCHANGED <<row, token, edits, said, mingled, orderly>>

\* bcrypt has compared, the token is signed: of the row as it was found.
Sign(c) ==
    /\ At(c, "signing")
    /\ token' = [token EXCEPT ![c] = <<[user |-> call[c][1].user, role |-> call[c][1].role]>>]
    /\ Ends(c)
    /\ UNCHANGED <<row, edits, said, mingled, orderly>>

\* Logged out, or the token has expired.
Logout(c) ==
    /\ Idle(c) /\ token[c] # <<>>
    /\ token' = [token EXCEPT ![c] = <<>>]
    /\ UNCHANGED <<row, call, edits, said, mingled, orderly>>

\* JwtStrategy and RolesGuard believe the token.
Admin(c) == token[c] # <<>> /\ token[c][1].role = "ADMIN"
Self(c, u) == token[c][1].user = u

UpToDate(c) ==
    LET u == token[c][1].user
    IN  row[u].active /\ row[u].role = token[c][1].role

-----------------------------------------------------------------------------
(* What edits ask for: columns and their new values.                        *)

\* The safeguards of UsersService.update.
OwnRightsKept(c, u, change) ==
    Self(c, u) => change # [active |-> FALSE] /\ "role" \notin DOMAIN change

\* UserFormModal sends name and role, the list's buttons active alone.
UserChanges ==
    [name : {2}, role : {"ADMIN", "STAFF"}] \cup [active : BOOLEAN]

\* EmployeesService.update, updatePhoto and deactivate.
EmployeeChanges == [salary : {2}] \cup [status : {"ACTIVE", "INACTIVE"}] \cup [photo : {2}]

\* Only the columns present in the request are assigned.
Assigned(base, change) ==
    [f \in DOMAIN base |-> IF f \in DOMAIN change THEN change[f] ELSE base[f]]

\* Variant with a mistake: what is omitted gets its default.
EntityWithDefaults(found, change) ==
    Assigned(IF "active" \in DOMAIN found THEN [found EXCEPT !.active = TRUE] ELSE found, change)

Entity(found, change) == Assigned(found, change)

Begins(c, id, change) ==
    /\ edits < MaxEdits /\ edits' = edits + 1
    /\ Waits(c, [phase |-> "found", id |-> id, change |-> change,
                 entity |-> Entity(row[id], change), read |-> row[id]])
    /\ mingled' = mingled \cup (IF EditsOf(id) = {} THEN {} ELSE {id})
    /\ orderly' = (orderly /\ ~AnyEdit /\ UpToDate(c))
    /\ UNCHANGED <<row, token, said>>

UpdateUser(c) ==
    /\ Idle(c) /\ Admin(c)
    /\ \E u \in Users, change \in UserChanges :
         OwnRightsKept(c, u, change) /\ Begins(c, u, change)

\* setPassword, for an administrator.
ResetPassword(c) ==
    /\ Idle(c) /\ Admin(c)
    /\ \E u \in Users, password \in Passwords : Begins(c, u, [password |-> password])

\* changePassword: the row is found and its password compared, then setPassword
\* finds it again.
ChangePassword(c) ==
    /\ Idle(c) /\ token[c] # <<>>
    /\ LET u == token[c][1].user
       IN  \E new \in Passwords \ {row[u].password} :
               Waits(c, [phase |-> "verified", id |-> u, password |-> new])
    /\ UNCHANGED <<row, token, edits, said, mingled, orderly>>
SetPassword(c) ==
    /\ At(c, "verified")
    /\ Begins(c, call[c][1].id, [password |-> call[c][1].password])

\* deactivate of an inactive employee ends at once.
EditEmployee(c) ==
    /\ Idle(c) /\ Admin(c)
    /\ \E e \in Employees, change \in EmployeeChanges : Begins(c, e, change)

-----------------------------------------------------------------------------
(* save.                                                                    *)

Select(c) ==
    /\ At(c, "found")
    /\ Waits(c, [call[c][1] EXCEPT !.phase = "selected", !.read = row[call[c][1].id]])
    /\ UNCHANGED <<row, token, edits, said, mingled, orderly>>

Saved(base, entity, read) ==
    [f \in DOMAIN base |-> IF entity[f] = read[f] THEN base[f] ELSE entity[f]]

Write(c) ==
    /\ At(c, "selected")
    /\ LET edit == call[c][1]
       IN  /\ row' = [row EXCEPT ![edit.id] = Saved(@, edit.entity, edit.read)]
           /\ said' = [said EXCEPT ![edit.id] = Assigned(@, edit.change)]
    /\ Ends(c)
    /\ UNCHANGED <<token, edits, mingled, orderly>>

Init ==
    /\ \E admins \in (SUBSET Users) \ {{}} :
         row = [id \in Users \cup Employees |->
                   IF id \in Employees THEN Employee
                   ELSE User(IF id \in admins THEN "ADMIN" ELSE "STAFF",
                             CHOOSE password \in Passwords : TRUE)]
    /\ said = row
    /\ token = [c \in Clients |-> <<>>] /\ call = [c \in Clients |-> <<>>]
    /\ edits = 0 /\ mingled = {} /\ orderly = TRUE

Next ==
    \E c \in Clients :
        \/ Login(c) \/ Sign(c) \/ Logout(c)
        \/ UpdateUser(c) \/ ResetPassword(c) \/ ChangePassword(c) \/ SetPassword(c)
        \/ EditEmployee(c) \/ Select(c) \/ Write(c)

Spec == Init /\ [][Next]_vars

-----------------------------------------------------------------------------
(* Properties.                                                              *)

\* The variables keep their types.
TypeOK ==
    /\ \A u \in Users : row[u] \in [role : {"ADMIN", "STAFF"}, active : BOOLEAN,
                                    name : 1 .. 2, password : Passwords]
    /\ \A e \in Employees : row[e] \in [salary : 1 .. 2, status : {"ACTIVE", "INACTIVE"},
                                        photo : 1 .. 2]
    /\ DOMAIN row = Users \cup Employees /\ DOMAIN said = DOMAIN row
    /\ mingled \subseteq DOMAIN row /\ orderly \in BOOLEAN /\ edits \in 0 .. MaxEdits

\* Edits of one row that never overlapped each other, whatever happened to other
\* rows, leave every column at the value asked for last.
EditsKept ==
    \A id \in DOMAIN row \ mingled : EditsOf(id) = {} => row[id] = said[id]

\* "These prevent the last admin from locking the system out": some user can
\* log in as an administrator, as long as edits come one at a time and with
\* tokens that still tell the truth.
AdminRemains ==
    orderly => \E u \in Users : row[u].active /\ row[u].role = "ADMIN"
=============================================================================
