------------------------------ MODULE Accounts ------------------------------
(***************************************************************************)
(* Users, roles and sessions: sign-in (auth/session.go, admin/login.go),   *)
(* the user editor and the password page (admin/users.go,                  *)
(* admin/password.go) and the first user (migrate/seed.go), over           *)
(* store/users.go.                                                         *)
(*                                                                         *)
(* The session is the user's name, signed: it needs no table, and each     *)
(* request reads the user it names again, the row first and the roles      *)
(* after it.  A hash is the password it was made from.  Names are taken    *)
(* up to case.                                                             *)
(***************************************************************************)

CONSTANTS
    Names,          \* user names: "admin" is the one that is seeded
    Passwords,
    Roles,          \* rows of roles: "Admin" and "ManageUsers" among them
    Clients,        \* requests in flight, reused when they end
    Seeders         \* processes that start with ADMIN_PASSWORD set

ASSUME AccountsAssumption ==
    /\ "admin" \in Names
    /\ {"Admin", "ManageUsers"} \subseteq Roles
    /\ "none" \notin Passwords

VARIABLES
    users,          \* the tables users and user_roles
    cookie,         \* names whose cookie is out
    task,           \* where a request is, and what it read
    seeder,         \* where SeedAdmin is
    granted,        \* history: roles the seed or a manager ever gave a name
    crossed         \* history: a delete was made for an account already gone

accVars == <<users, cookie, task, seeder, granted, crossed>>

NoUser == [hash |-> "none", roles |-> {}]
User == [hash : Passwords, roles : SUBSET Roles]
AccFree == [at |-> "idle"]
AccJob ==
    {AccFree}
    \union [at : {"roles"}, who : Names, hash : Passwords]
    \union [at : {"in"}, who : Names, hash : Passwords, roles : SUBSET Roles]

AccTypeOK ==
    /\ users \in [Names -> User \union {NoUser}]
    /\ cookie \subseteq Names
    /\ task \in [Clients -> AccJob]
    /\ seeder \in [Seeders -> {"count", "insert", "done"}]
    /\ granted \in [Names -> SUBSET Roles]
    /\ crossed \in BOOLEAN

AccInit ==
    /\ users = [n \in Names |-> NoUser]
    /\ cookie = {}
    /\ task = [c \in Clients |-> AccFree]
    /\ seeder = [p \in Seeders |-> "count"]
    /\ granted = [n \in Names |-> {}]
    /\ crossed = FALSE

Exists(n) == users[n] # NoUser
MayManageUsers(roles) == roles \intersect {"Admin", "ManageUsers"} # {}
Stands(c, job) == task' = [task EXCEPT ![c] = job]

-----------------------------------------------------------------------------
(* The first user. *)

CountUsers(p) ==
    /\ seeder[p] = "count"
    /\ seeder' = [seeder EXCEPT ![p] = IF \E n \in Names : Exists(n) THEN "done" ELSE "insert"]
    /\ UNCHANGED <<users, cookie, task, granted, crossed>>

\* Mutant: the seed replaces the user it finds.
Mutant_SeededUsers(pw) == [users EXCEPT !["admin"] = [hash |-> pw, roles |-> Roles]]

\* CreateUser of "admin" with every role: of two processes that counted none
\* the second gets a duplicate key, and does not start.
SeededUsers(pw) ==
    IF Exists("admin") THEN users
    ELSE [users EXCEPT !["admin"] = [hash |-> pw, roles |-> Roles]]

InsertAdmin(p, pw) ==
    /\ seeder[p] = "insert"
    /\ users' = SeededUsers(pw)
    /\ granted' = IF Exists("admin") THEN granted ELSE [granted EXCEPT !["admin"] = Roles]
    /\ seeder' = [seeder EXCEPT ![p] = "done"]
    /\ UNCHANGED <<cookie, task, crossed>>

\* The process is started again.
StartAgain(p) ==
    /\ seeder[p] = "done"
    /\ seeder' = [seeder EXCEPT ![p] = "count"]
    /\ UNCHANGED <<users, cookie, task, granted, crossed>>

-----------------------------------------------------------------------------
(* A session. *)

Login(n, pw) ==
    /\ Exists(n)
    /\ users[n].hash = pw
    /\ cookie' = cookie \union {n}
    /\ UNCHANGED <<users, task, seeder, granted, crossed>>

\* Logging out, or the thirty days are over.
Logout(n) ==
    /\ n \in cookie
    /\ cookie' = cookie \ {n}
    /\ UNCHANGED <<users, task, seeder, granted, crossed>>

\* Manager.Current: the row of the user the cookie names ...
ReadUser(c, n) ==
    /\ task[c] = AccFree
    /\ n \in cookie
    /\ Exists(n)
    /\ Stands(c, [at |-> "roles", who |-> n, hash |-> users[n].hash])
    /\ UNCHANGED <<users, cookie, seeder, granted, crossed>>

\* ... and the roles.
ReadRoles(c) ==
    /\ task[c].at = "roles"
    /\ Stands(c, [at |-> "in", who |-> task[c].who, hash |-> task[c].hash,
                  roles |-> users[task[c].who].roles])
    /\ UNCHANGED <<users, cookie, seeder, granted, crossed>>

-----------------------------------------------------------------------------
(* The screens: each handler was let in with the user read above. *)

LetIn(c) == task[c].at = "in"
Manages(c) == LetIn(c) /\ MayManageUsers(task[c].roles)
Answered(c) == Stands(c, AccFree)

\* userSave of a new name: the name is the key, whoever took it since.
CreateUser(c, n, pw, roles) ==
    /\ Manages(c)
    /\ ~Exists(n)
    /\ users' = [users EXCEPT ![n] = [hash |-> pw, roles |-> roles]]
    /\ granted' = [granted EXCEPT ![n] = @ \union roles]
    /\ Answered(c)
    /\ UNCHANGED <<cookie, seeder, crossed>>

\* userSave of an existing one.  A blank password leaves the hash alone: it is
\* the case that pw is the user's own.
UpdateUser(c, n, pw, roles) ==
    /\ Manages(c)
    /\ Exists(n)
    /\ users' = [users EXCEPT ![n] = [hash |-> pw, roles |-> roles]]
    /\ granted' = [granted EXCEPT ![n] = @ \union roles]
    /\ Answered(c)
    /\ UNCHANGED <<cookie, seeder, crossed>>

\* Mutant: your own account can be deleted.
Mutant_MayDelete(c, n) == TRUE

\* The account you are signed in with is not deleted.
MayDelete(c, n) == task[c].who # n

DeleteUser(c, n) ==
    /\ Manages(c)
    /\ MayDelete(c, n)
    /\ users' = [users EXCEPT ![n] = NoUser]
    /\ crossed' = (crossed \/ ~Exists(task[c].who))
    /\ Answered(c)
    /\ UNCHANGED <<cookie, seeder, granted>>

\* Mutant: the password page writes every role there is.
Mutant_RolesKept(c) == Roles

\* passwordSave: the roles read with the user go back with the new hash.
RolesKept(c) == task[c].roles

ChangePassword(c, old, pw) ==
    /\ LetIn(c)
    /\ task[c].hash = old
    /\ Exists(task[c].who)
    /\ users' = [users EXCEPT ![task[c].who] = [hash |-> pw, roles |-> RolesKept(c)]]
    /\ Answered(c)
    /\ UNCHANGED <<cookie, seeder, granted, crossed>>

\* Refused, failed or given up: nothing is written.
TurnAway(c) ==
    /\ task[c] # AccFree
    /\ Answered(c)
    /\ UNCHANGED <<users, cookie, seeder, granted, crossed>>

AccNext ==
    \/ \E p \in Seeders :
          CountUsers(p) \/ (\E pw \in Passwords : InsertAdmin(p, pw)) \/ StartAgain(p)
    \/ \E n \in Names : (\E pw \in Passwords : Login(n, pw)) \/ Logout(n)
    \/ \E c \in Clients :
          \/ \E n \in Names : ReadUser(c, n) \/ DeleteUser(c, n)
          \/ ReadRoles(c)
          \/ \E n \in Names, pw \in Passwords, roles \in SUBSET Roles :
                CreateUser(c, n, pw, roles) \/ UpdateUser(c, n, pw, roles)
          \/ \E old, pw \in Passwords : ChangePassword(c, old, pw)
          \/ TurnAway(c)

AccSpec == AccInit /\ [][AccNext]_accVars

-----------------------------------------------------------------------------
\* Nobody holds a role that neither the seed nor a manager ever gave to that
\* name, though every write replaces the whole role set: the password page
\* writes back roles it read earlier (passwordSave).
RolesWereGranted == \A n \in Names : users[n].roles \subseteq granted[n]

\* The blog never loses its last user, unless a delete was carried out for a
\* manager who had been deleted in the meantime: the screen refuses your own
\* account, and whoever deletes exists (userDelete, isSelf).
SomebodyIsLeft ==
    (\E n \in Names : granted[n] # {}) /\ ~crossed => \E n \in Names : Exists(n)

\* Starting a process never changes a user who exists: ADMIN_PASSWORD is
\* ignored from then on, also when two processes start at once (SeedAdmin).
SeedingChangesNobody ==
    [][seeder' # seeder => \A n \in Names : Exists(n) => users'[n] = users[n]]_accVars
=============================================================================
