---------------------------- MODULE AccessProofs ----------------------------
(***************************************************************************)
(* Theorems about Access, for any number of requests, users, addresses and *)
(* content types, whatever fails, and wherever the process stops.          *)
(***************************************************************************)
EXTENDS Access, FiniteSetTheorems, TLAPS

Server == {"seedRoles", "clearWorkflows", "seedWorkflows", "bootstrap",
           "bootstrapRole", "dev", "up", "down"}
StepType == {"idle", "insertUser", "link", "findUser", "clearRole", "insertRole",
             "clearType", "insertType", "exact", "wild", "reply"}
Origin == {"none", "bootstrap", "register", "sso", "created"}
User == [here : BOOLEAN, mail : Mails, by : Origin, roles : SUBSET Role]
JobType == [user : UserIds \cup {Nobody}, mail : Mails, by : Origin, role : Role,
            roles : SUBSET Role, perms : SUBSET Permission, todo : SUBSET Grant,
            types : SUBSET Types, saved : SUBSET Types, want : Permission,
            alone : BOOLEAN, ok : BOOLEAN]

Locals == pc \in [Clients -> StepType] /\ job \in [Clients -> JobType]

Tables ==
    /\ server \in Server
    /\ roleRows \in SUBSET Role
    /\ users \in [UserIds -> User]
    /\ grants \in SUBSET Grant

\* The ids of users are given in order, and nothing but the last id is looked for.
IdsInv == \E n \in 0..MaxUsers : Here = 1..n

-----------------------------------------------------------------------------
(* What the definitions give.                                              *)

LEMMA IdleTyped == IdleJob \in JobType /\ NoUser \in User /\ AdminMail \in Mails
  <1>1. NoUser.mail \in Mails /\ (CHOOSE m \in Mails : TRUE) \in Mails
    BY AccessAssumption DEF NoUser
  <1>2. NoUser \in User
    BY <1>1 DEF NoUser, User, Origin
  <1>3. [action |-> "read", subject |-> Any] \in Permission
    BY DEF Permission, Action
  <1>4. IdleJob \in JobType
    BY <1>1, <1>3 DEF IdleJob, JobType, Nobody, Origin, Role
  <1>5. AdminMail \in Mails
    BY <1>1, AccessAssumption DEF AdminMail
  <1> QED BY <1>2, <1>4, <1>5

\* The next id is one that no user has, next to those that are given.
LEMMA NextIdFree ==
    ASSUME NEW n \in 0..MaxUsers, Here = 1..n, Here # UserIds
    PROVE  n + 1 \in UserIds /\ NextId = n + 1 /\ NextId \notin Here
  <1>1. n + 1 \in UserIds \ Here /\ \A v \in UserIds \ Here : n + 1 <= v
    BY AccessAssumption DEF UserIds
  <1>2. \A u \in UserIds \ Here : (\A v \in UserIds \ Here : u <= v) => u = n + 1
    BY <1>1, AccessAssumption DEF UserIds
  <1> QED BY <1>1, <1>2 DEF NextId

LEMMA GrantedTyped ==
    ASSUME NEW r \in Role, NEW P \in SUBSET Permission
    PROVE  Granted(r, P) \in SUBSET Grant /\ \A g \in Granted(r, P) : g.role = r
  BY DEF Granted, Permission, Grant

LEMMA SeedTyped == SeedGrants \in SUBSET Grant /\ \A g \in SeedGrants : g.subject = Workflows
  <1>1. WorkflowPermissions \in SUBSET Permission
    BY DEF WorkflowPermissions, Permission, Action
  <1>2. "editor" \in Role /\ "super" \in Role
    BY DEF Role
  <1> QED BY <1>1, <1>2, GrantedTyped DEF SeedGrants, Granted, WorkflowPermissions

LEMMA StandardTyped ==
    ASSUME NEW t \in Types
    PROVE  Standard(t) \in SUBSET Grant /\ \A g \in Standard(t) : g.subject = t
  <1>1. /\ [action : Action, subject : {t}] \in SUBSET Permission
        /\ [action : {"read"}, subject : {t}] \in SUBSET Permission
    BY DEF Permission, Action
  <1>2. "editor" \in Role /\ "author" \in Role
    BY DEF Role
  <1> QED BY <1>1, <1>2, GrantedTyped DEF Standard, Granted

LEMMA GotoLocal ==
    ASSUME Locals, NEW c \in Clients, NEW s \in StepType, NEW l \in JobType,
           pc' = [pc EXCEPT ![c] = s], job' = [job EXCEPT ![c] = l]
    PROVE  /\ Locals'
           /\ pc'[c] = s /\ job'[c] = l
           /\ \A d \in Clients \ {c} : pc'[d] = pc[d] /\ job'[d] = job[d]
  BY DEF Locals

-----------------------------------------------------------------------------
(* Types.                                                                  *)

Records ==
    /\ asked \in [Role -> [known : BOOLEAN, grants : SUBSET Grant]]
    /\ seen \in [Clients -> [ever : BOOLEAN, always : BOOLEAN]]
    /\ logins \in Nat /\ calls \in 0..MaxCalls /\ logins <= calls

Typed == Locals /\ Tables /\ IdsInv /\ Records

\* What a request does to its locals, when it is at work.
LEMMA MovesTyped ==
    ASSUME Locals, Tables, IdsInv, NEW c \in Clients, Continue(c) \/ Fail(c)
    PROVE  /\ \E s \in StepType, l \in JobType : pc' = [pc EXCEPT ![c] = s] /\ job' = [job EXCEPT ![c] = l]
           /\ UNCHANGED <<deploy, server, starts, roleRows, logins, calls>>
  <1> USE DEF Goto
  <1>0. /\ IdleJob \in JobType /\ job[c] \in JobType /\ pc[c] \in StepType
        /\ "editor" \in Role
    BY IdleTyped DEF Locals, Role
  <1>1. CASE SsoFind(c)
    <2>1. SsoMail(job[c].mail) \in Mails
      BY <1>0, AccessAssumption DEF SsoMail, JobType
    <2>2. [job[c] EXCEPT !.mail = SsoMail(job[c].mail), !.by = "sso"] \in JobType
      BY <1>0, <2>1 DEF JobType, Origin
    <2> QED BY <1>0, <1>1, <2>2 DEF SsoFind, StepType
  <1>2. CASE InsertAdmin(c)
    <2>1. CanInsert(job[c].mail) => NextId \in UserIds
      BY NextIdFree DEF CanInsert, IdsInv
    <2>2. CanInsert(job[c].mail) => [job[c] EXCEPT !.user = NextId] \in JobType
      BY <1>0, <2>1 DEF JobType
    <2> QED BY <1>0, <1>2, <2>2 DEF InsertAdmin, StepType
  <1>3. CASE LinkAdmin(c) \/ RoleUpdated(c) \/ TypesGranted(c) \/ Replied(c) \/ Drop(c)
    BY <1>0, <1>3 DEF LinkAdmin, RoleUpdated, TypesGranted, Replied, Drop, StepType
  <1>4. CASE ClearRole(c)
    <2>1. [job[c] EXCEPT !.todo = Granted(job[c].role, job[c].perms)] \in JobType
      <3>1. Granted(job[c].role, job[c].perms) \in SUBSET Grant
        BY <1>0, GrantedTyped DEF JobType
      <3> QED BY <1>0, <3>1 DEF JobType
    <2> QED BY <1>4, <2>1 DEF ClearRole, StepType
  <1>5. CASE InsertOne(c)
    <2>1. ASSUME NEW g PROVE [job[c] EXCEPT !.todo = @ \ {g}] \in JobType
      BY <1>0 DEF JobType
    <2> QED BY <1>5, <2>1, <1>0 DEF InsertOne
  <1>6. CASE ClearType(c)
    <2>1. ASSUME NEW t \in job[c].types
          PROVE [job[c] EXCEPT !.types = @ \ {t}, !.todo = Standard(t)] \in JobType
      <3>1. Standard(t) \in SUBSET Grant
        BY <1>0, StandardTyped DEF JobType
      <3> QED BY <1>0, <3>1 DEF JobType
    <2> QED BY <1>6, <2>1 DEF ClearType, StepType
  <1>7. CASE NextType(c)
    BY <1>0, <1>7 DEF NextType, StepType
  <1>8. CASE GrantFails(c)
    <2>1. ASSUME NEW t PROVE [job[c] EXCEPT !.todo = {}, !.types = @ \ {t}, !.alone = FALSE] \in JobType
      BY <1>0 DEF JobType
    <2> QED BY <1>8, <2>1 DEF GrantFails, StepType
  <1>9. CASE CheckExact(c) \/ CheckWild(c)
    <2>1. ASSUME NEW ok \in BOOLEAN PROVE [job[c] EXCEPT !.ok = ok] \in JobType
      BY <1>0 DEF JobType
    <2>2. Wild(job[c].roles, job[c].want) \in BOOLEAN
      BY DEF Wild
    <2> QED BY <1>9, <2>1, <2>2, <1>0 DEF CheckExact, CheckWild, Answer, StepType
  <1> QED BY <1>1, <1>2, <1>3, <1>4, <1>5, <1>6, <1>7, <1>8, <1>9 DEF Continue, Fail

\* A request begins, with the locals of its call; the writers that are at
\* work are not alone any more.
LEMMA EntersTyped ==
    ASSUME Locals, Tables, IdsInv, NEW c \in Clients, Enter(c)
    PROVE  Locals'
  <1>0. /\ IdleJob \in JobType /\ "idle" \in StepType
        /\ \A d \in Clients : job[d] \in JobType /\ pc[d] \in StepType
    BY IdleTyped DEF Locals, StepType
  <1>1. CASE Register(c)
    <2>1. ASSUME NEW m \in Mails PROVE [IdleJob EXCEPT !.mail = m, !.by = "register"] \in JobType
      BY <1>0 DEF JobType, Origin
    <2> QED BY <1>1, <2>1, GotoLocal DEF Register, Begin, StepType
  <1>2. CASE SsoAuthorize(c)
    BY <1>0, <1>2, GotoLocal DEF SsoAuthorize, Begin
  <1>3. CASE SsoCallback(c)
    <2>1. ASSUME NEW m \in Mails PROVE [IdleJob EXCEPT !.mail = m] \in JobType
      BY <1>0 DEF JobType
    <2> QED BY <1>0, <1>3, <2>1, GotoLocal DEF SsoCallback, Begin, StepType
  <1>4. CASE CreateUser(c)
    BY <1>4 DEF CreateUser, Locals
  <1>5. ASSUME NEW s \in StepType, NEW l \in JobType, BeginWriting(c, s, l)
        PROVE  Locals'
    <2>1. [l EXCEPT !.alone = (Writing = {})] \in JobType
      <3>1. (Writing = {}) \in BOOLEAN
        OBVIOUS
      <3> QED BY <3>1 DEF JobType
    <2>2. ASSUME NEW d \in Clients PROVE [job[d] EXCEPT !.alone = FALSE] \in JobType
      BY <1>0 DEF JobType
    <2>3. job' \in [Clients -> JobType]
      BY <1>5, <2>1, <2>2 DEF BeginWriting
    <2> QED BY <1>5, <2>3 DEF BeginWriting, Locals
  <1>6. CASE UpdatePermissions(c)
    <2>1. ASSUME NEW r \in {"editor", "author"}, NEW perms \in Asked
          PROVE  [IdleJob EXCEPT !.role = r, !.perms = perms] \in JobType
      BY <1>0, AccessAssumption DEF JobType, Role
    <2> QED BY <1>6, <1>5, <2>1 DEF UpdatePermissions, StepType
  <1>7. CASE SaveTypes(c)
    <2>1. ASSUME NEW D \in SUBSET Types PROVE [IdleJob EXCEPT !.types = D, !.saved = D] \in JobType
      BY <1>0 DEF JobType
    <2> QED BY <1>7, <1>5, <2>1 DEF SaveTypes, StepType
  <1>8. CASE Request(c)
    <2>1. ASSUME NEW u \in Here, NEW t \in Types
          PROVE  [IdleJob EXCEPT !.user = u, !.roles = users[u].roles,
                                 !.want = [action |-> "read", subject |-> t]] \in JobType
      <3>1. u \in UserIds /\ users[u].roles \in SUBSET Role
        BY DEF Here, Tables, User
      <3>2. [action |-> "read", subject |-> t] \in Permission
        BY DEF Permission, Action
      <3> QED BY <1>0, <3>1, <3>2 DEF JobType
    <2> QED BY <1>8, <2>1, GotoLocal DEF Request, Begin, StepType
  <1> QED BY <1>1, <1>2, <1>3, <1>4, <1>6, <1>7, <1>8 DEF Enter
-----------------------------------------------------------------------------
(* The rows and the requests at work on them.                              *)

RowsInv ==
    /\ server \notin {"seedRoles", "down"} => roleRows = Role
    /\ \A c \in Clients : pc[c] # "idle" => Serving
    /\ server = "bootstrapRole" => 1 \in Here
    /\ \A c \in Clients : pc[c] = "link" => job[c].user \in Here
    /\ \A u \in UserIds : users[u].roles \subseteq roleRows
    /\ \A u, v \in Here : users[u].mail = users[v].mail => u = v
    /\ cutOff \subseteq Here

\* An account of SSO has the address as SsoMail spells it, from the lookup on.
SsoInv ==
    /\ \A u \in Here : users[u].by = "sso" => Lower(users[u].mail) = users[u].mail
    /\ \A c \in Clients : pc[c] = "insertUser" /\ job[c].by = "sso" => Lower(job[c].mail) = job[c].mail

\* Who is no Super Admin has one role at most: what a check found in its two
\* queries it found for the same role.
OneRole(roles) == "super" \in roles \/ \A r, s \in roles : r = s

RolesInv ==
    /\ \A u \in UserIds : OneRole(users[u].roles)
    /\ \A c \in Clients : pc[c] \in Checking => OneRole(job[c].roles) /\ job[c].want.subject \in Types

SeenInv ==
    \A c \in Clients :
        /\ pc[c] \notin Checking => seen[c] = [ever |-> FALSE, always |-> TRUE]
        /\ pc[c] \in Checking => /\ Allows(job[c].roles, job[c].want) => seen[c].ever
                                 /\ seen[c].always => Allows(job[c].roles, job[c].want)
        /\ pc[c] = "wild" => /\ "super" \notin job[c].roles
                             /\ seen[c].always => Wild(job[c].roles, job[c].want)
        /\ pc[c] = "reply" => (job[c].ok => seen[c].ever) /\ (seen[c].always => job[c].ok)

-----------------------------------------------------------------------------
(* The matrix and its writers.                                             *)

OnRole(c, r) == pc[c] \in {"clearRole", "insertRole"} /\ job[c].role = r
OnTypes(c) == pc[c] \in {"clearType", "insertType"}

\* An alone writer is the only one.
AloneInv == \A c \in Clients : c \in Writing /\ job[c].alone => Writing = {c}

\* What a role was given, and what an update still gives it, is its own.
OwnInv ==
    /\ \A r \in Role : \A g \in asked[r].grants : g.role = r
    /\ \A c \in Clients : pc[c] = "insertRole" => job[c].todo \subseteq Granted(job[c].role, job[c].perms)

\* A role no writer is at has what it was given.
AtRest ==
    server # "seedWorkflows" =>
        \A g \in Grant :
            asked[g.role].known /\ (\A c \in Clients : ~OnRole(c, g.role) /\ ~OnTypes(c))
                => (g \in grants <=> g \in asked[g.role].grants)

\* The seed: all but the permissions of workflows is untouched.
Seeding ==
    server = "seedWorkflows" =>
        /\ OfWorkflows \subseteq SeedGrants
        /\ \A g \in Grant :
              asked[g.role].known /\ g.subject # Workflows => (g \in grants <=> g \in asked[g.role].grants)

\* An update of a role that runs alone: what is to insert is all that lacks.
Updating(c) ==
    pc[c] = "insertRole" =>
        \A g \in Grant :
            g.role = job[c].role =>
                (g \in grants <=> g \in Granted(job[c].role, job[c].perms) /\ g \notin job[c].todo)

\* The grants of content types, alone: those done have their standard grants
\* but for what is to insert still, and the others are untouched.
Granting(c) ==
    OnTypes(c) =>
        LET done == job[c].saved \ job[c].types IN
        /\ job[c].types \subseteq job[c].saved
        /\ \A g \in job[c].todo : \E t \in done : g \in Standard(t)
        /\ pc[c] = "clearType" => job[c].todo = {}
        /\ \A g \in Grant :
              asked[g.role].known =>
                  (g \in grants <=>
                       /\ g \notin job[c].todo
                       /\ \/ g \in asked[g.role].grants /\ g.subject \notin done
                          \/ \E t \in done : g \in Standard(t))

MatrixInv ==
    /\ AloneInv /\ OwnInv /\ AtRest /\ Seeding
    /\ \A c \in Clients : c \in Writing /\ job[c].alone => Updating(c) /\ Granting(c)

-----------------------------------------------------------------------------
(* Rows that are inserted, and roles that are linked.                      *)

LEMMA Inserted ==
    ASSUME Tables, NEW n \in 0..MaxUsers, Here = 1..n, Here # UserIds,
           NEW mail \in Mails, NEW by \in Origin, InsertUser(NextId, mail, by)
    PROVE  /\ users' \in [UserIds -> User]
           /\ n + 1 \in 0..MaxUsers /\ Here' = 1..(n + 1) /\ Here' = Here \cup {NextId}
           /\ NextId \in UserIds \ Here /\ NextId = n + 1
           /\ users'[NextId] = [here |-> TRUE, mail |-> mail, by |-> by, roles |-> {}]
           /\ \A u \in UserIds \ {NextId} : users'[u] = users[u]
  <1>1. n + 1 \in UserIds /\ NextId = n + 1 /\ NextId \notin Here
    BY NextIdFree
  <1>2. [here |-> TRUE, mail |-> mail, by |-> by, roles |-> {}] \in User
    BY DEF User
  <1>3. /\ users' \in [UserIds -> User]
        /\ users'[NextId] = [here |-> TRUE, mail |-> mail, by |-> by, roles |-> {}]
        /\ \A u \in UserIds \ {NextId} : users'[u] = users[u]
    BY <1>1, <1>2 DEF InsertUser, Tables
  <1>4. Here' = Here \cup {NextId}
    BY <1>1, <1>3 DEF Here
  <1> QED BY <1>1, <1>3, <1>4, AccessAssumption DEF UserIds

LEMMA Linked ==
    ASSUME Tables, NEW id \in UserIds, NEW R \in SUBSET Role,
           users' = [users EXCEPT ![id].roles = R]
    PROVE  /\ users' \in [UserIds -> User]
           /\ Here' = Here
           /\ users'[id].roles = R
           /\ \A u \in UserIds : users'[u].mail = users[u].mail /\ users'[u].by = users[u].by
           /\ \A u \in UserIds \ {id} : users'[u] = users[u]
  <1>1. /\ users' \in [UserIds -> User]
        /\ users'[id] = [users[id] EXCEPT !.roles = R]
        /\ \A u \in UserIds \ {id} : users'[u] = users[u]
    BY DEF Tables, User
  <1>2. \A u \in UserIds : /\ users'[u].mail = users[u].mail
                           /\ users'[u].by = users[u].by
                           /\ users'[u].here = users[u].here
    BY <1>1 DEF Tables, User
  <1>3. Here' = Here
    BY <1>2 DEF Here
  <1>4. users'[id].roles = R
    BY <1>1 DEF Tables, User
  <1> QED BY <1>1, <1>2, <1>3, <1>4

LEMMA LinkedSuper ==
    ASSUME Tables, NEW id \in UserIds, LinkSuper(id)
    PROVE  /\ users' \in [UserIds -> User]
           /\ Here' = Here
           /\ users'[id].roles = users[id].roles \cup (roleRows \cap {"super"})
           /\ \A u \in UserIds : users'[u].mail = users[u].mail /\ users'[u].by = users[u].by
           /\ \A u \in UserIds \ {id} : users'[u] = users[u]
  <1>1. users[id].roles \cup (roleRows \cap {"super"}) \in SUBSET Role
    BY DEF Tables, User, Role
  <1>2. users' = [users EXCEPT ![id].roles = users[id].roles \cup (roleRows \cap {"super"})]
    BY DEF LinkSuper
  <1> QED BY <1>1, <1>2, Linked

-----------------------------------------------------------------------------
(* What every step does to the rows, to the matrix and to the locals.      *)

Steps == Process \/ \E c \in Clients : Enter(c) \/ Continue(c) \/ Fail(c)

\* A user is inserted: by an administrator, by the bootstrap of an empty
\* table, or by a request that goes on to link it.
UserAdded(mail, by) ==
    /\ Here # UserIds /\ \A u \in Here : users[u].mail # mail
    /\ InsertUser(NextId, mail, by)
    /\ \/ by = "created" /\ UNCHANGED <<server, pc, job, cutOff>>
       \/ by = "bootstrap" /\ NextId = 1 /\ server' = "bootstrapRole" /\ UNCHANGED <<pc, job, cutOff>>
       \/ \E c \in Clients : /\ pc[c] = "insertUser" /\ mail = job[c].mail /\ by = job[c].by
                             /\ pc' = [pc EXCEPT ![c] = "link"]
                             /\ job' = [job EXCEPT ![c] = [job[c] EXCEPT !.user = NextId]]
                             /\ UNCHANGED <<server, cutOff>>

\* A user is linked to Super Admin, at the end of its creation.
AdminLinked(id) ==
    /\ id \in Here /\ LinkSuper(id) /\ roleRows = Role /\ cutOff' = cutOff
    /\ \/ id = 1 /\ server = "bootstrapRole" /\ server' = "dev" /\ UNCHANGED <<pc, job>>
       \/ \E c \in Clients : /\ pc[c] = "link" /\ id = job[c].user /\ server' = server
                             /\ pc' = [pc EXCEPT ![c] = "idle"]
                             /\ job' = [job EXCEPT ![c] = IdleJob]

LEMMA AdminMailFree == ~HasAdmin => CanInsert(AdminMail) /\ NextId = 1
  <1>1. SUFFICES ASSUME Here = {} PROVE CanInsert(AdminMail) /\ NextId = 1
    BY DEF HasAdmin
  <1>2. 0 \in 0..MaxUsers /\ Here = 1..0 /\ Here # UserIds
    BY <1>1, AccessAssumption DEF UserIds
  <1> QED BY <1>1, <1>2, NextIdFree DEF CanInsert

\* Users stay as they are, one is inserted, or one is linked to a role.
LEMMA UsersChange ==
    ASSUME Typed, RowsInv, Steps
    PROVE  \/ UNCHANGED users
           \/ \E mail \in Mails, by \in Origin : UserAdded(mail, by)
           \/ \E id \in UserIds : AdminLinked(id)
           \/ AssignRole
  <1>1. CASE Process
    <2>1. CASE Bootstrap
      <3>1. CASE deploy.password /\ ~HasAdmin
        <4>1. /\ InsertUser(NextId, AdminMail, "bootstrap") /\ CanInsert(AdminMail) /\ NextId = 1
              /\ server' = "bootstrapRole" /\ UNCHANGED <<pc, job, cutOff>>
          BY <2>1, <3>1, AdminMailFree DEF Bootstrap, Start
        <4>2. UserAdded(AdminMail, "bootstrap")
          BY <4>1 DEF UserAdded, CanInsert
        <4> QED BY <4>2, IdleTyped DEF Origin
      <3> QED BY <2>1, <3>1 DEF Bootstrap
    <2>2. CASE BootstrapRole
      <3>1. 1 \in Here /\ 1 \in UserIds /\ roleRows = Role
        BY <2>2, AccessAssumption DEF BootstrapRole, RowsInv, UserIds
      <3>2. AdminLinked(1)
        BY <2>2, <3>1 DEF BootstrapRole, AdminLinked, Start
      <3> QED BY <3>1, <3>2
    <2> QED BY <1>1, <2>1, <2>2
         DEF Process, Starting, SeedRoles, ClearWorkflows, SeedWorkflow, WorkflowsSeeded,
             DevImports, BootstrapFails, Restart, Crash, Start
  <1>2. ASSUME NEW c \in Clients, Enter(c)
        PROVE  UNCHANGED users \/ \E mail \in Mails, by \in Origin : UserAdded(mail, by)
    <2>1. CASE CreateUser(c)
      <3>1. PICK m \in Mails : CanInsert(m) /\ InsertUser(NextId, m, "created")
        BY <2>1 DEF CreateUser
      <3>2. UserAdded(m, "created")
        BY <2>1, <3>1 DEF CreateUser, UserAdded, CanInsert
      <3> QED BY <3>2 DEF Origin
    <2> QED BY <1>2, <2>1
         DEF Enter, Register, SsoAuthorize, SsoCallback, UpdatePermissions, SaveTypes, Request, BeginWriting
  <1>3. ASSUME NEW c \in Clients, Continue(c) \/ Fail(c)
        PROVE  \/ UNCHANGED users
               \/ \E mail \in Mails, by \in Origin : UserAdded(mail, by)
               \/ \E id \in UserIds : AdminLinked(id)
    <2>1. CASE InsertAdmin(c)
      <3>1. job[c].mail \in Mails /\ job[c].by \in Origin
        BY DEF Typed, Locals, JobType
      <3>2. CASE CanInsert(job[c].mail)
        <4>1. /\ pc[c] = "insertUser" /\ InsertUser(NextId, job[c].mail, job[c].by)
              /\ pc' = [pc EXCEPT ![c] = "link"]
              /\ job' = [job EXCEPT ![c] = [job[c] EXCEPT !.user = NextId]]
              /\ UNCHANGED <<server, cutOff>>
          BY <2>1, <3>2 DEF InsertAdmin, Goto
        <4>2. UserAdded(job[c].mail, job[c].by)
          BY <3>2, <4>1 DEF UserAdded, CanInsert
        <4> QED BY <3>1, <4>2
      <3> QED BY <2>1, <3>2 DEF InsertAdmin
    <2>2. CASE LinkAdmin(c)
      <3>1. job[c].user \in Here /\ job[c].user \in UserIds /\ roleRows = Role
        BY <2>2 DEF RowsInv, LinkAdmin, Here, Serving
      <3>2. AdminLinked(job[c].user)
        BY <2>2, <3>1 DEF LinkAdmin, AdminLinked, Goto
      <3> QED BY <3>1, <3>2
    <2> QED BY <1>3, <2>1, <2>2
         DEF Continue, Fail, SsoFind, ClearRole, InsertOne, RoleUpdated, ClearType, NextType,
             TypesGranted, CheckExact, CheckWild, Replied, GrantFails, Drop
  <1> QED BY <1>1, <1>2, <1>3 DEF Steps, Process

\* What that means for the table of users.
LEMMA RoleAssigned ==
    ASSUME Tables, AssignRole
    PROVE  \E id \in Here, r \in {"editor", "author"} :
              /\ users[id].by = "created" /\ users[id].roles = {}
              /\ users' \in [UserIds -> User]
              /\ Here' = Here
              /\ users'[id].roles = {r}
              /\ \A u \in UserIds : users'[u].mail = users[u].mail /\ users'[u].by = users[u].by
              /\ \A u \in UserIds \ {id} : users'[u] = users[u]
  <1>1. PICK id \in Here, r \in {"editor", "author"} :
             /\ users[id].by = "created" /\ users[id].roles = {}
             /\ users' = [users EXCEPT ![id].roles = {r}]
    BY DEF AssignRole
  <1>2. id \in UserIds /\ {r} \in SUBSET Role
    BY DEF Here, Role
  <1> QED BY <1>1, <1>2, Linked

LEMMA Added ==
    ASSUME Typed, NEW mail \in Mails, NEW by \in Origin, UserAdded(mail, by)
    PROVE  /\ users' \in [UserIds -> User] /\ IdsInv'
           /\ Here' = Here \cup {NextId} /\ NextId \in UserIds \ Here
           /\ users'[NextId].mail = mail /\ users'[NextId].by = by /\ users'[NextId].roles = {}
           /\ \A u \in UserIds \ {NextId} : users'[u] = users[u]
  <1>1. PICK n \in 0..MaxUsers : Here = 1..n
    BY DEF Typed, IdsInv
  <1>2. /\ n + 1 \in 0..MaxUsers /\ Here' = 1..(n + 1)
        /\ users' \in [UserIds -> User]
        /\ Here' = Here \cup {NextId} /\ NextId \in UserIds \ Here
        /\ users'[NextId] = [here |-> TRUE, mail |-> mail, by |-> by, roles |-> {}]
        /\ \A u \in UserIds \ {NextId} : users'[u] = users[u]
    BY <1>1, Inserted DEF Typed, UserAdded
  <1>3. IdsInv'
    BY <1>2 DEF IdsInv
  <1>4. users'[NextId].mail = mail /\ users'[NextId].by = by /\ users'[NextId].roles = {}
    BY <1>2
  <1> QED BY <1>2, <1>3, <1>4

LEMMA UsersStep ==
    ASSUME Typed, RowsInv, Steps
    PROVE  /\ users' \in [UserIds -> User] /\ IdsInv' /\ Here \subseteq Here'
           /\ \A u \in Here : users'[u].mail = users[u].mail /\ users'[u].by = users[u].by
  <1>1. CASE UNCHANGED users
    BY <1>1 DEF Typed, Tables, IdsInv, Here
  <1>2. ASSUME NEW mail \in Mails, NEW by \in Origin, UserAdded(mail, by)
        PROVE  /\ users' \in [UserIds -> User] /\ IdsInv' /\ Here \subseteq Here'
               /\ \A u \in Here : users'[u].mail = users[u].mail /\ users'[u].by = users[u].by
    BY <1>2, Added DEF Here
  <1>3. ASSUME NEW id \in UserIds, AdminLinked(id)
        PROVE  /\ users' \in [UserIds -> User] /\ IdsInv' /\ Here \subseteq Here'
               /\ \A u \in Here : users'[u].mail = users[u].mail /\ users'[u].by = users[u].by
    BY <1>3, LinkedSuper DEF Typed, IdsInv, AdminLinked, Here
  <1>4. CASE AssignRole
    <2>1. /\ users' \in [UserIds -> User] /\ Here' = Here
          /\ \A u \in UserIds : users'[u].mail = users[u].mail /\ users'[u].by = users[u].by
      BY <1>4, RoleAssigned DEF Typed
    <2> QED BY <2>1 DEF Typed, IdsInv, Here
  <1> QED BY <1>1, <1>2, <1>3, <1>4, UsersChange

LEMMA GrantsStep ==
    ASSUME Typed, Steps
    PROVE  grants' \in SUBSET Grant
  <1>0. grants \in SUBSET Grant
    BY DEF Typed, Tables
  <1>1. CASE Process
    BY <1>0, <1>1, SeedTyped
    DEF Process, Starting, SeedRoles, ClearWorkflows, SeedWorkflow, WorkflowsSeeded, Bootstrap,
        BootstrapRole, DevImports, BootstrapFails, Restart, Crash, AssignRole
  <1>2. ASSUME NEW c \in Clients, Enter(c) PROVE grants' \in SUBSET Grant
    BY <1>0, <1>2
    DEF Enter, Register, SsoAuthorize, SsoCallback, CreateUser, UpdatePermissions, SaveTypes,
        Request, BeginWriting
  <1>3. ASSUME NEW c \in Clients, Continue(c) \/ Fail(c) PROVE grants' \in SUBSET Grant
    <2>1. CASE InsertOne(c)
      <3>1. job[c].todo \in SUBSET Grant
        BY DEF Typed, Locals, JobType
      <3> QED BY <2>1, <3>1, <1>0 DEF InsertOne
    <2> QED BY <1>0, <1>3, <2>1
         DEF Continue, Fail, SsoFind, InsertAdmin, LinkAdmin, ClearRole, RoleUpdated, ClearType,
             NextType, TypesGranted, CheckExact, CheckWild, Replied, GrantFails, Drop
  <1> QED BY <1>1, <1>2, <1>3 DEF Steps

LEMMA RegrantedTyped ==
    ASSUME asked \in [Role -> [known : BOOLEAN, grants : SUBSET Grant]],
           NEW r \in Role, NEW T \in SUBSET Types
    PROVE  /\ Regranted(r, T) \in [known : BOOLEAN, grants : SUBSET Grant]
           /\ Reseeded(r) \in [known : BOOLEAN, grants : SUBSET Grant]
           /\ Unknown \in [known : BOOLEAN, grants : SUBSET Grant]
  <1>1. Unknown \in [known : BOOLEAN, grants : SUBSET Grant]
    BY DEF Unknown
  <1>2. ASSUME NEW G \in SUBSET Grant PROVE Known(G) \in [known : BOOLEAN, grants : SUBSET Grant]
    BY DEF Known
  <1>3. asked[r].grants \in SUBSET Grant
    OBVIOUS
  <1>4. UNION {{g \in Standard(t) : g.role = r} : t \in T} \in SUBSET Grant
    BY StandardTyped
  <1>5. Regranted(r, T) \in [known : BOOLEAN, grants : SUBSET Grant]
    BY <1>1, <1>2, <1>3, <1>4 DEF Regranted
  <1>6. Reseeded(r) \in [known : BOOLEAN, grants : SUBSET Grant]
    BY <1>1, <1>2, <1>3, SeedTyped DEF Reseeded
  <1> QED BY <1>1, <1>5, <1>6

LEMMA AskedStep ==
    ASSUME Typed, Steps
    PROVE  asked' \in [Role -> [known : BOOLEAN, grants : SUBSET Grant]]
  <1> DEFINE A == [known : BOOLEAN, grants : SUBSET Grant]
  <1>0. asked \in [Role -> A] /\ Unsettled \in [Role -> A] /\ Unknown \in A
    BY RegrantedTyped DEF Typed, Records, Unsettled, Unknown
  <1>1. CASE Process
    <2>1. CASE WorkflowsSeeded
      BY <2>1, <1>0, RegrantedTyped DEF WorkflowsSeeded
    <2> QED BY <1>0, <1>1, <2>1
         DEF Process, Starting, SeedRoles, ClearWorkflows, SeedWorkflow, Bootstrap,
             BootstrapRole, DevImports, BootstrapFails, Restart, Crash, AssignRole
  <1>2. ASSUME NEW c \in Clients, Enter(c) PROVE asked' \in [Role -> A]
    BY <1>0, <1>2
    DEF Enter, Register, SsoAuthorize, SsoCallback, CreateUser, UpdatePermissions, SaveTypes,
        Request, BeginWriting
  <1>3. ASSUME NEW c \in Clients, Continue(c) \/ Fail(c) PROVE asked' \in [Role -> A]
    <2>0. job[c] \in JobType
      BY DEF Typed, Locals
    <2>1. CASE RoleUpdated(c)
      <3>1. job[c].role \in Role /\ job[c].perms \in SUBSET Permission
        BY <2>0 DEF JobType
      <3>2. Known(Granted(job[c].role, job[c].perms)) \in A
        BY <3>1, GrantedTyped DEF Known
      <3> QED BY <2>1, <3>1, <3>2, <1>0 DEF RoleUpdated
    <2>2. CASE TypesGranted(c)
      <3>1. job[c].saved \in SUBSET Types
        BY <2>0 DEF JobType
      <3> QED BY <2>2, <3>1, <1>0, RegrantedTyped DEF TypesGranted
    <2> QED BY <1>0, <1>3, <2>1, <2>2
         DEF Continue, Fail, SsoFind, InsertAdmin, LinkAdmin, ClearRole, InsertOne, ClearType,
             NextType, CheckExact, CheckWild, Replied, GrantFails, Drop
  <1> QED BY <1>1, <1>2, <1>3 DEF Steps

LEMMA CountersStep ==
    ASSUME Typed, Steps
    PROVE  logins' \in Nat /\ calls' \in 0..MaxCalls /\ logins' <= calls'
  <1>0. logins \in Nat /\ calls \in 0..MaxCalls /\ logins <= calls /\ MaxCalls \in Nat
    BY AccessAssumption DEF Typed, Records
  <1>1. CASE Process
    BY <1>0, <1>1
    DEF Process, Starting, SeedRoles, ClearWorkflows, SeedWorkflow, WorkflowsSeeded, Bootstrap,
        BootstrapRole, DevImports, BootstrapFails, Restart, Crash, AssignRole, Start
  <1>2. ASSUME NEW c \in Clients, Enter(c)
        PROVE  logins' \in Nat /\ calls' \in 0..MaxCalls /\ logins' <= calls'
    <2>1. CASE Register(c) \/ UpdatePermissions(c) \/ SaveTypes(c) \/ Request(c)
      <3>1. logins' = logins /\ Call(c)
        BY <2>1 DEF Register, UpdatePermissions, SaveTypes, Request, BeginWriting
      <3> QED BY <1>0, <3>1 DEF Call
    <2>2. CASE SsoAuthorize(c)
      BY <1>0, <2>2 DEF SsoAuthorize, Call
    <2>3. CASE SsoCallback(c)
      BY <1>0, <2>3 DEF SsoCallback
    <2>4. CASE CreateUser(c)
      BY <1>0, <2>4 DEF CreateUser
    <2> QED BY <1>2, <2>1, <2>2, <2>3, <2>4 DEF Enter
  <1>3. ASSUME NEW c \in Clients, Continue(c) \/ Fail(c)
        PROVE  UNCHANGED <<logins, calls>>
    BY <1>3, MovesTyped DEF Typed
  <1> QED BY <1>0, <1>1, <1>2, <1>3 DEF Steps

LEMMA ServerStep ==
    ASSUME Typed, Steps
    PROVE  server' \in Server /\ roleRows' \in SUBSET Role
  <1>0. server \in Server /\ roleRows \in SUBSET Role
    BY DEF Typed, Tables
  <1>1. CASE Process
    BY <1>0, <1>1
    DEF Process, Starting, SeedRoles, ClearWorkflows, SeedWorkflow, WorkflowsSeeded, Bootstrap,
        BootstrapRole, DevImports, BootstrapFails, Restart, Crash, AssignRole, Start, Server
  <1>2. ASSUME NEW c \in Clients, Enter(c) PROVE UNCHANGED <<server, roleRows>>
    BY <1>2
    DEF Enter, Register, SsoAuthorize, SsoCallback, CreateUser, UpdatePermissions, SaveTypes,
        Request, BeginWriting, Begin
  <1>3. ASSUME NEW c \in Clients, Continue(c) \/ Fail(c) PROVE UNCHANGED <<server, roleRows>>
    BY <1>3, MovesTyped DEF Typed
  <1> QED BY <1>0, <1>1, <1>2, <1>3 DEF Steps

LEMMA LocalsStep ==
    ASSUME Typed, Steps
    PROVE  Locals'
  <1>1. CASE Process
    <2>1. CASE Crash
      BY <2>1, IdleTyped DEF Crash, Locals, StepType
    <2> QED BY <1>1, <2>1
         DEF Process, Starting, SeedRoles, ClearWorkflows, SeedWorkflow, WorkflowsSeeded, Bootstrap,
             BootstrapRole, DevImports, BootstrapFails, Restart, AssignRole, Start, Typed, Locals
  <1>2. ASSUME NEW c \in Clients, Enter(c) PROVE Locals'
    BY <1>2, EntersTyped DEF Typed
  <1>3. ASSUME NEW c \in Clients, Continue(c) \/ Fail(c) PROVE Locals'
    BY <1>3, MovesTyped, GotoLocal DEF Typed
  <1> QED BY <1>1, <1>2, <1>3 DEF Steps

LEMMA TypedStep ==
    ASSUME Typed, RowsInv, Next
    PROVE  Typed'
  <1>1. Steps /\ See
    BY DEF Next, Steps, Histories
  <1>2. seen' \in [Clients -> [ever : BOOLEAN, always : BOOLEAN]]
    <2>1. \A c \in Clients : seen[c].ever \in BOOLEAN /\ seen[c].always \in BOOLEAN
      BY DEF Typed, Records
    <2>2. \A roles, want : Allows(roles, want)' \in BOOLEAN
      BY DEF Allows, Exact, Wild
    <2> QED BY <1>1, <2>1, <2>2 DEF See
  <1> QED BY <1>1, <1>2, LocalsStep, UsersStep, GrantsStep, AskedStep, CountersStep, ServerStep
       DEF Typed, Tables, Records

-----------------------------------------------------------------------------
(* Who moves.                                                              *)

\* A request keeps its step and its locals, but that it may be alone no more.
Keeps(d) ==
    /\ pc'[d] = pc[d]
    /\ job'[d].user = job[d].user /\ job'[d].mail = job[d].mail /\ job'[d].by = job[d].by
    /\ job'[d].role = job[d].role /\ job'[d].roles = job[d].roles /\ job'[d].perms = job[d].perms
    /\ job'[d].todo = job[d].todo /\ job'[d].types = job[d].types /\ job'[d].saved = job[d].saved
    /\ job'[d].want = job[d].want /\ job'[d].ok = job[d].ok
    /\ job'[d].alone => job[d].alone

\* The first step of each call, or none.
Entry == {"idle", "insertUser", "findUser", "clearRole", "clearType", "exact"}

LEMMA EnterEffect ==
    ASSUME Typed, NEW c \in Clients, Enter(c)
    PROVE  /\ pc[c] = "idle" /\ Serving /\ pc'[c] \in Entry
           /\ UNCHANGED <<server, roleRows, grants, cutOff, asked>>
           /\ \A d \in Clients \ {c} : Keeps(d)
  <1>0. pc \in [Clients -> StepType] /\ job \in [Clients -> JobType]
    BY DEF Typed, Locals
  <1>1. CASE Register(c) \/ SsoAuthorize(c) \/ SsoCallback(c) \/ Request(c)
    <2>1. /\ pc[c] = "idle" /\ Serving /\ UNCHANGED <<server, roleRows, grants, cutOff, asked>>
          /\ \E s \in Entry : \E l : pc' = [pc EXCEPT ![c] = s] /\ job' = [job EXCEPT ![c] = l]
      BY <1>1 DEF Register, SsoAuthorize, SsoCallback, Request, Call, Begin, Entry
    <2> QED BY <1>0, <2>1 DEF Keeps
  <1>2. CASE CreateUser(c)
    BY <1>0, <1>2 DEF CreateUser, Keeps, Entry
  <1>3. CASE UpdatePermissions(c) \/ SaveTypes(c)
    <2>1. /\ pc[c] = "idle" /\ Serving
          /\ \E l : \E s \in {"clearRole", "clearType"} : BeginWriting(c, s, l)
      BY <1>3 DEF UpdatePermissions, SaveTypes, Call
    <2>2. /\ pc'[c] \in Entry /\ UNCHANGED <<server, roleRows, grants, cutOff, asked>>
          /\ \A d \in Clients \ {c} : pc'[d] = pc[d] /\ job'[d] = [job[d] EXCEPT !.alone = FALSE]
      BY <1>0, <2>1 DEF BeginWriting, Entry
    <2>3. ASSUME NEW d \in Clients \ {c} PROVE Keeps(d)
      <3>1. job[d] \in JobType /\ pc'[d] = pc[d] /\ job'[d] = [job[d] EXCEPT !.alone = FALSE]
        BY <1>0, <2>2
      <3> QED BY <3>1 DEF JobType, Keeps
    <2> QED BY <2>1, <2>2, <2>3
  <1> QED BY <1>1, <1>2, <1>3 DEF Enter

LEMMA MoveEffect ==
    ASSUME Typed, NEW c \in Clients, Continue(c) \/ Fail(c)
    PROVE  \A d \in Clients \ {c} : pc'[d] = pc[d] /\ job'[d] = job[d] /\ Keeps(d)
  <1>1. \E s \in StepType, l \in JobType : pc' = [pc EXCEPT ![c] = s] /\ job' = [job EXCEPT ![c] = l]
    BY MovesTyped DEF Typed
  <1> QED BY <1>1, GotoLocal DEF Typed, Keeps

-----------------------------------------------------------------------------
(* The creation of a user comes to its link, or is cut off.                *)

LEMMA CreationStep ==
    ASSUME Typed, RowsInv, Steps
    PROVE  /\ cutOff \subseteq cutOff' /\ cutOff' \subseteq Here
           /\ \A c \in Clients : pc[c] = "link" =>
                 \/ pc'[c] = "link" /\ job'[c].user = job[c].user
                 \/ job[c].user \in cutOff'
                 \/ AdminLinked(job[c].user)
           /\ \A c \in Clients : pc'[c] = "link" =>
                 \/ pc[c] = "link" /\ job'[c].user = job[c].user
                 \/ job'[c].user \in Here'
           /\ server = "bootstrapRole" =>
                 server' = "bootstrapRole" \/ 1 \in cutOff' \/ AdminLinked(1)
  <1> DEFINE Claim == /\ cutOff \subseteq cutOff' /\ cutOff' \subseteq Here
                      /\ \A c \in Clients : pc[c] = "link" =>
                            \/ pc'[c] = "link" /\ job'[c].user = job[c].user
                            \/ job[c].user \in cutOff'
                            \/ AdminLinked(job[c].user)
                      /\ \A c \in Clients : pc'[c] = "link" =>
                            \/ pc[c] = "link" /\ job'[c].user = job[c].user
                            \/ job'[c].user \in Here'
                      /\ server = "bootstrapRole" =>
                            server' = "bootstrapRole" \/ 1 \in cutOff' \/ AdminLinked(1)
  <1>0. cutOff \subseteq Here /\ (server = "bootstrapRole" => 1 \in Here)
        /\ \A c \in Clients : pc[c] = "link" => job[c].user \in Here
    BY DEF RowsInv
  <1>1. CASE Process
    <2>1. CASE Crash
      <3>1. \A c \in Clients : pc[c] = "link" => job[c].user \in Creating
        BY DEF Creating
      <3>2. Creating \subseteq Here
        BY <1>0 DEF Creating
      <3>3. cutOff' = cutOff \cup Creating \cup (IF server = "bootstrapRole" THEN {1} ELSE {})
            /\ \A c \in Clients : pc'[c] = "idle"
        BY <2>1 DEF Crash
      <3>4. cutOff \subseteq cutOff' /\ cutOff' \subseteq Here
        BY <1>0, <3>2, <3>3
      <3> QED BY <3>1, <3>3, <3>4
    <2>2. CASE BootstrapRole
      <3>1. AdminLinked(1)
        BY <1>0, <2>2 DEF BootstrapRole, AdminLinked, Start, RowsInv
      <3> QED BY <1>0, <2>2, <3>1 DEF BootstrapRole, Start
    <2>3. CASE BootstrapFails
      BY <1>0, <2>3 DEF BootstrapFails, Start
    <2> QED BY <1>0, <1>1, <2>1, <2>2, <2>3
         DEF Process, Starting, SeedRoles, ClearWorkflows, SeedWorkflow, WorkflowsSeeded, Bootstrap,
             DevImports, Restart, AssignRole, Start
  <1>2. ASSUME NEW c \in Clients, Enter(c) PROVE Claim
    BY <1>0, <1>2, EnterEffect DEF Keeps, Entry
  <1>3. ASSUME NEW c \in Clients, Continue(c) \/ Fail(c) PROVE Claim
    <2>0. /\ \A d \in Clients \ {c} : pc'[d] = pc[d] /\ job'[d] = job[d]
          /\ UNCHANGED server
      BY <1>3, MoveEffect, MovesTyped DEF Typed
    <2>1. CASE InsertAdmin(c)
      <3>1. CASE CanInsert(job[c].mail)
        <4>1. PICK n \in 0..MaxUsers : Here = 1..n
          BY DEF Typed, IdsInv
        <4>2. /\ pc[c] = "insertUser" /\ InsertUser(NextId, job[c].mail, job[c].by)
              /\ job' = [job EXCEPT ![c] = [job[c] EXCEPT !.user = NextId]]
              /\ cutOff' = cutOff
          BY <2>1, <3>1 DEF InsertAdmin, Goto
        <4>3. job[c] \in JobType
          BY DEF Typed, Locals
        <4>4. NextId \in Here'
          BY <3>1, <4>1, <4>2, <4>3, Inserted DEF CanInsert, Typed, JobType
        <4>5. job'[c].user \in Here'
          BY <4>2, <4>3, <4>4 DEF Typed, Locals, JobType
        <4> QED BY <1>0, <2>0, <4>2, <4>5
      <3>2. CASE ~CanInsert(job[c].mail)
        <4>1. pc[c] # "link" /\ pc'[c] # "link" /\ cutOff' = cutOff
          BY <2>1, <3>2 DEF InsertAdmin, Goto, Typed, Locals
        <4> QED BY <1>0, <2>0, <4>1
      <3> QED BY <3>1, <3>2
    <2>2. CASE LinkAdmin(c)
      <3>1. AdminLinked(job[c].user) /\ cutOff' = cutOff /\ pc'[c] # "link"
        BY <1>0, <2>2 DEF LinkAdmin, AdminLinked, Goto, RowsInv, Serving, Typed, Locals
      <3> QED BY <1>0, <2>0, <3>1
    <2>3. CASE Drop(c)
      <3>1. /\ pc'[c] # "link"
            /\ cutOff' = IF pc[c] = "link" THEN cutOff \cup {job[c].user} ELSE cutOff
        BY <2>3 DEF Drop, Goto, Typed, Locals
      <3> QED BY <1>0, <2>0, <3>1
    <2>4. CASE \/ SsoFind(c) \/ ClearRole(c) \/ InsertOne(c) \/ RoleUpdated(c) \/ ClearType(c)
               \/ NextType(c) \/ TypesGranted(c) \/ CheckExact(c) \/ CheckWild(c) \/ Replied(c)
               \/ GrantFails(c)
      <3>1. pc[c] # "link" /\ pc'[c] # "link" /\ cutOff' = cutOff
        BY <2>4 DEF SsoFind, ClearRole, InsertOne, RoleUpdated, ClearType, NextType, TypesGranted,
                    CheckExact, CheckWild, Replied, GrantFails, Answer, Goto, Typed, Locals
      <3> QED BY <1>0, <2>0, <3>1
    <2> QED BY <1>3, <2>1, <2>2, <2>3, <2>4 DEF Continue, Fail
  <1> QED BY <1>1, <1>2, <1>3 DEF Steps

\* The roles are there once they are seeded, and requests only while the
\* server serves.
LEMMA ServingStep ==
    ASSUME Typed, RowsInv, Steps
    PROVE  /\ server' \notin {"seedRoles", "down"} => roleRows' = Role
           /\ roleRows \subseteq roleRows'
           /\ \A c \in Clients : pc'[c] # "idle" => server' = "up"
           /\ server' = "bootstrapRole" => 1 \in Here'
  <1>0. /\ server \notin {"seedRoles", "down"} => roleRows = Role
        /\ roleRows \subseteq Role
        /\ \A c \in Clients : pc[c] # "idle" => server = "up"
        /\ server = "bootstrapRole" => 1 \in Here
        /\ Here \subseteq Here'
    BY UsersStep DEF RowsInv, Serving, Typed, Tables
  <1>1. CASE Process
    <2>1. CASE Bootstrap
      <3>1. CASE deploy.password /\ ~HasAdmin
        <4>1. InsertUser(NextId, AdminMail, "bootstrap") /\ NextId = 1 /\ Here # UserIds
          BY <2>1, <3>1, AdminMailFree DEF Bootstrap, CanInsert
        <4>2. PICK n \in 0..MaxUsers : Here = 1..n
          BY DEF Typed, IdsInv
        <4>3. 1 \in Here'
          BY <4>1, <4>2, Inserted, IdleTyped DEF Typed, Origin
        <4> QED BY <1>0, <2>1, <4>3 DEF Bootstrap, Start
      <3> QED BY <1>0, <2>1, <3>1 DEF Bootstrap, Start
    <2>2. CASE AssignRole \/ BootstrapRole \/ BootstrapFails
      BY <1>0, <2>2 DEF AssignRole, BootstrapRole, BootstrapFails, Start
    <2> QED BY <1>0, <1>1, <2>1, <2>2
         DEF Process, Starting, SeedRoles, ClearWorkflows, SeedWorkflow, WorkflowsSeeded,
             DevImports, Restart, Crash, Start
  <1>2. ASSUME NEW c \in Clients, Enter(c)
        PROVE  UNCHANGED <<server, roleRows>> /\ \A d \in Clients : pc'[d] # "idle" => server = "up"
    BY <1>0, <1>2, EnterEffect DEF Serving, Keeps
  <1>3. ASSUME NEW c \in Clients, Continue(c) \/ Fail(c)
        PROVE  UNCHANGED <<server, roleRows>> /\ \A d \in Clients : pc'[d] # "idle" => server = "up"
    <2>1. pc[c] # "idle"
      BY <1>3 DEF Continue, Fail, SsoFind, InsertAdmin, LinkAdmin, ClearRole, InsertOne, RoleUpdated,
                  ClearType, NextType, TypesGranted, CheckExact, CheckWild, Replied, GrantFails, Drop
    <2> QED BY <1>0, <1>3, <2>1, MoveEffect, MovesTyped DEF Typed
  <1> QED BY <1>0, <1>1, <1>2, <1>3 DEF Steps

LEMMA RowsStep ==
    ASSUME Typed, RowsInv, Steps
    PROVE  RowsInv'
  <1>1. \A c \in Clients : pc'[c] = "link" => job'[c].user \in Here'
    BY CreationStep, UsersStep DEF RowsInv
  <1>2. cutOff' \subseteq Here'
    BY CreationStep, UsersStep
  <1>3. /\ \A u \in UserIds : users'[u].roles \subseteq roleRows'
        /\ \A u, v \in Here' : users'[u].mail = users'[v].mail => u = v
    <2>0. /\ \A u \in UserIds : users[u].roles \subseteq roleRows
          /\ \A u, v \in Here : users[u].mail = users[v].mail => u = v
          /\ roleRows \subseteq roleRows' /\ Here \subseteq UserIds
      BY ServingStep DEF RowsInv, Here
    <2>1. CASE UNCHANGED users
      BY <2>0, <2>1 DEF Here
    <2>2. ASSUME NEW mail \in Mails, NEW by \in Origin, UserAdded(mail, by)
          PROVE  /\ \A u \in UserIds : users'[u].roles \subseteq roleRows'
                 /\ \A u, v \in Here' : users'[u].mail = users'[v].mail => u = v
      <3>1. /\ Here' = Here \cup {NextId} /\ NextId \in UserIds \ Here
            /\ users'[NextId].mail = mail /\ users'[NextId].roles = {}
            /\ \A u \in UserIds \ {NextId} : users'[u] = users[u]
        BY <2>2, Added
      <3>2. \A u \in Here : users[u].mail # mail
        BY <2>2 DEF UserAdded
      <3>3. \A u \in UserIds : users'[u].roles \subseteq roleRows'
        BY <2>0, <3>1
      <3>4. \A u, v \in Here' : users'[u].mail = users'[v].mail => u = v
        BY <2>0, <3>1, <3>2
      <3> QED BY <3>3, <3>4
    <2>3. ASSUME NEW id \in UserIds, AdminLinked(id)
          PROVE  /\ \A u \in UserIds : users'[u].roles \subseteq roleRows'
                 /\ \A u, v \in Here' : users'[u].mail = users'[v].mail => u = v
      <3>1. /\ Here' = Here
            /\ users'[id].roles = users[id].roles \cup (roleRows \cap {"super"})
            /\ \A u \in UserIds : users'[u].mail = users[u].mail
            /\ \A u \in UserIds \ {id} : users'[u] = users[u]
        BY <2>3, LinkedSuper DEF AdminLinked, Typed
      <3> QED BY <2>0, <3>1
    <2>4. CASE AssignRole
      <3>1. PICK id \in Here, r \in {"editor", "author"} :
                /\ Here' = Here
                /\ users'[id].roles = {r}
                /\ \A u \in UserIds : users'[u].mail = users[u].mail
                /\ \A u \in UserIds \ {id} : users'[u] = users[u]
        BY <2>4, RoleAssigned DEF Typed
      <3>2. r \in roleRows /\ id \in UserIds
        BY <2>4 DEF AssignRole, Serving, RowsInv, Role, Here
      <3>3. \A u \in UserIds : users'[u].roles \subseteq roleRows'
        BY <2>0, <3>1, <3>2
      <3>4. \A u, v \in Here' : users'[u].mail = users'[v].mail => u = v
        BY <2>0, <3>1
      <3> QED BY <3>3, <3>4
    <2> QED BY <2>1, <2>2, <2>3, <2>4, UsersChange
  <1> QED BY <1>1, <1>2, <1>3, ServingStep DEF RowsInv, Serving

-----------------------------------------------------------------------------
(* Administrators administer.                                              *)

LEMMA AdministratorsStep ==
    ASSUME Typed, RowsInv, AdministratorsAdminister, Steps
    PROVE  AdministratorsAdminister'
  <1> SUFFICES ASSUME NEW u \in Here'
               PROVE  \/ users'[u].by = "created"
                      \/ "super" \in users'[u].roles
                      \/ u \in cutOff'
                      \/ \E c \in Clients : pc'[c] = "link" /\ job'[c].user = u
                      \/ u = 1 /\ server' = "bootstrapRole"
    BY DEF AdministratorsAdminister, Supers, Creating
  <1>0. /\ cutOff \subseteq cutOff'
        /\ \A c \in Clients : pc[c] = "link" =>
              \/ pc'[c] = "link" /\ job'[c].user = job[c].user
              \/ job[c].user \in cutOff'
              \/ AdminLinked(job[c].user)
        /\ server = "bootstrapRole" => server' = "bootstrapRole" \/ 1 \in cutOff' \/ AdminLinked(1)
    BY CreationStep
  <1>1. CASE AdminLinked(u)
    <2>1. u \in UserIds /\ LinkSuper(u) /\ roleRows = Role
      BY <1>1 DEF AdminLinked, Here
    <2>2. users'[u].roles = users[u].roles \cup (roleRows \cap {"super"})
      BY <2>1, LinkedSuper DEF Typed
    <2> QED BY <2>1, <2>2 DEF Role
  <1>2. CASE u \in Here /\ ~AdminLinked(u)
    <2>1. users'[u].by = users[u].by
      BY <1>2, UsersStep
    <2>2. "super" \in users[u].roles => users[u].by = "created" \/ "super" \in users'[u].roles
      <3>1. CASE UNCHANGED users
        BY <3>1
      <3>2. ASSUME NEW mail \in Mails, NEW by \in Origin, UserAdded(mail, by) PROVE users'[u] = users[u]
        BY <1>2, <3>2, Added DEF Here
      <3>3. ASSUME NEW id \in UserIds, AdminLinked(id) PROVE users'[u] = users[u]
        BY <1>2, <3>3, LinkedSuper DEF Typed, AdminLinked, Here
      <3>4. CASE AssignRole
        BY <1>2, <3>4, RoleAssigned DEF Typed, Here
      <3> QED BY <3>1, <3>2, <3>3, <3>4, UsersChange
    <2>3. \/ users[u].by = "created"
          \/ "super" \in users[u].roles
          \/ u \in cutOff
          \/ \E c \in Clients : pc[c] = "link" /\ job[c].user = u
          \/ u = 1 /\ server = "bootstrapRole"
      BY <1>2 DEF AdministratorsAdminister, Supers, Creating
    <2> QED BY <1>0, <1>2, <2>1, <2>2, <2>3
  <1>3. CASE u \notin Here
    <2>1. PICK mail \in Mails, by \in Origin : UserAdded(mail, by)
      <3>1. UNCHANGED users => Here' = Here
        BY DEF Here
      <3>2. AssignRole => Here' = Here
        BY RoleAssigned DEF Typed
      <3>3. ASSUME NEW id \in UserIds, AdminLinked(id) PROVE Here' = Here
        BY <3>3, LinkedSuper DEF Typed, AdminLinked
      <3> QED BY <1>3, <3>1, <3>2, <3>3, UsersChange
    <2>2. u = NextId /\ users'[u].by = by
      BY <1>3, <2>1, Added
    <2>3. ASSUME NEW c \in Clients, pc' = [pc EXCEPT ![c] = "link"],
                 job' = [job EXCEPT ![c] = [job[c] EXCEPT !.user = NextId]]
          PROVE  pc'[c] = "link" /\ job'[c].user = NextId
      <3>1. job[c] \in JobType
        BY DEF Typed, Locals
      <3> QED BY <2>3, <3>1 DEF Typed, Locals, JobType
    <2> QED BY <2>1, <2>2, <2>3 DEF UserAdded
  <1> QED BY <1>1, <1>2, <1>3

-----------------------------------------------------------------------------
(* An address has one account of SSO.                                      *)

LEMMA SsoStep ==
    ASSUME Typed, RowsInv, SsoInv, Steps
    PROVE  SsoInv'
  <1>1. ASSUME NEW u \in Here', users'[u].by = "sso"
        PROVE  Lower(users'[u].mail) = users'[u].mail
    <2>0. u \in Here => Lower(users'[u].mail) = users'[u].mail
      BY <1>1, UsersStep DEF SsoInv
    <2>1. ASSUME NEW mail \in Mails, NEW by \in Origin, UserAdded(mail, by), u = NextId
          PROVE  Lower(users'[u].mail) = users'[u].mail
      <3>1. users'[u].mail = mail /\ by = "sso"
        BY <1>1, <2>1, Added
      <3>2. PICK c \in Clients : pc[c] = "insertUser" /\ mail = job[c].mail /\ by = job[c].by
        BY <2>1, <3>1 DEF UserAdded
      <3> QED BY <3>1, <3>2 DEF SsoInv
    <2>2. ASSUME NEW mail \in Mails, NEW by \in Origin, UserAdded(mail, by)
          PROVE  u \in Here \/ u = NextId
      BY <2>2, Added
    <2>3. UNCHANGED users => Here' = Here
      BY DEF Here
    <2>4. AssignRole => Here' = Here
      BY RoleAssigned DEF Typed
    <2>5. ASSUME NEW id \in UserIds, AdminLinked(id) PROVE Here' = Here
      BY <2>5, LinkedSuper DEF Typed, AdminLinked
    <2> QED BY <2>0, <2>1, <2>2, <2>3, <2>4, <2>5, UsersChange
  <1>2. ASSUME NEW c \in Clients, pc'[c] = "insertUser", job'[c].by = "sso"
        PROVE  Lower(job'[c].mail) = job'[c].mail
    <2>0. /\ pc \in [Clients -> StepType] /\ job \in [Clients -> JobType] /\ IdleJob \in JobType
          /\ pc[c] = "insertUser" /\ job[c].by = "sso" => Lower(job[c].mail) = job[c].mail
      BY IdleTyped DEF Typed, Locals, SsoInv
    <2>1. CASE Process
      BY <1>2, <2>0, <2>1
      DEF Process, Starting, SeedRoles, ClearWorkflows, SeedWorkflow, WorkflowsSeeded, Bootstrap,
          BootstrapRole, DevImports, BootstrapFails, Restart, Crash, AssignRole, Start
    <2>2. ASSUME NEW d \in Clients \ {c}, Enter(d) \/ Continue(d) \/ Fail(d) PROVE Keeps(c)
      BY <2>2, EnterEffect, MoveEffect
    <2>3. CASE Enter(c)
      <3>1. CASE Register(c)
        <4>1. ASSUME NEW m, job' = [job EXCEPT ![c] = [IdleJob EXCEPT !.mail = m, !.by = "register"]]
              PROVE  job'[c].by = "register"
          BY <2>0, <4>1 DEF JobType
        <4> QED BY <1>2, <3>1, <4>1 DEF Register, Begin
      <3>2. CASE \/ SsoAuthorize(c) \/ SsoCallback(c) \/ CreateUser(c) \/ UpdatePermissions(c)
                 \/ SaveTypes(c) \/ Request(c)
        <4>1. pc'[c] # "insertUser"
          BY <2>0, <3>2 DEF SsoAuthorize, SsoCallback, CreateUser, UpdatePermissions, SaveTypes,
                            Request, Begin, BeginWriting
        <4> QED BY <1>2, <4>1
      <3> QED BY <2>3, <3>1, <3>2 DEF Enter
    <2>4. CASE Continue(c) \/ Fail(c)
      <3>1. CASE SsoFind(c)
        <4>1. job[c].mail \in Mails
          BY <2>0 DEF JobType
        <4>2. job' = [job EXCEPT ![c] = [job[c] EXCEPT !.mail = SsoMail(job[c].mail), !.by = "sso"]]
          BY <1>2, <2>0, <3>1 DEF SsoFind, Goto
        <4>3. job'[c].mail = SsoMail(job[c].mail)
          BY <2>0, <4>2 DEF JobType
        <4> QED BY <4>1, <4>3, AccessAssumption DEF SsoMail
      <3>2. CASE ~SsoFind(c)
        <4>1. pc'[c] # "insertUser"
          BY <2>0, <2>4, <3>2
          DEF Continue, Fail, InsertAdmin, LinkAdmin, ClearRole, InsertOne, RoleUpdated, ClearType,
              NextType, TypesGranted, CheckExact, CheckWild, Replied, GrantFails, Drop, Answer, Goto
        <4> QED BY <1>2, <4>1
      <3> QED BY <3>1, <3>2
    <2> QED BY <1>2, <2>0, <2>1, <2>2, <2>3, <2>4 DEF Steps, Keeps
  <1> QED BY <1>1, <1>2 DEF SsoInv

LEMMA SsoFollows == RowsInv /\ SsoInv => OneSsoAccount
  BY DEF RowsInv, SsoInv, OneSsoAccount

-----------------------------------------------------------------------------
(* Checks.                                                                 *)

\* How a check comes to the step it is at: it begins, stands still, or has
\* asked a query, between which nobody writes.
Asks(c) ==
    \/ /\ pc[c] = "idle" /\ pc'[c] = "exact"
       /\ \E u \in UserIds : job'[c].roles = users[u].roles
       /\ job'[c].want.subject \in Types
    \/ pc'[c] = pc[c] /\ job'[c].roles = job[c].roles /\ job'[c].want = job[c].want
       /\ job'[c].ok = job[c].ok
    \/ /\ pc[c] = "exact" /\ grants' = grants
       /\ job'[c].roles = job[c].roles /\ job'[c].want = job[c].want
       /\ \/ pc'[c] = "reply" /\ job'[c].ok = TRUE
             /\ ("super" \in job[c].roles \/ Exact(job[c].roles, job[c].want))
          \/ pc'[c] = "reply" /\ job'[c].ok = FALSE /\ job[c].roles = {}
          \/ pc'[c] = "wild" /\ "super" \notin job[c].roles /\ ~Exact(job[c].roles, job[c].want)
    \/ /\ pc[c] = "wild" /\ pc'[c] = "reply" /\ grants' = grants
       /\ job'[c].roles = job[c].roles /\ job'[c].want = job[c].want
       /\ job'[c].ok = Wild(job[c].roles, job[c].want)

LEMMA CheckStep ==
    ASSUME Typed, Steps, NEW c \in Clients, pc'[c] \in Checking
    PROVE  Asks(c)
  <1>0. /\ pc \in [Clients -> StepType] /\ job \in [Clients -> JobType] /\ IdleJob \in JobType
        /\ job[c] \in JobType
    BY IdleTyped DEF Typed, Locals
  <1>1. CASE Process
    BY <1>0, <1>1
    DEF Process, Starting, SeedRoles, ClearWorkflows, SeedWorkflow, WorkflowsSeeded, Bootstrap,
        BootstrapRole, DevImports, BootstrapFails, Restart, Crash, AssignRole, Start, Checking, Asks
  <1>2. ASSUME NEW d \in Clients \ {c}, Enter(d) \/ Continue(d) \/ Fail(d) PROVE Asks(c)
    BY <1>2, EnterEffect, MoveEffect DEF Keeps, Asks
  <1>3. CASE Enter(c)
    <2>1. CASE Request(c)
      <3>1. PICK u \in Here, t \in Types :
                 /\ pc[c] = "idle" /\ pc' = [pc EXCEPT ![c] = "exact"]
                 /\ job' = [job EXCEPT ![c] = [IdleJob EXCEPT !.user = u, !.roles = users[u].roles,
                                                  !.want = [action |-> "read", subject |-> t]]]
        BY <2>1 DEF Request, Begin, Call
      <3>2. u \in UserIds
        BY DEF Here
      <3>3. job'[c].roles = users[u].roles /\ job'[c].want.subject = t
        BY <1>0, <3>1 DEF JobType
      <3>4. pc'[c] = "exact"
        BY <1>0, <3>1
      <3> QED BY <3>1, <3>2, <3>3, <3>4 DEF Asks
    <2>2. CASE CreateUser(c)
      BY <2>2 DEF CreateUser, Asks
    <2>3. CASE \/ Register(c) \/ SsoAuthorize(c) \/ SsoCallback(c) \/ UpdatePermissions(c) \/ SaveTypes(c)
      <3>1. pc'[c] \notin Checking
        BY <1>0, <2>3 DEF Register, SsoAuthorize, SsoCallback, UpdatePermissions, SaveTypes,
                          Begin, BeginWriting, Checking
      <3> QED BY <3>1
    <2> QED BY <1>3, <2>1, <2>2, <2>3 DEF Enter
  <1>4. CASE Continue(c) \/ Fail(c)
    <2>0. ASSUME NEW ok \in BOOLEAN, Answer(c, ok)
          PROVE  pc'[c] = "reply" /\ job'[c].ok = ok /\ job'[c].roles = job[c].roles /\ job'[c].want = job[c].want
      BY <1>0, <2>0 DEF Answer, Goto, JobType
    <2>1. CASE CheckExact(c)
      <3>1. pc[c] = "exact" /\ grants' = grants
        BY <2>1 DEF CheckExact
      <3>2. CASE "super" \in job[c].roles
        BY <2>0, <2>1, <3>1, <3>2 DEF CheckExact, Asks
      <3>3. CASE "super" \notin job[c].roles /\ job[c].roles = {}
        BY <2>0, <2>1, <3>1, <3>3 DEF CheckExact, Asks
      <3>4. CASE "super" \notin job[c].roles /\ job[c].roles # {} /\ Exact(job[c].roles, job[c].want)
        BY <2>0, <2>1, <3>1, <3>4 DEF CheckExact, Asks
      <3>5. CASE "super" \notin job[c].roles /\ job[c].roles # {} /\ ~Exact(job[c].roles, job[c].want)
        <4>1. pc'[c] = "wild" /\ job'[c] = job[c]
          BY <1>0, <2>1, <3>5 DEF CheckExact, Goto
        <4> QED BY <3>1, <3>5, <4>1 DEF Asks
      <3> QED BY <3>2, <3>3, <3>4, <3>5
    <2>2. CASE CheckWild(c)
      <3>1. Wild(job[c].roles, job[c].want) \in BOOLEAN
        BY DEF Wild
      <3>2. pc[c] = "wild" /\ grants' = grants /\ Answer(c, Wild(job[c].roles, job[c].want))
        BY <2>2 DEF CheckWild
      <3> QED BY <2>0, <3>1, <3>2 DEF Asks
    <2>3. CASE ~CheckExact(c) /\ ~CheckWild(c)
      <3>1. pc'[c] \notin Checking
        BY <1>0, <1>4, <2>3
        DEF Continue, Fail, SsoFind, InsertAdmin, LinkAdmin, ClearRole, InsertOne, RoleUpdated,
            ClearType, NextType, TypesGranted, Replied, GrantFails, Drop, Goto, Checking
      <3> QED BY <3>1
    <2> QED BY <2>1, <2>2, <2>3
  <1> QED BY <1>1, <1>2, <1>3, <1>4 DEF Steps

LEMMA RolesStep ==
    ASSUME Typed, RowsInv, RolesInv, Steps
    PROVE  RolesInv'
  <1>0. \A u \in UserIds : OneRole(users[u].roles)
    BY DEF RolesInv
  <1>1. ASSUME NEW u \in UserIds PROVE OneRole(users'[u].roles)
    <2>1. CASE UNCHANGED users
      BY <1>0, <2>1
    <2>2. ASSUME NEW mail \in Mails, NEW by \in Origin, UserAdded(mail, by)
          PROVE  OneRole(users'[u].roles)
      <3>1. users'[u].roles = {} \/ users'[u] = users[u]
        BY <2>2, Added
      <3> QED BY <1>0, <3>1 DEF OneRole
    <2>3. ASSUME NEW id \in UserIds, AdminLinked(id) PROVE OneRole(users'[u].roles)
      <3>1. "super" \in users'[u].roles \/ users'[u] = users[u]
        BY <2>3, LinkedSuper DEF AdminLinked, Typed, Role
      <3> QED BY <1>0, <3>1 DEF OneRole
    <2>4. CASE AssignRole
      <3>1. (\E r \in {"editor", "author"} : users'[u].roles = {r}) \/ users'[u] = users[u]
        BY <2>4, RoleAssigned DEF Typed
      <3> QED BY <1>0, <3>1 DEF OneRole
    <2> QED BY <2>1, <2>2, <2>3, <2>4, UsersChange
  <1>2. ASSUME NEW c \in Clients, pc'[c] \in Checking
        PROVE  OneRole(job'[c].roles) /\ job'[c].want.subject \in Types
    BY <1>0, <1>2, CheckStep DEF Asks, RolesInv, Checking
  <1> QED BY <1>1, <1>2 DEF RolesInv

\* A wildcard grant goes with all others of its role.
LEMMA WildcardKept ==
    ASSUME Typed, Steps, NEW g \in grants, g \notin grants', g.subject = Any
    PROVE  \A h \in grants' : h.role # g.role
  <1>0. Any # Workflows /\ Any \notin Types
    BY AccessAssumption DEF Any, Workflows
  <1>1. CASE Process
    BY <1>0, <1>1
    DEF Process, Starting, SeedRoles, ClearWorkflows, SeedWorkflow, WorkflowsSeeded, Bootstrap,
        BootstrapRole, DevImports, BootstrapFails, Restart, Crash, AssignRole, OfWorkflows
  <1>2. ASSUME NEW c \in Clients, Enter(c) PROVE FALSE
    BY <1>2, EnterEffect
  <1>3. ASSUME NEW c \in Clients, Continue(c) \/ Fail(c) PROVE \A h \in grants' : h.role # g.role
    <2>1. CASE ClearRole(c)
      BY <2>1 DEF ClearRole, GrantsOf
    <2>2. CASE ClearType(c)
      <3>1. job[c].types \in SUBSET Types
        BY DEF Typed, Locals, JobType
      <3> QED BY <1>0, <2>2, <3>1 DEF ClearType, OfType
    <2>3. CASE ~ClearRole(c) /\ ~ClearType(c)
      <3>1. grants \subseteq grants'
        BY <1>3, <2>3
        DEF Continue, Fail, SsoFind, InsertAdmin, LinkAdmin, InsertOne, RoleUpdated, NextType,
            TypesGranted, CheckExact, CheckWild, Replied, GrantFails, Drop
      <3> QED BY <3>1
    <2> QED BY <2>1, <2>2, <2>3
  <1> QED BY <1>1, <1>2, <1>3 DEF Steps

LEMMA SeenStep ==
    ASSUME Typed, RolesInv, SeenInv, Steps, See
    PROVE  SeenInv'
  <1> SUFFICES ASSUME NEW c \in Clients
               PROVE  /\ pc'[c] \notin Checking => seen'[c] = [ever |-> FALSE, always |-> TRUE]
                      /\ pc'[c] \in Checking =>
                            /\ Allows(job[c].roles, job[c].want)' => seen'[c].ever
                            /\ seen'[c].always => Allows(job[c].roles, job[c].want)'
                      /\ pc'[c] = "wild" => /\ "super" \notin job'[c].roles
                                            /\ seen'[c].always => Wild(job[c].roles, job[c].want)'
                      /\ pc'[c] = "reply" => (job'[c].ok => seen'[c].ever) /\ (seen'[c].always => job'[c].ok)
    BY DEF SeenInv
  <1> DEFINE says == Allows(job[c].roles, job[c].want)'
  <1>1. pc'[c] \notin Checking => seen'[c] = [ever |-> FALSE, always |-> TRUE]
    BY DEF See
  <1>2. pc'[c] \in Checking => /\ seen'[c].ever = (seen[c].ever \/ says)
                               /\ seen'[c].always = (seen[c].always /\ says)
    BY DEF See
  <1>3. says = ("super" \in job'[c].roles
                \/ (\E r \in job'[c].roles :
                      [role |-> r, action |-> job'[c].want.action, subject |-> job'[c].want.subject] \in grants')
                \/ (\E r \in job'[c].roles :
                      [role |-> r, action |-> job'[c].want.action, subject |-> Any] \in grants'))
    BY DEF Allows, Exact, Wild
  <1>4. ASSUME pc'[c] = "wild"
        PROVE  /\ "super" \notin job'[c].roles
               /\ seen'[c].always => Wild(job[c].roles, job[c].want)'
    <2>1. Asks(c)
      BY <1>4, CheckStep DEF Checking
    <2>2. CASE pc[c] = "exact"
      <3>1. /\ grants' = grants /\ job'[c].roles = job[c].roles /\ job'[c].want = job[c].want
            /\ "super" \notin job[c].roles /\ ~Exact(job[c].roles, job[c].want)
        BY <1>4, <2>1, <2>2 DEF Asks
      <3>2. seen[c].always => Allows(job[c].roles, job[c].want)
        BY <2>2 DEF SeenInv, Checking
      <3>3. seen[c].always => Wild(job[c].roles, job[c].want)
        BY <3>1, <3>2 DEF Allows
      <3> QED BY <1>2, <1>4, <3>1, <3>3 DEF Wild, Checking
    <2>3. CASE pc[c] = "wild"
      <3>1. job'[c].roles = job[c].roles /\ job'[c].want = job[c].want /\ "super" \notin job[c].roles
        BY <1>4, <2>1, <2>3 DEF Asks, SeenInv
      <3>2. ASSUME seen'[c].always PROVE Wild(job[c].roles, job[c].want)'
        <4>1. seen[c].always /\ says
          BY <1>2, <1>4, <3>2 DEF Checking
        <4>2. Wild(job[c].roles, job[c].want)
          BY <2>3, <4>1 DEF SeenInv
        <4>3. PICK r \in job[c].roles : [role |-> r, action |-> job[c].want.action, subject |-> Any] \in grants
          BY <4>2 DEF Wild
        <4>4. \A s \in job[c].roles : s = r
          BY <2>3, <3>1 DEF RolesInv, OneRole, Checking
        <4>5. CASE [role |-> r, action |-> job[c].want.action, subject |-> Any] \in grants'
          BY <3>1, <4>5 DEF Wild
        <4>6. CASE [role |-> r, action |-> job[c].want.action, subject |-> Any] \notin grants'
          <5>1. \A h \in grants' : h.role # r
            BY <4>3, <4>6, WildcardKept
          <5> QED BY <1>3, <3>1, <4>1, <4>4, <5>1
        <4> QED BY <4>5, <4>6
      <3> QED BY <3>1, <3>2
    <2> QED BY <1>4, <2>1, <2>2, <2>3 DEF Asks
  <1>5. ASSUME pc'[c] = "reply"
        PROVE  (job'[c].ok => seen'[c].ever) /\ (seen'[c].always => job'[c].ok)
    <2>1. Asks(c)
      BY <1>5, CheckStep DEF Checking
    <2>2. seen'[c].ever = (seen[c].ever \/ says) /\ seen'[c].always = (seen[c].always /\ says)
      BY <1>2, <1>5 DEF Checking
    <2>3. CASE pc[c] = "reply"
      BY <1>5, <2>1, <2>2, <2>3 DEF Asks, SeenInv
    <2>4. CASE pc[c] = "exact"
      <3>1. /\ job'[c].roles = job[c].roles /\ job'[c].want = job[c].want /\ grants' = grants
            /\ \/ job'[c].ok = TRUE /\ ("super" \in job[c].roles \/ Exact(job[c].roles, job[c].want))
               \/ job'[c].ok = FALSE /\ job[c].roles = {}
        BY <1>5, <2>1, <2>4 DEF Asks
      <3> QED BY <1>3, <2>2, <3>1 DEF Exact
    <2>5. CASE pc[c] = "wild"
      <3>1. /\ job'[c].roles = job[c].roles /\ job'[c].want = job[c].want /\ grants' = grants
            /\ job'[c].ok = Wild(job[c].roles, job[c].want)
        BY <1>5, <2>1, <2>5 DEF Asks
      <3>2. seen[c].always => Wild(job[c].roles, job[c].want)
        BY <2>5 DEF SeenInv
      <3>3. Wild(job[c].roles, job[c].want) => says
        BY <1>3, <3>1 DEF Wild
      <3> QED BY <2>2, <3>1, <3>2, <3>3
    <2> QED BY <1>5, <2>1, <2>3, <2>4, <2>5 DEF Asks
  <1> QED BY <1>1, <1>2, <1>4, <1>5

LEMMA SeenFollows == SeenInv => ChecksAgree
  BY DEF SeenInv, ChecksAgree

-----------------------------------------------------------------------------
(* Writers of the matrix, one at a time or overlapping.                    *)

WriterStep == {"clearRole", "insertRole", "clearType", "insertType"}

LEMMA WritingStep ==
    ASSUME Typed, Steps
    PROVE  \/ \E c \in Clients : /\ Writing' = Writing \cup {c}
                                 /\ job'[c].alone <=> Writing = {}
                                 /\ \A d \in Clients \ {c} : ~job'[d].alone
           \/ Writing' \subseteq Writing /\ \A c \in Writing' : job'[c].alone => job[c].alone
  <1>0. pc \in [Clients -> StepType] /\ job \in [Clients -> JobType] /\ IdleJob \in JobType
    BY IdleTyped DEF Typed, Locals
  <1>1. CASE Process
    BY <1>0, <1>1
    DEF Process, Starting, SeedRoles, ClearWorkflows, SeedWorkflow, WorkflowsSeeded, Bootstrap,
        BootstrapRole, DevImports, BootstrapFails, Restart, Crash, AssignRole, Start, Writing
  <1>2. ASSUME NEW c \in Clients, UpdatePermissions(c) \/ SaveTypes(c)
        PROVE  /\ Writing' = Writing \cup {c}
               /\ job'[c].alone <=> Writing = {}
               /\ \A d \in Clients \ {c} : ~job'[d].alone
    <2>1. PICK s \in {"clearRole", "clearType"}, l \in JobType : BeginWriting(c, s, l)
      <3>1. ASSUME NEW r \in {"editor", "author"}, NEW perms \in Asked
            PROVE  [IdleJob EXCEPT !.role = r, !.perms = perms] \in JobType
        BY <1>0, AccessAssumption DEF JobType, Role
      <3>2. ASSUME NEW D \in SUBSET Types
            PROVE  [IdleJob EXCEPT !.types = D, !.saved = D] \in JobType
        BY <1>0 DEF JobType
      <3> QED BY <1>2, <3>1, <3>2 DEF UpdatePermissions, SaveTypes
    <2>2. /\ pc' = [pc EXCEPT ![c] = s]
          /\ job'[c] = [l EXCEPT !.alone = (Writing = {})]
          /\ \A d \in Clients \ {c} : job'[d] = [job[d] EXCEPT !.alone = FALSE]
      BY <2>1 DEF BeginWriting
    <2>3. Writing' = Writing \cup {c}
      BY <1>0, <2>2 DEF Writing
    <2>4. job'[c].alone = (Writing = {})
      BY <2>2 DEF JobType
    <2>5. ASSUME NEW d \in Clients \ {c} PROVE ~job'[d].alone
      BY <1>0, <2>2 DEF JobType
    <2> QED BY <2>3, <2>4, <2>5
  <1>3. ASSUME NEW c \in Clients, Enter(c), ~UpdatePermissions(c), ~SaveTypes(c)
        PROVE  Writing' \subseteq Writing /\ \A d \in Writing' : job'[d].alone => job[d].alone
    <2>1. \A d \in Clients \ {c} : Keeps(d)
      BY <1>3, EnterEffect
    <2>2. pc'[c] \notin WriterStep
      BY <1>0, <1>3 DEF Enter, Register, SsoAuthorize, SsoCallback, CreateUser, Request, Begin, WriterStep
    <2> QED BY <2>1, <2>2 DEF Writing, WriterStep, Keeps
  <1>4. ASSUME NEW c \in Clients, Continue(c) \/ Fail(c)
        PROVE  Writing' \subseteq Writing /\ \A d \in Writing' : job'[d].alone => job[d].alone
    <2>1. \A d \in Clients \ {c} : Keeps(d)
      BY <1>4, MoveEffect
    <2>2. pc'[c] \in WriterStep => pc[c] \in WriterStep /\ (job'[c].alone => job[c].alone)
      <3>0. job[c] \in JobType
        BY <1>0
      <3>1. CASE ClearRole(c)
        BY <1>0, <3>0, <3>1 DEF ClearRole, Goto, WriterStep, JobType
      <3>2. CASE InsertOne(c)
        BY <1>0, <3>0, <3>2 DEF InsertOne, Goto, WriterStep, JobType
      <3>3. CASE ClearType(c)
        BY <1>0, <3>0, <3>3 DEF ClearType, Goto, WriterStep, JobType
      <3>4. CASE NextType(c)
        BY <1>0, <3>0, <3>4 DEF NextType, Goto, WriterStep
      <3>5. CASE GrantFails(c)
        BY <1>0, <3>0, <3>5 DEF GrantFails, Goto, WriterStep, JobType
      <3>6. CASE \/ SsoFind(c) \/ InsertAdmin(c) \/ LinkAdmin(c) \/ RoleUpdated(c) \/ TypesGranted(c)
                 \/ CheckExact(c) \/ CheckWild(c) \/ Replied(c) \/ Drop(c)
        <4>1. pc'[c] \notin WriterStep
          BY <1>0, <3>6 DEF SsoFind, InsertAdmin, LinkAdmin, RoleUpdated, TypesGranted, CheckExact,
                            CheckWild, Replied, Drop, Answer, Goto, WriterStep
        <4> QED BY <4>1
      <3> QED BY <1>4, <3>1, <3>2, <3>3, <3>4, <3>5, <3>6 DEF Continue, Fail
    <2> QED BY <2>1, <2>2 DEF Writing, WriterStep, Keeps
  <1> QED BY <1>1, <1>2, <1>3, <1>4 DEF Steps, Enter

LEMMA AloneStep ==
    ASSUME Typed, AloneInv, Steps
    PROVE  AloneInv'
  BY WritingStep DEF AloneInv, Writing

\* A step that is no writer's leaves the matrix as it is.
LEMMA Quiet ==
    ASSUME MatrixInv, AloneInv', UNCHANGED <<grants, asked>>,
           server' = "seedWorkflows" <=> server = "seedWorkflows",
           \A d \in Clients : Keeps(d) \/ (pc[d] \notin WriterStep /\ pc'[d] \notin WriterStep)
    PROVE  MatrixInv'
  <1>1. OwnInv'
    BY DEF MatrixInv, OwnInv, Keeps, WriterStep
  <1>2. AtRest'
    BY DEF MatrixInv, AtRest, OnRole, OnTypes, Keeps, WriterStep
  <1>3. Seeding'
    BY DEF MatrixInv, Seeding, OfWorkflows
  <1>4. ASSUME NEW c \in Clients, c \in Writing', job'[c].alone
        PROVE  Updating(c)' /\ Granting(c)'
    <2>1. Keeps(c) /\ c \in Writing /\ job[c].alone
      BY <1>4 DEF Writing, Keeps, WriterStep
    <2>2. Updating(c) /\ Granting(c)
      BY <2>1 DEF MatrixInv
    <2> QED BY <2>1, <2>2 DEF Updating, Granting, OnTypes, Keeps
  <1> QED BY <1>1, <1>2, <1>3, <1>4 DEF MatrixInv

\* Nobody writes while the server starts.
LEMMA StartAlone ==
    ASSUME RowsInv, server # "up"
    PROVE  \A c \in Clients : pc[c] = "idle"
  BY DEF RowsInv, Serving

LEMMA SeedOf ==
    ASSUME NEW g \in Grant, Typed, asked[g.role].known
    PROVE  g \in Reseeded(g.role).grants
              <=> (g \in asked[g.role].grants /\ g.subject # Workflows) \/ g \in SeedGrants
  BY DEF Reseeded, Known

LEMMA ReseededKnown ==
    ASSUME NEW r
    PROVE  Reseeded(r).known = (asked[r].known = TRUE)
  BY DEF Reseeded, Known, Unknown

LEMMA MatrixProcess ==
    ASSUME Typed, RowsInv, MatrixInv, AloneInv', Process
    PROVE  MatrixInv'
  <1>0. /\ pc \in [Clients -> StepType] /\ job \in [Clients -> JobType]
        /\ asked \in [Role -> [known : BOOLEAN, grants : SUBSET Grant]] /\ grants \in SUBSET Grant
    BY DEF Typed, Locals, Records, Tables
  <1>1. ASSUME UNCHANGED <<pc, job, grants, asked>>, server # "seedWorkflows", server' # "seedWorkflows"
        PROVE  MatrixInv'
    <2>1. \A d \in Clients : Keeps(d)
      BY <1>1 DEF Keeps
    <2> QED BY <1>1, <2>1, Quiet
  <1>2. CASE SeedRoles \/ Bootstrap \/ BootstrapRole \/ BootstrapFails \/ DevImports \/ Restart \/ AssignRole
    <2>1. /\ UNCHANGED <<pc, job, grants, asked>>
          /\ server # "seedWorkflows" /\ server' # "seedWorkflows"
      BY <1>2 DEF SeedRoles, Bootstrap, BootstrapRole, BootstrapFails, DevImports, Restart, AssignRole,
                  Serving, Start
    <2> QED BY <1>1, <2>1
  <1>3. CASE ClearWorkflows \/ SeedWorkflow \/ WorkflowsSeeded
    <2>1. \A c \in Clients : pc'[c] = "idle" /\ pc[c] = "idle"
      BY <1>3, StartAlone DEF ClearWorkflows, SeedWorkflow, WorkflowsSeeded, Start
    <2>2. \A c \in Clients : c \notin Writing'
      BY <2>1 DEF Writing
    <2>3. CASE ClearWorkflows
      <3>1. /\ server = "clearWorkflows" /\ server' = "seedWorkflows" /\ asked' = asked
            /\ grants' = grants \ OfWorkflows
        BY <2>3 DEF ClearWorkflows, Start
      <3>2. \A g \in Grant : asked[g.role].known => (g \in grants <=> g \in asked[g.role].grants)
        BY <2>1, <3>1 DEF MatrixInv, AtRest, OnRole, OnTypes
      <3>3. Seeding'
        BY <3>1, <3>2, <1>0 DEF Seeding, OfWorkflows
      <3>4. OwnInv'
        BY <2>1, <3>1 DEF MatrixInv, OwnInv
      <3> QED BY <2>2, <3>1, <3>3, <3>4 DEF MatrixInv, AtRest
    <2>4. CASE SeedWorkflow
      <3>1. PICK h \in SeedGrants : grants' = grants \cup {h}
        BY <2>4 DEF SeedWorkflow
      <3>2. h.subject = Workflows
        BY SeedTyped
      <3>3. server = "seedWorkflows" /\ server' = "seedWorkflows" /\ asked' = asked
        BY <2>4 DEF SeedWorkflow, Start
      <3>4. Seeding'
        BY <3>1, <3>2, <3>3 DEF MatrixInv, Seeding, OfWorkflows
      <3>5. OwnInv'
        BY <2>1, <3>3 DEF MatrixInv, OwnInv
      <3> QED BY <2>2, <3>3, <3>4, <3>5 DEF MatrixInv, AtRest
    <2>5. CASE WorkflowsSeeded
      <3>1. /\ server = "seedWorkflows" /\ server' = "bootstrap" /\ grants' = grants
            /\ SeedGrants \subseteq grants
            /\ asked' = [r \in Role |-> Reseeded(r)]
        BY <2>5 DEF WorkflowsSeeded, Start
      <3>2. ASSUME NEW g \in Grant, asked'[g.role].known
            PROVE  g \in grants' <=> g \in asked'[g.role].grants
        <4>1. g.role \in Role
          BY DEF Grant
        <4>2. asked'[g.role] = Reseeded(g.role) /\ asked[g.role].known
          BY <1>0, <3>1, <3>2, <4>1, ReseededKnown
        <4>3. g \in asked'[g.role].grants
                 <=> (g \in asked[g.role].grants /\ g.subject # Workflows) \/ g \in SeedGrants
          BY <4>2, SeedOf
        <4>4. g.subject # Workflows => (g \in grants <=> g \in asked[g.role].grants)
          BY <3>1, <4>2 DEF MatrixInv, Seeding
        <4>5. g.subject = Workflows => (g \in grants <=> g \in SeedGrants)
          BY <3>1 DEF MatrixInv, Seeding, OfWorkflows
        <4> QED BY <3>1, <4>3, <4>4, <4>5, SeedTyped
      <3>3. ASSUME NEW r \in Role, NEW g \in asked'[r].grants PROVE g.role = r
        <4>1. asked'[r] = Reseeded(r)
          BY <3>1
        <4>2. \A h \in asked[r].grants : h.role = r
          BY DEF MatrixInv, OwnInv
        <4> QED BY <3>3, <4>1, <4>2 DEF Reseeded, Known, Unknown
      <3>4. AtRest'
        BY <3>2 DEF AtRest
      <3>5. OwnInv'
        BY <2>1, <3>3 DEF OwnInv
      <3> QED BY <2>2, <3>1, <3>4, <3>5 DEF MatrixInv, Seeding
    <2> QED BY <1>3, <2>3, <2>4, <2>5
  <1>4. CASE Crash
    <2>1. /\ server' = "down" /\ grants' = grants
          /\ \A c \in Clients : pc'[c] = "idle"
          /\ asked' = IF Writing = {} /\ server # "seedWorkflows" THEN asked ELSE Unsettled
      BY <1>4 DEF Crash
    <2>2. \A c \in Clients : c \notin Writing'
      BY <2>1 DEF Writing
    <2>3. CASE Writing = {} /\ server # "seedWorkflows"
      <3>1. asked' = asked
        BY <2>1, <2>3
      <3>2. \A g \in Grant : asked[g.role].known => (g \in grants <=> g \in asked[g.role].grants)
        BY <2>3 DEF MatrixInv, AtRest, OnRole, OnTypes, Writing
      <3>3. AtRest' /\ OwnInv' /\ Seeding'
        BY <2>1, <3>1, <3>2 DEF MatrixInv, AtRest, OwnInv, Seeding
      <3> QED BY <2>2, <3>3 DEF MatrixInv
    <2>4. CASE ~(Writing = {} /\ server # "seedWorkflows")
      <3>1. \A r \in Role : ~asked'[r].known /\ asked'[r].grants = {}
        BY <2>1, <2>4 DEF Unsettled, Unknown
      <3>2. AtRest' /\ OwnInv' /\ Seeding'
        BY <2>1, <3>1 DEF AtRest, OwnInv, Seeding, Grant
      <3> QED BY <2>2, <3>2 DEF MatrixInv
    <2> QED BY <2>3, <2>4
  <1> QED BY <1>2, <1>3, <1>4 DEF Process, Starting

LEMMA MatrixEnter ==
    ASSUME Typed, RowsInv, MatrixInv, AloneInv', NEW c \in Clients, Enter(c)
    PROVE  MatrixInv'
  <1>0. /\ pc \in [Clients -> StepType] /\ job \in [Clients -> JobType] /\ IdleJob \in JobType
        /\ pc[c] = "idle" /\ server = "up" /\ UNCHANGED <<server, grants, asked>>
        /\ \A d \in Clients \ {c} : Keeps(d)
    BY IdleTyped, EnterEffect DEF Typed, Locals, Serving
  <1>1. CASE ~UpdatePermissions(c) /\ ~SaveTypes(c)
    <2>1. pc'[c] \notin WriterStep
      BY <1>0, <1>1 DEF Enter, Register, SsoAuthorize, SsoCallback, CreateUser, Request, Begin, WriterStep
    <2> QED BY <1>0, <2>1, Quiet DEF WriterStep
  <1>2. ASSUME NEW s \in {"clearRole", "clearType"}, NEW l \in JobType, BeginWriting(c, s, l),
               s = "clearType" => l.todo = {} /\ l.types = l.saved
        PROVE  MatrixInv'
    <2>1. /\ pc' = [pc EXCEPT ![c] = s]
          /\ job'[c] = [l EXCEPT !.alone = (Writing = {})]
          /\ \A d \in Clients \ {c} : job'[d] = [job[d] EXCEPT !.alone = FALSE]
      BY <1>2 DEF BeginWriting
    <2>2. /\ pc'[c] = s /\ job'[c].alone = (Writing = {})
          /\ job'[c].todo = l.todo /\ job'[c].types = l.types /\ job'[c].saved = l.saved
      BY <1>0, <2>1 DEF JobType
    <2>3. ASSUME NEW d \in Clients \ {c} PROVE ~job'[d].alone
      BY <1>0, <2>1 DEF JobType
    <2>4. OwnInv'
      BY <1>0, <2>2 DEF MatrixInv, OwnInv, Keeps
    <2>5. AtRest'
      BY <1>0 DEF MatrixInv, AtRest, OnRole, OnTypes, Keeps
    <2>6. ASSUME job'[c].alone
          PROVE  Updating(c)' /\ Granting(c)'
      <3>1. Writing = {}
        BY <2>2, <2>6
      <3>2. \A g \in Grant : asked[g.role].known => (g \in grants <=> g \in asked[g.role].grants)
        BY <1>0, <3>1 DEF MatrixInv, AtRest, OnRole, OnTypes, Writing
      <3>3. s = "clearType" => job'[c].todo = {} /\ job'[c].saved \ job'[c].types = {}
        BY <1>2, <2>2
      <3> QED BY <1>0, <1>2, <2>2, <3>2, <3>3 DEF Updating, Granting, OnTypes
    <2>7. \A d \in Clients : d \in Writing' /\ job'[d].alone => Updating(d)' /\ Granting(d)'
      BY <2>3, <2>6
    <2> QED BY <1>0, <2>4, <2>5, <2>7 DEF MatrixInv, Seeding
  <1>3. CASE UpdatePermissions(c)
    <2>1. ASSUME NEW r \in {"editor", "author"}, NEW perms \in Asked
          PROVE  [IdleJob EXCEPT !.role = r, !.perms = perms] \in JobType
      BY <1>0, AccessAssumption DEF JobType, Role
    <2> QED BY <1>2, <1>3, <2>1 DEF UpdatePermissions
  <1>4. CASE SaveTypes(c)
    <2>1. ASSUME NEW D \in SUBSET Types
          PROVE  /\ [IdleJob EXCEPT !.types = D, !.saved = D] \in JobType
                 /\ [IdleJob EXCEPT !.types = D, !.saved = D].todo = {}
                 /\ [IdleJob EXCEPT !.types = D, !.saved = D].types
                       = [IdleJob EXCEPT !.types = D, !.saved = D].saved
      <3>1. IdleJob.todo = {}
        BY DEF IdleJob
      <3> QED BY <1>0, <3>1 DEF JobType
    <2>2. PICK D \in (SUBSET Types) \ {{}} :
              BeginWriting(c, "clearType", [IdleJob EXCEPT !.types = D, !.saved = D])
      BY <1>4 DEF SaveTypes
    <2> QED BY <1>2, <2>1, <2>2
  <1> QED BY <1>1, <1>3, <1>4

\* The other requests do not move; a writer that is alone after the step is
\* the one that took it, or nobody wrote.
LEMMA MoveAlone ==
    ASSUME Typed, MatrixInv, AloneInv', NEW c \in Clients, Continue(c) \/ Fail(c), c \in Writing,
           NEW d \in Clients, d \in Writing', job'[d].alone
    PROVE  d = c
  BY MoveEffect DEF MatrixInv, AloneInv, Writing, Keeps

LEMMA MatrixRole ==
    ASSUME Typed, RowsInv, MatrixInv, AloneInv', NEW c \in Clients,
           ClearRole(c) \/ (InsertOne(c) /\ pc[c] = "insertRole") \/ RoleUpdated(c)
    PROVE  MatrixInv'
  <1>0. /\ pc \in [Clients -> StepType] /\ job \in [Clients -> JobType] /\ job[c] \in JobType
        /\ asked \in [Role -> [known : BOOLEAN, grants : SUBSET Grant]] /\ grants \in SUBSET Grant
        /\ job[c].role \in Role /\ job[c].perms \in SUBSET Permission
    BY DEF Typed, Locals, Records, Tables, JobType
  <1>1. /\ Continue(c) /\ c \in Writing /\ server' = server /\ server = "up"
        /\ \A d \in Clients \ {c} : pc'[d] = pc[d] /\ job'[d] = job[d] /\ Keeps(d)
    <2>1. Continue(c) /\ pc[c] \in {"clearRole", "insertRole"}
      BY DEF Continue, ClearRole, InsertOne, RoleUpdated
    <2> QED BY <2>1, MoveEffect, MovesTyped DEF Writing, RowsInv, Serving, Typed
  <1>2. \A d \in Clients : d \in Writing' /\ job'[d].alone => d = c
    BY <1>1, MoveAlone
  <1>3. Granted(job[c].role, job[c].perms) \in SUBSET Grant
        /\ \A g \in Granted(job[c].role, job[c].perms) : g.role = job[c].role
    BY <1>0, GrantedTyped
  <1>4. Seeding'
    BY <1>1 DEF Seeding
  \* What the others were at they are at still: for their roles nothing is claimed.
  <1>5. ASSUME NEW g \in Grant, g.role # job[c].role, asked[g.role].known,
               \A d \in Clients : ~OnRole(d, g.role)' /\ ~OnTypes(d)'
        PROVE  g \in grants <=> g \in asked[g.role].grants
    <2>1. pc[c] \in {"clearRole", "insertRole"}
      BY DEF ClearRole, InsertOne, RoleUpdated
    <2>2. \A d \in Clients : ~OnRole(d, g.role) /\ ~OnTypes(d)
      BY <1>1, <1>5, <2>1 DEF OnRole, OnTypes
    <2> QED BY <1>1, <1>5, <2>2 DEF MatrixInv, AtRest
  <1>6. CASE ClearRole(c)
    <2>1. /\ pc[c] = "clearRole" /\ pc'[c] = "insertRole"
          /\ grants' = grants \ GrantsOf(job[c].role) /\ asked' = asked
          /\ job'[c] = [job[c] EXCEPT !.todo = Granted(job[c].role, job[c].perms)]
      BY <1>0, <1>6 DEF ClearRole, Goto
    <2>2. /\ job'[c].todo = Granted(job[c].role, job[c].perms)
          /\ job'[c].role = job[c].role /\ job'[c].perms = job[c].perms
      BY <1>0, <2>1 DEF JobType
    <2>3. OwnInv'
      BY <1>1, <2>1, <2>2 DEF MatrixInv, OwnInv
    <2>4. AtRest'
      <3>1. SUFFICES ASSUME NEW g \in Grant, asked[g.role].known,
                            \A d \in Clients : ~OnRole(d, g.role)' /\ ~OnTypes(d)'
                     PROVE  g \in grants' <=> g \in asked[g.role].grants
        BY <2>1 DEF AtRest
      <3>2. g.role # job[c].role
        BY <2>1, <2>2, <3>1 DEF OnRole
      <3> QED BY <1>5, <2>1, <3>1, <3>2 DEF GrantsOf
    <2>5. Updating(c)'
      BY <2>1, <2>2 DEF Updating, GrantsOf
    <2>6. Granting(c)'
      BY <2>1 DEF Granting, OnTypes
    <2> QED BY <1>2, <1>4, <2>3, <2>4, <2>5, <2>6 DEF MatrixInv
  <1>7. CASE InsertOne(c) /\ pc[c] = "insertRole"
    <2>1. PICK h \in job[c].todo : /\ grants' = grants \cup {h} /\ asked' = asked
                                   /\ pc'[c] = "insertRole"
                                   /\ job'[c] = [job[c] EXCEPT !.todo = @ \ {h}]
      BY <1>0, <1>7 DEF InsertOne, Goto
    <2>2. /\ job'[c].todo = job[c].todo \ {h}
          /\ job'[c].role = job[c].role /\ job'[c].perms = job[c].perms
          /\ job'[c].alone = job[c].alone
      BY <1>0, <2>1 DEF JobType
    <2>3. h \in Granted(job[c].role, job[c].perms)
      BY <1>7, <2>1 DEF MatrixInv, OwnInv
    <2>4. OwnInv'
      BY <1>1, <1>7, <2>1, <2>2 DEF MatrixInv, OwnInv
    <2>5. AtRest'
      <3>1. SUFFICES ASSUME NEW g \in Grant, asked[g.role].known,
                            \A d \in Clients : ~OnRole(d, g.role)' /\ ~OnTypes(d)'
                     PROVE  g \in grants' <=> g \in asked[g.role].grants
        BY <2>1 DEF AtRest
      <3>2. g.role # job[c].role
        BY <2>1, <2>2, <3>1 DEF OnRole
      <3> QED BY <1>3, <1>5, <2>1, <2>3, <3>1, <3>2
    <2>6. job[c].alone => Updating(c)'
      <3>1. job[c].alone => Updating(c)
        BY <1>1 DEF MatrixInv
      <3> QED BY <1>3, <1>7, <2>1, <2>2, <2>3, <3>1 DEF Updating
    <2>7. Granting(c)'
      BY <2>1 DEF Granting, OnTypes
    <2> QED BY <1>2, <1>4, <2>2, <2>4, <2>5, <2>6, <2>7 DEF MatrixInv
  <1>8. CASE RoleUpdated(c)
    <2>1. /\ pc[c] = "insertRole" /\ job[c].todo = {} /\ pc'[c] = "idle" /\ grants' = grants
          /\ asked' = [asked EXCEPT ![job[c].role] =
                         IF job[c].alone THEN Known(Granted(job[c].role, job[c].perms)) ELSE Unknown]
      BY <1>0, <1>8 DEF RoleUpdated, Goto
    <2>2. \A r \in Role \ {job[c].role} : asked'[r] = asked[r]
      BY <1>0, <2>1
    <2>3. /\ job[c].alone => asked'[job[c].role] = Known(Granted(job[c].role, job[c].perms))
          /\ ~job[c].alone => asked'[job[c].role] = Unknown
      BY <1>0, <2>1
    <2>4. OwnInv'
      <3>1. \A r \in Role : \A g \in asked'[r].grants : g.role = r
        BY <1>3, <2>2, <2>3 DEF MatrixInv, OwnInv, Known, Unknown
      <3> QED BY <1>1, <2>1, <3>1 DEF MatrixInv, OwnInv
    <2>5. AtRest'
      <3>1. SUFFICES ASSUME NEW g \in Grant, asked'[g.role].known,
                            \A d \in Clients : ~OnRole(d, g.role)' /\ ~OnTypes(d)'
                     PROVE  g \in grants <=> g \in asked'[g.role].grants
        BY <2>1 DEF AtRest
      <3>2. CASE g.role # job[c].role
        BY <1>5, <2>2, <3>1, <3>2 DEF Grant
      <3>3. CASE g.role = job[c].role
        <4>1. job[c].alone
          BY <2>3, <3>1, <3>3 DEF Unknown
        <4>2. Updating(c)
          BY <1>1, <4>1 DEF MatrixInv
        <4> QED BY <2>1, <2>3, <3>3, <4>1, <4>2 DEF Updating, Known
      <3> QED BY <3>2, <3>3
    <2>6. c \notin Writing'
      BY <2>1 DEF Writing
    <2> QED BY <1>2, <1>4, <2>4, <2>5, <2>6 DEF MatrixInv
  <1> QED BY <1>6, <1>7, <1>8

LEMMA MatrixTypes ==
    ASSUME Typed, RowsInv, MatrixInv, AloneInv', NEW c \in Clients,
           ClearType(c) \/ (InsertOne(c) /\ pc[c] = "insertType") \/ NextType(c) \/ TypesGranted(c)
    PROVE  MatrixInv'
  <1>0. /\ pc \in [Clients -> StepType] /\ job \in [Clients -> JobType] /\ job[c] \in JobType
        /\ asked \in [Role -> [known : BOOLEAN, grants : SUBSET Grant]] /\ grants \in SUBSET Grant
        /\ job[c].types \in SUBSET Types /\ job[c].saved \in SUBSET Types
    BY DEF Typed, Locals, Records, Tables, JobType
  <1>1. /\ OnTypes(c) /\ Continue(c) /\ c \in Writing /\ server' = server /\ server = "up"
        /\ \A d \in Clients \ {c} : pc'[d] = pc[d] /\ job'[d] = job[d] /\ Keeps(d)
    <2>1. Continue(c) /\ pc[c] \in {"clearType", "insertType"}
      BY DEF Continue, ClearType, InsertOne, NextType, TypesGranted
    <2> QED BY <2>1, MoveEffect, MovesTyped DEF Writing, RowsInv, Serving, Typed, OnTypes
  <1>2. \A d \in Clients : d \in Writing' /\ job'[d].alone => d = c
    BY <1>1, MoveAlone
  <1>3. Seeding'
    BY <1>1 DEF Seeding
  <1>4. job[c].alone => Granting(c)
    BY <1>1 DEF MatrixInv
  \* The three steps on the way: nothing is settled yet.
  <1>5. ASSUME asked' = asked, pc'[c] \in {"clearType", "insertType"},
               job'[c].alone => Granting(c)'
        PROVE  MatrixInv'
    <2>1. OwnInv'
      BY <1>1, <1>5 DEF MatrixInv, OwnInv
    <2>2. AtRest'
      BY <1>5 DEF AtRest, OnTypes
    <2>3. Updating(c)'
      BY <1>5 DEF Updating
    <2> QED BY <1>2, <1>3, <1>5, <2>1, <2>2, <2>3 DEF MatrixInv
  <1>6. CASE ClearType(c)
    <2>1. PICK t \in job[c].types :
              /\ pc[c] = "clearType" /\ pc'[c] = "insertType"
              /\ grants' = grants \ OfType(t) /\ asked' = asked
              /\ job'[c] = [job[c] EXCEPT !.types = @ \ {t}, !.todo = Standard(t)]
      BY <1>0, <1>6 DEF ClearType, Goto
    <2>2. /\ job'[c].types = job[c].types \ {t} /\ job'[c].todo = Standard(t)
          /\ job'[c].saved = job[c].saved /\ job'[c].alone = job[c].alone
      BY <1>0, <2>1 DEF JobType
    <2>3. ASSUME job[c].alone PROVE Granting(c)'
      <3>1. /\ job[c].types \subseteq job[c].saved /\ job[c].todo = {}
            /\ \A g \in Grant :
                  asked[g.role].known =>
                    (g \in grants <=>
                       \/ g \in asked[g.role].grants /\ g.subject \notin job[c].saved \ job[c].types
                       \/ \E s \in job[c].saved \ job[c].types : g \in Standard(s))
        BY <1>1, <1>4, <2>1, <2>3 DEF Granting
      <3>2. t \in job[c].saved /\ job'[c].saved \ job'[c].types = (job[c].saved \ job[c].types) \cup {t}
        BY <2>1, <2>2, <3>1
      <3>3. \A s \in Types : \A g \in Standard(s) : g.subject = s
        BY StandardTyped
      <3>4. ASSUME NEW g \in Grant, asked[g.role].known
            PROVE  g \in grants' <=>
                     /\ g \notin job'[c].todo
                     /\ \/ g \in asked[g.role].grants /\ g.subject \notin job'[c].saved \ job'[c].types
                        \/ \E s \in job'[c].saved \ job'[c].types : g \in Standard(s)
        <4>1. CASE g.subject = t
          BY <1>0, <2>1, <2>2, <3>2, <3>3, <4>1 DEF OfType
        <4>2. CASE g.subject # t
          BY <1>0, <2>1, <2>2, <3>1, <3>2, <3>3, <3>4, <4>2 DEF OfType
        <4> QED BY <4>1, <4>2
      <3>5. \A g \in job'[c].todo : \E s \in job'[c].saved \ job'[c].types : g \in Standard(s)
        BY <2>2, <3>2
      <3> QED BY <2>1, <2>2, <3>1, <3>4, <3>5 DEF Granting
    <2> QED BY <1>5, <2>1, <2>2, <2>3
  <1>7. CASE InsertOne(c) /\ pc[c] = "insertType"
    <2>1. PICK h \in job[c].todo : /\ grants' = grants \cup {h} /\ asked' = asked
                                   /\ pc'[c] = "insertType"
                                   /\ job'[c] = [job[c] EXCEPT !.todo = @ \ {h}]
      BY <1>0, <1>7 DEF InsertOne, Goto
    <2>2. /\ job'[c].types = job[c].types /\ job'[c].todo = job[c].todo \ {h}
          /\ job'[c].saved = job[c].saved /\ job'[c].alone = job[c].alone
      BY <1>0, <2>1 DEF JobType
    <2>3. ASSUME job[c].alone PROVE Granting(c)'
      BY <1>1, <1>4, <2>1, <2>2, <2>3 DEF Granting, OnTypes
    <2> QED BY <1>5, <2>1, <2>2, <2>3
  <1>8. CASE NextType(c)
    <2>1. /\ job[c].todo = {} /\ pc'[c] = "clearType" /\ job'[c] = job[c]
          /\ grants' = grants /\ asked' = asked
      BY <1>0, <1>8 DEF NextType, Goto
    <2>2. ASSUME job[c].alone PROVE Granting(c)'
      BY <1>1, <1>4, <2>1, <2>2 DEF Granting, OnTypes
    <2> QED BY <1>5, <2>1, <2>2
  <1>9. CASE TypesGranted(c)
    <2>1. /\ job[c].todo = {} /\ job[c].types = {} /\ pc'[c] = "idle" /\ grants' = grants
          /\ asked' = [r \in Role |->
                IF job[c].alone /\ ~Customised(r, job[c].saved)
                THEN Regranted(r, job[c].saved) ELSE Unknown]
      BY <1>0, <1>9 DEF TypesGranted, Goto
    <2>2. ASSUME NEW r \in Role, asked'[r].known
          PROVE  /\ job[c].alone /\ asked[r].known
                 /\ asked'[r].grants = {g \in asked[r].grants : g.subject \notin job[c].saved}
                                       \cup UNION {{g \in Standard(t) : g.role = r} : t \in job[c].saved}
      BY <2>1, <2>2 DEF Regranted, Known, Unknown
    <2>3. \A r \in Role : \A g \in asked'[r].grants : g.role = r
      <3>1. \A r \in Role : ~asked'[r].known => asked'[r].grants = {}
        BY <2>1 DEF Regranted, Known, Unknown
      <3> QED BY <2>2, <3>1 DEF MatrixInv, OwnInv
    <2>4. OwnInv'
      BY <1>1, <2>1, <2>3 DEF MatrixInv, OwnInv
    <2>5. ASSUME NEW g \in Grant, asked'[g.role].known
          PROVE  g \in grants <=> g \in asked'[g.role].grants
      <3>1. g.role \in Role
        BY DEF Grant
      <3>2. /\ job[c].alone /\ asked[g.role].known
            /\ asked'[g.role].grants = {h \in asked[g.role].grants : h.subject \notin job[c].saved}
                     \cup UNION {{h \in Standard(t) : h.role = g.role} : t \in job[c].saved}
        BY <2>2, <2>5, <3>1
      <3>3. g \in asked'[g.role].grants <=>
               \/ g \in asked[g.role].grants /\ g.subject \notin job[c].saved
               \/ \E t \in job[c].saved : g \in Standard(t)
        BY <3>2
      <3>4. g \in grants <=>
               \/ g \in asked[g.role].grants /\ g.subject \notin job[c].saved
               \/ \E t \in job[c].saved : g \in Standard(t)
        BY <1>1, <1>4, <2>1, <3>2 DEF Granting
      <3> QED BY <3>3, <3>4
    <2>6. AtRest'
      BY <2>1, <2>5 DEF AtRest
    <2>7. c \notin Writing'
      BY <2>1 DEF Writing
    <2> QED BY <1>2, <1>3, <2>4, <2>6, <2>7 DEF MatrixInv
  <1> QED BY <1>6, <1>7, <1>8, <1>9

LEMMA MatrixMove ==
    ASSUME Typed, RowsInv, MatrixInv, AloneInv', NEW c \in Clients, Continue(c) \/ Fail(c)
    PROVE  MatrixInv'
  <1>0. /\ pc \in [Clients -> StepType] /\ job \in [Clients -> JobType] /\ job[c] \in JobType
        /\ server' = server
        /\ \A d \in Clients \ {c} : pc'[d] = pc[d] /\ job'[d] = job[d] /\ Keeps(d)
    BY MoveEffect, MovesTyped DEF Typed, Locals
  <1>1. CASE \/ SsoFind(c) \/ InsertAdmin(c) \/ LinkAdmin(c) \/ CheckExact(c) \/ CheckWild(c) \/ Replied(c)
    <2>1. /\ pc[c] \notin WriterStep /\ pc'[c] \notin WriterStep /\ UNCHANGED <<grants, asked>>
      BY <1>0, <1>1 DEF SsoFind, InsertAdmin, LinkAdmin, CheckExact, CheckWild, Replied, Answer, Goto,
                        WriterStep
    <2> QED BY <1>0, <2>1, Quiet
  <1>2. CASE ClearRole(c) \/ (InsertOne(c) /\ pc[c] = "insertRole") \/ RoleUpdated(c)
    BY <1>2, MatrixRole
  <1>3. CASE ClearType(c) \/ (InsertOne(c) /\ pc[c] = "insertType") \/ NextType(c) \/ TypesGranted(c)
    BY <1>3, MatrixTypes
  \* What fails is not known any more.
  <1>4. ASSUME asked' = Unsettled, c \in Writing, c \in Writing' => ~job'[c].alone, pc'[c] # "insertRole"
        PROVE  MatrixInv'
    <2>1. \A r \in Role : ~asked'[r].known /\ asked'[r].grants = {}
      BY <1>4 DEF Unsettled, Unknown
    <2>2. server = "up"
      BY <1>4 DEF RowsInv, Serving, Writing
    <2>3. AtRest' /\ Seeding'
      BY <1>0, <2>1, <2>2 DEF AtRest, Seeding, Grant
    <2>4. OwnInv'
      BY <1>0, <1>4, <2>1 DEF MatrixInv, OwnInv
    <2>5. \A d \in Clients : d \in Writing' /\ job'[d].alone => d = c
      BY <1>4, MoveAlone
    <2> QED BY <1>4, <2>3, <2>4, <2>5 DEF MatrixInv
  <1>5. CASE GrantFails(c)
    <2>1. /\ asked' = Unsettled /\ pc[c] \in {"clearType", "insertType"} /\ pc'[c] = "insertType"
          /\ \E t : job'[c] = [job[c] EXCEPT !.todo = {}, !.types = @ \ {t}, !.alone = FALSE]
      BY <1>0, <1>5 DEF GrantFails, Goto
    <2>2. ~job'[c].alone
      BY <1>0, <2>1 DEF JobType
    <2> QED BY <1>4, <2>1, <2>2 DEF Writing
  <1>6. CASE Drop(c)
    <2>1. /\ pc'[c] = "idle" /\ grants' = grants
          /\ asked' = IF c \in Writing THEN Unsettled ELSE asked
      BY <1>0, <1>6 DEF Drop, Goto
    <2>2. CASE c \in Writing
      BY <1>4, <2>1, <2>2 DEF Writing
    <2>3. CASE c \notin Writing
      BY <1>0, <2>1, <2>3, Quiet DEF Writing, WriterStep
    <2> QED BY <2>2, <2>3
  <1> QED BY <1>1, <1>2, <1>3, <1>5, <1>6 DEF Continue, Fail, InsertOne

LEMMA MatrixStep ==
    ASSUME Typed, RowsInv, MatrixInv, Steps
    PROVE  MatrixInv'
  <1>1. AloneInv'
    BY AloneStep DEF MatrixInv
  <1> QED BY <1>1, MatrixProcess, MatrixEnter, MatrixMove DEF Steps

LEMMA MatrixFollows ==
    ASSUME Typed, MatrixInv
    PROVE  MatrixAsAsked
  <1> SUFFICES ASSUME Serving, Writing = {}, NEW r \in Role, asked[r].known
               PROVE  GrantsOf(r) = asked[r].grants
    BY DEF MatrixAsAsked
  <1>1. \A c \in Clients : ~OnRole(c, r) /\ ~OnTypes(c)
    BY DEF Writing, OnRole, OnTypes
  <1>2. \A g \in Grant : g.role = r => (g \in grants <=> g \in asked[r].grants)
    BY <1>1 DEF MatrixInv, AtRest, Serving
  <1>3. asked[r].grants \in SUBSET Grant /\ grants \in SUBSET Grant
    BY DEF Typed, Tables, Records
  <1>4. \A g \in asked[r].grants : g.role = r
    BY DEF MatrixInv, OwnInv
  <1> QED BY <1>2, <1>3, <1>4 DEF GrantsOf

-----------------------------------------------------------------------------
(* The invariant.                                                          *)

Invariant ==
    /\ Typed /\ RowsInv /\ AdministratorsAdminister
    /\ SsoInv /\ RolesInv /\ SeenInv /\ MatrixInv

LEMMA InitInvariant == Init => Invariant
  <1> SUFFICES ASSUME Init PROVE Invariant
    OBVIOUS
  <1>0. /\ IdleJob \in JobType /\ NoUser \in User /\ "idle" \in StepType
        /\ \A u \in UserIds : users[u] = NoUser
        /\ \A c \in Clients : pc[c] = "idle"
    BY IdleTyped DEF Init, StepType
  <1>1. Here = {}
    BY <1>0 DEF Here, NoUser
  <1>2. Typed
    <2>1. Locals
      BY <1>0 DEF Init, Locals
    <2>2. Tables
      BY <1>0 DEF Init, Tables, Server
    <2>3. IdsInv
      <3>1. 0 \in 0..MaxUsers /\ Here = 1..0
        BY <1>1, AccessAssumption
      <3> QED BY <3>1 DEF IdsInv
    <2>4. Records
      BY AccessAssumption DEF Init, Records
    <2> QED BY <2>1, <2>2, <2>3, <2>4 DEF Typed
  <1>3. RowsInv
    BY <1>0, <1>1 DEF Init, RowsInv, NoUser
  <1>4. AdministratorsAdminister
    BY <1>1 DEF AdministratorsAdminister
  <1>5. SsoInv
    BY <1>0, <1>1 DEF SsoInv
  <1>6. RolesInv
    BY <1>0 DEF RolesInv, OneRole, NoUser, Checking
  <1>7. SeenInv
    BY <1>0 DEF Init, SeenInv, Checking
  <1>8. MatrixInv
    <2>1. grants = {} /\ server = "seedRoles" /\ \A r \in Role : asked[r].grants = {}
      BY DEF Init
    <2>2. \A c \in Clients : c \notin Writing
      BY <1>0 DEF Writing
    <2>3. AloneInv /\ OwnInv /\ Seeding
      BY <1>0, <2>1, <2>2 DEF AloneInv, OwnInv, Seeding
    <2>4. AtRest
      BY <2>1 DEF AtRest, Grant
    <2> QED BY <2>2, <2>3, <2>4 DEF MatrixInv
  <1> QED BY <1>2, <1>3, <1>4, <1>5, <1>6, <1>7, <1>8 DEF Invariant

LEMMA NextInvariant == Invariant /\ [Next]_vars => Invariant'
  <1> SUFFICES ASSUME Invariant, [Next]_vars PROVE Invariant'
    OBVIOUS
  <1>1. CASE Next
    <2>1. Steps /\ See
      BY <1>1 DEF Next, Steps, Histories
    <2> QED BY <1>1, <2>1, TypedStep, RowsStep, AdministratorsStep, SsoStep, RolesStep, SeenStep, MatrixStep
         DEF Invariant
  <1>2. CASE UNCHANGED vars
    <2> USE <1>2 DEF vars
    <2>1. Typed'
      BY DEF Invariant, Typed, Locals, Tables, IdsInv, Records, Here
    <2>2. RowsInv'
      BY DEF Invariant, RowsInv, Serving, Here
    <2>3. AdministratorsAdminister'
      BY DEF Invariant, AdministratorsAdminister, Supers, Creating, Here
    <2>4. SsoInv' /\ RolesInv'
      BY DEF Invariant, SsoInv, RolesInv, Here
    <2>5. SeenInv'
      BY DEF Invariant, SeenInv, Allows, Exact, Wild
    <2>6. MatrixInv'
      <3>1. AloneInv' /\ OwnInv' /\ AtRest' /\ Seeding'
        BY DEF Invariant, MatrixInv, AloneInv, Writing, OwnInv, AtRest, OnRole, OnTypes, Seeding, OfWorkflows
      <3>2. \A c \in Clients : c \in Writing' /\ job'[c].alone => Updating(c)' /\ Granting(c)'
        BY DEF Invariant, MatrixInv, Writing, Updating, Granting, OnTypes
      <3> QED BY <3>1, <3>2 DEF MatrixInv
    <2> QED BY <2>1, <2>2, <2>3, <2>4, <2>5, <2>6 DEF Invariant
  <1> QED BY <1>1, <1>2

(* What the four properties below rest on: it holds in every state, however *)
(* requests, starts and crashes overlap.                                    *)
THEOREM InvariantHolds == Spec => []Invariant
  BY InitInvariant, NextInvariant, PTL DEF Spec

-----------------------------------------------------------------------------
(* What it gives.                                                          *)

LEMMA TypesFollow == Invariant => TypeOK
  <1> SUFFICES ASSUME Invariant PROVE TypeOK
    OBVIOUS
  <1>1. PICK n \in 0..MaxUsers : Here = 1..n
    BY DEF Invariant, Typed, IdsInv
  <1>2. Here = 1..Cardinality(Here)
    <2>1. n \in Int /\ 1 \in Int /\ n >= 0
      BY AccessAssumption
    <2>2. Cardinality(1..n) = n
      BY <2>1, FS_Interval
    <2> QED BY <1>1, <2>2
  <1> QED BY <1>2, AccessAssumption
       DEF Invariant, Typed, Tables, Server, Records, RowsInv, TypeOK

(* The tables have their types, no mail is given twice, ids without gaps:   *)
(* the rows that registration, SSO and the bootstrap insert at once.        *)
THEOREM TypeCorrect == Spec => []TypeOK
  BY InvariantHolds, TypesFollow, PTL

(* Every user that registered, came by SSO or is the bootstrap's is a Super *)
(* Admin, is on its way to be, or was cut off on it.                        *)
THEOREM AdministratorsCan == Spec => []AdministratorsAdminister
  <1>1. Invariant => AdministratorsAdminister
    BY DEF Invariant
  <1> QED BY <1>1, InvariantHolds, PTL

(* No address has two accounts of SSO, in any number of browsers.           *)
THEOREM SsoAccountIsOne == Spec => []OneSsoAccount
  <1>1. Invariant => OneSsoAccount
    BY SsoFollows DEF Invariant
  <1> QED BY <1>1, InvariantHolds, PTL

(* A check answers what the matrix said at some moment while it ran.        *)
THEOREM ChecksAnswer == Spec => []ChecksAgree
  <1>1. Invariant => ChecksAgree
    BY SeenFollows DEF Invariant
  <1> QED BY <1>1, InvariantHolds, PTL

(* Once the writers are done, the matrix is what they were asked for, with  *)
(* any number of them, and roles, and content types: but for roles whose    *)
(* own grants of a type were lost when it was saved again.                  *)
THEOREM MatrixIsAsAsked == Spec => []MatrixAsAsked
  <1>1. Invariant => MatrixAsAsked
    BY MatrixFollows DEF Invariant
  <1> QED BY <1>1, InvariantHolds, PTL
=============================================================================
