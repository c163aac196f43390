------------------------------- MODULE Access -------------------------------
(***************************************************************************)
(* Administrators, roles and the permission matrix: the server's start     *)
(* (crates/server-bin/src/main.rs, crates/db/src/seed.rs), registration,   *)
(* provisioning and SSO (crates/services/src/auth.rs, oidc.rs), and the    *)
(* matrix with its checks (crates/services/src/rbac.rs).                   *)
(*                                                                         *)
(* Every statement commits by itself, so a start, a registration, an update*)
(* of a role's permissions and the grants of a saved content type are      *)
(* sequences of steps, which other requests see half done and a crash cuts *)
(* off.  Passwords, tokens and the exchange with the identity provider are *)
(* left out: the provider vouches for some mail, or the login fails.       *)
(***************************************************************************)
EXTENDS Naturals, Sequences, FiniteSets

CONSTANTS
    Clients,            \* requests in progress at the same time
    Mails,              \* addresses as people type them
    Lower(_),           \* to_lowercase
    Types,              \* content types
    Asked,              \* what an update of permissions may ask for: sets of Permission
    Deployments,        \* how the server may be set up
    Faults,             \* may steps fail, and the process stop?
    MaxUsers, MaxCalls, \* bounds: users inserted, calls started
    MaxStarts           \* starts of the process: the last one does not go wrong

Role == {"super", "editor", "author"}
Action == {"read", "publish"}
Workflows == "workflow"             \* the subject of the workflow permissions
Any == "*"                          \* the wildcard subject
Permission == [action : Action, subject : Types \cup {Workflows, Any}]
Grant == [role : Role, action : Action, subject : Types \cup {Workflows, Any}]

\* password: is ADMIN_PASSWORD set?  dev: is the development bootstrap on?
\* provision: may an unknown identity get an account (OIDC auto-provision)?
Deployment == [password : BOOLEAN, dev : BOOLEAN, provision : BOOLEAN]

UserIds == 1..MaxUsers

ASSUME AccessAssumption ==
    /\ \A m \in Mails : Lower(m) \in Mails /\ Lower(Lower(m)) = Lower(m)
    /\ Mails # {} /\ Types # {} /\ {Workflows, Any} \cap Types = {}
    /\ Asked \subseteq SUBSET Permission
    /\ Deployments \subseteq Deployment
    /\ Faults \in BOOLEAN
    /\ MaxUsers \in Nat \ {0} /\ MaxCalls \in Nat /\ MaxStarts \in Nat \ {0}

VARIABLES
    deploy,     \* how the server is set up
    server,     \* the step of its start, or "up", or "down"
    starts,     \* times it was started, for the bound
    roleRows,   \* the rows of admin_role
    users,      \* those of admin_user, with their rows of admin_user_role
    grants,     \* those of admin_permission
    logins,     \* pending SSO authorizations, in memory
    pc, job,    \* the step each request is at, and its locals
    calls,      \* calls started, for the bound
    cutOff,     \* users whose creation was cut off before their role
    asked,      \* what each role was last given, while that is certain
    seen,       \* what the matrix has said to a check since it began
    created     \* the content types that a save has been done with

vars == <<deploy, server, starts, roleRows, users, grants, logins, pc, job, calls,
          cutOff, asked, seen, created>>

Nobody == 0
NoUser == [here |-> FALSE, mail |-> CHOOSE m \in Mails : TRUE, by |-> "none", roles |-> {}]
Here == {u \in UserIds : users[u].here}
Supers == {u \in Here : "super" \in users[u].roles}
NextId == CHOOSE u \in UserIds \ Here : \A v \in UserIds \ Here : u <= v

CanInsert(mail) == Here # UserIds /\ \A u \in Here : users[u].mail # mail

\* user: the row inserted; roles: those of the caller; todo: the grants to
\* insert; types: the content types to grant still; alone: has no other writer
\* of grants run since this one began?; ok: the answer of a check.
IdleJob == [user |-> Nobody, mail |-> NoUser.mail, by |-> "none", role |-> "editor",
            roles |-> {}, perms |-> {}, todo |-> {}, types |-> {}, saved |-> {},
            want |-> [action |-> "read", subject |-> Any], alone |-> FALSE, ok |-> FALSE]

Init ==
    /\ deploy \in Deployments
    /\ server = "seedRoles" /\ starts = 1
    /\ roleRows = {}
    /\ users = [u \in UserIds |-> NoUser]
    /\ grants = {}
    /\ logins = 0
    /\ pc = [c \in Clients |-> "idle"]
    /\ job = [c \in Clients |-> IdleJob]
    /\ calls = 0
    /\ cutOff = {}
    /\ asked = [r \in Role |-> [known |-> TRUE, grants |-> {}]]
    /\ seen = [c \in Clients |-> [ever |-> FALSE, always |-> TRUE]]
    /\ created = {}

-----------------------------------------------------------------------------
(* Rows.                                                                   *)

Granted(role, perms) == {[role |-> role, action |-> p.action, subject |-> p.subject] : p \in perms}

GrantsOf(role) == {g \in grants : g.role = role}

\* A user is inserted, or the unique index on email refuses it.
InsertUser(id, mail, by) ==
    users' = [users EXCEPT ![id] = [here |-> TRUE, mail |-> mail, by |-> by, roles |-> {}]]

\* Mutant of LinkSuper: it looks up another code.
LinkAuthor(id) ==
    users' = [users EXCEPT ![id].roles = @ \cup (roleRows \cap {"author"})]

\* The role is looked up by its code; without a row there is no link.
LinkSuper(id) ==
    users' = [users EXCEPT ![id].roles = @ \cup (roleRows \cap {"super"})]

\* What the matrix says: the exact subject, or the wildcard.
Exact(roles, want) == \E r \in roles : [role |-> r, action |-> want.action, subject |-> want.subject] \in grants

Wild(roles, want) == \E r \in roles : [role |-> r, action |-> want.action, subject |-> Any] \in grants

Allows(roles, want) == "super" \in roles \/ Exact(roles, want) \/ Wild(roles, want)

-----------------------------------------------------------------------------
(* What each role was last given.  A writer of grants that runs while no   *)
(* other does settles it; one that overlaps or is cut off leaves it open.  *)

Writing == {c \in Clients : pc[c] \in {"clearRole", "insertRole", "clearType", "insertType"}}

Known(given) == [known |-> TRUE, grants |-> given]
Unknown == [known |-> FALSE, grants |-> {}]
Unsettled == [r \in Role |-> Unknown]

-----------------------------------------------------------------------------
(* The start of the process.                                               *)

Start(step) == server' = step /\ UNCHANGED <<deploy, starts, logins, pc, job, calls>>

\* on conflict do nothing
SeedRoles ==
    /\ server = "seedRoles"
    /\ roleRows' = Role
    /\ Start("clearWorkflows")
    /\ UNCHANGED <<users, grants, cutOff, asked>>

OfWorkflows == {g \in grants : g.subject = Workflows}

WorkflowPermissions == [action : {"read"}, subject : {Workflows}]
SeedGrants == Granted("editor", WorkflowPermissions) \cup Granted("super", WorkflowPermissions)

\* seed_workflow_permissions, at every start: what an administrator had made
\* of them is replaced.
ClearWorkflows ==
    /\ server = "clearWorkflows"
    /\ grants' = grants \ OfWorkflows
    /\ Start("seedWorkflows")
    /\ UNCHANGED <<roleRows, users, cutOff, asked>>

SeedWorkflow ==
    /\ server = "seedWorkflows"
    /\ \E g \in SeedGrants \ grants : grants' = grants \cup {g}
    /\ Start("seedWorkflows")
    /\ UNCHANGED <<roleRows, users, cutOff, asked>>

\* A role whose grants were certain has those of the seed for workflows now.
Reseeded(role) ==
    IF asked[role].known
    THEN Known({g \in asked[role].grants : g.subject # Workflows}
               \cup {g \in SeedGrants : g.role = role})
    ELSE Unknown

WorkflowsSeeded ==
    /\ server = "seedWorkflows" /\ SeedGrants \subseteq grants
    /\ asked' = [r \in Role |-> Reseeded(r)]
    /\ Start("bootstrap")
    /\ UNCHANGED <<roleRows, users, grants, cutOff>>

\* has_admin counts the rows of admin_user, whatever roles they have.
HasAdmin == Here # {}

AdminMail == Lower(NoUser.mail)

\* bootstrap_admin, provision_admin
Bootstrap ==
    /\ server = "bootstrap"
    /\ IF deploy.password /\ ~HasAdmin
       THEN InsertUser(NextId, AdminMail, "bootstrap") /\ Start("bootstrapRole")
       ELSE Start("dev") /\ UNCHANGED users
    /\ UNCHANGED <<roleRows, grants, cutOff, asked>>

BootstrapRole ==
    /\ server = "bootstrapRole"
    /\ LinkSuper(1)
    /\ Start("dev")
    /\ UNCHANGED <<roleRows, grants, cutOff, asked>>

\* "admin bootstrap skipped": an error is logged, and the start goes on.
BootstrapFails ==
    /\ Faults /\ starts < MaxStarts
    /\ server \in {"bootstrap", "bootstrapRole"}
    /\ cutOff' = IF server = "bootstrapRole" THEN cutOff \cup {1} ELSE cutOff
    /\ Start("dev")
    /\ UNCHANGED <<roleRows, users, grants, asked>>

\* Mutant of FirstAdmin: the user that was inserted last.
LastAdmin == CHOOSE u \in Here : \A v \in Here : u >= v

\* first_admin: the user with the lowest id.
FirstAdmin == CHOOSE u \in Here : \A v \in Here : u <= v

\* run_dev_bootstrap imports as the first administrator, whose roles must
\* allow it; an error ends the process.
DevImports ==
    /\ server = "dev"
    /\ IF deploy.dev /\ (Here = {} \/ FirstAdmin \notin Supers)
       THEN Start("down") ELSE Start("up")
    /\ UNCHANGED <<roleRows, users, grants, cutOff, asked>>

Starting == SeedRoles \/ ClearWorkflows \/ SeedWorkflow \/ WorkflowsSeeded
            \/ Bootstrap \/ BootstrapRole \/ DevImports

\* Whoever runs the server starts it again.
Restart ==
    /\ server = "down" /\ starts < MaxStarts
    /\ server' = "seedRoles" /\ starts' = starts + 1
    /\ UNCHANGED <<deploy, roleRows, users, grants, logins, pc, job, calls, cutOff, asked>>

Creating == {job[c].user : c \in {d \in Clients : pc[d] = "link"}}

\* The process stops: requests are gone, and the pending logins with them.
Crash ==
    /\ Faults /\ server # "down" /\ starts < MaxStarts
    /\ server' = "down"
    /\ logins' = 0
    /\ pc' = [c \in Clients |-> "idle"]
    /\ job' = [c \in Clients |-> IdleJob]
    /\ cutOff' = cutOff \cup Creating \cup (IF server = "bootstrapRole" THEN {1} ELSE {})
    /\ asked' = IF Writing = {} /\ server # "seedWorkflows" THEN asked ELSE Unsettled
    /\ UNCHANGED <<deploy, starts, roleRows, users, grants, calls>>

-----------------------------------------------------------------------------
(* Requests.                                                               *)

Serving == server = "up"

Goto(c, step, locals) ==
    /\ pc' = [pc EXCEPT ![c] = step]
    /\ job' = [job EXCEPT ![c] = locals]
    /\ UNCHANGED <<deploy, server, starts, roleRows, logins, calls>>

Call(c) == Serving /\ pc[c] = "idle" /\ calls < MaxCalls /\ calls' = calls + 1

Begin(c, step, locals) ==
    /\ pc' = [pc EXCEPT ![c] = step]
    /\ job' = [job EXCEPT ![c] = locals]
    /\ UNCHANGED <<deploy, server, starts, roleRows>>

\* auth_register, while there is no administrator.
Register(c) ==
    /\ Call(c)
    /\ ~HasAdmin
    /\ \E m \in Mails : Begin(c, "insertUser", [IdleJob EXCEPT !.mail = m, !.by = "register"])
    /\ UNCHANGED <<users, grants, logins, cutOff, asked>>

\* oidc_authorize_url: an entry nothing but a callback or a restart removes.
SsoAuthorize(c) ==
    /\ Call(c)
    /\ logins' = logins + 1
    /\ Begin(c, "idle", IdleJob)
    /\ UNCHANGED <<users, grants, cutOff, asked>>

\* oidc_login takes the entry out, under the lock, and the provider vouches
\* for a mail; or the entry is too old, or the exchange fails.
SsoCallback(c) ==
    /\ Serving /\ pc[c] = "idle" /\ logins > 0
    /\ logins' = logins - 1
    /\ \/ \E m \in Mails : Begin(c, "findUser", [IdleJob EXCEPT !.mail = m])
       \/ Faults /\ Begin(c, "idle", IdleJob)
    /\ UNCHANGED <<users, grants, calls, cutOff, asked>>

\* Mutant of SsoMail: the address is taken as the provider spells it.
SsoMailAsIs(mail) == mail

SsoMail(mail) == Lower(mail)

\* resolve_admin_for_identity: signed in, provisioned, or forbidden.
SsoFind(c) ==
    /\ pc[c] = "findUser"
    /\ LET mail == SsoMail(job[c].mail) IN
       IF deploy.provision /\ \A u \in Here : users[u].mail # mail
       THEN Goto(c, "insertUser", [job[c] EXCEPT !.mail = mail, !.by = "sso"])
       ELSE Goto(c, "idle", IdleJob)
    /\ UNCHANGED <<users, grants, cutOff, asked>>

\* auth_register and provision_oidc_admin insert the user, then its role.
InsertAdmin(c) ==
    /\ pc[c] = "insertUser"
    /\ IF CanInsert(job[c].mail)
       THEN /\ InsertUser(NextId, job[c].mail, job[c].by)
            /\ Goto(c, "link", [job[c] EXCEPT !.user = NextId])
       ELSE /\ Goto(c, "idle", IdleJob)
            /\ UNCHANGED users
    /\ UNCHANGED <<grants, cutOff, asked>>

LinkAdmin(c) ==
    /\ pc[c] = "link"
    /\ LinkSuper(job[c].user)
    /\ Goto(c, "idle", IdleJob)
    /\ UNCHANGED <<grants, cutOff, asked>>

\* rbac_create_user: whatever roles the request names, none is linked.
CreateUser(c) ==
    /\ Serving /\ pc[c] = "idle"
    /\ Here # {}
    /\ \E m \in Mails : CanInsert(m) /\ InsertUser(NextId, m, "created")
    /\ UNCHANGED <<deploy, server, starts, roleRows, grants, logins, pc, job, calls, cutOff, asked>>

\* Nothing in the program links an Editor or an Author: the operator does, in
\* the database, with one role for a user.
AssignRole ==
    /\ Serving
    /\ \E u \in Here, r \in {"editor", "author"} :
          /\ users[u].by = "created" /\ users[u].roles = {}
          /\ users' = [users EXCEPT ![u].roles = {r}]
    /\ UNCHANGED <<deploy, server, starts, roleRows, grants, logins, pc, job, calls, cutOff, asked>>

-----------------------------------------------------------------------------
(* Writers of the matrix.                                                  *)

BeginWriting(c, step, locals) ==
    /\ pc' = [pc EXCEPT ![c] = step]
    /\ job' = [d \in Clients |-> IF d = c THEN [locals EXCEPT !.alone = (Writing = {})]
                                 ELSE [job[d] EXCEPT !.alone = FALSE]]
    /\ UNCHANGED <<deploy, server, starts, roleRows, users, grants, logins, cutOff, asked>>

\* update_permissions: the role's rows are deleted, then inserted one by one.
UpdatePermissions(c) ==
    /\ Call(c)
    /\ Here # {}
    /\ \E r \in {"editor", "author"}, perms \in Asked :
          BeginWriting(c, "clearRole", [IdleJob EXCEPT !.role = r, !.perms = perms])

ClearRole(c) ==
    /\ pc[c] = "clearRole"
    /\ grants' = grants \ GrantsOf(job[c].role)
    /\ Goto(c, "insertRole", [job[c] EXCEPT !.todo = Granted(job[c].role, job[c].perms)])
    /\ UNCHANGED <<users, cutOff, asked>>

InsertOne(c) ==
    /\ pc[c] \in {"insertRole", "insertType"}
    /\ job[c].todo # {}
    /\ LET g == CHOOSE h \in job[c].todo : TRUE IN   \* the order is fixed
          /\ grants' = grants \cup {g}
          /\ Goto(c, pc[c], [job[c] EXCEPT !.todo = @ \ {g}])
    /\ UNCHANGED <<users, cutOff, asked>>

RoleUpdated(c) ==
    /\ pc[c] = "insertRole" /\ job[c].todo = {}
    /\ asked' = [asked EXCEPT ![job[c].role] =
          IF job[c].alone THEN Known(Granted(job[c].role, job[c].perms)) ELSE Unknown]
    /\ Goto(c, "idle", IdleJob)
    /\ UNCHANGED <<users, grants, cutOff>>

\* The end of ctb_apply: every content type that is saved, new or not.
SaveTypes(c) ==
    /\ Call(c)
    /\ Here # {}
    /\ \E desired \in (SUBSET Types) \ {{}} :
          BeginWriting(c, "clearType", [IdleJob EXCEPT !.types = desired, !.saved = desired])

\* grant_content_permissions
Standard(type) ==
    Granted("editor", [action : Action, subject : {type}])
    \cup Granted("author", [action : {"read"}, subject : {type}])

\* Mutant of OfType: the standard grants of the type, not all of them.
OfTypeStandard(type) == Standard(type)

OfType(type) == {g \in grants : g.subject = type}

ClearType(c) ==
    /\ pc[c] = "clearType"
    /\ \E t \in job[c].types :
          /\ grants' = grants \ OfType(t)
          /\ Goto(c, "insertType", [job[c] EXCEPT !.types = @ \ {t}, !.todo = Standard(t)])
    /\ UNCHANGED <<users, cutOff, asked>>

NextType(c) ==
    /\ pc[c] = "insertType" /\ job[c].todo = {} /\ job[c].types # {}
    /\ Goto(c, "clearType", job[c])
    /\ UNCHANGED <<users, grants, cutOff, asked>>

Regranted(role, types) ==
    IF asked[role].known
    THEN Known({g \in asked[role].grants : g.subject \notin types}
               \cup UNION {{g \in Standard(t) : g.role = role} : t \in types})
    ELSE Unknown

\* Was the role given other grants of one of these types, since it was created?
Customised(role, types) ==
    \E t \in types \cap created :
        {g \in asked[role].grants : g.subject = t} # {g \in Standard(t) : g.role = role}

\* What the role then has of that type is what nobody asked for.
TypesGranted(c) ==
    /\ pc[c] = "insertType" /\ job[c].todo = {} /\ job[c].types = {}
    /\ asked' = [r \in Role |->
          IF job[c].alone /\ ~Customised(r, job[c].saved)
          THEN Regranted(r, job[c].saved) ELSE Unknown]
    /\ Goto(c, "idle", IdleJob)
    /\ UNCHANGED <<users, grants, cutOff>>

\* An error in the grants of a type is dropped, and the next type has its turn.
GrantFails(c) ==
    /\ Faults
    /\ pc[c] \in {"clearType", "insertType"} /\ job[c].types \cup job[c].todo # {}
    /\ asked' = Unsettled
    /\ \E t \in job[c].types \cup {Any} :
          /\ (pc[c] = "insertType") <=> (t = Any)
          /\ Goto(c, "insertType", [job[c] EXCEPT !.todo = {}, !.types = @ \ {t}, !.alone = FALSE])
    /\ UNCHANGED <<users, grants, cutOff>>

\* A statement fails, or the client hangs up, in any other call.
Drop(c) ==
    /\ Faults
    /\ pc[c] # "idle"
    /\ cutOff' = IF pc[c] = "link" THEN cutOff \cup {job[c].user} ELSE cutOff
    /\ asked' = IF c \in Writing THEN Unsettled ELSE asked
    /\ Goto(c, "idle", IdleJob)
    /\ UNCHANGED <<users, grants>>

-----------------------------------------------------------------------------
(* A request and its check: load_current_user, then can_perform.           *)

Request(c) ==
    /\ Call(c)
    /\ \E u \in Here, t \in Types :
          Begin(c, "exact", [IdleJob EXCEPT !.user = u, !.roles = users[u].roles,
                                            !.want = [action |-> "read", subject |-> t]])
    /\ UNCHANGED <<users, grants, logins, cutOff, asked>>

Answer(c, ok) == Goto(c, "reply", [job[c] EXCEPT !.ok = ok])

CheckExact(c) ==
    /\ pc[c] = "exact"
    /\ IF "super" \in job[c].roles THEN Answer(c, TRUE)
       ELSE IF job[c].roles = {} THEN Answer(c, FALSE)
       ELSE IF Exact(job[c].roles, job[c].want) THEN Answer(c, TRUE)
       ELSE Goto(c, "wild", job[c])
    /\ UNCHANGED <<users, grants, cutOff, asked>>

\* Mutant of CheckWild: the wildcard of any role will do.
CheckWildOfAny(c) ==
    /\ pc[c] = "wild"
    /\ Answer(c, Wild(Role, job[c].want))
    /\ UNCHANGED <<users, grants, cutOff, asked>>

CheckWild(c) ==
    /\ pc[c] = "wild"
    /\ Answer(c, Wild(job[c].roles, job[c].want))
    /\ UNCHANGED <<users, grants, cutOff, asked>>

Replied(c) ==
    /\ pc[c] = "reply"
    /\ Goto(c, "idle", IdleJob)
    /\ UNCHANGED <<users, grants, cutOff, asked>>

-----------------------------------------------------------------------------
Enter(c) ==
    \/ Register(c) \/ SsoAuthorize(c) \/ SsoCallback(c) \/ CreateUser(c)
    \/ UpdatePermissions(c) \/ SaveTypes(c) \/ Request(c)

Continue(c) ==
    \/ SsoFind(c) \/ InsertAdmin(c) \/ LinkAdmin(c)
    \/ ClearRole(c) \/ InsertOne(c) \/ RoleUpdated(c)
    \/ ClearType(c) \/ NextType(c) \/ TypesGranted(c)
    \/ CheckExact(c) \/ CheckWild(c) \/ Replied(c)

Fail(c) == GrantFails(c) \/ Drop(c)

Process == Starting \/ BootstrapFails \/ Restart \/ Crash \/ AssignRole

Checking == {"exact", "wild", "reply"}

\* History: has the matrix allowed what a check asks, at some moment since the
\* check began, and has it at every one?
See ==
    seen' = [c \in Clients |->
        IF pc'[c] \notin Checking THEN [ever |-> FALSE, always |-> TRUE]
        ELSE LET says == Allows(job[c].roles, job[c].want)' IN
             [ever |-> seen[c].ever \/ says, always |-> seen[c].always /\ says]]

\* History: the types are there from before their grants.
Create ==
    created' = created \cup
        UNION {job[c].saved : c \in {d \in Clients :
                   pc[d] \in {"clearType", "insertType"} /\ pc'[d] = "idle"}}

Histories == See /\ Create

Next == (Process \/ \E c \in Clients : Enter(c) \/ Continue(c) \/ Fail(c)) /\ Histories

Fairness == WF_vars(Starting /\ Histories) /\ WF_vars(Restart /\ Histories)

Spec == Init /\ [][Next]_vars /\ Fairness

-----------------------------------------------------------------------------
(* Properties.                                                             *)

(* The rows have their types, no two users have the same mail, and whoever  *)
(* has a role has one of its rows (no foreign key of the database says so). *)
TypeOK ==
    /\ server \in {"seedRoles", "clearWorkflows", "seedWorkflows", "bootstrap",
                   "bootstrapRole", "dev", "up", "down"}
    /\ roleRows \subseteq Role /\ grants \subseteq Grant
    /\ \A u, v \in Here : users[u].mail = users[v].mail => u = v
    /\ \A u \in UserIds : users[u].roles \subseteq roleRows
    /\ Here = 1..Cardinality(Here)
    /\ logins \in 0..MaxCalls /\ calls \in 0..MaxCalls
    /\ cutOff \subseteq Here
    /\ \A c \in Clients : pc[c] # "idle" => Serving

(* Whoever registered, was provisioned at the start or came by SSO is a     *)
(* Super Admin, unless a failure came between the row and its role.  Then   *)
(* registration stays closed, and nobody may administrate.                  *)
AdministratorsAdminister ==
    \A u \in Here :
        \/ users[u].by = "created"
        \/ u \in Supers \cup cutOff \cup Creating
        \/ u = 1 /\ server = "bootstrapRole"

(* A person who comes by SSO, twice or in two browsers at once, gets one    *)
(* account, however the provider spells the address.                        *)
OneSsoAccount ==
    \A u, v \in Here :
        users[u].by = "sso" /\ users[v].by = "sso" /\ Lower(users[u].mail) = Lower(users[v].mail)
            => u = v

(* The matrix holds what each role was last given: by an update of its      *)
(* permissions, by the standard grants of a content type that is new, by    *)
(* the seed of a start.  No writer disturbs what it is not about.  It says  *)
(* nothing of a role whose own grants of a type were lost when the type was *)
(* saved again, which is what CustomGrantsStay is about, until the role is  *)
(* given others.                                                            *)
MatrixAsAsked ==
    Serving /\ Writing = {} =>
        \A r \in Role : asked[r].known => GrantsOf(r) = asked[r].grants

(* A request is allowed only if the matrix allowed it at some moment since  *)
(* it began, and refused only if at some moment it did not: two queries,    *)
(* between which others write, are as good as one.                          *)
ChecksAgree ==
    \A c \in Clients :
        pc[c] = "reply" => (job[c].ok => seen[c].ever) /\ (seen[c].always => job[c].ok)

(* However often it is stopped, the server comes to serve, with development *)
(* bootstrap as well: unless a user was left without its role, who may be   *)
(* the administrator that the bootstrap runs as.                            *)
ComesToServe == []<>(server = "up" \/ cutOff # {})

(* "Grant the standard per-content-type permissions for a freshly-created   *)
(* content-type" (rbac.rs): what was made of the grants of a type that is   *)
(* there already is left alone.  It fails: ctb_apply grants for every type  *)
(* it saves.                                                                *)
CustomGrantsStay ==
    [][\A c \in Clients, t \in created :
        pc[c] = "clearType" /\ pc'[c] = "insertType" /\ OfType(t) # Standard(t)
            => (t \in job[c].types => t \in job'[c].types)]_vars
=============================================================================
