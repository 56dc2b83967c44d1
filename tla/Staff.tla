------------------------------- MODULE Staff --------------------------------
(***************************************************************************)
(* The people who may work in an organization (api/user_lifecycle.py, the  *)
(* user endpoints of api/views.py, accounts/oidc.py, accounts/models.py).  *)
(*                                                                         *)
(* A person has an account in Keycloak and a local user with the roles of  *)
(* the organization.  Nothing spans the two: an administrator's request    *)
(* changes the account call by call and then the user, and each call can   *)
(* fail, take effect without an answer, or be the last one of its process. *)
(* The older endpoints know local users only and give them privileges,     *)
(* which become the roles of a membership that Keycloak does not manage    *)
(* (accounts/authorization.py, accounts/signals.py).                       *)
(*                                                                         *)
(* Abstracted: a privilege is named by the role it stands for; one person, *)
(* whose username is taken by at most one account at a time.  A login that *)
(* finds no user with the subject of the account makes one whose           *)
(* identifier is that subject, so a person may have several users: Named   *)
(* has the username, user n the subject of account n.                      *)
(***************************************************************************)
EXTENDS Naturals

CONSTANTS
    Admin,        \* administrators' requests that run at the same time
    Login,        \* logins that run at the same time
    Role,         \* OrganizationRole
    Member,       \* ORG_MEMBER, the role a user gets without being given any
    Legacy,       \* the roles that privileges stand for
    Offered,      \* bound: the sets of roles that administrators give
    Edited,       \* bound: the users whose roles are changed or accounts deleted
    Privileged,   \* bound: the users whose privileges are changed
    MaxAccounts   \* bound: accounts ever made

ASSUME StaffAssumption ==
    /\ Member \in Role
    /\ Legacy \subseteq Role
    /\ Offered \subseteq (SUBSET Role) \ {{}}
    /\ MaxAccounts \in Nat \ {0}

VARIABLES
    accounts,   \* how many accounts were made
    open,       \* those that still exist
    mapped,     \* realm roles of each account
    granted,    \* the roles each account has ever had
    user,       \* the local users
    admin,      \* what each administrator's request does
    login       \* the claims that each login holds

staffVars == <<accounts, open, mapped, granted, user, admin, login>>

Account == 1 .. MaxAccounts
Named   == 0

(* A user with the membership of the organization; managed: its roles come *)
(* from Keycloak (oidc_managed).                                           *)
LocalUser == [subject : 0 .. MaxAccounts, roles : SUBSET Role, managed : BOOLEAN,
              privileges : SUBSET Legacy]
NoUser    == [subject |-> 0]
NewUser   == [subject |-> 0, roles |-> {Member}, managed |-> FALSE, privileges |-> {}]

Idle    == [op |-> "none"]

StaffTypeOK ==
    /\ accounts \in 0 .. MaxAccounts
    /\ open \in SUBSET (1 .. accounts)
    /\ mapped \in [Account -> SUBSET Role]
    /\ granted \in [Account -> SUBSET Role]
    /\ user \in [{Named} \cup Account -> LocalUser \cup {NoUser}]
    /\ admin \in [Admin -> {Idle} \cup
          [op : {"create", "roles", "delete", "local", "privileges"},
           pc : {"post", "read", "strip", "grant", "save", "link", "undo", "close", "drop",
                 "clear", "add"},
           row : {Named} \cup Account, account : 0 .. MaxAccounts, roles : SUBSET Role,
           had : SUBSET Role, unlinked : BOOLEAN]]
    /\ login \in [Login -> {Idle} \cup [op : {"login"}, account : Account, roles : SUBSET Role]]

StaffInit ==
    /\ accounts = 0
    /\ open = {}
    /\ mapped = [a \in Account |-> {}]
    /\ granted = [a \in Account |-> {}]
    /\ user = [r \in {Named} \cup Account |-> NoUser]
    /\ admin = [m \in Admin |-> Idle]
    /\ login = [v \in Login |-> Idle]

Exists(r)    == user[r] # NoUser
Live(a)      == a \in open
Kept(r)      == IF Exists(r) THEN user[r] ELSE NewUser
Linked(a, r) == \E s \in {Named} \cup Account : s # r /\ Exists(s) /\ user[s].subject = a

Begins(m, op, pc, row, account, roles) ==
    /\ admin[m] = Idle
    /\ admin' = [admin EXCEPT ![m] =
          [op |-> op, pc |-> pc, row |-> row, account |-> account, roles |-> roles,
           had |-> {}, unlinked |-> account = 0]]
    /\ UNCHANGED <<accounts, open, mapped, granted, user, login>>

GoesTo(m, pc) == [admin EXCEPT ![m].pc = pc]
Ends(m)       == [admin EXCEPT ![m] = Idle]

(* Mutant: a Keycloak error is logged and the local user is saved anyway.  *)
FailedUnnoticed(m) ==
    IF admin[m].pc \in {"read", "strip", "grant"} THEN GoesTo(m, "save") ELSE Ends(m)

(* A Keycloak error ends a request; an account that it has made is deleted *)
(* first.                                                                  *)
Failed(m) ==
    IF admin[m].op = "create" /\ admin[m].account # 0 THEN GoesTo(m, "undo") ELSE Ends(m)

Close(a) ==
    /\ open' = open \ {a}
    /\ mapped' = [mapped EXCEPT ![a] = {}]

(* The answer to a call may be lost after it took effect.                  *)
Answered(m, pc) == admin' \in {GoesTo(m, pc), Failed(m)}

-----------------------------------------------------------------------------
CreateBegins(m) ==
    \E roles \in Offered : ~Exists(Named) /\ Begins(m, "create", "post", Named, 0, roles)

(* Keycloak refuses a username that is taken.                              *)
PostAccount(m) ==
    /\ admin[m].op = "create" /\ admin[m].pc = "post"
    /\ open = {}
    /\ accounts < MaxAccounts
    /\ accounts' = accounts + 1
    /\ open' = {accounts'}
    /\ admin' \in {[admin EXCEPT ![m].account = accounts', ![m].pc = "read"], Ends(m)}
    /\ UNCHANGED <<mapped, granted, user, login>>

RolesBegin(m) ==
    \E roles \in Offered, r \in ({Named} \cup Account) \cap Edited :
        Exists(r) /\ Begins(m, "roles", "read", r, user[r].subject, roles)

(* _replace_keycloak_roles deletes the roles it has read and adds the new  *)
(* ones; a user without a subject is looked up by the username.            *)
ReadMappings(m) ==
    /\ admin[m].op # "none" /\ admin[m].pc = "read"
    /\ \E a \in open :
        /\ admin[m].account \in {0, a}
        /\ admin' = [admin EXCEPT ![m].account = a, ![m].had = mapped[a], ![m].pc = "strip"]
    /\ UNCHANGED <<accounts, open, mapped, granted, user, login>>

StripMappings(m) ==
    LET a == admin[m].account IN
    /\ admin[m].op # "none" /\ admin[m].pc = "strip"
    /\ admin[m].had # {} => Live(a)
    /\ mapped' = [mapped EXCEPT ![a] = @ \ admin[m].had]
    /\ admin' \in {[GoesTo(m, "grant") EXCEPT ![m].had = {}], Failed(m)}
    /\ UNCHANGED <<accounts, open, granted, user, login>>

GrantMappings(m) ==
    LET a == admin[m].account IN
    /\ admin[m].op # "none" /\ admin[m].pc = "grant"
    /\ Live(a)
    /\ mapped' = [mapped EXCEPT ![a] = @ \cup admin[m].roles]
    /\ granted' = [granted EXCEPT ![a] = @ \cup admin[m].roles]
    /\ Answered(m, "save")
    /\ UNCHANGED <<accounts, open, user, login>>

(* A call that fails without effect: the network, or an account that is    *)
(* gone.                                                                   *)
CallFails(m) ==
    /\ admin[m].op # "none" /\ admin[m].pc \in {"post", "read", "strip", "grant", "close"}
    /\ admin' = Failed(m)
    /\ UNCHANGED <<accounts, open, mapped, granted, user, login>>

UndoCreate(m) ==
    /\ admin[m].op # "none" /\ admin[m].pc = "undo"
    /\ Close(admin[m].account) \/ UNCHANGED <<open, mapped>>
    /\ admin' = Ends(m)
    /\ UNCHANGED <<accounts, granted, user, login>>

(* create_user saves a user with a chosen key: if one was made since the   *)
(* check, it is overwritten and keeps its membership.  A subject that      *)
(* another user has got by a login raises an IntegrityError, which nothing *)
(* compensates.                                                            *)
CreateUser(m) ==
    LET a == admin[m].account IN
    /\ admin[m].op = "create" /\ admin[m].pc = "save"
    /\ user' = IF Linked(a, Named) THEN user
               ELSE [user EXCEPT ![Named] = [Kept(Named) EXCEPT !.subject = a,
                        !.roles = admin[m].roles, !.managed = TRUE]]
    /\ admin' = Ends(m)
    /\ UNCHANGED <<accounts, open, mapped, granted, login>>

SaveRoles(m) ==
    LET r == admin[m].row IN
    /\ admin[m].op = "roles" /\ admin[m].pc = "save"
    /\ IF Exists(r)
       THEN /\ user' = [user EXCEPT ![r].roles = admin[m].roles, ![r].managed = TRUE]
            /\ admin' = IF admin[m].unlinked THEN GoesTo(m, "link") ELSE Ends(m)
       ELSE user' = user /\ admin' = Ends(m)
    /\ UNCHANGED <<accounts, open, mapped, granted, login>>

SaveSubject(m) ==
    LET r == admin[m].row IN
    /\ admin[m].op = "roles" /\ admin[m].pc = "link"
    /\ user' = IF ~Exists(r) \/ Linked(admin[m].account, r) THEN user
               ELSE [user EXCEPT ![r].subject = admin[m].account]
    /\ admin' = Ends(m)
    /\ UNCHANGED <<accounts, open, mapped, granted, login>>

-----------------------------------------------------------------------------
(* The deletion impact of the user is checked before the calls only.       *)
DeleteBegins(m) ==
    \E r \in ({Named} \cup Account) \cap Edited :
        Exists(r) /\ Begins(m, "delete", "close", r, user[r].subject, {})

CloseAccount(m) ==
    /\ admin[m].op # "none" /\ admin[m].pc = "close"
    /\ \E a \in open :
        /\ admin[m].account \in {0, a}
        /\ Close(a)
    /\ Answered(m, "drop")
    /\ UNCHANGED <<accounts, granted, user, login>>

(* The local user stays if a protected record refers to it.                *)
DropUser(m) ==
    /\ admin[m].op # "none" /\ admin[m].pc = "drop"
    /\ user' \in {user, [user EXCEPT ![admin[m].row] = NoUser]}
    /\ admin' = Ends(m)
    /\ UNCHANGED <<accounts, open, mapped, granted, login>>

(* Mutant: the roles of every membership follow the privileges.            *)
SyncedRegardless(u) == [u EXCEPT !.roles = {Member} \cup u.privileges]

(* sync_user_groups: the roles follow the privileges unless they come from *)
(* Keycloak.                                                               *)
Synced(u) == [u EXCEPT !.roles = IF u.managed THEN u.roles ELSE {Member} \cup u.privileges]

LocalCreateBegins(m) ==
    \E p \in SUBSET Legacy : ~Exists(Named) /\ Begins(m, "local", "save", Named, 0, p)

(* One transaction, which a privilege that an overwritten user has already *)
(* ends without effect.                                                    *)
LocalCreate(m) ==
    LET p == admin[m].roles
        u == Kept(Named)
    IN
    /\ admin[m].op = "local"
    /\ user' = IF u.privileges \cap p # {} THEN user
               ELSE [user EXCEPT ![Named] =
                        Synced([u EXCEPT !.subject = 0, !.privileges = @ \cup p])]
    /\ admin' = Ends(m)
    /\ UNCHANGED <<accounts, open, mapped, granted, login>>

(* A change of privileges deletes the old rows, whose signals bring the    *)
(* roles up to date, ... (An empty list ends like a request that dies      *)
(* between the two.)                                                       *)
PrivilegesBegin(m) ==
    \E r \in ({Named} \cup Account) \cap Privileged, p \in (SUBSET Legacy) \ {{}} :
        Exists(r) /\ Begins(m, "privileges", "clear", r, 0, p)

ClearPrivileges(m) ==
    LET r == admin[m].row IN
    /\ admin[m].op = "privileges" /\ admin[m].pc = "clear"
    /\ user' = IF Kept(r).privileges = {} THEN user
               ELSE [user EXCEPT ![r] = Synced([user[r] EXCEPT !.privileges = {}])]
    /\ admin' = GoesTo(m, "add")
    /\ UNCHANGED <<accounts, open, mapped, granted, login>>

(* ... and inserts the new ones in bulk, which sends no signal: the roles  *)
(* stay those without privileges.  A row that another request has inserted *)
(* and a user that is gone refuse the insertion.                           *)
AddPrivileges(m) ==
    LET r == admin[m].row
        p == admin[m].roles
    IN
    /\ admin[m].op = "privileges" /\ admin[m].pc = "add"
    /\ user' = IF ~Exists(r) \/ Kept(r).privileges \cap p # {} THEN user
               ELSE [user EXCEPT ![r].privileges = @ \cup p]
    /\ admin' = Ends(m)
    /\ UNCHANGED <<accounts, open, mapped, granted, login>>

LocalDelete(m) ==
    /\ admin[m] = Idle
    /\ \E r \in {Named} \cup Account : Exists(r) /\ user' = [user EXCEPT ![r] = NoUser]
    /\ UNCHANGED <<accounts, open, mapped, granted, admin, login>>

AdminDies(m) ==
    /\ admin[m] # Idle
    /\ admin' = Ends(m)
    /\ UNCHANGED <<accounts, open, mapped, granted, user, login>>

-----------------------------------------------------------------------------
(* The code of a login is exchanged for a token with the roles of the      *)
(* account; a token without a known role is refused.                       *)
LoginExchange(v) ==
    /\ login[v] = Idle
    /\ \E a \in open :
        /\ mapped[a] # {}
        /\ login' = [login EXCEPT ![v] = [op |-> "login", account |-> a, roles |-> mapped[a]]]
    /\ UNCHANGED <<accounts, open, mapped, granted, user, admin>>

LoginUser(v) ==
    LET a == login[v].account
        mine == {r \in {Named} \cup Account : Exists(r) /\ user[r].subject = a}
        row == IF mine = {} THEN a ELSE CHOOSE r \in mine : TRUE
    IN
    /\ login[v].op = "login"
    /\ user' = [user EXCEPT ![row] = [Kept(row) EXCEPT !.subject = a,
                  !.roles = {Member} \cup login[v].roles, !.managed = TRUE]]
    /\ login' = [login EXCEPT ![v] = Idle]
    /\ UNCHANGED <<accounts, open, mapped, granted, admin>>

LoginFails(v) ==
    /\ login[v] # Idle
    /\ login' = [login EXCEPT ![v] = Idle]
    /\ UNCHANGED <<accounts, open, mapped, granted, user, admin>>

AdminStep(m) ==
    \/ CreateBegins(m) \/ PostAccount(m) \/ RolesBegin(m)
    \/ ReadMappings(m) \/ StripMappings(m) \/ GrantMappings(m) \/ CallFails(m) \/ UndoCreate(m)
    \/ CreateUser(m) \/ SaveRoles(m) \/ SaveSubject(m)
    \/ DeleteBegins(m) \/ CloseAccount(m) \/ DropUser(m)
    \/ LocalCreateBegins(m) \/ LocalCreate(m)
    \/ PrivilegesBegin(m) \/ ClearPrivileges(m) \/ AddPrivileges(m)
    \/ LocalDelete(m) \/ AdminDies(m)

LoginStep(v) == LoginExchange(v) \/ LoginUser(v) \/ LoginFails(v)

StaffNext == (\E m \in Admin : AdminStep(m)) \/ (\E v \in Login : LoginStep(v))

StaffSpec == StaffInit /\ [][StaffNext]_staffVars
-----------------------------------------------------------------------------
(* A membership that Keycloak manages has no role, except that of a        *)
(* member, that Keycloak has never given to the person: calls may fail     *)
(* halfway, requests overlap, logins bring old tokens and privileges are   *)
(* changed meanwhile, but roles are only ever saved as managed after the   *)
(* account has got them, and privileges never overwrite them.  A user made *)
(* by a login has the roles of its own account.                            *)
RolesWereGranted ==
    \A r \in {Named} \cup Account : Exists(r) /\ user[r].managed =>
        user[r].roles \subseteq {Member} \cup
            (IF r = Named THEN UNION {granted[a] : a \in Account} ELSE granted[r])
=============================================================================
