------------------------------ MODULE Accounts ------------------------------
(***************************************************************************)
(* How accounts come into being: the first registration of a tenant, and   *)
(* invites accepted with a password or with a Google login                 *)
(* (backend/api/auth_api.py, backend/api/sso_api.py and the two            *)
(* repositories below them).                                               *)
(*                                                                         *)
(* A handler never awaits, so within one API process handlers do not       *)
(* interleave; API processes do, between any two queries.  The database    *)
(* keeps usernames unique and runs one query at a time.                    *)
(***************************************************************************)
EXTENDS Naturals, FiniteSets

CONSTANTS
    Process,      \* API processes
    Username,     \* names that can be asked for
    BadUsername,  \* those the pattern of create_user rejects
    Tenant,
    Email,        \* addresses, each that of one Google identity
    Invite,       \* invites that can be created
    None,         \* no tenant, no invite, no identity
    MaxCrashes    \* bound: how often a process dies inside a handler

ASSUME BadUsernameAssumption == BadUsername \subseteq Username
ASSUME NoneAssumption == None \notin Tenant \cup Invite \cup Email
ASSUME CrashAssumption == MaxCrashes \in Nat

VARIABLES
    users,    \* User nodes by username
    invites,  \* Invite nodes
    pc,       \* the next query of each process
    req,      \* the request it handles
    crashes,
    lost      \* history: invites spent by a request that created no account

vars == <<users, invites, pc, req, crashes, lost>>

\* UserRole: only ADMIN may manage users.
Role == {"ADMIN", "VIEWER"}

\* origin and sso_subject say how the account was made; late is history: was
\* the request received when its precondition had already failed?
UserRow == [tenant_id : Tenant \cup {None}, role : Role, origin : Invite \cup {None},
            sso_subject : Email \cup {None}, late : BOOLEAN]
NoUser == [tenant_id |-> None, role |-> "VIEWER", origin |-> None,
           sso_subject |-> None, late |-> FALSE]

InviteRow == [state : {"none", "open", "expired", "used"},
              email : Email \cup {None}, tenant_id : Tenant \cup {None}, role : Role]
NoInvite == [state |-> "none", email |-> None, tenant_id |-> None, role |-> "VIEWER"]

Request == [op : {"none", "register", "accept", "sso"}, username : Username \cup {None},
            tenant_id : Tenant \cup {None}, role : Role, invite : Invite \cup {None},
            email : Email \cup {None}, retried : BOOLEAN, late : BOOLEAN]
NoRequest == [op |-> "none", username |-> None, tenant_id |-> None, role |-> "VIEWER",
              invite |-> None, email |-> None, retried |-> FALSE, late |-> FALSE]

Label == {"idle", "find_linked", "consume", "check_name", "check_tenant", "create"}

TypeOK ==
    /\ users \in [Username -> UserRow]
    /\ invites \in [Invite -> InviteRow]
    /\ pc \in [Process -> Label]
    /\ req \in [Process -> Request]
    /\ crashes \in 0..MaxCrashes
    /\ lost \subseteq Invite

Init ==
    /\ users = [u \in Username |-> NoUser]
    /\ invites = [i \in Invite |-> NoInvite]
    /\ pc = [p \in Process |-> "idle"]
    /\ req = [p \in Process |-> NoRequest]
    /\ crashes = 0
    /\ lost = {}

Exists(u) == users[u].tenant_id # None
\* tenant_has_any_users
HasMembers(t) == \E u \in Username : users[u].tenant_id = t
\* get_user_by_sso
Linked(e) == \E u \in Username : Exists(u) /\ users[u].sso_subject = e

\* The request of p has consumed its invite and may still use it.
Holds(p, i) == req[p].invite = i /\ pc[p] \in {"check_name", "create"}
Held(p) == {i \in Invite : Holds(p, i)}

At(p, here) == pc[p] = here
Goto(p, there) == pc' = [pc EXCEPT ![p] = there]
\* The handler answers, whatever it answers.
Answer(p) == Goto(p, "idle") /\ req' = [req EXCEPT ![p] = NoRequest]
\* ... without having created an account: an invite it holds is spent.
Refuse(p) == Answer(p) /\ lost' = lost \cup Held(p) /\ UNCHANGED <<users, invites>>

-----------------------------------------------------------------------------
(* Invites                                                                 *)

\* Invite i, in another state.
Marked(i, s) == [state |-> s, email |-> invites[i].email,
                 tenant_id |-> invites[i].tenant_id, role |-> invites[i].role]

\* The row create_invite writes.
Opened(t, e, r) == [state |-> "open", email |-> e, tenant_id |-> t, role |-> r]

\* POST /invites: an administrator invites into the tenant of the token.  A
\* failing email does not undo the invite.
CreateInvite(u, i, e, r) ==
    /\ Exists(u) /\ users[u].role = "ADMIN"
    /\ invites[i].state = "none"
    /\ invites' = [invites EXCEPT ![i] = Opened(users[u].tenant_id, e, r)]
    /\ UNCHANGED <<users, pc, req, crashes, lost>>

\* Seven days pass.
Expire(i) ==
    /\ invites[i].state = "open"
    /\ invites' = [invites EXCEPT ![i] = Marked(i, "expired")]
    /\ UNCHANGED <<users, pc, req, crashes, lost>>

-----------------------------------------------------------------------------
(* A request arrives                                                       *)

Receive(p, first, request) ==
    /\ At(p, "idle")
    /\ Goto(p, first)
    /\ req' = [req EXCEPT ![p] = request]
    /\ UNCHANGED <<users, invites, crashes, lost>>

\* POST /register, for any tenant and role.
Register(p, u, t, r) ==
    Receive(p, "check_name",
            [op |-> "register", username |-> u, tenant_id |-> t, role |-> r, invite |-> None,
             email |-> None, retried |-> FALSE, late |-> HasMembers(t)])

\* POST /invites/{token}/accept.
Accept(p, i, u) ==
    /\ invites[i].state # "none"
    /\ Receive(p, "consume",
               [op |-> "accept", username |-> u, tenant_id |-> None, role |-> "VIEWER",
                invite |-> i, email |-> None, retried |-> FALSE, late |-> FALSE])

\* GET /oidc/callback, with a verified identity and the invite of the state,
\* if any.  Google and the state let each login come back once.
Callback(p, e, i, u) ==
    /\ u \notin BadUsername
    /\ i # None => invites[i].state # "none"
    /\ Receive(p, "find_linked",
               [op |-> "sso", username |-> u, tenant_id |-> None, role |-> "VIEWER",
                invite |-> i, email |-> e, retried |-> FALSE, late |-> Linked(e)])

-----------------------------------------------------------------------------
(* Its queries                                                             *)

\* Mutant of FindLinked: the linked account is not looked up first.
MutantFindLinked(p) ==
    /\ At(p, "find_linked")
    /\ IF req[p].invite = None
         THEN Refuse(p)
         ELSE Goto(p, "consume") /\ UNCHANGED <<users, invites, req, lost>>
    /\ UNCHANGED crashes

\* A linked account gets its token; without one, an invite is needed.
FindLinked(p) ==
    /\ At(p, "find_linked")
    /\ IF Linked(req[p].email) \/ req[p].invite = None
         THEN Refuse(p)
         ELSE Goto(p, "consume") /\ UNCHANGED <<users, invites, req, lost>>
    /\ UNCHANGED crashes

Redeemable(i) == invites[i].state = "open"
\* The request with what consume_invite returns.
Carrying(r, i) == [op |-> r.op, username |-> r.username, tenant_id |-> invites[i].tenant_id,
                   role |-> invites[i].role, invite |-> r.invite, email |-> r.email,
                   retried |-> r.retried, late |-> r.late]

\* Mutant of Consume: the gate is a preview (get_invite), not the single
\* MATCH ... WHERE ... SET.
MutantConsume(p) ==
    LET i == req[p].invite
    IN /\ At(p, "consume")
       /\ IF invites[i].state \in {"open", "used"}
            THEN /\ invites' = [invites EXCEPT ![i] = Marked(i, "used")]
                 /\ Goto(p, "check_name")
                 /\ req' = [req EXCEPT ![p] = Carrying(@, i)]
                 /\ UNCHANGED <<users, lost>>
            ELSE Refuse(p)
       /\ UNCHANGED crashes

\* consume_invite checks and marks in one query.  An invite sent to another
\* address than that of the Google identity is refused after it is spent.
Consume(p) ==
    LET i == req[p].invite
    IN /\ At(p, "consume")
       /\ \/ /\ ~Redeemable(i)
             /\ Refuse(p)
          \/ /\ Redeemable(i)
             /\ invites' = [invites EXCEPT ![i] = Marked(i, "used")]
             /\ UNCHANGED users
             /\ IF req[p].op = "sso" /\ invites[i].email # req[p].email
                  THEN Answer(p) /\ lost' = lost \cup {i}
                  ELSE /\ Goto(p, "check_name")
                       /\ req' = [req EXCEPT ![p] = Carrying(@, i)]
                       /\ UNCHANGED lost
       /\ UNCHANGED crashes

Retrying(r, u) == [op |-> r.op, username |-> u, tenant_id |-> r.tenant_id, role |-> r.role,
                   invite |-> r.invite, email |-> r.email, retried |-> TRUE, late |-> r.late]

\* create_user and create_sso_user look the name up.  A name that is taken or
\* malformed is refused, except that a Google login tries once more, under
\* its name with a random suffix.
CheckName(p) ==
    LET r == req[p]
        taken == Exists(r.username)
    IN /\ At(p, "check_name")
       /\ \/ /\ r.username \in BadUsername \/ (taken /\ (r.op # "sso" \/ r.retried))
             /\ Refuse(p)
          \/ /\ r.username \notin BadUsername /\ taken /\ r.op = "sso" /\ ~r.retried
             /\ \E u \in Username \ BadUsername : req' = [req EXCEPT ![p] = Retrying(r, u)]
             /\ UNCHANGED <<users, invites, pc, lost>>
          \/ /\ r.username \notin BadUsername /\ ~taken
             /\ Goto(p, IF r.op = "register" THEN "check_tenant" ELSE "create")
             /\ UNCHANGED <<users, invites, req, lost>>
       /\ UNCHANGED crashes

\* Registration may only found a tenant (enforce_tenant_bootstrap).
CheckTenant(p) ==
    /\ At(p, "check_tenant")
    /\ IF HasMembers(req[p].tenant_id)
         THEN Refuse(p)
         ELSE Goto(p, "create") /\ UNCHANGED <<users, invites, req, lost>>
    /\ UNCHANGED crashes

\* The User node, unless the constraint finds its name taken meanwhile.
Create(p) ==
    LET r == req[p]
    IN /\ At(p, "create")
       /\ \/ /\ Exists(r.username)
             /\ Refuse(p)
          \/ /\ ~Exists(r.username)
             /\ users' = [users EXCEPT ![r.username] =
                            [tenant_id |-> r.tenant_id, role |-> r.role, origin |-> r.invite,
                             sso_subject |-> r.email, late |-> r.late]]
             /\ Answer(p)
             /\ UNCHANGED <<invites, lost>>
       /\ UNCHANGED crashes

\* The process dies, or the database does not answer, in the middle.
Crash(p) ==
    /\ crashes < MaxCrashes
    /\ ~At(p, "idle")
    /\ crashes' = crashes + 1
    /\ Refuse(p)

Handle(p) == FindLinked(p) \/ Consume(p) \/ CheckName(p) \/ CheckTenant(p) \/ Create(p)

Next ==
    \/ \E u \in Username, i \in Invite, e \in Email, r \in Role : CreateInvite(u, i, e, r)
    \/ \E i \in Invite : Expire(i)
    \/ \E p \in Process :
         \/ \E u \in Username, t \in Tenant, r \in Role : Register(p, u, t, r)
         \/ \E i \in Invite, u \in Username : Accept(p, i, u)
         \/ \E e \in Email, i \in Invite \cup {None}, u \in Username : Callback(p, e, i, u)
         \/ Handle(p)
         \/ Crash(p)

Spec == Init /\ [][Next]_vars

-----------------------------------------------------------------------------
(* Properties                                                              *)

Redeemed(i) == \E u \in Username : Exists(u) /\ users[u].origin = i

\* An invite that consume_invite marked used is in one place: with the one
\* request that goes on to create its account, or in the one account made
\* from it, or spent by a request that was refused (a name that is taken, the
\* wrong Google account) or died.  It never makes two accounts, and no account
\* is made from an invite that is still open.
InvitesAreAccountedFor ==
    \A i \in Invite :
      /\ \A p, q \in Process : Holds(p, i) /\ Holds(q, i) => p = q
      /\ \A u, v \in Username :
           users[u].origin = i /\ users[v].origin = i /\ Exists(u) /\ Exists(v) => u = v
      /\ \A p \in Process : Holds(p, i) => ~Redeemed(i) /\ i \notin lost
      /\ Redeemed(i) => i \notin lost
      /\ (invites[i].state = "used") <=> ((\E p \in Process : Holds(p, i)) \/ Redeemed(i) \/ i \in lost)

\* Registration only founds tenants and a Google identity is only linked once,
\* up to requests that overlap: a registration received when the tenant had a
\* member, or a first login received when the identity had an account, never
\* makes an account, whatever other processes do meanwhile.
LateRequestsCreateNothing == \A u \in Username : ~users[u].late
-----------------------------------------------------------------------------
(* Why they are inductive                                                  *)

\* What each query may rely on.  A late registration passes the name check
\* only to meet the members it came after, a late login never gets past
\* find_linked; whoever may still create an account knows its tenant.
Sound(p) ==
    LET r == req[p]
    IN /\ r.op = "register" /\ r.late => HasMembers(r.tenant_id)
       /\ r.op = "sso" /\ r.late => Linked(r.email)
       /\ r.op = "accept" => ~r.late
       /\ pc[p] # "idle" => r.username \in Username /\ r.op # "none"
       /\ pc[p] = "find_linked" => r.op = "sso"
       /\ pc[p] = "consume" => r.op # "register" /\ r.invite \in Invite /\ ~r.late
       /\ pc[p] = "check_tenant" => r.op = "register"
       /\ pc[p] \in {"check_name", "create"} /\ r.op # "register" => r.invite \in Invite /\ ~r.late
       /\ pc[p] \in {"check_name", "check_tenant", "create"} => r.tenant_id \in Tenant
       /\ pc[p] = "create" => ~r.late
       /\ r.op = "register" => r.tenant_id \in Tenant /\ r.invite = None

AccountsInv ==
    /\ TypeOK
    /\ \A i \in Invite : invites[i].state # "none" => invites[i].tenant_id \in Tenant
    /\ \A p \in Process : Sound(p)
    /\ LateRequestsCreateNothing
=============================================================================
