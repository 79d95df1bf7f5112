--------------------------- MODULE AccountsProofs ---------------------------
(***************************************************************************)
(* For any processes, names, tenants, identities and invites: requests     *)
(* that come too late create nothing, and every used invite is accounted   *)
(* for.                                                                    *)
(***************************************************************************)
EXTENDS Accounts, TLAPS

TenantsOfInvites == \A i \in Invite : invites[i].state # "none" => invites[i].tenant_id \in Tenant

LEMMA InitInv == Init => AccountsInv
BY NoneAssumption, CrashAssumption
   DEF Init, AccountsInv, TypeOK, UserRow, NoUser, InviteRow, NoInvite, Request, NoRequest, Role,
       Label, Sound, LateRequestsCreateNothing

\* Accounts stay, so what a late request came after stays too.
LEMMA Lasting ==
    ASSUME \A u \in Username : Exists(u) => users'[u] = users[u]
    PROVE  /\ \A t \in Tenant : HasMembers(t) => HasMembers(t)'
           /\ \A e : Linked(e) => Linked(e)'
BY NoneAssumption DEF Exists, HasMembers, Linked

\* A step of p leaves what the other processes rely on.
LEMMA OthersSound ==
    ASSUME AccountsInv, NEW p \in Process,
           \A u \in Username : Exists(u) => users'[u] = users[u],
           \A q \in Process \ {p} : pc'[q] = pc[q] /\ req'[q] = req[q]
    PROVE  \A q \in Process \ {p} : Sound(q)'
<1>1. SUFFICES ASSUME NEW q \in Process \ {p} PROVE Sound(q)'
  OBVIOUS
<1>2. Sound(q) /\ pc'[q] = pc[q] /\ req'[q] = req[q] /\ req[q] \in Request
  BY DEF AccountsInv, TypeOK
<1>3. req[q].op = "register" /\ req[q].late => HasMembers(req[q].tenant_id)'
  BY <1>2, Lasting DEF Sound
<1>4. req[q].op = "sso" /\ req[q].late => Linked(req[q].email)'
  BY <1>2, Lasting DEF Sound
<1>5. QED BY <1>2, <1>3, <1>4 DEF Sound

\* An idle process relies on nothing.
LEMMA IdleSound ==
    ASSUME NEW p \in Process, pc'[p] = "idle", req'[p] = NoRequest PROVE Sound(p)'
BY DEF Sound, NoRequest

LEMMA RefuseStep ==
    ASSUME AccountsInv, NEW p \in Process, Refuse(p), crashes' \in 0..MaxCrashes PROVE AccountsInv'
<1>1. pc'[p] = "idle" /\ req'[p] = NoRequest
  BY DEF Refuse, Answer, Goto, AccountsInv, TypeOK
<1>2. TypeOK'
  BY DEF Refuse, Answer, Goto, Held, AccountsInv, TypeOK, Label, Request, NoRequest, Role
<1>3. \A q \in Process \ {p} : Sound(q)'
  BY OthersSound DEF Refuse, Answer, Goto, AccountsInv, TypeOK
<1>4. Sound(p)' BY <1>1, IdleSound
<1>5. QED BY <1>2, <1>3, <1>4 DEF Refuse, AccountsInv, LateRequestsCreateNothing

LEMMA InviteStep ==
    ASSUME AccountsInv, NEW i \in Invite,
           Expire(i) \/ \E u \in Username, e \in Email, r \in Role : CreateInvite(u, i, e, r)
    PROVE  AccountsInv'
<1>1. UNCHANGED <<users, pc, req, crashes, lost>>
  BY DEF Expire, CreateInvite
<1>2. invites' \in [Invite -> InviteRow] /\ TenantsOfInvites'
  <2>1. PICK row \in InviteRow : /\ invites' = [invites EXCEPT ![i] = row]
                                 /\ row.tenant_id \in Tenant
    <3>1. CASE Expire(i)
      <4>1. invites[i].tenant_id \in Tenant /\ Marked(i, "expired") \in InviteRow
        BY <3>1 DEF Expire, Marked, AccountsInv, TypeOK, InviteRow
      <4>2. Marked(i, "expired").tenant_id = invites[i].tenant_id BY DEF Marked
      <4>3. QED BY <3>1, <4>1, <4>2 DEF Expire
    <3>2. ASSUME NEW u \in Username, NEW e \in Email, NEW r \in Role, CreateInvite(u, i, e, r)
          PROVE  \E row \in InviteRow : /\ invites' = [invites EXCEPT ![i] = row]
                                        /\ row.tenant_id \in Tenant
      <4>1. users[u].tenant_id \in Tenant
        BY <3>2 DEF CreateInvite, Exists, AccountsInv, TypeOK, UserRow
      <4>2. /\ Opened(users[u].tenant_id, e, r) \in InviteRow
            /\ Opened(users[u].tenant_id, e, r).tenant_id = users[u].tenant_id
        BY <4>1 DEF Opened, InviteRow
      <4>3. QED BY <3>2, <4>1, <4>2 DEF CreateInvite
    <3>3. QED BY <3>1, <3>2
  <2>2. QED BY <2>1 DEF TenantsOfInvites, AccountsInv, TypeOK
<1>3. \A p \in Process : Sound(p)'
  BY <1>1 DEF AccountsInv, Sound, HasMembers, Linked, Exists
<1>4. QED
  BY <1>1, <1>2, <1>3 DEF AccountsInv, TypeOK, TenantsOfInvites, LateRequestsCreateNothing

\* A request moves on to its next query: only pc, req and invites change.
LEMMA MoveStep ==
    ASSUME AccountsInv, NEW p \in Process, NEW label \in Label, NEW request \in Request,
           UNCHANGED <<users, crashes>>, lost' \subseteq Invite,
           pc' = [pc EXCEPT ![p] = label], req' = [req EXCEPT ![p] = request],
           invites' \in [Invite -> InviteRow], TenantsOfInvites', Sound(p)'
    PROVE  AccountsInv'
<1>1. TypeOK' BY DEF AccountsInv, TypeOK
<1>2. \A q \in Process \ {p} : Sound(q)'
  BY OthersSound DEF AccountsInv, TypeOK
<1>3. QED BY <1>1, <1>2 DEF AccountsInv, TenantsOfInvites, LateRequestsCreateNothing

LEMMA RegisterStep ==
    ASSUME AccountsInv, NEW p \in Process, NEW u \in Username, NEW t \in Tenant, NEW r \in Role,
           Register(p, u, t, r)
    PROVE  AccountsInv'
<1> DEFINE request == [op |-> "register", username |-> u, tenant_id |-> t, role |-> r,
                       invite |-> None, email |-> None, retried |-> FALSE, late |-> HasMembers(t)]
<1>1. /\ UNCHANGED <<users, invites, crashes, lost>>
      /\ pc' = [pc EXCEPT ![p] = "check_name"] /\ req' = [req EXCEPT ![p] = request]
  BY DEF Register, Receive, Goto
<1>2. request \in Request BY DEF Request, HasMembers
<1>3. pc'[p] = "check_name" /\ req'[p] = request
  BY <1>1 DEF AccountsInv, TypeOK
<1>4. HasMembers(t)' = HasMembers(t) BY <1>1 DEF HasMembers
<1>5. Sound(p)' BY <1>3, <1>4 DEF Sound
<1>6. QED BY <1>1, <1>2, <1>5, MoveStep DEF AccountsInv, TypeOK, Label, TenantsOfInvites

LEMMA AcceptStep ==
    ASSUME AccountsInv, NEW p \in Process, NEW i \in Invite, NEW u \in Username, Accept(p, i, u)
    PROVE  AccountsInv'
<1> DEFINE request == [op |-> "accept", username |-> u, tenant_id |-> None, role |-> "VIEWER",
                       invite |-> i, email |-> None, retried |-> FALSE, late |-> FALSE]
<1>1. /\ UNCHANGED <<users, invites, crashes, lost>>
      /\ pc' = [pc EXCEPT ![p] = "consume"] /\ req' = [req EXCEPT ![p] = request]
  BY DEF Accept, Receive, Goto
<1>2. request \in Request BY DEF Request, Role
<1>3. pc'[p] = "consume" /\ req'[p] = request
  BY <1>1 DEF AccountsInv, TypeOK
<1>4. Sound(p)' BY <1>3 DEF Sound
<1>5. QED BY <1>1, <1>2, <1>4, MoveStep DEF AccountsInv, TypeOK, Label, TenantsOfInvites

LEMMA CallbackStep ==
    ASSUME AccountsInv, NEW p \in Process, NEW e \in Email, NEW i \in Invite \cup {None},
           NEW u \in Username, Callback(p, e, i, u)
    PROVE  AccountsInv'
<1> DEFINE request == [op |-> "sso", username |-> u, tenant_id |-> None, role |-> "VIEWER",
                       invite |-> i, email |-> e, retried |-> FALSE, late |-> Linked(e)]
<1>1. /\ UNCHANGED <<users, invites, crashes, lost>>
      /\ pc' = [pc EXCEPT ![p] = "find_linked"] /\ req' = [req EXCEPT ![p] = request]
  BY DEF Callback, Receive, Goto
<1>2. request \in Request BY DEF Request, Role, Linked
<1>3. pc'[p] = "find_linked" /\ req'[p] = request
  BY <1>1 DEF AccountsInv, TypeOK
<1>4. Linked(e)' = Linked(e) BY <1>1 DEF Linked, Exists
<1>5. Sound(p)' BY <1>3, <1>4 DEF Sound
<1>6. QED BY <1>1, <1>2, <1>5, MoveStep DEF AccountsInv, TypeOK, Label, TenantsOfInvites

LEMMA FindLinkedStep ==
    ASSUME AccountsInv, NEW p \in Process, FindLinked(p) PROVE AccountsInv'
<1>1. CASE Linked(req[p].email) \/ req[p].invite = None
  BY <1>1, RefuseStep DEF FindLinked, AccountsInv, TypeOK
<1>2. CASE ~(Linked(req[p].email) \/ req[p].invite = None)
  <2>1. /\ UNCHANGED <<users, invites, req, crashes, lost>> /\ pc[p] = "find_linked"
        /\ pc' = [pc EXCEPT ![p] = "consume"]
    BY <1>2 DEF FindLinked, Goto, At
  <2>2. req' = [req EXCEPT ![p] = req[p]] /\ req[p] \in Request
    BY <2>1 DEF AccountsInv, TypeOK
  <2>3. pc'[p] = "consume" /\ req'[p] = req[p] /\ Sound(p)
    BY <2>1 DEF AccountsInv, TypeOK
  <2>4. Sound(p)' BY <1>2, <2>1, <2>2, <2>3 DEF Sound, Request
  <2>5. QED BY <2>1, <2>2, <2>4, MoveStep DEF AccountsInv, TypeOK, Label, TenantsOfInvites
<1>3. QED BY <1>1, <1>2

LEMMA ConsumeStep ==
    ASSUME AccountsInv, NEW p \in Process, Consume(p) PROVE AccountsInv'
<1> DEFINE i == req[p].invite
<1>1. pc[p] = "consume" /\ UNCHANGED crashes /\ Sound(p) /\ i \in Invite
      /\ req[p] \in Request /\ invites[i] \in InviteRow
  BY DEF Consume, At, AccountsInv, Sound, TypeOK
<1>2. CASE ~Redeemable(i)
  BY <1>1, <1>2, RefuseStep DEF Consume, Redeemable, AccountsInv, TypeOK
<1>3. CASE Redeemable(i)
  <2>1. invites' = [invites EXCEPT ![i] = Marked(i, "used")] /\ UNCHANGED users
    BY <1>3 DEF Consume
  <2>2. invites[i].tenant_id \in Tenant /\ invites[i].role \in Role
    BY <1>1, <1>3 DEF Redeemable, AccountsInv, InviteRow
  <2>3. invites' \in [Invite -> InviteRow] /\ TenantsOfInvites'
    BY <1>1, <2>1, <2>2 DEF Marked, InviteRow, TenantsOfInvites, AccountsInv, TypeOK
  <2>4. CASE req[p].op = "sso" /\ invites[i].email # req[p].email
    <3>1. pc' = [pc EXCEPT ![p] = "idle"] /\ req' = [req EXCEPT ![p] = NoRequest]
          /\ lost' = lost \cup {i}
      BY <1>3, <2>4 DEF Consume, Answer, Goto
    <3>2. Sound(p)' BY <3>1, IdleSound DEF AccountsInv, TypeOK
    <3>3. NoRequest \in Request /\ "idle" \in Label BY DEF NoRequest, Request, Role, Label
    <3>4. lost' \subseteq Invite BY <1>1, <3>1 DEF AccountsInv, TypeOK
    <3>5. QED BY <1>1, <2>1, <2>3, <3>1, <3>2, <3>3, <3>4, MoveStep
  <2>5. CASE ~(req[p].op = "sso" /\ invites[i].email # req[p].email)
    <3>1. pc' = [pc EXCEPT ![p] = "check_name"] /\ UNCHANGED lost
          /\ req' = [req EXCEPT ![p] = Carrying(req[p], i)]
      BY <1>3, <2>5 DEF Consume, Goto
    <3>2. Carrying(req[p], i) \in Request
      BY <1>1, <2>2 DEF Carrying, Request
    <3>3. pc'[p] = "check_name" /\ req'[p] = Carrying(req[p], i)
      BY <3>1 DEF AccountsInv, TypeOK
    <3>4. Sound(p)' BY <1>1, <2>2, <3>3 DEF Sound, Carrying
    <3>5. QED BY <1>1, <2>1, <2>3, <3>1, <3>2, <3>4, MoveStep DEF Label, AccountsInv, TypeOK
  <2>6. QED BY <2>4, <2>5
<1>4. QED BY <1>2, <1>3

LEMMA CheckNameStep ==
    ASSUME AccountsInv, NEW p \in Process, CheckName(p) PROVE AccountsInv'
<1>1. pc[p] = "check_name" /\ UNCHANGED crashes /\ Sound(p) /\ req[p] \in Request
  BY DEF CheckName, At, AccountsInv, TypeOK
<1>2. CASE Refuse(p)
  BY <1>1, <1>2, RefuseStep DEF AccountsInv, TypeOK
<1>3. CASE /\ req[p].op = "sso"
           /\ UNCHANGED <<users, invites, pc, lost>>
           /\ \E u \in Username \ BadUsername : req' = [req EXCEPT ![p] = Retrying(req[p], u)]
  <2>1. PICK u \in Username : req' = [req EXCEPT ![p] = Retrying(req[p], u)]
    BY <1>3
  <2>2. Retrying(req[p], u) \in Request BY <1>1 DEF Retrying, Request
  <2>3. pc'[p] = "check_name" /\ req'[p] = Retrying(req[p], u) /\ pc' = [pc EXCEPT ![p] = "check_name"]
    BY <1>1, <1>3, <2>1 DEF AccountsInv, TypeOK
  <2>4. Sound(p)'
    BY <1>1, <1>3, <2>3 DEF Sound, Retrying
  <2>5. QED BY <1>1, <1>3, <2>1, <2>2, <2>3, <2>4, MoveStep DEF Label, AccountsInv, TypeOK, TenantsOfInvites
<1>4. CASE /\ UNCHANGED <<users, invites, req, lost>>
           /\ pc' = [pc EXCEPT ![p] = IF req[p].op = "register" THEN "check_tenant" ELSE "create"]
  <2> DEFINE label == IF req[p].op = "register" THEN "check_tenant" ELSE "create"
  <2>1. req' = [req EXCEPT ![p] = req[p]] /\ label \in Label
    BY <1>4 DEF AccountsInv, TypeOK, Label
  <2>2. pc'[p] = label /\ req'[p] = req[p]
    BY <1>4 DEF AccountsInv, TypeOK
  <2>3. HasMembers(req[p].tenant_id)' = HasMembers(req[p].tenant_id)
    BY <1>4 DEF HasMembers
  <2>4. Sound(p)' BY <1>1, <2>2, <2>3 DEF Sound, Request
  <2>5. QED BY <1>1, <1>4, <2>1, <2>4, MoveStep DEF AccountsInv, TypeOK, TenantsOfInvites
<1>5. QED BY <1>2, <1>3, <1>4 DEF CheckName, Goto

LEMMA CheckTenantStep ==
    ASSUME AccountsInv, NEW p \in Process, CheckTenant(p) PROVE AccountsInv'
<1>1. CASE HasMembers(req[p].tenant_id)
  BY <1>1, RefuseStep DEF CheckTenant, AccountsInv, TypeOK
<1>2. CASE ~HasMembers(req[p].tenant_id)
  <2>1. /\ UNCHANGED <<users, invites, req, crashes, lost>> /\ pc[p] = "check_tenant"
        /\ pc' = [pc EXCEPT ![p] = "create"]
    BY <1>2 DEF CheckTenant, Goto, At
  <2>2. req' = [req EXCEPT ![p] = req[p]] /\ req[p] \in Request
    BY <2>1 DEF AccountsInv, TypeOK
  <2>3. pc'[p] = "create" /\ req'[p] = req[p] /\ Sound(p)
    BY <2>1 DEF AccountsInv, TypeOK
  <2>4. Sound(p)' BY <1>2, <2>1, <2>2, <2>3 DEF Sound, Request
  <2>5. QED BY <2>1, <2>2, <2>4, MoveStep DEF AccountsInv, TypeOK, Label, TenantsOfInvites
<1>3. QED BY <1>1, <1>2

LEMMA CreateStep ==
    ASSUME AccountsInv, NEW p \in Process, Create(p) PROVE AccountsInv'
<1> DEFINE r == req[p]
<1>1. pc[p] = "create" /\ UNCHANGED crashes /\ Sound(p) /\ r \in Request
  BY DEF Create, At, AccountsInv, TypeOK
<1>2. CASE Exists(r.username)
  BY <1>1, <1>2, RefuseStep DEF Create, AccountsInv, TypeOK
<1>3. CASE ~Exists(r.username)
  <2> DEFINE row == [tenant_id |-> r.tenant_id, role |-> r.role, origin |-> r.invite,
                     sso_subject |-> r.email, late |-> r.late]
  <2>1. /\ users' = [users EXCEPT ![r.username] = row] /\ UNCHANGED <<invites, lost>>
        /\ pc' = [pc EXCEPT ![p] = "idle"] /\ req' = [req EXCEPT ![p] = NoRequest]
    BY <1>3 DEF Create, Answer, Goto
  <2>2. row \in UserRow /\ ~row.late
    BY <1>1 DEF UserRow, Request, Sound
  <2>3. TypeOK'
    BY <1>1, <2>1, <2>2 DEF AccountsInv, TypeOK, Label, NoRequest, Request, Role
  <2>4. \A u \in Username : Exists(u) => users'[u] = users[u]
    BY <1>3, <2>1 DEF AccountsInv, TypeOK
  <2>5. \A q \in Process \ {p} : Sound(q)'
    BY <2>1, <2>4, OthersSound DEF AccountsInv, TypeOK
  <2>6. Sound(p)' BY <2>1, IdleSound DEF AccountsInv, TypeOK
  <2>7. LateRequestsCreateNothing'
    BY <2>1, <2>2 DEF AccountsInv, TypeOK, LateRequestsCreateNothing
  <2>8. QED BY <2>1, <2>3, <2>5, <2>6, <2>7 DEF AccountsInv
<1>4. QED BY <1>2, <1>3

LEMMA CrashStep ==
    ASSUME AccountsInv, NEW p \in Process, Crash(p) PROVE AccountsInv'
BY RefuseStep, CrashAssumption DEF Crash, AccountsInv, TypeOK

LEMMA NextInv == AccountsInv /\ [Next]_vars => AccountsInv'
<1> SUFFICES ASSUME AccountsInv, [Next]_vars PROVE AccountsInv'
  OBVIOUS
<1>1. CASE \E i \in Invite : Expire(i) \/ \E u \in Username, e \in Email, r \in Role : CreateInvite(u, i, e, r)
  BY <1>1, InviteStep
<1>2. CASE \E p \in Process, u \in Username, t \in Tenant, r \in Role : Register(p, u, t, r)
  BY <1>2, RegisterStep
<1>3. CASE \E p \in Process, i \in Invite, u \in Username : Accept(p, i, u)
  BY <1>3, AcceptStep
<1>4. CASE \E p \in Process, e \in Email, i \in Invite \cup {None}, u \in Username : Callback(p, e, i, u)
  BY <1>4, CallbackStep
<1>5. CASE \E p \in Process : Handle(p) \/ Crash(p)
  BY <1>5, FindLinkedStep, ConsumeStep, CheckNameStep, CheckTenantStep, CreateStep, CrashStep DEF Handle
<1>6. CASE UNCHANGED vars
  BY <1>6 DEF vars, AccountsInv, TypeOK, Sound, HasMembers, Linked, Exists, LateRequestsCreateNothing
<1>7. QED BY <1>1, <1>2, <1>3, <1>4, <1>5, <1>6 DEF Next

-----------------------------------------------------------------------------
(* Where a used invite is                                                  *)

\* The part of InvitesAreAccountedFor about one invite.
Accounted(i) ==
    /\ \A p, q \in Process : Holds(p, i) /\ Holds(q, i) => p = q
    /\ \A u, v \in Username :
         users[u].origin = i /\ users[v].origin = i /\ Exists(u) /\ Exists(v) => u = v
    /\ \A p \in Process : Holds(p, i) => ~Redeemed(i) /\ i \notin lost
    /\ Redeemed(i) => i \notin lost
    /\ (invites[i].state = "used") <=> ((\E p \in Process : Holds(p, i)) \/ Redeemed(i) \/ i \in lost)

LEMMA InitAccounted == ASSUME Init, NEW i \in Invite PROVE Accounted(i)
BY NoneAssumption DEF Init, NoUser, NoInvite, NoRequest, Accounted, Holds, Redeemed, Exists

\* A step that moves no used invite anywhere.
LEMMA AccountedFrame ==
    ASSUME NEW i \in Invite, Accounted(i), UNCHANGED users,
           \A p \in Process : (Holds(p, i)' <=> Holds(p, i)),
           i \in lost' <=> i \in lost,
           invites'[i].state = "used" <=> invites[i].state = "used"
    PROVE  Accounted(i)'
<1>1. Redeemed(i)' <=> Redeemed(i) BY DEF Redeemed, Exists
<1>2. QED BY <1>1 DEF Accounted, Exists

LEMMA AccountedRefuse ==
    ASSUME AccountsInv, NEW i \in Invite, Accounted(i), NEW p \in Process, Refuse(p)
    PROVE  Accounted(i)'
<1>1. /\ UNCHANGED <<users, invites>> /\ lost' = lost \cup Held(p)
      /\ pc' = [pc EXCEPT ![p] = "idle"] /\ req' = [req EXCEPT ![p] = NoRequest]
  BY DEF Refuse, Answer, Goto
<1>2. ~Holds(p, i)' /\ \A q \in Process \ {p} : (Holds(q, i)' <=> Holds(q, i))
  BY <1>1 DEF Holds, AccountsInv, TypeOK
<1>3. CASE ~Holds(p, i)
  BY <1>1, <1>2, <1>3, AccountedFrame DEF Held
<1>4. CASE Holds(p, i)
  <2>1. i \in lost' BY <1>1, <1>4 DEF Held
  <2>2. Redeemed(i)' <=> Redeemed(i) BY <1>1 DEF Redeemed, Exists
  <2>3. \A q \in Process : ~Holds(q, i)'
    BY <1>2, <1>4 DEF Accounted
  <2>4. \A u, v \in Username :
          users'[u].origin = i /\ users'[v].origin = i /\ Exists(u)' /\ Exists(v)' => u = v
    BY <1>1 DEF Accounted, Exists
  <2>5. QED BY <1>1, <1>4, <2>1, <2>2, <2>3, <2>4 DEF Accounted
<1>5. QED BY <1>3, <1>4

\* A step of p between two queries that neither consumes nor creates.
LEMMA AccountedMove ==
    ASSUME AccountsInv, NEW i \in Invite, Accounted(i), NEW p \in Process,
           UNCHANGED <<users, invites, lost>>,
           \A q \in Process \ {p} : pc'[q] = pc[q] /\ req'[q] = req[q],
           (Holds(p, i)' <=> Holds(p, i))
    PROVE  Accounted(i)'
<1>1. \A q \in Process : (Holds(q, i)' <=> Holds(q, i)) BY DEF Holds
<1>2. QED BY <1>1, AccountedFrame

LEMMA AccountedConsume ==
    ASSUME AccountsInv, NEW i \in Invite, Accounted(i), NEW p \in Process, Consume(p)
    PROVE  Accounted(i)'
<1> DEFINE j == req[p].invite
<1>1. pc[p] = "consume" /\ j \in Invite /\ ~Holds(p, i)
  BY DEF Consume, At, AccountsInv, Sound, Holds
<1>2. CASE ~Redeemable(j)
  BY <1>2, AccountedRefuse DEF Consume
<1>3. CASE Redeemable(j)
  <2>1. /\ UNCHANGED users /\ invites' = [invites EXCEPT ![j] = Marked(j, "used")]
        /\ invites[j].state = "open"
    BY <1>3 DEF Consume, Redeemable
  <2>2. Redeemed(i)' <=> Redeemed(i) BY <2>1 DEF Redeemed, Exists
  <2>3. \A u, v \in Username :
          users'[u].origin = i /\ users'[v].origin = i /\ Exists(u)' /\ Exists(v)' => u = v
    BY <2>1 DEF Accounted, Exists
  <2>4. \A q \in Process \ {p} : (Holds(q, i)' <=> Holds(q, i))
    BY <1>3 DEF Consume, Answer, Goto, Holds, AccountsInv, TypeOK
  <2>5. CASE i # j
    <3>1. invites'[i] = invites[i] BY <2>1, <2>5 DEF AccountsInv, TypeOK
    <3>2. i \in lost' <=> i \in lost BY <1>3, <2>5 DEF Consume
    <3>3. ~Holds(p, i)'
      BY <1>1, <1>3, <2>5, NoneAssumption
         DEF Consume, Answer, Goto, Holds, Carrying, NoRequest, AccountsInv, TypeOK
    <3>4. QED BY <1>1, <2>1, <2>4, <3>1, <3>2, <3>3, AccountedFrame
  <2>6. CASE i = j
    <3>1. ~Redeemed(i) /\ i \notin lost /\ \A q \in Process : ~Holds(q, i)
      BY <2>1, <2>6 DEF Accounted
    <3>2. invites'[i].state = "used"
      BY <1>1, <2>1, <2>6 DEF Marked, AccountsInv, TypeOK
    <3>3. CASE req[p].op = "sso" /\ invites[j].email # req[p].email
      <4>1. i \in lost' /\ ~Holds(p, i)'
        BY <1>3, <2>6, <3>3 DEF Consume, Answer, Goto, Holds, AccountsInv, TypeOK
      <4>2. QED BY <2>2, <2>3, <2>4, <3>1, <3>2, <4>1 DEF Accounted
    <3>4. CASE ~(req[p].op = "sso" /\ invites[j].email # req[p].email)
      <4>1. lost' = lost /\ Holds(p, i)'
        BY <1>3, <2>6, <3>4 DEF Consume, Goto, Holds, Carrying, AccountsInv, TypeOK
      <4>2. QED BY <2>2, <2>3, <2>4, <3>1, <3>2, <4>1 DEF Accounted
    <3>5. QED BY <3>3, <3>4
  <2>7. QED BY <2>5, <2>6
<1>4. QED BY <1>2, <1>3

LEMMA AccountedCreate ==
    ASSUME AccountsInv, NEW i \in Invite, Accounted(i), NEW p \in Process, Create(p)
    PROVE  Accounted(i)'
<1> DEFINE r == req[p]
<1>1. pc[p] = "create" /\ r.username \in Username /\ r.tenant_id \in Tenant
  BY DEF Create, At, AccountsInv, Sound
<1>2. CASE Exists(r.username)
  BY <1>2, AccountedRefuse DEF Create
<1>3. CASE ~Exists(r.username)
  <2>1. /\ users' = [users EXCEPT ![r.username] =
                       [tenant_id |-> r.tenant_id, role |-> r.role, origin |-> r.invite,
                        sso_subject |-> r.email, late |-> r.late]]
        /\ pc' = [pc EXCEPT ![p] = "idle"] /\ req' = [req EXCEPT ![p] = NoRequest]
        /\ UNCHANGED <<invites, lost>>
    BY <1>3 DEF Create, Answer, Goto
  <2>2. /\ users'[r.username].origin = r.invite /\ users'[r.username].tenant_id # None
        /\ \A u \in Username \ {r.username} : users'[u] = users[u]
    <3> DEFINE row == [tenant_id |-> r.tenant_id, role |-> r.role, origin |-> r.invite,
                       sso_subject |-> r.email, late |-> r.late]
    <3>1. row.origin = r.invite /\ row.tenant_id # None BY <1>1, NoneAssumption
    <3>2. users'[r.username] = row BY <1>1, <2>1 DEF AccountsInv, TypeOK
    <3>3. \A u \in Username \ {r.username} : users'[u] = users[u]
      BY <2>1 DEF AccountsInv, TypeOK
    <3> HIDE DEF row
    <3>4. QED BY <3>1, <3>2, <3>3
  <2>3. ~Holds(p, i)' /\ \A q \in Process \ {p} : (Holds(q, i)' <=> Holds(q, i))
    BY <2>1 DEF Holds, AccountsInv, TypeOK
  <2>4. CASE r.invite # i
    <3>1. \A u \in Username : (Exists(u) /\ users[u].origin = i)' <=> (Exists(u) /\ users[u].origin = i)
      BY <1>3, <2>2, <2>4 DEF Exists
    <3>2. Redeemed(i)' <=> Redeemed(i) BY <3>1 DEF Redeemed
    <3>3. ~Holds(p, i) BY <2>4 DEF Holds
    <3>4. QED BY <2>1, <2>3, <3>1, <3>2, <3>3 DEF Accounted
  <2>5. CASE r.invite = i
    <3>1. Holds(p, i) BY <1>1, <2>5 DEF Holds
    <3>2. ~Redeemed(i) /\ i \notin lost /\ invites[i].state = "used"
      BY <3>1 DEF Accounted
    <3>3. \A u \in Username \ {r.username} : ~(Exists(u) /\ users[u].origin = i)'
      BY <2>2, <3>2 DEF Redeemed, Exists
    <3>4. Redeemed(i)' BY <1>1, <2>2, <2>5 DEF Redeemed, Exists
    <3>5. \A q \in Process : ~Holds(q, i)'
      BY <2>3, <3>1 DEF Accounted
    <3>6. QED BY <2>1, <3>2, <3>3, <3>4, <3>5 DEF Accounted
  <2>6. QED BY <2>4, <2>5
<1>4. QED BY <1>2, <1>3

LEMMA AccountedNext ==
    ASSUME AccountsInv, [Next]_vars, NEW i \in Invite, Accounted(i) PROVE Accounted(i)'
<1>1. CASE \E j \in Invite : Expire(j) \/ \E u \in Username, e \in Email, r \in Role : CreateInvite(u, j, e, r)
  <2>1. UNCHANGED <<users, pc, req, lost>> /\ (invites'[i].state = "used" <=> invites[i].state = "used")
    BY <1>1 DEF Expire, CreateInvite, Marked, Opened, AccountsInv, TypeOK
  <2>2. QED BY <2>1, AccountedFrame DEF Holds
<1>2. CASE \E p \in Process :
             \/ \E u \in Username, t \in Tenant, r \in Role : Register(p, u, t, r)
             \/ \E j \in Invite, u \in Username : Accept(p, j, u)
             \/ \E e \in Email, j \in Invite \cup {None}, u \in Username : Callback(p, e, j, u)
  <2>1. PICK p \in Process, label \in Label, request \in Request :
          /\ pc[p] = "idle" /\ UNCHANGED <<users, invites, lost>>
          /\ pc' = [pc EXCEPT ![p] = label] /\ req' = [req EXCEPT ![p] = request]
          /\ label = "check_name" => request.invite = None
          /\ label # "create"
    <3>1. PICK p \in Process :
             \/ \E u \in Username, t \in Tenant, r \in Role : Register(p, u, t, r)
             \/ \E j \in Invite, u \in Username : Accept(p, j, u)
             \/ \E e \in Email, j \in Invite \cup {None}, u \in Username : Callback(p, e, j, u)
      BY <1>2
    <3>2. QED
      BY <3>1 DEF Register, Accept, Callback, Receive, Goto, At, Label, Request, Role, HasMembers, Linked
  <2>2. /\ \A q \in Process \ {p} : pc'[q] = pc[q] /\ req'[q] = req[q]
        /\ ~Holds(p, i) /\ ~Holds(p, i)'
    BY <2>1, NoneAssumption DEF Holds, AccountsInv, TypeOK
  <2>3. QED BY <2>1, <2>2, AccountedMove
<1>3. CASE \E p \in Process : FindLinked(p) \/ CheckName(p) \/ CheckTenant(p) \/ Crash(p)
  <2>1. PICK p \in Process : FindLinked(p) \/ CheckName(p) \/ CheckTenant(p) \/ Crash(p)
    BY <1>3
  <2>2. CASE Refuse(p) BY <2>2, AccountedRefuse
  <2>3. CASE ~Refuse(p)
    <3>1. UNCHANGED <<users, invites, lost>>
      BY <2>1, <2>3 DEF FindLinked, CheckName, CheckTenant, Crash
    <3>2. \A q \in Process \ {p} : pc'[q] = pc[q] /\ req'[q] = req[q]
      BY <2>1, <2>3 DEF FindLinked, CheckName, CheckTenant, Crash, Goto, AccountsInv, TypeOK
    <3>3. CASE FindLinked(p)
      <4>1. pc[p] = "find_linked" /\ pc'[p] = "consume"
        BY <2>3, <3>3 DEF FindLinked, At, Goto, AccountsInv, TypeOK
      <4>2. QED BY <3>1, <3>2, <4>1, AccountedMove DEF Holds
    <3>4. CASE CheckTenant(p)
      <4>1. pc[p] = "check_tenant" /\ pc'[p] = "create" /\ req'[p] = req[p] /\ req[p].invite = None
        BY <2>3, <3>4 DEF CheckTenant, At, Goto, AccountsInv, TypeOK, Sound
      <4>2. ~Holds(p, i) /\ ~Holds(p, i)' BY <4>1, NoneAssumption DEF Holds
      <4>3. QED BY <3>1, <3>2, <4>2, AccountedMove
    <3>5. CASE CheckName(p)
      <4>1. /\ pc[p] = "check_name" /\ req'[p].invite = req[p].invite
            /\ \/ pc'[p] \in {"check_name", "create"}
               \/ pc'[p] = "check_tenant" /\ req[p].invite = None
        BY <2>3, <3>5 DEF CheckName, At, Goto, Retrying, AccountsInv, TypeOK, Sound
      <4>2. (Holds(p, i)' <=> Holds(p, i)) BY <4>1, NoneAssumption DEF Holds
      <4>3. QED BY <3>1, <3>2, <4>2, AccountedMove
    <3>6. QED BY <2>1, <2>3, <3>3, <3>4, <3>5 DEF Crash
  <2>4. QED BY <2>2, <2>3
<1>4. CASE \E p \in Process : Consume(p) \/ Create(p)
  BY <1>4, AccountedConsume, AccountedCreate
<1>5. CASE UNCHANGED vars
  BY <1>5, AccountedFrame DEF vars, Holds
<1>6. QED BY <1>1, <1>2, <1>3, <1>4, <1>5 DEF Next, Handle

\* The types of the model hold in every behaviour.
THEOREM TypeCorrect == Spec => []TypeOK
<1>1. AccountsInv => TypeOK BY DEF AccountsInv
<1>2. QED BY InitInv, NextInv, <1>1, PTL DEF Spec

\* No account is ever made by a registration that came when its tenant had a
\* member, nor by a first login that came when its identity had an account.
THEOREM LateRequestsNeverCreate == Spec => []LateRequestsCreateNothing
<1>1. AccountsInv => LateRequestsCreateNothing BY DEF AccountsInv
<1>2. QED BY InitInv, NextInv, <1>1, PTL DEF Spec

\* A used invite is with one request, in one account, or spent: none makes two
\* accounts, whatever processes race for it or die holding it.
THEOREM InvitesAlwaysAccountedFor == Spec => []InvitesAreAccountedFor
<1> DEFINE Both == AccountsInv /\ \A i \in Invite : Accounted(i)
<1>1. Init => Both BY InitInv, InitAccounted
<1>2. Both /\ [Next]_vars => Both'
  <2>1. SUFFICES ASSUME Both, [Next]_vars PROVE Both'
    OBVIOUS
  <2>2. AccountsInv' BY <2>1, NextInv
  <2>3. ASSUME NEW i \in Invite PROVE Accounted(i)'
    BY <2>1, AccountedNext
  <2>4. QED BY <2>2, <2>3
<1>3. Both => InvitesAreAccountedFor
  BY DEF Accounted, InvitesAreAccountedFor
<1>4. QED BY <1>1, <1>2, <1>3, PTL DEF Spec
=============================================================================
