----------------------------- MODULE Membership -----------------------------
(***************************************************************************)
(* Who may sign in and with which role: the members, users, invitations    *)
(* and blocked_signups tables under the handlers of routes/members.js,     *)
(* routes/invitations.js, routes/blockedSignups.js and POST /auth/signup,  *)
(* and the reconciliation that runs at every boot.                         *)
(*                                                                         *)
(* A request is a program counter and what it has read; it takes one step  *)
(* per statement, or transaction, that another request may come between.   *)
(* Mail, audit rows and names are left out: nothing here reads them back.  *)
(***************************************************************************)
EXTENDS Integers, FiniteSets, Sequences, SequencesExt

CONSTANTS
  Addresses,    \* e-mail addresses, lower-cased
  Requests,     \* slots for the requests in progress
  Roles,        \* roles that can be granted; "Owner" is a flag, not a role
  Policies,     \* values the signup policy ever takes
  MaxRows,      \* members.id is handed out up to here
  MaxInvites,   \* invitations.id is handed out up to here
  MaxRequests,  \* requests of a behaviour whose requests come one at a time
  MaxOverlap    \* requests of one in which they overlap

ASSUME MembershipAssumption ==
  /\ {"Admin", "Viewer"} \subseteq Roles
  /\ "open" \in Policies /\ Policies \subseteq {"open", "invite_only"}
  /\ MaxRows \in Nat \ {0} /\ MaxInvites \in Nat /\ MaxRequests \in Nat /\ MaxOverlap \in Nat

VARIABLES
  members,      \* members: rows [id, email, role, status, owner]
  lastRow,      \* the members.id handed out last
  login,        \* users.status of an address, "none" without a users row
  invites,      \* invitations, by id
  blocked,      \* blocked_signups
  policy,       \* the signup_policy setting
  begun,        \* requests begun so far
  req,          \* the requests in progress
  calm          \* history variable: no two requests overlapped, none was cut off

memberVars == <<members, lastRow, login, invites, blocked, policy, begun, req, calm>>

Nobody == "nobody"
Statuses == {"Active", "Invited", "Deactivated"}
NoReq == [pc |-> "idle", email |-> Nobody, role |-> "Viewer", status |-> "Active",
          pw |-> FALSE, id |-> 0, row |-> 0, admins |-> 0, todo |-> {}]
Idle(r) == req[r].pc = "idle"

RowsOf(e) == {m \in members : m.email = e}
MemberOf(id) == CHOOSE m \in members : m.id = id
HasRow(id) == \E m \in members : m.id = id
Pending(e) == {i \in DOMAIN invites : invites[i].email = e /\ invites[i].status = "pending"}
IsAdmin(m) == m.role = "Admin" \/ m.owner

\* countAdmins: the status of the row is not looked at.
CountAdmins == Cardinality({m \in members : IsAdmin(m)})

\* requireRole('Admin') passes for somebody.
SomeAdmin == CountAdmins > 0

\* mutated: the deny-list is not consulted
AllowedByPolicy(e) ==
  policy = "invite_only" => \E i \in DOMAIN invites :
    invites[i].email = e /\ invites[i].live /\ invites[i].status \in {"pending", "accepted"}

\* checkSignupAllowed: the deny-list first, then the invitation policy.
Allowed(e) ==
  /\ e \notin blocked
  /\ policy = "invite_only" =>
       \E i \in DOMAIN invites :
         invites[i].email = e /\ invites[i].live /\ invites[i].status \in {"pending", "accepted"}

\* A request that will insert an invitation is started only while ids last.
Issuing == {"add", "row", "revoke", "insert"}
Room == Len(invites) + Cardinality({r \in Requests : req[r].pc \in Issuing}) < MaxInvites

\* One more request, which overlaps those in progress.
Count ==
  /\ calm' = (calm /\ \A r \in Requests : Idle(r))
  /\ begun < IF calm' THEN MaxRequests ELSE MaxOverlap
  /\ begun' = begun + 1
\* A request takes the first free slot.
Free == CHOOSE r \in Requests : Idle(r) \/ \A s \in Requests : ~Idle(s)
Begin(r, q) == r = Free /\ Idle(r) /\ Count /\ req' = [req EXCEPT ![r] = q]
Step(r, pc) ==
  /\ req' = [req EXCEPT ![r] = IF pc = "idle" THEN NoReq ELSE [@ EXCEPT !.pc = pc]]
  /\ UNCHANGED <<begun, calm>>
\* A request of one statement, or one whose statements nothing here splits.
AtOnce == Count /\ UNCHANGED req

MemberInit ==
  /\ members \in {{}} \cup     \* the workspace as seed.js leaves it
       {{[id |-> 1, email |-> e, role |-> "Admin", status |-> "Active", owner |-> FALSE]} : e \in Addresses}
  /\ lastRow = Cardinality(members)
  /\ login = [e \in Addresses |-> "none"]
  /\ invites = <<>>
  /\ blocked = {}
  /\ policy = "open"
  /\ begun = 0
  /\ req = [r \in Requests |-> NoReq]
  /\ calm = TRUE

(***************************************************************************)
(* issueInvitation, which four routes call.                                *)
(***************************************************************************)
\* mutated: a pending invitation that has lapsed is not revoked
IssueRevokeLive(r) ==
  /\ req[r].pc = "revoke"
  /\ invites' = [i \in DOMAIN invites |->
       IF i \in Pending(req[r].email) /\ invites[i].live
       THEN [invites[i] EXCEPT !.status = "revoked"] ELSE invites[i]]
  /\ Step(r, "insert")
  /\ UNCHANGED <<members, lastRow, login, blocked, policy>>
IssueRevoke(r) ==
  /\ req[r].pc = "revoke"
  /\ invites' = [i \in DOMAIN invites |->
       IF i \in Pending(req[r].email) THEN [invites[i] EXCEPT !.status = "revoked"] ELSE invites[i]]
  /\ Step(r, "insert")
  /\ UNCHANGED <<members, lastRow, login, blocked, policy>>

IssueInsert(r) ==
  /\ req[r].pc = "insert"
  /\ invites' = Append(invites,
       [email |-> req[r].email, role |-> req[r].role, status |-> "pending", live |-> TRUE])
  /\ Step(r, "idle")
  /\ UNCHANGED <<members, lastRow, login, blocked, policy>>

\* POST /invitations: refused for a member, and lifts the block.
Invite(r) == \E e \in Addresses, g \in Roles :
  /\ SomeAdmin /\ Room /\ RowsOf(e) = {}
  /\ Begin(r, [NoReq EXCEPT !.pc = "revoke", !.email = e, !.role = g])
  /\ blocked' = blocked \ {e}
  /\ UNCHANGED <<members, lastRow, login, invites, policy>>

\* POST /invitations/:id/resend
ResendInvite(r) == \E i \in DOMAIN invites :
  /\ SomeAdmin /\ Room /\ invites[i].status = "pending"
  /\ Begin(r, [NoReq EXCEPT !.pc = "revoke", !.email = invites[i].email, !.role = invites[i].role])
  /\ UNCHANGED <<members, lastRow, login, invites, blocked, policy>>

\* POST /members/:id/resend
ResendMember(r) == \E m \in members :
  /\ SomeAdmin /\ Room /\ m.status = "Invited"
  /\ Begin(r, [NoReq EXCEPT !.pc = "revoke", !.email = m.email, !.role = m.role])
  /\ UNCHANGED <<members, lastRow, login, invites, blocked, policy>>

(***************************************************************************)
(* POST /members: with a temporary password it makes the login as well.    *)
(* The block is lifted before the password is looked at, so a password     *)
(* that is too short ends the request with the address re-admitted.        *)
(***************************************************************************)
AddMember(r) == \E e \in Addresses, g \in Roles, s \in Statuses, pw \in BOOLEAN, long \in BOOLEAN :
  /\ SomeAdmin /\ Room /\ RowsOf(e) = {} /\ login[e] = "none" /\ lastRow < MaxRows
  /\ pw \/ long
  /\ Begin(r, IF long THEN [NoReq EXCEPT !.pc = IF pw THEN "add" ELSE "row", !.email = e,
                                         !.role = g, !.status = s]
              ELSE NoReq)
  /\ blocked' = blocked \ {e}
  /\ UNCHANGED <<members, lastRow, login, invites, policy>>

\* INSERT INTO users: users.email is unique, so a second login is an error 500.
AddLogin(r) ==
  /\ req[r].pc = "add"
  /\ IF login[req[r].email] = "none"
     THEN login' = [login EXCEPT ![req[r].email] = req[r].status] /\ Step(r, "row")
     ELSE Step(r, "idle") /\ UNCHANGED login
  /\ UNCHANGED <<members, lastRow, invites, blocked, policy>>

\* mutated: the row number is counted, not drawn from a sequence
EnterByCount(e, g, s, o) ==
  /\ lastRow < MaxRows
  /\ lastRow' = Cardinality(members) + 1
  /\ members' = members \cup {[id |-> lastRow', email |-> e, role |-> g, status |-> s, owner |-> o]}
Enter(e, g, s, o) ==
  /\ lastRow < MaxRows
  /\ lastRow' = lastRow + 1
  /\ members' = members \cup {[id |-> lastRow', email |-> e, role |-> g, status |-> s, owner |-> o]}

AddRow(r) ==
  /\ req[r].pc = "row"
  /\ Enter(req[r].email, req[r].role, req[r].status, FALSE)
  /\ Step(r, IF req[r].status = "Invited" THEN "revoke" ELSE "idle")
  /\ UNCHANGED <<login, invites, blocked, policy>>

(***************************************************************************)
(* POST /invitations/:token/accept                                         *)
(***************************************************************************)
Accept(r) == \E i \in DOMAIN invites, pw \in BOOLEAN :
  /\ invites[i].status = "pending" /\ invites[i].live
  /\ pw => Allowed(invites[i].email)
  /\ Begin(r, [NoReq EXCEPT !.pc = "redeem", !.id = i, !.pw = pw,
                            !.email = invites[i].email, !.role = invites[i].role])
  /\ UNCHANGED <<members, lastRow, login, invites, blocked, policy>>

\* The transaction reads the member and the login ...
Redeem(r) ==
  /\ req[r].pc = "redeem"
  /\ req' = [req EXCEPT ![r].pc = "redeemed",
                        ![r].row = IF RowsOf(req[r].email) = {} THEN 0
                                   ELSE (CHOOSE m \in RowsOf(req[r].email) : TRUE).id,
                        ![r].status = login[req[r].email]]
  /\ UNCHANGED <<members, lastRow, login, invites, blocked, policy, begun, calm>>

\* ... and writes: a login that appeared meanwhile rolls all of it back.
Redeemed(r) == LET q == req[r] IN
  /\ q.pc = "redeemed"
  /\ Step(r, "idle")
  /\ IF q.pw /\ q.status = "none" /\ login[q.email] # "none"
     THEN UNCHANGED <<members, lastRow, login, invites>>
     ELSE /\ IF q.row = 0 THEN Enter(q.email, q.role, "Active", FALSE)
             ELSE /\ members' = {IF m.id = q.row THEN [m EXCEPT !.role = q.role, !.status = "Active"]
                                 ELSE m : m \in members}
                  /\ UNCHANGED lastRow
          /\ login' = [login EXCEPT ![q.email] = IF q.pw /\ @ = "none" THEN "Active" ELSE @]
          /\ invites' = [invites EXCEPT ![q.id].status = "accepted"]
  /\ UNCHANGED <<blocked, policy>>

(***************************************************************************)
(* POST /auth/signup                                                       *)
(***************************************************************************)
Signup(r) == \E e \in Addresses :
  /\ Allowed(e)
  /\ Begin(r, [NoReq EXCEPT !.pc = "enrol", !.email = e])
  /\ UNCHANGED <<members, lastRow, login, invites, blocked, policy>>

\* classifyExistingLogin and what the transaction does about it; to replace or
\* to reactivate a leftover login differ in data that is not modelled.
Suspended(e) == \E m \in RowsOf(e) : m.status = "Deactivated"
Enrol(r) == LET e == req[r].email IN
  /\ req[r].pc = "enrol"
  /\ IF login[e] = "Active" \/ (login[e] # "none" /\ Suspended(e))
     THEN Step(r, "idle") /\ UNCHANGED login
     ELSE Step(r, "provision") /\ login' = [login EXCEPT ![e] = "Active"]
  /\ UNCHANGED <<members, lastRow, invites, blocked, policy>>

\* Without a member row: the first one owns the workspace, an invitation that
\* is still pending gives its role, anybody else is a Viewer.
Provision(r) ==
  LET e == req[r].email
      I == {i \in Pending(e) : invites[i].live}
      last == IF I = {} THEN 0 ELSE CHOOSE i \in I : \A j \in I : j <= i
  IN
  /\ req[r].pc = "provision"
  /\ IF RowsOf(e) # {} THEN Step(r, "idle")
     ELSE /\ req' = [req EXCEPT ![r].pc = "join", ![r].id = last, ![r].pw = (members = {}),
                 ![r].role = IF members = {} THEN "Admin"
                             ELSE IF last # 0 THEN invites[last].role ELSE "Viewer"]
          /\ UNCHANGED <<begun, calm>>
  /\ UNCHANGED <<members, lastRow, login, invites, blocked, policy>>

Join(r) ==
  /\ req[r].pc = "join"
  /\ Enter(req[r].email, req[r].role, "Active", req[r].pw)
  /\ Step(r, IF req[r].id = 0 THEN "idle" ELSE "mark")
  /\ UNCHANGED <<login, invites, blocked, policy>>

Mark(r) ==
  /\ req[r].pc = "mark"
  /\ invites' = [invites EXCEPT ![req[r].id].status = "accepted"]
  /\ Step(r, "idle")
  /\ UNCHANGED <<members, lastRow, login, blocked, policy>>

(***************************************************************************)
(* PATCH /members/:id, DELETE /members/:id and POST /members/bulk-delete   *)
(***************************************************************************)
SetRole(r) == \E m \in members : \E g \in Roles \ {m.role} :
  /\ SomeAdmin /\ ~m.owner
  /\ m.role = "Admin" => CountAdmins > 1
  /\ Begin(r, [NoReq EXCEPT !.pc = "role", !.id = m.id, !.role = g])
  /\ UNCHANGED <<members, lastRow, login, invites, blocked, policy>>

WriteRole(r) ==
  /\ req[r].pc = "role"
  /\ members' = {IF m.id = req[r].id THEN [m EXCEPT !.role = req[r].role] ELSE m : m \in members}
  /\ Step(r, "idle")
  /\ UNCHANGED <<lastRow, login, invites, blocked, policy>>

\* The admins are counted once, before the first of the rows is read.
RemoveMembers(r) == \E T \in SUBSET {m.id : m \in members} :
  /\ SomeAdmin /\ T # {}
  /\ Begin(r, [NoReq EXCEPT !.pc = "pick", !.todo = T, !.admins = CountAdmins])
  /\ UNCHANGED <<members, lastRow, login, invites, blocked, policy>>

\* mutated: the last admin may go
PickLast(r) == \E id \in req[r].todo : LET q == req[r] m == MemberOf(id) IN
  /\ q.pc = "pick"
  /\ IF ~HasRow(id) \/ (HasRow(id) /\ m.owner)
     THEN IF q.todo = {id} THEN Step(r, "idle")
          ELSE req' = [req EXCEPT ![r].todo = @ \ {id}] /\ UNCHANGED <<begun, calm>>
     ELSE /\ req' = [req EXCEPT ![r] = [q EXCEPT !.pc = "delete", !.todo = @ \ {id}, !.id = id,
                                                  !.email = m.email]]
          /\ UNCHANGED <<begun, calm>>
  /\ UNCHANGED <<members, lastRow, login, invites, blocked, policy>>
\* A row that is gone, the owner, and the last admin are skipped.
Pick(r) == \E id \in req[r].todo : LET q == req[r] m == MemberOf(id) IN
  /\ q.pc = "pick"
  /\ IF ~HasRow(id) \/ (HasRow(id) /\ (m.owner \/ (m.role = "Admin" /\ q.admins <= 1)))
     THEN IF q.todo = {id} THEN Step(r, "idle")
          ELSE req' = [req EXCEPT ![r].todo = @ \ {id}] /\ UNCHANGED <<begun, calm>>
     ELSE /\ req' = [req EXCEPT ![r] = [q EXCEPT !.pc = "delete", !.todo = @ \ {id}, !.id = id,
                !.email = m.email, !.admins = IF m.role = "Admin" THEN @ - 1 ELSE @]]
          /\ UNCHANGED <<begun, calm>>
  /\ UNCHANGED <<members, lastRow, login, invites, blocked, policy>>

DeleteRow(r) ==
  /\ req[r].pc = "delete"
  /\ members' = {m \in members : m.id # req[r].id}
  /\ Step(r, "shut")
  /\ UNCHANGED <<lastRow, login, invites, blocked, policy>>

\* revokeAccessFor: the login, (the sessions,) and the deny-list.
Shut(r) ==
  /\ req[r].pc = "shut"
  /\ login' = [login EXCEPT ![req[r].email] = IF @ = "none" THEN @ ELSE "Deactivated"]
  /\ Step(r, "block")
  /\ UNCHANGED <<members, lastRow, invites, blocked, policy>>
Block(r) ==
  /\ req[r].pc = "block"
  /\ blocked' = blocked \cup {req[r].email}
  /\ Step(r, IF req[r].todo = {} THEN "idle" ELSE "pick")
  /\ UNCHANGED <<members, lastRow, login, invites, policy>>

(***************************************************************************)
(* Requests of one statement, or of two that are modelled as one.          *)
(***************************************************************************)
SetStatus(m, s) ==
  /\ members' = {IF n = m THEN [m EXCEPT !.status = s] ELSE n : n \in members}
  /\ login' = [login EXCEPT ![m.email] = IF @ = "none" THEN @ ELSE s]
  /\ UNCHANGED <<lastRow, invites, blocked, policy>>
Deactivate == \E m \in members : SomeAdmin /\ ~m.owner /\ SetStatus(m, "Deactivated") /\ AtOnce
Reactivate == \E m \in members : SomeAdmin /\ SetStatus(m, "Active") /\ AtOnce

\* DELETE /invitations/:id, whatever the status; and the passing of seven days.
Revoke == \E i \in DOMAIN invites :
  /\ SomeAdmin
  /\ invites' = [invites EXCEPT ![i].status = "revoked"]
  /\ AtOnce /\ UNCHANGED <<members, lastRow, login, blocked, policy>>
Lapse == \E i \in DOMAIN invites :
  /\ invites' = [invites EXCEPT ![i].live = FALSE]
  /\ AtOnce /\ UNCHANGED <<members, lastRow, login, blocked, policy>>

\* POST and DELETE /blocked-signups, PATCH of the signup policy
EditPolicy ==
  /\ SomeAdmin /\ AtOnce
  /\ \/ \E e \in Addresses : blocked' \in {blocked \cup {e}, blocked \ {e}} /\ UNCHANGED policy
     \/ policy' \in Policies /\ UNCHANGED blocked
  /\ UNCHANGED <<members, lastRow, login, invites>>

\* The process stops, requests and all, and boots: reconcileInvitedMembers
\* gives an Invited member that has no invitation one that has lapsed.
Orphans == {m \in members : m.status = "Invited" /\ \A i \in DOMAIN invites : invites[i].email # m.email}
Restart ==
  /\ Len(invites) + Cardinality(Orphans) <= MaxInvites
  /\ invites' = invites \o SetToSeq({[email |-> m.email, role |-> m.role,
                                      status |-> "pending", live |-> FALSE] : m \in Orphans})
  /\ Count /\ req' = [r \in Requests |-> NoReq]
  /\ UNCHANGED <<members, lastRow, login, blocked, policy>>

\* Begin's guard: nothing is read for a request that cannot begin.
MayBegin(r) ==
  Idle(r) /\ begun < IF calm /\ \A s \in Requests : Idle(s) THEN MaxRequests ELSE MaxOverlap

MemberNext ==
  \/ \E r \in Requests :
       \/ /\ MayBegin(r)
          /\ \/ Invite(r) \/ ResendInvite(r) \/ ResendMember(r) \/ AddMember(r) \/ Accept(r)
             \/ Signup(r) \/ SetRole(r) \/ RemoveMembers(r)
       \/ IssueRevoke(r) \/ IssueInsert(r) \/ AddLogin(r) \/ AddRow(r) \/ Redeem(r) \/ Redeemed(r)
       \/ Enrol(r) \/ Provision(r) \/ Join(r) \/ Mark(r)
       \/ WriteRole(r) \/ Pick(r) \/ DeleteRow(r) \/ Shut(r) \/ Block(r)
  \/ Deactivate \/ Reactivate \/ Revoke \/ Lapse \/ EditPolicy \/ Restart

MemberSpec == MemberInit /\ [][MemberNext]_memberVars

-----------------------------------------------------------------------------
\* The type invariant; members.id is a key.
MemberTypeOK ==
  /\ members \subseteq [id : 1..MaxRows, email : Addresses, role : Roles, status : Statuses, owner : BOOLEAN]
  /\ \A m, n \in members : m.id = n.id => m = n
  /\ lastRow \in 0..MaxRows
  /\ login \in [Addresses -> Statuses \cup {"none"}]
  /\ invites \in Seq([email : Addresses, role : Roles, live : BOOLEAN,
                       status : {"pending", "accepted", "revoked"}])
  /\ blocked \subseteq Addresses
  /\ policy \in Policies
  /\ begun \in 0..MaxRequests \cup 0..MaxOverlap
  /\ calm \in BOOLEAN

\* At most one invitation of an address is pending: issueInvitation revokes the
\* others first, whichever of its four callers is at work
\* (services/invitations.js:48 "exactly one token per address is ever live").
\* Two requests at once may both revoke before either inserts.
OneLiveToken == calm => \A e \in Addresses : Cardinality(Pending(e)) <= 1

\* An address has one member row, though no index says so: four handlers look
\* for a row of the address before they insert one.
OneRow == calm => \A e \in Addresses : Cardinality(RowsOf(e)) <= 1

\* The first to sign up, and nobody after, owns the workspace (auth.js:188).
OneOwner == calm => Cardinality({m \in members : m.owner}) <= 1

\* The owner stays, active, whatever overlaps whatever (members.js:500, 647,
\* 715, 767; an invitation accepted with the owner's address changes no flag).
OwnerKept ==
  [][\A m \in members : m.owner =>
       \E n \in members' : n.id = m.id /\ n.owner /\ n.status = "Active"]_memberVars

\* Demotions and removals, single or in bulk, leave an admin behind; what can
\* still take the last one away is an old invitation with a lower role.
LastAdminGuard ==
  [][SomeAdmin /\ ~SomeAdmin' /\ calm' => \E r \in Requests : Redeemed(r)]_memberVars

\* The workspace keeps whoever can run it.
AdminsKept == OwnerKept /\ LastAdminGuard

\* The offboarding guarantee (signupPolicy.js:111): while an address is on the
\* deny-list no signup and no invitation opens its login.
RemovedStaysOut ==
  [][\A e \in blocked : login[e] # "Active" /\ login'[e] = "Active" /\ calm'
       => Reactivate]_memberVars

\* Who can sign in is a member, once the requests have been answered: removal
\* shuts the login, and every login is made along with a row.
LoginHasRow ==
  calm /\ (\A r \in Requests : Idle(r)) =>
    \A e \in Addresses : login[e] = "Active" => RowsOf(e) # {}

\* The tables agree with each other, over any sequence of requests.
MembersSound == OneLiveToken /\ OneRow /\ OneOwner /\ LoginHasRow

\* Under invite_only a login is opened by an admin, or with an invitation that
\* nobody has revoked (signupPolicy.js:122-161).
InviteOnly ==
  [][\A e \in Addresses :
       policy = "invite_only" /\ login[e] # "Active" /\ login'[e] = "Active" /\ calm' =>
         \/ Reactivate \/ \E r \in Requests : AddLogin(r)
         \/ \E i \in DOMAIN invites' : invites'[i].email = e /\ invites'[i].status # "revoked"]_memberVars

\* An invitation is accepted once, never after it was revoked, and then its
\* address has a member (invitations.js:281-292, 327-329).
AcceptedJoins ==
  [][calm' => \A i \in DOMAIN invites : invites'[i].status # invites[i].status =>
       \/ invites'[i].status = "revoked"
       \/ /\ invites[i].status = "pending" /\ invites'[i].status = "accepted"
          /\ \E m \in members' : m.email = invites[i].email]_memberVars

\* Who is let in, over any sequence of removals, invitations and policies.
Admission == RemovedStaysOut /\ InviteOnly /\ AcceptedJoins

\* Tables that agree, a workspace that can be run, and nobody let in unasked.
MembershipSound == []MembersSound /\ AdminsKept /\ Admission
=============================================================================
