------------------------ MODULE Administration_proofs ------------------------
(***************************************************************************)
(* Theorems about what administrators look after: the members of the       *)
(* workspace, for every set of addresses, roles and requests and every     *)
(* number of rows and invitations; the configuration of a project's        *)
(* workflow, for every set of requests and every number of them; what the  *)
(* reports make of the history of issues, for every set of issues and      *)
(* statuses, every number of moves and however long a day is; and the      *)
(* links between issues and the graph drawn from them, for every set of    *)
(* issues and any number of requests.                                      *)
(***************************************************************************)
EXTENDS Membership, WorkflowConfig, FlowReports, Dependencies, NumberLemmas, FiniteSetTheorems,
        SequenceTheorems, TLAPS

(***************************************************************************)
(* What holds however requests overlap: types, ids that are a key and that *)
(* the next one exceeds, an owner who is active and whom no request is     *)
(* about to delete.                                                        *)
(***************************************************************************)
MemberRows == [id : 1..MaxRows, email : Addresses, role : Roles, status : Statuses, owner : BOOLEAN]
Invitations == [email : Addresses, role : Roles, live : BOOLEAN,
                status : {"pending", "accepted", "revoked"}]
Calls == [pc : {"idle", "revoke", "insert", "add", "row", "redeem", "redeemed", "enrol", "provision", "join",
                "mark", "role", "pick", "delete", "shut", "block"},
          email : Addresses \cup {Nobody}, role : Roles, status : Statuses \cup {"none"},
          pw : BOOLEAN, id : Nat, row : Nat, admins : Nat, todo : SUBSET Nat]
\* What the next statement of a request needs.
Ready(q) ==
  /\ q.pc \notin {"idle", "pick", "role"} => q.email \in Addresses
  /\ q.pc \in {"add", "row"} => q.status \in Statuses
MemberRowsSound ==
  /\ members \subseteq MemberRows /\ IsFiniteSet(members) /\ lastRow \in 0..MaxRows
  /\ \A m, n \in members : m.id = n.id => m = n
  /\ \A m \in members : m.id <= lastRow
  /\ \A m \in members : m.owner => m.status = "Active"
\* Never the owner.
Spares(q) == q.pc = "delete" => q.id <= lastRow /\ \A m \in members : m.id = q.id => ~m.owner
MembersRestSound ==
  /\ login \in [Addresses -> Statuses \cup {"none"}] /\ invites \in Seq(Invitations)
  /\ blocked \subseteq Addresses /\ policy \in Policies
  /\ begun \in 0..MaxRequests \cup 0..MaxOverlap /\ calm \in BOOLEAN
MemberShape ==
  /\ MemberRowsSound /\ MembersRestSound /\ req \in [Requests -> Calls]
  /\ \A r \in Requests : Ready(req[r]) /\ Spares(req[r])

(***************************************************************************)
(* While no two requests have overlapped one is under way at most, and     *)
(* what it has read still holds.                                           *)
(***************************************************************************)
Awaits(i, e) == i \in DOMAIN invites /\ invites[i].email = e /\ invites[i].status = "pending"
Welcomed(e) == \E i \in DOMAIN invites : invites[i].email = e /\ invites[i].status # "revoked"
Admins == {m \in members : IsAdmin(m)}
Doomed(q) ==
  \E m \in members : /\ m.id = q.id /\ m.email = q.email /\ ~m.owner
                     /\ m.role = "Admin" => q.admins = CountAdmins - 1 /\ q.admins >= 1
                     /\ m.role # "Admin" => q.admins = CountAdmins
Knows(q) ==
  /\ q.pc \in {"add", "row", "join"} => RowsOf(q.email) = {}
  /\ q.pc = "add" => q.email \notin blocked
  /\ q.pc = "insert" => Pending(q.email) = {}
  /\ q.pc \in {"redeem", "redeemed"} => Awaits(q.id, q.email) /\ (q.pw => q.email \notin blocked)
  /\ q.pc = "redeemed" => /\ q.status = login[q.email]
                          /\ q.row = 0 => RowsOf(q.email) = {}
                          /\ q.row # 0 => \E m \in RowsOf(q.email) : m.id = q.row
  /\ q.pc = "enrol" => q.email \notin blocked /\ (policy = "invite_only" => Welcomed(q.email))
  /\ q.pc = "join" => (q.pw => members = {}) /\ (q.id # 0 => Awaits(q.id, q.email))
  /\ q.pc = "mark" => Awaits(q.id, q.email) /\ RowsOf(q.email) # {}
  /\ q.pc = "role" => \A m \in Admins : m.id = q.id => \E n \in Admins : n.id # q.id
  /\ q.pc \in {"pick", "shut", "block"} => q.admins = CountAdmins
  /\ q.pc = "delete" => Doomed(q)
MemberTurn == \A r, s \in Requests : req[r].pc # "idle" /\ req[s].pc # "idle" => r = s
RowToldOf(q) == q.pc \in {"row", "provision", "join", "shut"}
LoginsHeld ==
  \A e \in Addresses : login[e] = "Active" =>
    RowsOf(e) # {} \/ \E r \in Requests : req[r].email = e /\ RowToldOf(req[r])
OneRowEach ==
  /\ \A m, n \in members : m.email = n.email => m = n
  /\ \A m, n \in members : m.owner /\ n.owner => m = n
OnePending == \A e \in Addresses : \A i, j \in DOMAIN invites : Awaits(i, e) /\ Awaits(j, e) => i = j
Settled == OneRowEach /\ OnePending /\ LoginsHeld
MemberInv ==
  /\ MemberShape
  /\ calm => MemberTurn /\ Settled /\ \A r \in Requests : Knows(req[r])

LEMMA NoReqTyped ==
  /\ NoReq \in Calls /\ Ready(NoReq) /\ NoReq.pc = "idle" /\ Knows(NoReq) /\ Spares(NoReq)
  /\ NoReq = [pc |-> "idle", email |-> Nobody, role |-> "Viewer", status |-> "Active",
              pw |-> FALSE, id |-> 0, row |-> 0, admins |-> 0, todo |-> {}]
BY MembershipAssumption DEF NoReq, Calls, Ready, Knows, Spares, Nobody, Statuses

LEMMA MembersStart == ASSUME MemberInit PROVE MemberInv
<1>1. MemberRowsSound /\ OneRowEach /\ members \in SUBSET MemberRows
  <2>1. CASE members = {}
    <3>1. lastRow = 0
      BY <2>1, FS_EmptySet DEF MemberInit
    <3> QED BY <2>1, <3>1, FS_EmptySet, MembershipAssumption DEF MemberRowsSound, OneRowEach
  <2>2. CASE members # {}
    <3>1. PICK e \in Addresses :
            members = {[id |-> 1, email |-> e, role |-> "Admin", status |-> "Active", owner |-> FALSE]}
      BY <2>2 DEF MemberInit
    <3>2. IsFiniteSet(members) /\ Cardinality(members) = 1
      BY <3>1, FS_Singleton
    <3>3. lastRow = 1 /\ 1 \in 1..MaxRows
      BY <3>2, MembershipAssumption DEF MemberInit
    <3>5. PICK x : x = [id |-> 1, email |-> e, role |-> "Admin", status |-> "Active", owner |-> FALSE]
      OBVIOUS
    <3>6. x \in MemberRows /\ x.id = 1 /\ x.owner = FALSE
      BY <3>3, <3>5, MembershipAssumption DEF MemberRows, Statuses
    <3>4. \A m \in members : /\ m \in MemberRows /\ m.id = 1 /\ ~m.owner
                            /\ \A n \in members : m = n
      BY <3>1, <3>5, <3>6
    <3> QED BY <3>2, <3>3, <3>4 DEF MemberRowsSound, OneRowEach
  <2> QED BY <2>1, <2>2
<1>2. MembersRestSound
  BY MembershipAssumption DEF MemberInit, MembersRestSound
<1>3. \A r \in Requests : req[r] = NoReq
  BY DEF MemberInit
<1>4. MemberTurn /\ OnePending /\ LoginsHeld
  BY <1>3, NoReqTyped DEF MemberInit, MemberTurn, OnePending, LoginsHeld, Awaits
<1> QED BY <1>1, <1>2, <1>3, <1>4, NoReqTyped DEF MemberInv, MemberShape, Settled, MemberInit

\* A step gives one request its next; while requests come one at a time no
\* other is under way.
Turned(r, q) ==
  /\ req' = [req EXCEPT ![r] = q]
  /\ begun' \in 0..MaxRequests \cup 0..MaxOverlap /\ calm' \in BOOLEAN
  /\ calm' => calm /\ \A s \in Requests \ {r} : req[s].pc = "idle"

LEMMA CountSteps ==
  ASSUME MemberShape, Count
  PROVE  /\ begun' \in 0..MaxRequests \cup 0..MaxOverlap /\ calm' \in BOOLEAN
         /\ calm' => calm /\ \A s \in Requests : req[s].pc = "idle"
<1>1. begun \in Nat /\ begun' = begun + 1 /\ begun < (IF calm' THEN MaxRequests ELSE MaxOverlap)
      /\ calm' = (calm /\ \A r \in Requests : Idle(r))
  BY MembershipAssumption DEF Count, MemberShape, MembersRestSound
<1>2. begun' \in 0..MaxRequests \cup 0..MaxOverlap
  BY <1>1, MembershipAssumption
<1> QED BY <1>1, <1>2 DEF Idle

LEMMA BeginTurns ==
  ASSUME MemberShape, NEW r \in Requests, NEW q, Begin(r, q)
  PROVE  Turned(r, q) /\ req[r].pc = "idle"
BY CountSteps DEF Begin, Turned, Idle

LEMMA StepTurns ==
  ASSUME MemberInv, NEW r \in Requests, NEW q, req[r].pc # "idle",
         req' = [req EXCEPT ![r] = q], begun' = begun, calm' = calm
  PROVE  Turned(r, q)
BY DEF Turned, MemberInv, MemberShape, MembersRestSound, MemberTurn

\* What a statement leaves for the next.
LEMMA StepIs ==
  ASSUME MemberShape, NEW r \in Requests, NEW pc \in {"revoke", "insert", "row", "provision", "mark", "pick", "shut", "block"},
         Step(r, pc)
  PROVE  LET q == [req[r] EXCEPT !.pc = pc] IN
         /\ req' = [req EXCEPT ![r] = q] /\ begun' = begun /\ calm' = calm
         /\ q \in Calls /\ q.pc = pc /\ q.email = req[r].email /\ q.role = req[r].role
         /\ q.status = req[r].status /\ q.pw = req[r].pw /\ q.id = req[r].id /\ q.row = req[r].row
         /\ q.admins = req[r].admins /\ q.todo = req[r].todo
<1>1. PICK w : w = req[r]
  OBVIOUS
<1>2. w \in Calls
  BY <1>1 DEF MemberShape
<1>3. PICK q : q = [w EXCEPT !.pc = pc]
  OBVIOUS
<1>4. q \in Calls /\ q.pc = pc /\ q.email = w.email /\ q.role = w.role /\ q.status = w.status /\ q.pw = w.pw
      /\ q.id = w.id /\ q.row = w.row /\ q.admins = w.admins /\ q.todo = w.todo
  BY <1>2, <1>3 DEF Calls
<1>5. req' = [req EXCEPT ![r] = q] /\ begun' = begun /\ calm' = calm
  BY <1>1, <1>3 DEF Step
<1> QED BY <1>1, <1>3, <1>4, <1>5

LEMMA StepEnds ==
  ASSUME NEW r \in Requests, Step(r, "idle")
  PROVE  req' = [req EXCEPT ![r] = NoReq] /\ begun' = begun /\ calm' = calm
BY DEF Step

\* The invariant after a step, from what it left.
LEMMA MemberTurnKeeps ==
  ASSUME MemberInv, NEW r \in Requests, NEW q \in Calls, Turned(r, q), Ready(q),
         MemberRowsSound', login' \in [Addresses -> Statuses \cup {"none"}], invites' \in Seq(Invitations),
         blocked' \subseteq Addresses, policy' \in Policies, lastRow' >= lastRow,
         \A n \in members' : n.owner => n.id > lastRow \/ \E m \in members : m.id = n.id /\ m.owner,
         Spares(q)', calm' => Settled' /\ Knows(q)'
  PROVE  MemberInv'
<1>1. req' \in [Requests -> Calls] /\ req'[r] = q /\ \A s \in Requests \ {r} : req'[s] = req[s]
  BY DEF MemberInv, MemberShape, Turned
<1>2. ASSUME NEW s \in Requests PROVE Ready(req'[s])
  BY <1>1 DEF MemberInv, MemberShape
<1>3. ASSUME NEW s \in Requests, req'[s].pc = "delete"
      PROVE  req'[s].id <= lastRow' /\ \A m \in members' : m.id = req'[s].id => ~m.owner
  <2>1. CASE s = r
    BY <1>1, <1>3, <2>1 DEF Spares
  <2>2. CASE s # r
    <3>1. PICK k : k = req[s].id
      OBVIOUS
    <3>2. k \in Nat /\ k <= lastRow /\ (\A m \in members : m.id = k => ~m.owner) /\ req'[s].id = k
      BY <1>1, <1>3, <2>2, <3>1 DEF MemberInv, MemberShape, Spares, Calls
    <3>3. k <= lastRow' /\ lastRow \in Nat /\ lastRow' \in Nat
      BY <3>2 DEF MemberRowsSound, MemberInv, MemberShape
    <3>4. ASSUME NEW n \in members', n.id = k, n.owner PROVE FALSE
      <4>1. ~(n.id > lastRow)
        BY <3>2, <3>3, <3>4
      <4> QED BY <3>2, <3>4, <4>1
    <3> QED BY <3>2, <3>3, <3>4
  <2> QED BY <2>1, <2>2
<1>4. MemberShape'
  BY <1>1, <1>2, <1>3 DEF MemberShape, MembersRestSound, Turned, Spares
<1>5. ASSUME calm' PROVE MemberTurn' /\ \A s \in Requests : s # r => req'[s].pc = "idle"
  BY <1>1, <1>5 DEF Turned, MemberTurn
<1>6. ASSUME calm', NEW s \in Requests PROVE Knows(req[s])'
  <2>1. CASE s = r
    BY <1>1, <1>6, <2>1
  <2>2. CASE s # r
    <3>1. req'[s].pc = "idle"
      BY <1>5, <1>6, <2>2
    <3> QED BY <3>1 DEF Knows
  <2> QED BY <2>1, <2>2
<1> QED BY <1>4, <1>5, <1>6 DEF MemberInv

\* The same for a request of one statement.
LEMMA AtOnceKeeps ==
  ASSUME MemberInv, AtOnce,
         MemberRowsSound', login' \in [Addresses -> Statuses \cup {"none"}], invites' \in Seq(Invitations),
         blocked' \subseteq Addresses, policy' \in Policies, lastRow' = lastRow,
         \A n \in members' : n.owner => \E m \in members : m.id = n.id /\ m.owner,
         calm' => Settled'
  PROVE  MemberInv'
<1>1. req' = req /\ begun' \in 0..MaxRequests \cup 0..MaxOverlap /\ calm' \in BOOLEAN
      /\ (calm' => calm /\ \A s \in Requests : req[s].pc = "idle")
  BY CountSteps DEF AtOnce, MemberInv
<1>2. \A s \in Requests : Ready(req'[s]) /\ Spares(req[s])'
  BY <1>1 DEF MemberInv, MemberShape, Spares
<1>3. MemberShape'
  BY <1>1, <1>2 DEF MemberShape, MembersRestSound, MemberInv
<1>4. ASSUME calm' PROVE MemberTurn' /\ \A s \in Requests : Knows(req[s])'
  BY <1>1, <1>4 DEF MemberTurn, Knows
<1> QED BY <1>3, <1>4 DEF MemberInv

\* A step that writes no row and no login.
LEMMA RowsStayKeeps ==
  ASSUME MemberInv, NEW r \in Requests, NEW q \in Calls, Turned(r, q), Ready(q), Spares(q),
         UNCHANGED <<members, lastRow, login>>, invites' \in Seq(Invitations),
         blocked' \subseteq Addresses, policy' \in Policies,
         RowToldOf(req[r]) => (RowToldOf(q) /\ q.email = req[r].email) \/ RowsOf(req[r].email) # {},
         calm' => OnePending' /\ Knows(q)'
  PROVE  MemberInv'
<1>1. MemberRowsSound' /\ login' \in [Addresses -> Statuses \cup {"none"}] /\ lastRow' >= lastRow /\ Spares(q)'
  BY DEF MemberInv, MemberShape, MemberRowsSound, MembersRestSound, Spares
<1>2. \A n \in members' : n.owner => n.id > lastRow \/ \E m \in members : m.id = n.id /\ m.owner
  OBVIOUS
<1>3. ASSUME calm' PROVE OneRowEach'
  BY <1>3 DEF MemberInv, Settled, OneRowEach, Turned
<1>4. ASSUME calm' PROVE LoginsHeld'
  <2>1. req'[r] = q /\ calm /\ \A s \in Requests \ {r} : req[s].pc = "idle"
    BY <1>4 DEF MemberInv, MemberShape, Turned
  <2> SUFFICES ASSUME NEW e \in Addresses, login[e] = "Active"
               PROVE  RowsOf(e) # {} \/ \E s \in Requests : req'[s].email = e /\ RowToldOf(req'[s])
    BY DEF LoginsHeld, RowsOf, RowToldOf
  <2>2. CASE RowsOf(e) # {}
    BY <2>2
  <2>3. CASE RowsOf(e) = {}
    <3>1. PICK s \in Requests : req[s].email = e /\ RowToldOf(req[s])
      BY <2>1, <2>3 DEF MemberInv, Settled, LoginsHeld
    <3>2. s = r
      BY <2>1, <3>1 DEF RowToldOf
    <3> QED BY <2>1, <2>3, <3>1, <3>2
  <2> QED BY <2>2, <2>3
<1> QED BY <1>1, <1>2, <1>3, <1>4, MemberTurnKeeps DEF Settled

\* A step that writes nothing but the deny-list and the policy.
LEMMA QuietKeeps ==
  ASSUME MemberInv, NEW r \in Requests, NEW q \in Calls, Turned(r, q), Ready(q), Spares(q),
         UNCHANGED <<members, lastRow, login, invites>>,
         blocked' \subseteq Addresses, policy' \in Policies,
         RowToldOf(req[r]) => (RowToldOf(q) /\ q.email = req[r].email) \/ RowsOf(req[r].email) # {},
         calm' => Knows(q)'
  PROVE  MemberInv'
<1>1. invites' \in Seq(Invitations)
  BY DEF MemberInv, MemberShape, MembersRestSound
<1>2. calm' => OnePending'
  BY DEF MemberInv, Settled, OnePending, Awaits, Turned
<1> QED BY <1>1, <1>2, RowsStayKeeps

LEMMA ReadRowsKeeps ==
  ASSUME MemberInv, NEW r \in Requests, NEW q \in Calls, Turned(r, q), Ready(q), Spares(q),
         UNCHANGED <<members, lastRow, login, invites, blocked, policy>>,
         RowToldOf(req[r]) => (RowToldOf(q) /\ q.email = req[r].email) \/ RowsOf(req[r].email) # {},
         calm' => Knows(q)
  PROVE  MemberInv'
<1>1. calm' => Knows(q)'
  BY DEF Knows, RowsOf, Pending, Awaits, Welcomed, Admins, IsAdmin, CountAdmins, Doomed
<1>2. blocked' \subseteq Addresses /\ policy' \in Policies
  BY DEF MemberInv, MemberShape, MembersRestSound
<1> QED BY <1>1, <1>2, QuietKeeps

\* An invitation, and a member's row, name an address and a role.
LEMMA InvitationIs ==
  ASSUME MemberShape, NEW i \in DOMAIN invites
  PROVE  /\ invites[i] \in Invitations /\ i \in Nat /\ i # 0 /\ i <= Len(invites)
         /\ invites[i].email \in Addresses /\ invites[i].role \in Roles
<1>1. invites \in Seq(Invitations)
  BY DEF MemberShape, MembersRestSound
<1>2. i \in 1..Len(invites) /\ Len(invites) \in Nat /\ invites[i] \in Invitations
  BY <1>1
<1>3. PICK v \in Invitations : v = invites[i]
  BY <1>2
<1>4. v.email \in Addresses /\ v.role \in Roles
  BY DEF Invitations
<1> QED BY <1>2, <1>3, <1>4

LEMMA AdminsFinite ==
  ASSUME MemberShape
  PROVE  IsFiniteSet(Admins) /\ CountAdmins = Cardinality(Admins) /\ CountAdmins \in Nat
<1>1. IsFiniteSet(members) /\ Admins \in SUBSET members
  BY DEF MemberShape, MemberRowsSound, Admins
<1>2. IsFiniteSet(Admins)
  BY <1>1, FS_Subset
<1> QED BY <1>2, FS_CardinalityType DEF CountAdmins, Admins

\* A request that is about to revoke, or only begins.
LEMMA AsksToRevoke ==
  ASSUME MemberInv, NEW r \in Requests, NEW e \in Addresses, NEW g \in Roles,
         Begin(r, [NoReq EXCEPT !.pc = "revoke", !.email = e, !.role = g]),
         UNCHANGED <<members, lastRow, login, invites>>, blocked' \subseteq Addresses, policy' \in Policies
  PROVE  MemberInv'
<1>1. PICK q : q = [NoReq EXCEPT !.pc = "revoke", !.email = e, !.role = g]
  OBVIOUS
<1>2. q = [pc |-> "revoke", email |-> e, role |-> g, status |-> "Active",
           pw |-> FALSE, id |-> 0, row |-> 0, admins |-> 0, todo |-> {}]
  BY <1>1, NoReqTyped
<1>3. q \in Calls /\ Ready(q) /\ Spares(q) /\ q.pc = "revoke"
  BY <1>2 DEF Calls, Ready, Spares, Statuses
<1>4. Turned(r, q) /\ req[r].pc = "idle"
  BY <1>1, BeginTurns DEF MemberInv
<1>5. ~RowToldOf(req[r]) /\ Knows(q)'
  BY <1>3, <1>4 DEF RowToldOf, Knows
<1> QED BY <1>3, <1>4, <1>5, QuietKeeps

LEMMA InviteKeeps == ASSUME MemberInv, NEW r \in Requests, Invite(r) PROVE MemberInv'
<1>1. PICK e \in Addresses, g \in Roles :
        /\ Begin(r, [NoReq EXCEPT !.pc = "revoke", !.email = e, !.role = g])
        /\ blocked' = blocked \ {e} /\ UNCHANGED <<members, lastRow, login, invites, policy>>
  BY DEF Invite
<1>2. blocked' \subseteq Addresses /\ policy' \in Policies
  BY <1>1 DEF MemberInv, MemberShape, MembersRestSound
<1> QED BY <1>1, <1>2, AsksToRevoke

LEMMA ResendInviteKeeps == ASSUME MemberInv, NEW r \in Requests, ResendInvite(r) PROVE MemberInv'
<1>1. PICK i \in DOMAIN invites :
        /\ Begin(r, [NoReq EXCEPT !.pc = "revoke", !.email = invites[i].email, !.role = invites[i].role])
        /\ UNCHANGED <<members, lastRow, login, invites, blocked, policy>>
  BY DEF ResendInvite
<1>2. PICK e \in Addresses : e = invites[i].email
  BY <1>1, InvitationIs DEF MemberInv
<1>3. PICK g \in Roles : g = invites[i].role
  BY <1>1, InvitationIs DEF MemberInv
<1>4. blocked' \subseteq Addresses /\ policy' \in Policies
  BY <1>1 DEF MemberInv, MemberShape, MembersRestSound
<1> QED BY <1>1, <1>2, <1>3, <1>4, AsksToRevoke

LEMMA ResendMemberKeeps == ASSUME MemberInv, NEW r \in Requests, ResendMember(r) PROVE MemberInv'
<1>1. PICK m \in members :
        /\ Begin(r, [NoReq EXCEPT !.pc = "revoke", !.email = m.email, !.role = m.role])
        /\ UNCHANGED <<members, lastRow, login, invites, blocked, policy>>
  BY DEF ResendMember
<1>2. m.email \in Addresses /\ m.role \in Roles
  BY <1>1 DEF MemberInv, MemberShape, MemberRowsSound, MemberRows
<1>3. blocked' \subseteq Addresses /\ policy' \in Policies
  BY <1>1 DEF MemberInv, MemberShape, MembersRestSound
<1> QED BY <1>1, <1>2, <1>3, AsksToRevoke

LEMMA AddMemberKeeps == ASSUME MemberInv, NEW r \in Requests, AddMember(r) PROVE MemberInv'
<1>1. PICK e \in Addresses, g \in Roles, s \in Statuses, pw \in BOOLEAN, long \in BOOLEAN :
        /\ RowsOf(e) = {}
        /\ Begin(r, IF long THEN [NoReq EXCEPT !.pc = IF pw THEN "add" ELSE "row", !.email = e,
                                               !.role = g, !.status = s]
                    ELSE NoReq)
        /\ blocked' = blocked \ {e} /\ UNCHANGED <<members, lastRow, login, invites, policy>>
  BY DEF AddMember
<1>2. PICK q : q = IF long THEN [NoReq EXCEPT !.pc = IF pw THEN "add" ELSE "row", !.email = e,
                                               !.role = g, !.status = s]
                   ELSE NoReq
  OBVIOUS
<1>3. blocked' \subseteq Addresses /\ policy' \in Policies
  BY <1>1 DEF MemberInv, MemberShape, MembersRestSound
<1>4. Turned(r, q) /\ req[r].pc = "idle"
  BY <1>1, <1>2, BeginTurns DEF MemberInv
<1>5. q \in Calls /\ Ready(q) /\ Spares(q) /\ (q.pc = "idle" \/ (q.pc \in {"add", "row"} /\ q.email = e))
  <2>1. CASE long
    <3>1. PICK pc \in {"add", "row"} : pc = IF pw THEN "add" ELSE "row"
      OBVIOUS
    <3>2. q = [pc |-> pc, email |-> e, role |-> g, status |-> s,
               pw |-> FALSE, id |-> 0, row |-> 0, admins |-> 0, todo |-> {}]
      BY <1>2, <2>1, <3>1, NoReqTyped
    <3> QED BY <3>2 DEF Calls, Ready, Spares
  <2>2. CASE ~long
    BY <1>2, <2>2, NoReqTyped
  <2> QED BY <2>1, <2>2
<1>6. Knows(q)'
  BY <1>1, <1>5 DEF Knows, RowsOf
<1> QED BY <1>1, <1>3, <1>4, <1>5, <1>6, QuietKeeps DEF RowToldOf

LEMMA AcceptKeeps == ASSUME MemberInv, NEW r \in Requests, Accept(r) PROVE MemberInv'
<1>1. PICK i \in DOMAIN invites, pw \in BOOLEAN :
        /\ invites[i].status = "pending"
        /\ pw => Allowed(invites[i].email)
        /\ Begin(r, [NoReq EXCEPT !.pc = "redeem", !.id = i, !.pw = pw,
                            !.email = invites[i].email, !.role = invites[i].role])
        /\ UNCHANGED <<members, lastRow, login, invites, blocked, policy>>
  BY DEF Accept
<1>2. PICK e \in Addresses : e = invites[i].email
  BY <1>1, InvitationIs DEF MemberInv
<1>3. PICK g \in Roles : g = invites[i].role
  BY <1>1, InvitationIs DEF MemberInv
<1>4. PICK q : q = [NoReq EXCEPT !.pc = "redeem", !.id = i, !.pw = pw, !.email = e, !.role = g]
  OBVIOUS
<1>5. q = [pc |-> "redeem", email |-> e, role |-> g, status |-> "Active",
           pw |-> pw, id |-> i, row |-> 0, admins |-> 0, todo |-> {}]
  BY <1>4, NoReqTyped
<1>6. i \in Nat
  BY InvitationIs DEF MemberInv
<1>7. q \in Calls /\ Ready(q) /\ Spares(q) /\ q.pc = "redeem" /\ q.email = e /\ q.id = i /\ q.pw = pw
  BY <1>5, <1>6 DEF Calls, Ready, Spares, Statuses
<1>8. Turned(r, q) /\ req[r].pc = "idle"
  BY <1>1, <1>2, <1>3, <1>4, BeginTurns DEF MemberInv
<1>9. Knows(q)
  BY <1>1, <1>2, <1>7 DEF Knows, Awaits, Allowed
<1> QED BY <1>1, <1>7, <1>8, <1>9, ReadRowsKeeps DEF RowToldOf

LEMMA SignupKeeps == ASSUME MemberInv, NEW r \in Requests, Signup(r) PROVE MemberInv'
<1>1. PICK e \in Addresses :
        /\ Allowed(e) /\ Begin(r, [NoReq EXCEPT !.pc = "enrol", !.email = e])
        /\ UNCHANGED <<members, lastRow, login, invites, blocked, policy>>
  BY DEF Signup
<1>2. PICK q : q = [NoReq EXCEPT !.pc = "enrol", !.email = e]
  OBVIOUS
<1>3. q = [pc |-> "enrol", email |-> e, role |-> "Viewer", status |-> "Active",
           pw |-> FALSE, id |-> 0, row |-> 0, admins |-> 0, todo |-> {}]
  BY <1>2, NoReqTyped
<1>4. q \in Calls /\ Ready(q) /\ Spares(q) /\ q.pc = "enrol" /\ q.email = e
  BY <1>3, MembershipAssumption DEF Calls, Ready, Spares, Statuses
<1>5. Turned(r, q) /\ req[r].pc = "idle"
  BY <1>1, <1>2, BeginTurns DEF MemberInv
<1>6. policy = "invite_only" => Welcomed(e)
  BY <1>1 DEF Allowed, Welcomed
<1>7. Knows(q)
  BY <1>1, <1>4, <1>6 DEF Knows, Allowed
<1> QED BY <1>1, <1>4, <1>5, <1>7, ReadRowsKeeps DEF RowToldOf

LEMMA AnotherAdmin ==
  ASSUME MemberShape, NEW m \in Admins, CountAdmins > 1
  PROVE  \E n \in Admins : n # m
<1> SUFFICES ASSUME \A n \in Admins : n = m PROVE FALSE
  OBVIOUS
<1>1. Admins = {m}
  OBVIOUS
<1>2. Cardinality(Admins) = 1
  BY <1>1, FS_Singleton
<1> QED BY <1>2, AdminsFinite

LEMMA SetRoleKeeps == ASSUME MemberInv, NEW r \in Requests, SetRole(r) PROVE MemberInv'
<1>1. PICK m \in members :
        /\ ~m.owner /\ (m.role = "Admin" => CountAdmins > 1)
        /\ \E g \in Roles : Begin(r, [NoReq EXCEPT !.pc = "role", !.id = m.id, !.role = g])
        /\ UNCHANGED <<members, lastRow, login, invites, blocked, policy>>
  BY DEF SetRole
<1>2. PICK g \in Roles : Begin(r, [NoReq EXCEPT !.pc = "role", !.id = m.id, !.role = g])
  BY <1>1
<1>3. PICK k \in Nat : k = m.id
  BY DEF MemberInv, MemberShape, MemberRowsSound, MemberRows
<1>4. PICK q : q = [NoReq EXCEPT !.pc = "role", !.id = k, !.role = g]
  OBVIOUS
<1>5. q = [pc |-> "role", email |-> Nobody, role |-> g, status |-> "Active",
           pw |-> FALSE, id |-> k, row |-> 0, admins |-> 0, todo |-> {}]
  BY <1>4, NoReqTyped
<1>6. q \in Calls /\ Ready(q) /\ Spares(q) /\ q.pc = "role" /\ q.id = k
  BY <1>5, MembershipAssumption DEF Calls, Ready, Spares, Nobody, Statuses
<1>7. Turned(r, q) /\ req[r].pc = "idle"
  BY <1>2, <1>3, <1>4, BeginTurns DEF MemberInv
<1>8. ASSUME NEW a \in Admins, a.id = k PROVE \E n \in Admins : n.id # k
  <2>1. a = m
    BY <1>1, <1>3, <1>8 DEF MemberInv, MemberShape, MemberRowsSound, Admins
  <2>2. CountAdmins > 1 /\ m \in Admins
    BY <1>1, <1>8, <2>1 DEF Admins, IsAdmin
  <2>3. PICK n \in Admins : n # m
    BY <2>2, AnotherAdmin DEF MemberInv
  <2> QED BY <1>1, <1>3, <2>3 DEF MemberInv, MemberShape, MemberRowsSound, Admins
<1>9. Knows(q)
  BY <1>6, <1>8 DEF Knows
<1> QED BY <1>1, <1>6, <1>7, <1>9, ReadRowsKeeps DEF RowToldOf

LEMMA RedeemKeeps == ASSUME MemberInv, NEW r \in Requests, Redeem(r) PROVE MemberInv'
<1> DEFINE w == req[r]
           held == IF RowsOf(w.email) = {} THEN 0 ELSE (CHOOSE m \in RowsOf(w.email) : TRUE).id
<1>1. w \in Calls /\ w.pc = "redeem" /\ w.email \in Addresses
  BY DEF Redeem, MemberInv, MemberShape, Ready
<1>2. held \in Nat /\ (held = 0 => RowsOf(w.email) = {}) /\ (held # 0 => \E m \in RowsOf(w.email) : m.id = held)
  <2>1. \A m \in members : m.id \in Nat /\ m.id # 0
    BY DEF MemberInv, MemberShape, MemberRowsSound, MemberRows
  <2>2. CASE RowsOf(w.email) = {}
    BY <2>2
  <2>3. CASE RowsOf(w.email) # {}
    <3>1. (CHOOSE m \in RowsOf(w.email) : TRUE) \in RowsOf(w.email)
      BY <2>3
    <3> QED BY <2>1, <2>3, <3>1 DEF RowsOf
  <2> QED BY <2>2, <2>3
<1>3. login[w.email] \in Statuses \cup {"none"}
  BY <1>1 DEF MemberInv, MemberShape, MembersRestSound
<1>4. PICK q : q = [w EXCEPT !.pc = "redeemed", !.row = held, !.status = login[w.email]]
  OBVIOUS
<1>5. q \in Calls /\ q.pc = "redeemed" /\ q.email = w.email /\ q.pw = w.pw /\ q.id = w.id /\ q.row = held
      /\ q.status = login[w.email]
  BY <1>1, <1>2, <1>3, <1>4 DEF Calls
<1>6. Ready(q) /\ Spares(q)
  BY <1>1, <1>5 DEF Ready, Spares
<1>7. req' = [req EXCEPT ![r] = q] /\ begun' = begun /\ calm' = calm
  <2>1. req \in [Requests -> Calls]
    BY DEF MemberInv, MemberShape
  <2>2. req' = [req EXCEPT ![r] = [@ EXCEPT !.pc = "redeemed", !.row = held, !.status = login[w.email]]]
    BY <1>1, <2>1 DEF Redeem, Calls
  <2> QED BY <1>4, <2>2 DEF Redeem
<1>8. Turned(r, q)
  BY <1>1, <1>7, StepTurns
<1>9. calm' => Knows(q)
  <2>1. calm' => Knows(w)
    BY <1>7 DEF MemberInv
  <2>2. Knows(w) => Awaits(w.id, w.email) /\ (w.pw => w.email \notin blocked)
    BY <1>1 DEF Knows
  <2> QED BY <1>2, <1>5, <2>1, <2>2 DEF Knows
<1>10. UNCHANGED <<members, lastRow, login, invites, blocked, policy>> /\ ~RowToldOf(req[r])
  BY <1>1 DEF Redeem, RowToldOf
<1> QED BY <1>5, <1>6, <1>8, <1>9, <1>10, ReadRowsKeeps

LEMMA LastPending ==
  ASSUME MemberShape, NEW I \in SUBSET DOMAIN invites, I # {}
  PROVE  (CHOOSE i \in I : \A j \in I : j <= i) \in I
<1>1. I \subseteq Nat /\ Len(invites) \in Nat /\ \A i \in I : i <= Len(invites)
  BY InvitationIs DEF MemberShape, MembersRestSound
<1> QED BY <1>1, GreatestOf

LEMMA ProvisionKeeps == ASSUME MemberInv, NEW r \in Requests, Provision(r) PROVE MemberInv'
<1> DEFINE w == req[r]
           I == {i \in Pending(w.email) : invites[i].live}
           last == IF I = {} THEN 0 ELSE CHOOSE i \in I : \A j \in I : j <= i
           g == IF members = {} THEN "Admin" ELSE IF last # 0 THEN invites[last].role ELSE "Viewer"
<1>1. w \in Calls /\ w.pc = "provision" /\ w.email \in Addresses
  BY DEF Provision, MemberInv, MemberShape, Ready
<1>2. UNCHANGED <<members, lastRow, login, invites, blocked, policy>>
  BY DEF Provision
<1>3. CASE RowsOf(w.email) # {}
  <2>1. Turned(r, NoReq)
    BY <1>1, <1>3, StepEnds, StepTurns DEF Provision
  <2> QED BY <1>2, <1>3, <2>1, NoReqTyped, ReadRowsKeeps
<1>4. CASE RowsOf(w.email) = {}
  <2>1. last = 0 \/ last \in I
    <3>1. I \in SUBSET DOMAIN invites
      BY DEF Pending
    <3>2. I # {} => last \in I
      BY <3>1, LastPending DEF MemberInv
    <3> QED BY <3>2
  <2>2. PICK l \in Nat : l = last /\ (l = 0 \/ (Awaits(l, w.email) /\ invites[l].role \in Roles))
    <3>1. CASE last = 0
      BY <3>1
    <3>2. CASE last \in I
      BY <3>2, InvitationIs DEF Pending, Awaits, MemberInv
    <3> QED BY <2>1, <3>1, <3>2
  <2>3. g \in Roles
    <3>1. CASE members = {}
      BY <3>1, MembershipAssumption
    <3>2. CASE members # {} /\ l = 0
      BY <2>2, <3>2, MembershipAssumption
    <3>3. CASE members # {} /\ l # 0
      BY <2>2, <3>3
    <3> QED BY <3>1, <3>2, <3>3
  <2>4. /\ req' = [req EXCEPT ![r].pc = "join", ![r].id = last, ![r].pw = (members = {}), ![r].role = g]
        /\ begun' = begun /\ calm' = calm
    BY <1>4 DEF Provision
  <2> HIDE DEF last, g
  <2>5. PICK q : q = [w EXCEPT !.pc = "join", !.id = last, !.pw = (members = {}), !.role = g]
    OBVIOUS
  <2>6. q \in Calls /\ q.pc = "join" /\ q.email = w.email /\ q.pw = (members = {}) /\ q.id = last
    BY <1>1, <2>2, <2>3, <2>5 DEF Calls
  <2>7. Ready(q) /\ Spares(q)
    BY <1>1, <2>6 DEF Ready, Spares
  <2>8. req' = [req EXCEPT ![r] = q] /\ begun' = begun /\ calm' = calm
    <3>1. req \in [Requests -> Calls]
      BY DEF MemberInv, MemberShape
    <3>2. req' = [req EXCEPT ![r] = [@ EXCEPT !.pc = "join", !.id = last, !.pw = (members = {}), !.role = g]]
      BY <1>1, <2>4, <3>1 DEF Calls
    <3> QED BY <2>4, <2>5, <3>2
  <2>9. Turned(r, q)
    BY <1>1, <2>8, StepTurns
  <2>10. Knows(q)
    BY <1>4, <2>2, <2>6 DEF Knows
  <2>11. RowToldOf(q)
    BY <2>6 DEF RowToldOf
  <2> QED BY <1>2, <2>6, <2>7, <2>9, <2>10, <2>11, ReadRowsKeeps
<1> QED BY <1>3, <1>4

LEMMA RemoveMembersKeeps == ASSUME MemberInv, NEW r \in Requests, RemoveMembers(r) PROVE MemberInv'
<1>1. PICK T \in SUBSET {m.id : m \in members} :
        /\ Begin(r, [NoReq EXCEPT !.pc = "pick", !.todo = T, !.admins = CountAdmins])
        /\ UNCHANGED <<members, lastRow, login, invites, blocked, policy>>
  BY DEF RemoveMembers
<1>2. PICK c \in Nat : c = CountAdmins
  BY AdminsFinite DEF MemberInv
<1>3. T \in SUBSET Nat
  BY DEF MemberInv, MemberShape, MemberRowsSound, MemberRows
<1>4. PICK q : q = [NoReq EXCEPT !.pc = "pick", !.todo = T, !.admins = c]
  OBVIOUS
<1>5. q = [pc |-> "pick", email |-> Nobody, role |-> "Viewer", status |-> "Active",
           pw |-> FALSE, id |-> 0, row |-> 0, admins |-> c, todo |-> T]
  BY <1>4, NoReqTyped
<1>6. q \in Calls /\ Ready(q) /\ Spares(q) /\ q.pc = "pick" /\ q.admins = c
  BY <1>3, <1>5, MembershipAssumption DEF Calls, Ready, Spares, Nobody, Statuses
<1>7. Turned(r, q) /\ req[r].pc = "idle"
  BY <1>1, <1>2, <1>4, BeginTurns DEF MemberInv
<1>8. Knows(q)
  BY <1>2, <1>6 DEF Knows
<1> QED BY <1>1, <1>6, <1>7, <1>8, ReadRowsKeeps DEF RowToldOf

LEMMA PickKeeps == ASSUME MemberInv, NEW r \in Requests, Pick(r) PROVE MemberInv'
<1> DEFINE w == req[r]
<1>1. PICK id \in w.todo :
        LET m == MemberOf(id) IN
        /\ IF ~HasRow(id) \/ (HasRow(id) /\ (m.owner \/ (m.role = "Admin" /\ w.admins <= 1)))
           THEN IF w.todo = {id} THEN Step(r, "idle")
                ELSE req' = [req EXCEPT ![r].todo = @ \ {id}] /\ UNCHANGED <<begun, calm>>
           ELSE /\ req' = [req EXCEPT ![r] = [w EXCEPT !.pc = "delete", !.todo = @ \ {id}, !.id = id,
                      !.email = m.email, !.admins = IF m.role = "Admin" THEN @ - 1 ELSE @]]
                /\ UNCHANGED <<begun, calm>>
  BY DEF Pick
<1>2. w \in Calls /\ w.pc = "pick" /\ req \in [Requests -> Calls] /\ ~RowToldOf(w)
  BY DEF Pick, MemberInv, MemberShape, RowToldOf
<1>3. w.todo \in SUBSET Nat /\ w.admins \in Nat /\ id \in Nat
  BY <1>2 DEF Calls
<1>4. UNCHANGED <<members, lastRow, login, invites, blocked, policy>>
  BY DEF Pick
<1>5. calm' = calm => (calm' => w.admins = CountAdmins)
  BY <1>2 DEF MemberInv, Knows
<1> DEFINE skip == ~HasRow(id) \/ (HasRow(id) /\ (MemberOf(id).owner \/ (MemberOf(id).role = "Admin" /\ w.admins <= 1)))
<1>6. CASE skip /\ w.todo = {id}
  <2>1. Turned(r, NoReq)
    BY <1>1, <1>2, <1>6, StepEnds, StepTurns
  <2> QED BY <1>2, <1>4, <2>1, NoReqTyped, ReadRowsKeeps
<1>7. CASE skip /\ w.todo # {id}
  <2>1. PICK q : q = [w EXCEPT !.todo = @ \ {id}]
    OBVIOUS
  <2>2. q \in Calls /\ q.pc = "pick" /\ q.admins = w.admins
    BY <1>2, <1>3, <2>1 DEF Calls
  <2>3. req' = [req EXCEPT ![r] = q] /\ begun' = begun /\ calm' = calm
    BY <1>1, <1>2, <1>7, <2>1
  <2>4. Turned(r, q)
    BY <1>2, <2>3, StepTurns
  <2>5. calm' => Knows(q)
    BY <1>5, <2>2, <2>3 DEF Knows
  <2>6. Ready(q) /\ Spares(q)
    BY <2>2 DEF Ready, Spares
  <2> QED BY <1>2, <1>4, <2>2, <2>4, <2>5, <2>6, ReadRowsKeeps
<1>8. CASE ~skip
  <2>1. PICK m \in members : m = MemberOf(id) /\ m.id = id
    BY <1>8 DEF HasRow, MemberOf
  <2>2. ~m.owner /\ (m.role = "Admin" => w.admins > 1)
    BY <1>3, <1>8, <2>1 DEF HasRow
  <2>3. PICK c : c = IF m.role = "Admin" THEN w.admins - 1 ELSE w.admins
    OBVIOUS
  <2>4. c \in Nat /\ (m.role = "Admin" => c = w.admins - 1 /\ c >= 1) /\ (m.role # "Admin" => c = w.admins)
    BY <1>3, <2>2, <2>3
  <2>5. m.email \in Addresses /\ \A n \in members : n.id = id => n = m
    BY <2>1 DEF MemberInv, MemberShape, MemberRowsSound, MemberRows
  <2>6. id <= lastRow
    BY <2>1 DEF MemberInv, MemberShape, MemberRowsSound
  <2>7. PICK q : q = [w EXCEPT !.pc = "delete", !.todo = @ \ {id}, !.id = id, !.email = m.email, !.admins = c]
    OBVIOUS
  <2>8. q \in Calls /\ q.pc = "delete" /\ q.id = id /\ q.email = m.email /\ q.admins = c
    BY <1>2, <1>3, <2>4, <2>5, <2>7 DEF Calls
  <2>9. req' = [req EXCEPT ![r] = q] /\ begun' = begun /\ calm' = calm
    <3>1. req' = [req EXCEPT ![r] = [w EXCEPT !.pc = "delete", !.todo = @ \ {id}, !.id = id,
                      !.email = m.email, !.admins = IF m.role = "Admin" THEN @ - 1 ELSE @]]
          /\ begun' = begun /\ calm' = calm
      BY <1>1, <1>8, <2>1
    <3> QED BY <1>2, <2>3, <2>7, <3>1 DEF Calls
  <2>10. Turned(r, q)
    BY <1>2, <2>9, StepTurns
  <2>11. calm' => Knows(q)
    <3>1. ASSUME calm' PROVE Doomed(q)
      <4>1. m.role = "Admin" => q.admins = CountAdmins - 1 /\ q.admins >= 1
        BY <1>5, <2>4, <2>8, <2>9, <3>1
      <4>2. m.role # "Admin" => q.admins = CountAdmins
        BY <1>5, <2>4, <2>8, <2>9, <3>1
      <4> QED BY <2>1, <2>2, <2>8, <4>1, <4>2 DEF Doomed
    <3> QED BY <2>8, <3>1 DEF Knows
  <2>12. Ready(q) /\ Spares(q)
    BY <2>2, <2>5, <2>6, <2>8 DEF Ready, Spares
  <2> QED BY <1>2, <1>4, <2>8, <2>10, <2>11, <2>12, ReadRowsKeeps
<1> QED BY <1>6, <1>7, <1>8

\* What UPDATE invitations SET status leaves.
LEMMA StatusWritten ==
  ASSUME MemberShape, NEW k, NEW s \in {"pending", "accepted", "revoked"},
         invites' = [invites EXCEPT ![k].status = s]
  PROVE  /\ invites' \in Seq(Invitations) /\ DOMAIN invites' = DOMAIN invites
         /\ \A i \in DOMAIN invites : /\ invites'[i].email = invites[i].email
                                      /\ i # k => invites'[i] = invites[i]
                                      /\ i = k => invites'[i].status = s
<1>1. invites \in Seq(Invitations) /\ DOMAIN invites = 1..Len(invites) /\ Len(invites) \in Nat
  BY DEF MemberShape, MembersRestSound
<1>2. DOMAIN invites' = DOMAIN invites
  OBVIOUS
<1>3. ASSUME NEW i \in DOMAIN invites
      PROVE  /\ invites'[i] \in Invitations /\ invites'[i].email = invites[i].email
             /\ i # k => invites'[i] = invites[i]
             /\ i = k => invites'[i].status = s
  <2>1. PICK v \in Invitations : v = invites[i]
    BY <1>1
  <2>2. invites'[i] = IF i = k THEN [v EXCEPT !.status = s] ELSE v
    BY <2>1
  <2>3. [v EXCEPT !.status = s] \in Invitations /\ [v EXCEPT !.status = s].email = v.email
        /\ [v EXCEPT !.status = s].status = s
    BY DEF Invitations
  <2> QED BY <2>1, <2>2, <2>3
<1>4. invites' = [i \in 1..Len(invites) |-> invites'[i]]
  BY <1>1
<1>5. invites' \in [1..Len(invites) -> Invitations]
  BY <1>1, <1>3, <1>4
<1>6. invites' \in Seq(Invitations)
  BY <1>1, <1>5
<1> QED BY <1>2, <1>3, <1>6

LEMMA IssueRevokeKeeps == ASSUME MemberInv, NEW r \in Requests, IssueRevoke(r) PROVE MemberInv'
<1> DEFINE w == req[r]
<1>1. PICK q : q = [w EXCEPT !.pc = "insert"]
  OBVIOUS
<1>2. w.pc = "revoke" /\ w.email \in Addresses /\ Step(r, "insert")
      /\ UNCHANGED <<members, lastRow, login, blocked, policy>>
      /\ invites' = [i \in DOMAIN invites |->
           IF i \in Pending(w.email) THEN [invites[i] EXCEPT !.status = "revoked"] ELSE invites[i]]
  BY DEF IssueRevoke, MemberInv, MemberShape, Ready
<1>3. q \in Calls /\ q.pc = "insert" /\ q.email = w.email
      /\ req' = [req EXCEPT ![r] = q] /\ begun' = begun /\ calm' = calm
  BY <1>1, <1>2, StepIs DEF MemberInv
<1>4. Turned(r, q)
  BY <1>2, <1>3, StepTurns
<1>5. Ready(q) /\ Spares(q) /\ ~RowToldOf(w)
  BY <1>2, <1>3 DEF Ready, Spares, RowToldOf
<1>6. invites \in Seq(Invitations) /\ DOMAIN invites = 1..Len(invites) /\ Len(invites) \in Nat
  BY DEF MemberInv, MemberShape, MembersRestSound
<1>7. ASSUME NEW i \in DOMAIN invites
      PROVE  /\ invites'[i] \in Invitations /\ invites'[i].email = invites[i].email
             /\ i \in Pending(w.email) => invites'[i].status = "revoked"
             /\ i \notin Pending(w.email) => invites'[i] = invites[i]
  <2>1. PICK v \in Invitations : v = invites[i]
    BY <1>6
  <2>2. invites'[i] = IF i \in Pending(w.email) THEN [v EXCEPT !.status = "revoked"] ELSE v
    BY <1>2, <2>1
  <2>3. [v EXCEPT !.status = "revoked"] \in Invitations /\ [v EXCEPT !.status = "revoked"].email = v.email
        /\ [v EXCEPT !.status = "revoked"].status = "revoked"
    BY DEF Invitations
  <2> QED BY <2>1, <2>2, <2>3
<1>8. DOMAIN invites' = DOMAIN invites /\ invites' \in Seq(Invitations)
  <2>1. DOMAIN invites' = 1..Len(invites)
    BY <1>2, <1>6
  <2>2. invites' = [i \in 1..Len(invites) |-> invites'[i]]
    BY <1>2, <1>6
  <2>3. invites' \in [1..Len(invites) -> Invitations]
    BY <1>6, <1>7, <2>2
  <2> QED BY <1>6, <2>1, <2>3
<1>9. ASSUME calm' PROVE OnePending' /\ Knows(q)'
  <2>1. OnePending
    BY <1>3, <1>9 DEF MemberInv, Settled
  <2>2. \A i \in DOMAIN invites' : invites'[i].status = "pending" =>
          invites'[i] = invites[i] /\ invites[i].email # w.email
    BY <1>7, <1>8 DEF Pending
  <2>3. OnePending'
    BY <1>8, <2>1, <2>2 DEF OnePending, Awaits
  <2>4. {i \in DOMAIN invites' : invites'[i].email = q.email /\ invites'[i].status = "pending"} = {}
    BY <1>3, <1>7, <1>8, <2>2
  <2> QED BY <1>3, <2>3, <2>4 DEF Knows, Pending
<1>10. blocked' \subseteq Addresses /\ policy' \in Policies
  BY <1>2 DEF MemberInv, MemberShape, MembersRestSound
<1> QED BY <1>2, <1>3, <1>4, <1>5, <1>8, <1>9, <1>10, RowsStayKeeps

LEMMA IssueInsertKeeps == ASSUME MemberInv, NEW r \in Requests, IssueInsert(r) PROVE MemberInv'
<1> DEFINE w == req[r]
<1>1. w \in Calls /\ w.pc = "insert" /\ w.email \in Addresses
      /\ UNCHANGED <<members, lastRow, login, blocked, policy>>
  BY DEF IssueInsert, MemberInv, MemberShape, Ready
<1>2. req' = [req EXCEPT ![r] = NoReq] /\ begun' = begun /\ calm' = calm
  BY StepEnds DEF IssueInsert
<1>3. Turned(r, NoReq) /\ ~RowToldOf(w)
  BY <1>1, <1>2, StepTurns DEF RowToldOf
<1>4. PICK v : v = [email |-> w.email, role |-> w.role, status |-> "pending", live |-> TRUE]
  OBVIOUS
<1>5. v \in Invitations /\ v.email = w.email
  BY <1>1, <1>4 DEF Invitations, Calls
<1>6. invites \in Seq(Invitations) /\ invites' = Append(invites, v)
  BY <1>4 DEF IssueInsert, MemberInv, MemberShape, MembersRestSound
<1>7. /\ invites' \in Seq(Invitations) /\ Len(invites) \in Nat
      /\ DOMAIN invites = 1..Len(invites) /\ DOMAIN invites' = 1..(Len(invites) + 1)
      /\ \A i \in DOMAIN invites : invites'[i] = invites[i]
      /\ invites'[Len(invites) + 1] = v
  BY <1>5, <1>6
<1>8. ASSUME calm' PROVE OnePending'
  <2>1. OnePending /\ Pending(w.email) = {}
    BY <1>1, <1>2, <1>8 DEF MemberInv, Settled, Knows
  <2>2. \A i \in DOMAIN invites' : i \in DOMAIN invites \/ i = Len(invites) + 1
    BY <1>7
  <2>3. \A i \in DOMAIN invites : invites'[i].status = "pending" => invites'[i].email # v.email
    BY <1>5, <1>7, <2>1 DEF Pending
  <2> QED BY <1>7, <2>1, <2>2, <2>3 DEF OnePending, Awaits
<1>9. blocked' \subseteq Addresses /\ policy' \in Policies
  BY <1>1 DEF MemberInv, MemberShape, MembersRestSound
<1>10. Knows(NoReq)'
  BY NoReqTyped DEF Knows
<1> QED BY <1>1, <1>3, <1>7, <1>8, <1>9, <1>10, NoReqTyped, RowsStayKeeps

LEMMA MarkRowKeeps == ASSUME MemberInv, NEW r \in Requests, Mark(r) PROVE MemberInv'
<1> DEFINE w == req[r]
<1>1. w.pc = "mark" /\ UNCHANGED <<members, lastRow, login, blocked, policy>>
      /\ invites' = [invites EXCEPT ![w.id].status = "accepted"]
  BY DEF Mark
<1>2. req' = [req EXCEPT ![r] = NoReq] /\ begun' = begun /\ calm' = calm
  BY StepEnds DEF Mark
<1>3. Turned(r, NoReq) /\ ~RowToldOf(w)
  BY <1>1, <1>2, StepTurns DEF RowToldOf
<1>4. /\ invites' \in Seq(Invitations) /\ DOMAIN invites' = DOMAIN invites
      /\ \A i \in DOMAIN invites : invites'[i].status = "pending" => invites'[i] = invites[i]
  BY <1>1, StatusWritten DEF MemberInv
<1>5. ASSUME calm' PROVE OnePending'
  BY <1>2, <1>4, <1>5 DEF MemberInv, Settled, OnePending, Awaits
<1>6. blocked' \subseteq Addresses /\ policy' \in Policies
  BY <1>1 DEF MemberInv, MemberShape, MembersRestSound
<1>7. Knows(NoReq)'
  BY NoReqTyped DEF Knows
<1> QED BY <1>1, <1>3, <1>4, <1>5, <1>6, <1>7, NoReqTyped, RowsStayKeeps

\* A request of one statement that writes no row and no login.
LEMMA AtOnceQuietKeeps ==
  ASSUME MemberInv, AtOnce, UNCHANGED <<members, lastRow, login>>, invites' \in Seq(Invitations),
         blocked' \subseteq Addresses, policy' \in Policies, calm' => OnePending'
  PROVE  MemberInv'
<1>1. req' = req /\ (calm' => calm)
  BY CountSteps DEF AtOnce, MemberInv
<1>2. MemberRowsSound' /\ login' \in [Addresses -> Statuses \cup {"none"}]
      /\ \A n \in members' : n.owner => \E m \in members : m.id = n.id /\ m.owner
  BY DEF MemberInv, MemberShape, MemberRowsSound, MembersRestSound
<1>3. ASSUME calm' PROVE OneRowEach' /\ LoginsHeld'
  BY <1>1, <1>3 DEF MemberInv, Settled, OneRowEach, LoginsHeld, RowsOf, RowToldOf
<1> QED BY <1>2, <1>3, AtOnceKeeps DEF Settled

LEMMA RevokeKeeps == ASSUME MemberInv, Revoke PROVE MemberInv'
<1>1. PICK k \in DOMAIN invites :
        /\ invites' = [invites EXCEPT ![k].status = "revoked"]
        /\ AtOnce /\ UNCHANGED <<members, lastRow, login, blocked, policy>>
  BY DEF Revoke
<1>2. /\ invites' \in Seq(Invitations) /\ DOMAIN invites' = DOMAIN invites
      /\ \A i \in DOMAIN invites : invites'[i].status = "pending" => invites'[i] = invites[i]
  BY <1>1, StatusWritten DEF MemberInv
<1>3. ASSUME calm' PROVE OnePending'
  <2>1. OnePending
    BY <1>1, <1>3, CountSteps DEF AtOnce, MemberInv, Settled
  <2> QED BY <1>2, <2>1 DEF OnePending, Awaits
<1>4. blocked' \subseteq Addresses /\ policy' \in Policies
  BY <1>1 DEF MemberInv, MemberShape, MembersRestSound
<1> QED BY <1>1, <1>2, <1>3, <1>4, AtOnceQuietKeeps

LEMMA LapseKeeps == ASSUME MemberInv, Lapse PROVE MemberInv'
<1>1. PICK k \in DOMAIN invites :
        /\ invites' = [invites EXCEPT ![k].live = FALSE]
        /\ AtOnce /\ UNCHANGED <<members, lastRow, login, blocked, policy>>
  BY DEF Lapse
<1>2. invites \in Seq(Invitations) /\ DOMAIN invites = 1..Len(invites) /\ Len(invites) \in Nat
  BY DEF MemberInv, MemberShape, MembersRestSound
<1>3. ASSUME NEW i \in DOMAIN invites
      PROVE  /\ invites'[i] \in Invitations
             /\ invites'[i].email = invites[i].email /\ invites'[i].status = invites[i].status
  <2>1. PICK v \in Invitations : v = invites[i]
    BY <1>2
  <2>2. invites'[i] = IF i = k THEN [v EXCEPT !.live = FALSE] ELSE v
    BY <1>1, <2>1
  <2>3. [v EXCEPT !.live = FALSE] \in Invitations /\ [v EXCEPT !.live = FALSE].email = v.email
        /\ [v EXCEPT !.live = FALSE].status = v.status
    BY DEF Invitations
  <2> QED BY <2>1, <2>2, <2>3
<1>4. DOMAIN invites' = DOMAIN invites /\ invites' \in Seq(Invitations)
  <2>1. DOMAIN invites' = 1..Len(invites)
    BY <1>1, <1>2
  <2>2. invites' = [i \in 1..Len(invites) |-> invites'[i]]
    BY <1>1, <1>2
  <2>3. invites' \in [1..Len(invites) -> Invitations]
    BY <1>2, <1>3, <2>2
  <2> QED BY <1>2, <2>1, <2>3
<1>5. ASSUME calm' PROVE OnePending'
  <2>1. OnePending
    BY <1>1, <1>5, CountSteps DEF AtOnce, MemberInv, Settled
  <2> QED BY <1>3, <1>4, <2>1 DEF OnePending, Awaits
<1>6. blocked' \subseteq Addresses /\ policy' \in Policies
  BY <1>1 DEF MemberInv, MemberShape, MembersRestSound
<1> QED BY <1>1, <1>4, <1>5, <1>6, AtOnceQuietKeeps

LEMMA EditPolicyKeeps == ASSUME MemberInv, EditPolicy PROVE MemberInv'
<1>1. AtOnce /\ UNCHANGED <<members, lastRow, login, invites>>
  BY DEF EditPolicy
<1>2. blocked' \subseteq Addresses /\ policy' \in Policies /\ invites' \in Seq(Invitations)
  BY <1>1 DEF EditPolicy, MemberInv, MemberShape, MembersRestSound
<1>3. ASSUME calm' PROVE OnePending'
  <2>1. OnePending
    BY <1>1, <1>3, CountSteps DEF AtOnce, MemberInv, Settled
  <2> QED BY <1>1, <2>1 DEF OnePending, Awaits
<1> QED BY <1>1, <1>2, <1>3, AtOnceQuietKeeps

LEMMA BlockKeeps == ASSUME MemberInv, NEW r \in Requests, Block(r) PROVE MemberInv'
<1> DEFINE w == req[r]
<1>1. w.pc = "block" /\ w.email \in Addresses /\ blocked' = blocked \cup {w.email}
      /\ UNCHANGED <<members, lastRow, login, invites, policy>> /\ ~RowToldOf(w)
  BY DEF Block, MemberInv, MemberShape, Ready, RowToldOf
<1>2. blocked' \subseteq Addresses /\ policy' \in Policies
  BY <1>1 DEF MemberInv, MemberShape, MembersRestSound
<1>3. CASE w.todo = {}
  <2>1. Turned(r, NoReq)
    BY <1>1, <1>3, StepEnds, StepTurns DEF Block
  <2>2. Knows(NoReq)'
    BY NoReqTyped DEF Knows
  <2> QED BY <1>1, <1>2, <2>1, <2>2, NoReqTyped, QuietKeeps
<1>4. CASE w.todo # {}
  <2>1. PICK q : q = [w EXCEPT !.pc = "pick"]
    OBVIOUS
  <2>2. q \in Calls /\ q.pc = "pick" /\ q.admins = w.admins
        /\ req' = [req EXCEPT ![r] = q] /\ begun' = begun /\ calm' = calm
    BY <1>4, <2>1, StepIs DEF Block, MemberInv
  <2>3. Turned(r, q)
    BY <1>1, <2>2, StepTurns
  <2>4. Ready(q) /\ Spares(q)
    BY <2>2 DEF Ready, Spares
  <2>5. calm' => q.admins = CountAdmins
    BY <1>1, <2>2 DEF MemberInv, Knows
  <2>6. calm' => Knows(q)'
    BY <1>1, <2>2, <2>5 DEF Knows, CountAdmins, IsAdmin
  <2> QED BY <1>1, <1>2, <2>2, <2>3, <2>4, <2>6, QuietKeeps
<1> QED BY <1>3, <1>4

\* A step that writes a login and no row.
LEMMA LoginKeeps ==
  ASSUME MemberInv, NEW r \in Requests, NEW q \in Calls, Turned(r, q), Ready(q), Spares(q),
         UNCHANGED <<members, lastRow, invites, blocked, policy>>,
         login' \in [Addresses -> Statuses \cup {"none"}],
         \A e \in Addresses : login'[e] = "Active" =>
           (RowToldOf(q) /\ q.email = e) \/ (login[e] = "Active" /\ (RowToldOf(req[r]) => req[r].email # e)),
         calm' => Knows(q)'
  PROVE  MemberInv'
<1>1. MemberRowsSound' /\ invites' \in Seq(Invitations) /\ lastRow' >= lastRow /\ Spares(q)'
      /\ blocked' \subseteq Addresses /\ policy' \in Policies
  BY DEF MemberInv, MemberShape, MemberRowsSound, MembersRestSound, Spares
<1>2. \A n \in members' : n.owner => n.id > lastRow \/ \E m \in members : m.id = n.id /\ m.owner
  OBVIOUS
<1>3. ASSUME calm' PROVE OneRowEach' /\ OnePending'
  BY <1>3 DEF MemberInv, Settled, OneRowEach, OnePending, Awaits, Turned
<1>4. ASSUME calm' PROVE LoginsHeld'
  <2>1. req'[r] = q /\ calm /\ \A s \in Requests \ {r} : req[s].pc = "idle"
    BY <1>4 DEF MemberInv, MemberShape, Turned
  <2> SUFFICES ASSUME NEW e \in Addresses, login'[e] = "Active"
               PROVE  RowsOf(e) # {} \/ \E s \in Requests : req'[s].email = e /\ RowToldOf(req'[s])
    BY DEF LoginsHeld, RowsOf, RowToldOf
  <2>2. CASE RowToldOf(q) /\ q.email = e
    BY <2>1, <2>2
  <2>3. CASE login[e] = "Active" /\ (RowToldOf(req[r]) => req[r].email # e)
    <3>1. RowsOf(e) # {} \/ \E s \in Requests : req[s].email = e /\ RowToldOf(req[s])
      BY <2>1, <2>3 DEF MemberInv, Settled, LoginsHeld
    <3>2. ASSUME NEW s \in Requests, req[s].email = e, RowToldOf(req[s]) PROVE FALSE
      <4>1. s = r
        BY <2>1, <3>2 DEF RowToldOf
      <4> QED BY <2>3, <3>2, <4>1
    <3> QED BY <3>1, <3>2
  <2> QED BY <2>2, <2>3
<1> QED BY <1>1, <1>2, <1>3, <1>4, MemberTurnKeeps DEF Settled

LEMMA AddLoginKeeps == ASSUME MemberInv, NEW r \in Requests, AddLogin(r) PROVE MemberInv'
<1> DEFINE w == req[r]
<1>1. w.pc = "add" /\ w.email \in Addresses /\ w.status \in Statuses /\ ~RowToldOf(w)
      /\ UNCHANGED <<members, lastRow, invites, blocked, policy>> /\ login \in [Addresses -> Statuses \cup {"none"}]
  BY DEF AddLogin, MemberInv, MemberShape, MembersRestSound, Ready, RowToldOf
<1>2. CASE login[w.email] = "none"
  <2>1. PICK q : q = [w EXCEPT !.pc = "row"]
    OBVIOUS
  <2>2. q \in Calls /\ q.pc = "row" /\ q.email = w.email /\ q.status = w.status
        /\ req' = [req EXCEPT ![r] = q] /\ begun' = begun /\ calm' = calm
    BY <1>2, <2>1, StepIs DEF AddLogin, MemberInv
  <2>3. Turned(r, q)
    BY <1>1, <2>2, StepTurns
  <2>4. Ready(q) /\ Spares(q) /\ RowToldOf(q)
    BY <1>1, <2>2 DEF Ready, Spares, RowToldOf
  <2>5. login' = [login EXCEPT ![w.email] = w.status]
    BY <1>2 DEF AddLogin
  <2>6. login' \in [Addresses -> Statuses \cup {"none"}]
        /\ \A e \in Addresses : login'[e] = "Active" => e = w.email \/ login[e] = "Active"
    BY <1>1, <2>5
  <2>7. calm' => RowsOf(w.email) = {}
    BY <1>1, <2>2 DEF MemberInv, Knows
  <2>8. calm' => Knows(q)'
    BY <1>1, <2>2, <2>7 DEF Knows, RowsOf
  <2> QED BY <1>1, <2>2, <2>3, <2>4, <2>6, <2>8, LoginKeeps
<1>3. CASE login[w.email] # "none"
  <2>1. Turned(r, NoReq)
    BY <1>1, <1>3, StepEnds, StepTurns DEF AddLogin
  <2>2. login' = login
    BY <1>3 DEF AddLogin
  <2> QED BY <1>1, <2>1, <2>2, NoReqTyped, ReadRowsKeeps
<1> QED BY <1>2, <1>3

LEMMA EnrolKeeps == ASSUME MemberInv, NEW r \in Requests, Enrol(r) PROVE MemberInv'
<1> DEFINE w == req[r]
           shut == login[w.email] = "Active" \/ (login[w.email] # "none" /\ Suspended(w.email))
<1>1. w.pc = "enrol" /\ w.email \in Addresses /\ ~RowToldOf(w)
      /\ UNCHANGED <<members, lastRow, invites, blocked, policy>> /\ login \in [Addresses -> Statuses \cup {"none"}]
  BY DEF Enrol, MemberInv, MemberShape, MembersRestSound, Ready, RowToldOf
<1>2. CASE ~shut
  <2>1. PICK q : q = [w EXCEPT !.pc = "provision"]
    OBVIOUS
  <2>2. q \in Calls /\ q.pc = "provision" /\ q.email = w.email
        /\ req' = [req EXCEPT ![r] = q] /\ begun' = begun /\ calm' = calm
    BY <1>2, <2>1, StepIs DEF Enrol, MemberInv
  <2>3. Turned(r, q)
    BY <1>1, <2>2, StepTurns
  <2>4. Ready(q) /\ Spares(q) /\ RowToldOf(q)
    BY <1>1, <2>2 DEF Ready, Spares, RowToldOf
  <2>5. login' = [login EXCEPT ![w.email] = "Active"]
    BY <1>2 DEF Enrol
  <2>6. login' \in [Addresses -> Statuses \cup {"none"}]
        /\ \A e \in Addresses : login'[e] = "Active" => e = w.email \/ login[e] = "Active"
    BY <1>1, <2>5 DEF Statuses
  <2>8. Knows(q)'
    BY <2>2 DEF Knows
  <2> QED BY <1>1, <2>2, <2>3, <2>4, <2>6, <2>8, LoginKeeps
<1>3. CASE shut
  <2>1. Turned(r, NoReq)
    BY <1>1, <1>3, StepEnds, StepTurns DEF Enrol
  <2>2. login' = login
    BY <1>3 DEF Enrol
  <2> QED BY <1>1, <2>1, <2>2, NoReqTyped, ReadRowsKeeps
<1> QED BY <1>2, <1>3

LEMMA ShutKeeps == ASSUME MemberInv, NEW r \in Requests, Shut(r) PROVE MemberInv'
<1> DEFINE w == req[r]
<1>1. w.pc = "shut" /\ w.email \in Addresses
      /\ UNCHANGED <<members, lastRow, invites, blocked, policy>> /\ login \in [Addresses -> Statuses \cup {"none"}]
  BY DEF Shut, MemberInv, MemberShape, MembersRestSound, Ready
<1>2. PICK q : q = [w EXCEPT !.pc = "block"]
  OBVIOUS
<1>3. q \in Calls /\ q.pc = "block" /\ q.email = w.email /\ q.admins = w.admins
      /\ req' = [req EXCEPT ![r] = q] /\ begun' = begun /\ calm' = calm
  BY <1>2, StepIs DEF Shut, MemberInv
<1>4. Turned(r, q)
  BY <1>1, <1>3, StepTurns
<1>5. Ready(q) /\ Spares(q)
  BY <1>1, <1>3 DEF Ready, Spares
<1>6. login' = [login EXCEPT ![w.email] = IF @ = "none" THEN @ ELSE "Deactivated"]
  BY DEF Shut
<1>7. login' \in [Addresses -> Statuses \cup {"none"}]
      /\ \A e \in Addresses : login'[e] = "Active" => e # w.email /\ login[e] = "Active"
  BY <1>1, <1>6 DEF Statuses
<1>8. calm' => q.admins = CountAdmins
  BY <1>1, <1>3 DEF MemberInv, Knows
<1>9. calm' => Knows(q)'
  BY <1>1, <1>3, <1>8 DEF Knows, CountAdmins, IsAdmin
<1> QED BY <1>1, <1>3, <1>4, <1>5, <1>7, <1>9, LoginKeeps

\* INSERT INTO members: what the new row is, and what it leaves of the others.
LEMMA EnteredRow ==
  ASSUME MemberShape, NEW e \in Addresses, NEW g \in Roles, NEW s \in Statuses, NEW o \in BOOLEAN,
         Enter(e, g, s, o), o => s = "Active"
  PROVE  /\ MemberRowsSound' /\ lastRow \in Nat /\ lastRow' = lastRow + 1 /\ RowsOf(e)' # {}
         /\ \A n \in members' : n \in members \/ (n.id = lastRow' /\ n.email = e /\ n.owner = o)
         /\ members \subseteq members'
         /\ OneRowEach /\ RowsOf(e) = {} /\ (o => members = {}) => OneRowEach'
<1>1. PICK x : x = [id |-> lastRow', email |-> e, role |-> g, status |-> s, owner |-> o]
  OBVIOUS
<1>2. lastRow \in Nat /\ lastRow' = lastRow + 1 /\ lastRow' \in 1..MaxRows /\ lastRow < MaxRows
      /\ members' = members \cup {x}
  BY <1>1, MembershipAssumption DEF Enter, MemberShape, MemberRowsSound
<1>3. x \in MemberRows /\ x.id = lastRow' /\ x.email = e /\ x.owner = o /\ x.status = s
  BY <1>1, <1>2 DEF MemberRows
<1>4. members \subseteq MemberRows /\ IsFiniteSet(members) /\ \A m \in members : m.id <= lastRow /\ m.id \in Nat
  BY DEF MemberShape, MemberRowsSound, MemberRows
<1>5. IsFiniteSet(members')
  BY <1>2, <1>4, FS_AddElement
<1>6. \A m \in members : m.id # x.id /\ m.id <= lastRow'
  BY <1>2, <1>3, <1>4
<1>7. MemberRowsSound'
  <2>1. \A m, n \in members' : m.id = n.id => m = n
    BY <1>2, <1>6 DEF MemberShape, MemberRowsSound
  <2>2. \A m \in members' : m.id <= lastRow'
    BY <1>2, <1>3, <1>6
  <2>3. \A m \in members' : m.owner => m.status = "Active"
    BY <1>2, <1>3 DEF MemberShape, MemberRowsSound
  <2> QED BY <1>2, <1>3, <1>4, <1>5, <2>1, <2>2, <2>3 DEF MemberRowsSound
<1>8. ASSUME OneRowEach, RowsOf(e) = {}, o => members = {} PROVE OneRowEach'
  <2>1. \A m \in members : m.email # x.email
    BY <1>3, <1>8 DEF RowsOf
  <2>2. \A m \in members : ~x.owner
    BY <1>3, <1>8
  <2> QED BY <1>2, <1>8, <2>1, <2>2 DEF OneRowEach
<1> QED BY <1>2, <1>3, <1>7, <1>8 DEF RowsOf

LEMMA EnteredKeeps ==
  ASSUME MemberInv, NEW r \in Requests, NEW q \in Calls, Turned(r, q), Ready(q), q.pc # "delete",
         NEW e \in Addresses, NEW g \in Roles, NEW s \in Statuses, NEW o \in BOOLEAN,
         Enter(e, g, s, o), o => s = "Active", RowToldOf(req[r]) => req[r].email = e,
         invites' \in Seq(Invitations), UNCHANGED <<blocked, policy>>,
         login' \in [Addresses -> Statuses \cup {"none"}],
         \A a \in Addresses : login'[a] = "Active" => login[a] = "Active" \/ a = e,
         calm' => RowsOf(e) = {} /\ (o => members = {}) /\ OnePending' /\ Knows(q)'
  PROVE  MemberInv'
<1>1. /\ MemberRowsSound' /\ lastRow \in Nat /\ lastRow' = lastRow + 1 /\ RowsOf(e)' # {}
      /\ \A n \in members' : n \in members \/ (n.id = lastRow' /\ n.email = e /\ n.owner = o)
      /\ members \subseteq members'
      /\ OneRowEach /\ RowsOf(e) = {} /\ (o => members = {}) => OneRowEach'
  BY EnteredRow DEF MemberInv
<1>2. lastRow' >= lastRow /\ \A n \in members' : n.owner => n.id > lastRow \/ \E m \in members : m.id = n.id /\ m.owner
  BY <1>1
<1>3. ASSUME calm' PROVE LoginsHeld'
  <2>1. calm /\ \A t \in Requests \ {r} : req[t].pc = "idle"
    BY <1>3 DEF MemberInv, Turned
  <2> SUFFICES ASSUME NEW a \in Addresses, login'[a] = "Active"
               PROVE  RowsOf(a)' # {}
    BY DEF LoginsHeld
  <2>2. CASE a = e
    BY <1>1, <2>2
  <2>3. CASE a # e
    <3>1. RowsOf(a) # {} \/ \E t \in Requests : req[t].email = a /\ RowToldOf(req[t])
      BY <2>1, <2>3 DEF MemberInv, Settled, LoginsHeld
    <3>2. ASSUME NEW t \in Requests, req[t].email = a, RowToldOf(req[t]) PROVE FALSE
      <4>1. t = r
        BY <2>1, <3>2 DEF RowToldOf
      <4> QED BY <2>3, <3>2, <4>1
    <3> QED BY <1>1, <3>1, <3>2 DEF RowsOf
  <2> QED BY <2>2, <2>3
<1>4. calm' => Settled' /\ Knows(q)'
  BY <1>1, <1>3 DEF MemberInv, Turned, Settled
<1>5. Spares(q)' /\ blocked' \subseteq Addresses /\ policy' \in Policies
  BY DEF Spares, MemberInv, MemberShape, MembersRestSound
<1> QED BY <1>1, <1>2, <1>4, <1>5, MemberTurnKeeps

LEMMA AddRowKeeps == ASSUME MemberInv, NEW r \in Requests, AddRow(r) PROVE MemberInv'
<1> DEFINE w == req[r]
<1>1. w \in Calls /\ w.pc = "row" /\ w.email \in Addresses /\ w.status \in Statuses /\ w.role \in Roles
  BY DEF AddRow, MemberInv, MemberShape, Ready, Calls
<1>2. Enter(w.email, w.role, w.status, FALSE) /\ UNCHANGED <<login, invites, blocked, policy>>
  BY DEF AddRow
<1>3. PICK q \in Calls : /\ req' = [req EXCEPT ![r] = q] /\ begun' = begun /\ calm' = calm
                         /\ q.pc \in {"idle", "revoke"} /\ Ready(q)
  <2>1. CASE w.status = "Invited"
    <3>1. PICK q : q = [w EXCEPT !.pc = "revoke"]
      OBVIOUS
    <3>2. q \in Calls /\ q.pc = "revoke" /\ q.email = w.email
          /\ req' = [req EXCEPT ![r] = q] /\ begun' = begun /\ calm' = calm
      BY <2>1, <3>1, StepIs DEF AddRow, MemberInv
    <3> QED BY <1>1, <3>2 DEF Ready
  <2>2. CASE w.status # "Invited"
    BY <2>2, StepEnds, NoReqTyped DEF AddRow
  <2> QED BY <2>1, <2>2
<1>4. Turned(r, q)
  BY <1>1, <1>3, StepTurns
<1>5. invites' \in Seq(Invitations) /\ login' \in [Addresses -> Statuses \cup {"none"}]
  BY <1>2 DEF MemberInv, MemberShape, MembersRestSound
<1>6. ASSUME calm' PROVE RowsOf(w.email) = {} /\ OnePending' /\ Knows(q)'
  <2>1. RowsOf(w.email) = {} /\ OnePending
    BY <1>1, <1>3, <1>6 DEF MemberInv, Settled, Knows
  <2>2. Knows(q)'
    BY <1>3 DEF Knows
  <2> QED BY <1>2, <2>1, <2>2 DEF OnePending, Awaits
<1> QED BY <1>1, <1>2, <1>3, <1>4, <1>5, <1>6, EnteredKeeps

LEMMA JoinKeeps == ASSUME MemberInv, NEW r \in Requests, Join(r) PROVE MemberInv'
<1> DEFINE w == req[r]
<1>1. w \in Calls /\ w.pc = "join" /\ w.email \in Addresses /\ w.role \in Roles /\ w.pw \in BOOLEAN
  BY DEF Join, MemberInv, MemberShape, Ready, Calls
<1>2. Enter(w.email, w.role, "Active", w.pw) /\ UNCHANGED <<login, invites, blocked, policy>>
  BY DEF Join
<1>3. PICK q \in Calls : /\ req' = [req EXCEPT ![r] = q] /\ begun' = begun /\ calm' = calm /\ Ready(q)
                         /\ q.pc = "idle" \/ (q.pc = "mark" /\ q.id = w.id /\ q.email = w.email /\ w.id # 0)
  <2>1. CASE w.id # 0
    <3>1. PICK q : q = [w EXCEPT !.pc = "mark"]
      OBVIOUS
    <3>2. q \in Calls /\ q.pc = "mark" /\ q.email = w.email /\ q.id = w.id
          /\ req' = [req EXCEPT ![r] = q] /\ begun' = begun /\ calm' = calm
      BY <2>1, <3>1, StepIs DEF Join, MemberInv
    <3> QED BY <1>1, <2>1, <3>2 DEF Ready
  <2>2. CASE w.id = 0
    BY <2>2, StepEnds, NoReqTyped DEF Join
  <2> QED BY <2>1, <2>2
<1>4. Turned(r, q)
  BY <1>1, <1>3, StepTurns
<1>5. invites' \in Seq(Invitations) /\ login' \in [Addresses -> Statuses \cup {"none"}]
  BY <1>2 DEF MemberInv, MemberShape, MembersRestSound
<1>6. "Active" \in Statuses
  BY DEF Statuses
<1>7. ASSUME calm' PROVE RowsOf(w.email) = {} /\ (w.pw => members = {}) /\ OnePending' /\ Knows(q)'
  <2>1. RowsOf(w.email) = {} /\ OnePending /\ (w.pw => members = {}) /\ (w.id # 0 => Awaits(w.id, w.email))
    BY <1>1, <1>3, <1>7 DEF MemberInv, Settled, Knows
  <2>2. PICK a \in Addresses : a = w.email
    BY <1>1
  <2>3. RowsOf(a)' # {}
    BY <1>1, <1>2, <1>6, <2>2, EnteredRow DEF MemberInv
  <2>4. q.pc = "mark" => Awaits(q.id, q.email)' /\ RowsOf(q.email)' # {}
    BY <1>2, <1>3, <2>1, <2>3, <2>2 DEF Awaits
  <2>5. Knows(q)'
    BY <1>3, <2>4 DEF Knows
  <2> QED BY <1>2, <2>1, <2>5 DEF OnePending, Awaits
<1> QED BY <1>1, <1>2, <1>3, <1>4, <1>5, <1>7, <1>6, EnteredKeeps

\* UPDATE members SET role, status: a row keeps its id, its address, its flag.
LEMMA RowsMapped ==
  ASSUME MemberShape, NEW f \in [members -> MemberRows], members' = {f[m] : m \in members}, lastRow' = lastRow,
         \A m \in members : /\ f[m].id = m.id /\ f[m].email = m.email /\ f[m].owner = m.owner
                            /\ m.owner => f[m].status = "Active"
  PROVE  /\ MemberRowsSound'
         /\ \A n \in members' : \E m \in members : n = f[m] /\ m.id = n.id /\ (n.owner => m.owner)
         /\ OneRowEach => OneRowEach'
         /\ \A e \in Addresses : RowsOf(e) # {} => RowsOf(e)' # {}
<1>1. members \subseteq MemberRows /\ IsFiniteSet(members) /\ \A m, n \in members : m.id = n.id => m = n
  BY DEF MemberShape, MemberRowsSound
<1>2. \A n \in members' : \E m \in members : n = f[m]
  OBVIOUS
<1>3. \A m \in members : f[m] \in members' /\ f[m] \in MemberRows
  OBVIOUS
<1>4. f \in Surjection(members, members')
  BY <1>2, <1>3 DEF Surjection
<1>5. IsFiniteSet(members')
  BY <1>1, <1>4, FS_Surjection
<1>6. members' \subseteq MemberRows /\ \A m, n \in members' : m.id = n.id => m = n
  BY <1>1, <1>2, <1>3
<1>7. (\A m \in members' : m.id <= lastRow') /\ \A m \in members' : m.owner => m.status = "Active"
  BY <1>2 DEF MemberShape, MemberRowsSound
<1>8. MemberRowsSound'
  BY <1>5, <1>6, <1>7 DEF MemberShape, MemberRowsSound
<1>9. OneRowEach => OneRowEach'
  BY <1>2 DEF OneRowEach
<1>10. \A e \in Addresses : RowsOf(e) # {} => RowsOf(e)' # {}
  BY <1>3 DEF RowsOf
<1> QED BY <1>2, <1>8, <1>9, <1>10

LEMMA WriteRoleKeeps == ASSUME MemberInv, NEW r \in Requests, WriteRole(r) PROVE MemberInv'
<1> DEFINE w == req[r]
           f == [m \in members |-> IF m.id = w.id THEN [m EXCEPT !.role = w.role] ELSE m]
<1>1. w.pc = "role" /\ w.role \in Roles /\ ~RowToldOf(w) /\ UNCHANGED <<lastRow, login, invites, blocked, policy>>
  BY DEF WriteRole, MemberInv, MemberShape, Calls, RowToldOf
<1>2. members' = {f[m] : m \in members}
  BY DEF WriteRole
<1>3. ASSUME NEW m \in members
      PROVE  /\ f[m] \in MemberRows /\ f[m].id = m.id /\ f[m].email = m.email /\ f[m].owner = m.owner
             /\ m.owner => f[m].status = "Active"
  <2>1. m \in MemberRows /\ (m.owner => m.status = "Active")
    BY DEF MemberInv, MemberShape, MemberRowsSound
  <2> QED BY <1>1, <2>1 DEF MemberRows
<1>4. f \in [members -> MemberRows]
  BY <1>3
<1> HIDE DEF f
<1>5. /\ MemberRowsSound' /\ (\A n \in members' : \E m \in members : n = f[m] /\ m.id = n.id /\ (n.owner => m.owner))
      /\ (OneRowEach => OneRowEach') /\ (\A e \in Addresses : RowsOf(e) # {} => RowsOf(e)' # {})
  BY <1>1, <1>2, <1>3, <1>4, RowsMapped DEF MemberInv
<1>6. Turned(r, NoReq)
  BY <1>1, StepEnds, StepTurns DEF WriteRole
<1>7. /\ invites' \in Seq(Invitations) /\ login' \in [Addresses -> Statuses \cup {"none"}]
      /\ blocked' \subseteq Addresses /\ policy' \in Policies /\ lastRow' >= lastRow
  BY <1>1 DEF MemberInv, MemberShape, MembersRestSound, MemberRowsSound
<1>8. ASSUME calm' PROVE Settled'
  <2>1. calm /\ \A t \in Requests : req[t].pc = "idle" \/ t = r
    BY <1>6, <1>8 DEF Turned
  <2>2. OnePending' /\ OneRowEach'
    BY <1>1, <1>5, <2>1 DEF MemberInv, Settled, OnePending, Awaits
  <2>3. LoginsHeld'
    BY <1>1, <1>5, <2>1 DEF MemberInv, Settled, LoginsHeld, RowToldOf
  <2> QED BY <2>2, <2>3 DEF Settled
<1>9. Knows(NoReq)' /\ Spares(NoReq)'
  BY NoReqTyped DEF Knows, Spares
<1>10. \A n \in members' : n.owner => n.id > lastRow \/ \E m \in members : m.id = n.id /\ m.owner
  BY <1>5
<1> QED BY <1>5, <1>6, <1>7, <1>8, <1>9, <1>10, NoReqTyped, MemberTurnKeeps

LEMMA SetStatusKeeps ==
  ASSUME MemberInv, NEW k \in members, NEW s \in {"Active", "Deactivated"}, k.owner => s = "Active",
         SetStatus(k, s), AtOnce
  PROVE  MemberInv'
<1> DEFINE f == [m \in members |-> IF m = k THEN [k EXCEPT !.status = s] ELSE m]
<1>1. members' = {f[m] : m \in members} /\ UNCHANGED <<lastRow, invites, blocked, policy>>
      /\ login' = [login EXCEPT ![k.email] = IF @ = "none" THEN @ ELSE s]
  BY DEF SetStatus
<1>2. k \in MemberRows /\ k.email \in Addresses
  BY DEF MemberInv, MemberShape, MemberRowsSound, MemberRows
<1>3. ASSUME NEW m \in members
      PROVE  /\ f[m] \in MemberRows /\ f[m].id = m.id /\ f[m].email = m.email /\ f[m].owner = m.owner
             /\ m.owner => f[m].status = "Active"
  <2>1. m \in MemberRows /\ (m.owner => m.status = "Active")
    BY DEF MemberInv, MemberShape, MemberRowsSound
  <2>2. s \in Statuses
    BY DEF Statuses
  <2> QED BY <2>1, <2>2 DEF MemberRows
<1>4. f \in [members -> MemberRows]
  BY <1>3
<1> HIDE DEF f
<1>5. /\ MemberRowsSound' /\ (\A n \in members' : \E m \in members : n = f[m] /\ m.id = n.id /\ (n.owner => m.owner))
      /\ (OneRowEach => OneRowEach') /\ (\A e \in Addresses : RowsOf(e) # {} => RowsOf(e)' # {})
  BY <1>1, <1>3, <1>4, RowsMapped DEF MemberInv
<1>6. login \in [Addresses -> Statuses \cup {"none"}]
  BY DEF MemberInv, MemberShape, MembersRestSound
<1>7. /\ invites' \in Seq(Invitations) /\ login' \in [Addresses -> Statuses \cup {"none"}]
      /\ blocked' \subseteq Addresses /\ policy' \in Policies
  BY <1>1, <1>2, <1>6 DEF MemberInv, MemberShape, MembersRestSound, Statuses
<1>8. ASSUME calm' PROVE Settled'
  <2>1. calm /\ \A t \in Requests : req[t].pc = "idle"
    BY <1>8, CountSteps DEF AtOnce, MemberInv
  <2>2. OnePending' /\ OneRowEach'
    BY <1>1, <1>5, <2>1 DEF MemberInv, Settled, OnePending, Awaits
  <2>3. RowsOf(k.email) # {}
    BY DEF RowsOf
  <2>4. \A e \in Addresses : login'[e] = "Active" => e = k.email \/ login[e] = "Active"
    BY <1>1, <1>6
  <2>5. LoginsHeld'
    BY <1>5, <2>1, <2>3, <2>4 DEF MemberInv, Settled, LoginsHeld, RowToldOf
  <2> QED BY <2>2, <2>5 DEF Settled
<1>9. \A n \in members' : n.owner => \E m \in members : m.id = n.id /\ m.owner
  BY <1>5
<1> QED BY <1>1, <1>5, <1>7, <1>8, <1>9, AtOnceKeeps

LEMMA DeactivateKeeps == ASSUME MemberInv, Deactivate PROVE MemberInv'
BY SetStatusKeeps DEF Deactivate

LEMMA ReactivateKeeps == ASSUME MemberInv, Reactivate PROVE MemberInv'
BY SetStatusKeeps DEF Reactivate

LEMMA DeleteRowKeeps == ASSUME MemberInv, NEW r \in Requests, DeleteRow(r) PROVE MemberInv'
<1> DEFINE w == req[r]
<1>1. w \in Calls /\ w.pc = "delete" /\ w.email \in Addresses /\ members' = {m \in members : m.id # w.id}
      /\ UNCHANGED <<lastRow, login, invites, blocked, policy>> /\ ~RowToldOf(w)
  BY DEF DeleteRow, MemberInv, MemberShape, Ready, RowToldOf
<1>2. PICK q : q = [w EXCEPT !.pc = "shut"]
  OBVIOUS
<1>3. q \in Calls /\ q.pc = "shut" /\ q.email = w.email /\ q.admins = w.admins
      /\ req' = [req EXCEPT ![r] = q] /\ begun' = begun /\ calm' = calm
  BY <1>2, StepIs DEF DeleteRow, MemberInv
<1>4. Turned(r, q)
  BY <1>1, <1>3, StepTurns
<1>5. Ready(q) /\ Spares(q)' /\ RowToldOf(q)
  BY <1>1, <1>3 DEF Ready, Spares, RowToldOf
<1>6. MemberRowsSound'
  <2>1. members' \in SUBSET members /\ IsFiniteSet(members)
    BY <1>1 DEF MemberInv, MemberShape, MemberRowsSound
  <2>2. IsFiniteSet(members')
    BY <2>1, FS_Subset
  <2> QED BY <1>1, <2>1, <2>2 DEF MemberInv, MemberShape, MemberRowsSound
<1>7. /\ invites' \in Seq(Invitations) /\ login' \in [Addresses -> Statuses \cup {"none"}]
      /\ blocked' \subseteq Addresses /\ policy' \in Policies /\ lastRow' >= lastRow
      /\ \A n \in members' : n.owner => n.id > lastRow \/ \E m \in members : m.id = n.id /\ m.owner
  BY <1>1 DEF MemberInv, MemberShape, MembersRestSound, MemberRowsSound
<1>8. ASSUME calm' PROVE Settled' /\ Knows(q)'
  <2>1. calm /\ Doomed(w) /\ \A t \in Requests : req[t].pc = "idle" \/ t = r
    BY <1>1, <1>3, <1>4, <1>8 DEF MemberInv, Knows, Turned
  <2>2. PICK m \in members : /\ m.id = w.id /\ m.email = w.email /\ ~m.owner
                             /\ m.role = "Admin" => w.admins = CountAdmins - 1 /\ w.admins >= 1
                             /\ m.role # "Admin" => w.admins = CountAdmins
    BY <2>1 DEF Doomed
  <2>3. members' = members \ {m}
    BY <1>1, <2>2 DEF MemberInv, MemberShape, MemberRowsSound
  <2>4. q.admins = CountAdmins'
    <3>1. IsFiniteSet(Admins) /\ CountAdmins = Cardinality(Admins) /\ CountAdmins \in Nat
      BY AdminsFinite DEF MemberInv
    <3>2. {n \in members' : IsAdmin(n)} = Admins \ {m}
      BY <2>3 DEF Admins, IsAdmin
    <3>3. CountAdmins' = Cardinality(Admins \ {m})
      BY <3>2 DEF CountAdmins, IsAdmin
    <3>4. CASE m.role = "Admin"
      <4>1. m \in Admins
        BY <3>4 DEF Admins, IsAdmin
      <4> QED BY <1>3, <2>2, <3>1, <3>3, <3>4, <4>1, FS_RemoveElement
    <3>5. CASE m.role # "Admin"
      <4>1. m \notin Admins
        BY <2>2, <3>5 DEF Admins, IsAdmin
      <4> QED BY <1>3, <2>2, <3>1, <3>3, <3>5, <4>1, FS_RemoveElement
    <3> QED BY <3>4, <3>5
  <2>5. OneRowEach' /\ OnePending'
    BY <1>1, <2>1, <2>3 DEF MemberInv, Settled, OneRowEach, OnePending, Awaits
  <2>6. LoginsHeld'
    <3> SUFFICES ASSUME NEW e \in Addresses, login'[e] = "Active"
                 PROVE  RowsOf(e)' # {} \/ \E t \in Requests : req'[t].email = e /\ RowToldOf(req'[t])
      BY DEF LoginsHeld, RowToldOf
    <3>1. CASE e = w.email
      <4>1. req'[r] = q
        BY <1>3 DEF MemberInv, MemberShape
      <4> QED BY <1>3, <1>5, <3>1, <4>1
    <3>2. CASE e # w.email
      <4>1. RowsOf(e) # {}
        BY <1>1, <2>1 DEF MemberInv, Settled, LoginsHeld, RowToldOf
      <4> QED BY <2>2, <2>3, <3>2, <4>1 DEF RowsOf
    <3> QED BY <3>1, <3>2
  <2>7. Knows(q)'
    BY <1>3, <2>4 DEF Knows
  <2> QED BY <2>5, <2>6, <2>7 DEF Settled
<1> QED BY <1>3, <1>4, <1>5, <1>6, <1>7, <1>8, MemberTurnKeeps

LEMMA RedeemedKeeps == ASSUME MemberInv, NEW r \in Requests, Redeemed(r) PROVE MemberInv'
<1> DEFINE w == req[r]
           lost == w.pw /\ w.status = "none" /\ login[w.email] # "none"
<1>1. w \in Calls /\ w.pc = "redeemed" /\ w.email \in Addresses /\ w.role \in Roles
      /\ UNCHANGED <<blocked, policy>> /\ ~RowToldOf(w) /\ "Active" \in Statuses
  BY DEF Redeemed, MemberInv, MemberShape, Ready, Calls, RowToldOf, Statuses
<1>2. Turned(r, NoReq) /\ (calm' => calm)
  <2>1. Step(r, "idle")
    BY DEF Redeemed
  <2> QED BY <1>1, <2>1, StepEnds, StepTurns DEF Turned
<1>3. PICK e \in Addresses : e = w.email
  BY <1>1
<1>4. Knows(NoReq)' /\ Spares(NoReq)' /\ blocked' \subseteq Addresses /\ policy' \in Policies
  BY <1>1, NoReqTyped DEF Knows, Spares, MemberInv, MemberShape, MembersRestSound
<1>5. calm => Knows(w) /\ Settled
  BY DEF MemberInv
<1>6. CASE lost
  <2>1. UNCHANGED <<members, lastRow, login, invites>>
    BY <1>6 DEF Redeemed
  <2> QED BY <1>1, <1>2, <1>4, <2>1, NoReqTyped, QuietKeeps
<1>7. CASE ~lost
  <2>1. login' = [login EXCEPT ![w.email] = IF w.pw /\ @ = "none" THEN "Active" ELSE @]
        /\ invites' = [invites EXCEPT ![w.id].status = "accepted"]
    BY <1>7 DEF Redeemed
  <2>2. login \in [Addresses -> Statuses \cup {"none"}]
    BY DEF MemberInv, MemberShape, MembersRestSound
  <2>3. login' \in [Addresses -> Statuses \cup {"none"}]
        /\ \A a \in Addresses : login'[a] = "Active" => login[a] = "Active" \/ a = e
    BY <1>1, <1>3, <2>1, <2>2
  <2>4. /\ invites' \in Seq(Invitations) /\ DOMAIN invites' = DOMAIN invites
        /\ \A i \in DOMAIN invites : invites'[i].status = "pending" => invites'[i] = invites[i]
    BY <2>1, StatusWritten DEF MemberInv
  <2>5. calm' => OnePending'
    BY <1>2, <1>5, <2>4 DEF Settled, OnePending, Awaits
  <2>6. CASE w.row = 0
    <3>1. Enter(e, w.role, "Active", FALSE)
      BY <1>3, <1>7, <2>6 DEF Redeemed
    <3>2. calm' => RowsOf(e) = {}
      BY <1>1, <1>2, <1>3, <1>5, <2>6 DEF Knows
    <3> QED BY <1>1, <1>2, <1>3, <1>4, <2>3, <2>4, <2>5, <3>1, <3>2, NoReqTyped, EnteredKeeps
  <2>7. CASE w.row # 0
    <3> DEFINE f == [m \in members |-> IF m.id = w.row THEN [m EXCEPT !.role = w.role, !.status = "Active"]
                                       ELSE m]
    <3>1. members' = {f[m] : m \in members} /\ lastRow' = lastRow
      BY <1>7, <2>7 DEF Redeemed
    <3>2. ASSUME NEW m \in members
          PROVE  /\ f[m] \in MemberRows /\ f[m].id = m.id /\ f[m].email = m.email /\ f[m].owner = m.owner
                 /\ m.owner => f[m].status = "Active"
      <4>1. m \in MemberRows /\ (m.owner => m.status = "Active")
        BY DEF MemberInv, MemberShape, MemberRowsSound
      <4> QED BY <1>1, <4>1 DEF MemberRows
    <3>3. f \in [members -> MemberRows]
      BY <3>2
    <3> HIDE DEF f
    <3>4. /\ MemberRowsSound' /\ (\A n \in members' : \E m \in members : n = f[m] /\ m.id = n.id /\ (n.owner => m.owner))
          /\ (OneRowEach => OneRowEach') /\ (\A a \in Addresses : RowsOf(a) # {} => RowsOf(a)' # {})
      BY <3>1, <3>2, <3>3, RowsMapped DEF MemberInv
    <3>5. lastRow' >= lastRow /\ \A n \in members' : n.owner => n.id > lastRow \/ \E m \in members : m.id = n.id /\ m.owner
      BY <3>1, <3>4 DEF MemberInv, MemberShape, MemberRowsSound
    <3>6. ASSUME calm' PROVE Settled'
      <4>1. calm /\ \A t \in Requests : req[t].pc = "idle" \/ t = r
        BY <1>2, <3>6 DEF Turned
      <4>2. RowsOf(e) # {}
        BY <1>1, <1>3, <1>5, <2>7, <4>1 DEF Knows
      <4>3. LoginsHeld'
        BY <1>1, <1>5, <2>3, <3>4, <4>1, <4>2 DEF Settled, LoginsHeld, RowToldOf
      <4> QED BY <1>5, <2>5, <3>4, <3>6, <4>1, <4>3 DEF Settled
    <3> QED BY <1>2, <1>4, <2>3, <2>4, <3>4, <3>5, <3>6, NoReqTyped, MemberTurnKeeps
  <2> QED BY <2>6, <2>7
<1> QED BY <1>6, <1>7

\* The rows of the set once each, in some order.
LEMMA RowsListed ==
  ASSUME NEW S, IsFiniteSet(S), NEW T, S \subseteq T
  PROVE  /\ SetToSeq(S) \in Seq(T)
         /\ \A i \in DOMAIN SetToSeq(S) : SetToSeq(S)[i] \in S
         /\ \A i, j \in DOMAIN SetToSeq(S) : SetToSeq(S)[i] = SetToSeq(S)[j] => i = j
<1>1. Cardinality(S) \in Nat /\ ExistsBijection(1..Cardinality(S), S)
  BY FS_CardinalityType
<1>2. PICK f \in [1..Cardinality(S) -> S] : \A i, j \in 1..Cardinality(S) : f[i] = f[j] => i = j
  BY <1>1 DEF ExistsBijection, Bijection, Injection, IsInjective
<1>3. IsInjective(f)
  BY <1>2 DEF IsInjective
<1>4. SetToSeq(S) \in [1..Cardinality(S) -> S] /\ IsInjective(SetToSeq(S))
  BY <1>3 DEF SetToSeq
<1> QED BY <1>1, <1>4 DEF IsInjective

\* The invitations that a boot makes, as a set and as the sequence it appends.
Reconciled == {[email |-> m.email, role |-> m.role, status |-> "pending", live |-> FALSE] : m \in Orphans}

LEMMA OrphansListed ==
  ASSUME MemberInv
  PROVE  /\ Orphans \subseteq members
         /\ SetToSeq(Reconciled) \in Seq(Invitations)
         /\ \A i \in DOMAIN SetToSeq(Reconciled) : SetToSeq(Reconciled)[i] \in Reconciled
         /\ \A i, j \in DOMAIN SetToSeq(Reconciled) : SetToSeq(Reconciled)[i] = SetToSeq(Reconciled)[j] => i = j
<1> DEFINE InvitationOf(m) == [email |-> m.email, role |-> m.role, status |-> "pending", live |-> FALSE]
           f == [m \in Orphans |-> InvitationOf(m)]
<1>1. Orphans \in SUBSET members /\ IsFiniteSet(members)
  BY DEF Orphans, MemberInv, MemberShape, MemberRowsSound
<1>2. IsFiniteSet(Orphans)
  BY <1>1, FS_Subset
<1>3. \A m \in Orphans : m.email \in Addresses /\ m.role \in Roles
  BY <1>1 DEF MemberInv, MemberShape, MemberRowsSound, MemberRows
<1>4. ASSUME NEW m \in Orphans PROVE InvitationOf(m) \in Invitations
  BY <1>3 DEF Invitations
<1>5. Reconciled \subseteq Invitations
  BY <1>4 DEF Reconciled
<1>6. f \in Surjection(Orphans, Reconciled)
  BY DEF Surjection, Reconciled
<1>7. IsFiniteSet(Reconciled)
  BY <1>2, <1>6, FS_Surjection
<1> QED BY <1>1, <1>5, <1>7, RowsListed

LEMMA RestartKeeps == ASSUME MemberInv, Restart PROVE MemberInv'
<1> DEFINE InvitationOf(m) == [email |-> m.email, role |-> m.role, status |-> "pending", live |-> FALSE]
           new == SetToSeq(Reconciled)
<1>1. UNCHANGED <<members, lastRow, login, blocked, policy>> /\ Count /\ req' = [r \in Requests |-> NoReq]
      /\ invites' = invites \o new
  BY DEF Restart, Reconciled
<1>2. begun' \in 0..MaxRequests \cup 0..MaxOverlap /\ calm' \in BOOLEAN
      /\ (calm' => calm /\ \A r \in Requests : req[r].pc = "idle")
  BY <1>1, CountSteps DEF MemberInv
<1>3. Orphans \subseteq members
  BY OrphansListed
<1>4. /\ new \in Seq(Invitations) /\ \A i \in DOMAIN new : new[i] \in Reconciled
      /\ \A i, j \in DOMAIN new : new[i] = new[j] => i = j
  BY OrphansListed
<1> HIDE DEF new
<1>5. invites \in Seq(Invitations)
  BY DEF MemberInv, MemberShape, MembersRestSound
<1>6. /\ invites' \in Seq(Invitations) /\ Len(invites) \in Nat
      /\ DOMAIN invites = 1..Len(invites) /\ DOMAIN new = 1..Len(new) /\ Len(new) \in Nat
      /\ \A i \in DOMAIN invites' : \/ i \in DOMAIN invites /\ invites'[i] = invites[i]
                                    \/ i - Len(invites) \in DOMAIN new /\ invites'[i] = new[i - Len(invites)]
  BY <1>1, <1>4, <1>5
<1>7. ASSUME calm' PROVE OnePending'
  <2>1. OnePending /\ OneRowEach
    BY <1>2, <1>7 DEF MemberInv, Settled
  <2>2. ASSUME NEW i \in DOMAIN new, NEW j \in DOMAIN new, new[i].email = new[j].email PROVE i = j
    <3>1. PICK m \in Orphans : new[i] = InvitationOf(m)
      BY <1>4 DEF Reconciled
    <3>2. PICK n \in Orphans : new[j] = InvitationOf(n)
      BY <1>4 DEF Reconciled
    <3>3. m = n
      BY <1>3, <2>1, <2>2, <3>1, <3>2 DEF OneRowEach
    <3> QED BY <1>4, <3>1, <3>2, <3>3
  <2>3. ASSUME NEW i \in DOMAIN invites, NEW j \in DOMAIN new, invites[i].email = new[j].email PROVE FALSE
    <3>1. PICK m \in Orphans : new[j] = InvitationOf(m)
      BY <1>4 DEF Reconciled
    <3> QED BY <2>3, <3>1 DEF Orphans
  <2> SUFFICES ASSUME NEW i \in DOMAIN invites', NEW j \in DOMAIN invites', invites'[i].email = invites'[j].email,
                      invites'[i].status = "pending", invites'[j].status = "pending"
               PROVE  i = j
    BY DEF OnePending, Awaits
  <2>4. i \in Nat /\ j \in Nat
    BY <1>6
  <2>5. CASE i \in DOMAIN invites /\ invites'[i] = invites[i] /\ j \in DOMAIN invites /\ invites'[j] = invites[j]
    <3>1. PICK e \in Addresses : e = invites[i].email
      BY <2>5, InvitationIs DEF MemberInv
    <3> QED BY <2>1, <2>5, <3>1 DEF OnePending, Awaits
  <2>6. CASE /\ i - Len(invites) \in DOMAIN new /\ invites'[i] = new[i - Len(invites)]
             /\ j - Len(invites) \in DOMAIN new /\ invites'[j] = new[j - Len(invites)]
    <3>1. i - Len(invites) = j - Len(invites)
      BY <2>2, <2>6
    <3> QED BY <1>6, <2>4, <3>1
  <2>7. CASE i \in DOMAIN invites /\ invites'[i] = invites[i]
             /\ j - Len(invites) \in DOMAIN new /\ invites'[j] = new[j - Len(invites)]
    BY <2>3, <2>7
  <2>8. CASE j \in DOMAIN invites /\ invites'[j] = invites[j]
             /\ i - Len(invites) \in DOMAIN new /\ invites'[i] = new[i - Len(invites)]
    BY <2>3, <2>8
  <2> QED BY <1>6, <2>5, <2>6, <2>7, <2>8
<1>8. MemberRowsSound' /\ MembersRestSound'
  BY <1>1, <1>2, <1>6 DEF MemberInv, MemberShape, MemberRowsSound, MembersRestSound
<1>9. req' \in [Requests -> Calls] /\ \A r \in Requests : req'[r] = NoReq
  BY <1>1, NoReqTyped
<1>10. \A r \in Requests : Ready(req'[r]) /\ Spares(req[r])' /\ Knows(req[r])'
  BY <1>9, NoReqTyped DEF Ready, Spares, Knows
<1>11. ASSUME calm' PROVE OneRowEach' /\ LoginsHeld' /\ MemberTurn'
  <2>1. calm /\ \A r \in Requests : req[r].pc = "idle"
    BY <1>2, <1>11
  <2>2. \A e \in Addresses : login[e] = "Active" => RowsOf(e) # {}
    BY <2>1 DEF MemberInv, Settled, LoginsHeld, RowToldOf
  <2> QED BY <1>1, <1>9, <2>1, <2>2, NoReqTyped DEF MemberInv, Settled, OneRowEach, LoginsHeld, RowsOf, MemberTurn
<1> QED BY <1>7, <1>8, <1>9, <1>10, <1>11 DEF MemberInv, MemberShape, Settled

LEMMA MembersStay == ASSUME MemberInv, UNCHANGED memberVars PROVE MemberInv'
<1>1. UNCHANGED <<members, lastRow, login, invites, blocked, policy, begun, req, calm>>
  BY DEF memberVars
<1>2. MemberShape'
  BY <1>1 DEF MemberInv, MemberShape, MemberRowsSound, MembersRestSound, Spares
<1>3. ASSUME calm' PROVE MemberTurn' /\ Settled'
  BY <1>1, <1>3 DEF MemberInv, MemberTurn, Settled, OneRowEach, OnePending, Awaits, LoginsHeld, RowsOf, RowToldOf
<1>4. ASSUME calm', NEW r \in Requests PROVE Knows(req[r])'
  <2>1. PICK q : q = req[r]
    OBVIOUS
  <2>2. Knows(q)
    BY <1>1, <1>4, <2>1 DEF MemberInv
  <2>3. Knows(q)'
    BY <1>1, <2>2 DEF Knows, RowsOf, Pending, Awaits, Welcomed, Admins, IsAdmin, CountAdmins, Doomed
  <2>4. req'[r] = q
    BY <1>1, <2>1
  <2> QED BY <2>3, <2>4
<1> QED BY <1>2, <1>3, <1>4 DEF MemberInv

LEMMA MembersStep == ASSUME MemberInv, [MemberNext]_memberVars PROVE MemberInv'
<1>1. ASSUME NEW r \in Requests,
             \/ IssueRevoke(r) \/ IssueInsert(r) \/ Invite(r) \/ ResendInvite(r) \/ ResendMember(r)
             \/ AddMember(r) \/ AddLogin(r) \/ AddRow(r) \/ Accept(r) \/ Redeem(r) \/ Redeemed(r)
      PROVE  MemberInv'
  BY <1>1, IssueRevokeKeeps, IssueInsertKeeps, InviteKeeps, ResendInviteKeeps, ResendMemberKeeps, AddMemberKeeps,
     AddLoginKeeps, AddRowKeeps, AcceptKeeps, RedeemKeeps, RedeemedKeeps
<1>2. ASSUME NEW r \in Requests,
             \/ Signup(r) \/ Enrol(r) \/ Provision(r) \/ Join(r) \/ Mark(r)
             \/ SetRole(r) \/ WriteRole(r) \/ RemoveMembers(r) \/ Pick(r) \/ DeleteRow(r) \/ Shut(r) \/ Block(r)
      PROVE  MemberInv'
  BY <1>2, SignupKeeps, EnrolKeeps, ProvisionKeeps, JoinKeeps, MarkRowKeeps, SetRoleKeeps, WriteRoleKeeps,
     RemoveMembersKeeps, PickKeeps, DeleteRowKeeps, ShutKeeps, BlockKeeps
<1>3. CASE Deactivate \/ Reactivate \/ Revoke \/ Lapse \/ EditPolicy \/ Restart
  BY <1>3, DeactivateKeeps, ReactivateKeeps, RevokeKeeps, LapseKeeps, EditPolicyKeeps, RestartKeeps
<1>4. CASE UNCHANGED memberVars
  BY <1>4, MembersStay
<1> QED BY <1>1, <1>2, <1>3, <1>4 DEF MemberNext

\* The invariant of the module's proofs.
THEOREM MemberInvariant == MemberSpec => []MemberInv
<1>1. MemberInit => MemberInv
  BY MembersStart
<1>2. MemberInv /\ [MemberNext]_memberVars => MemberInv'
  BY MembersStep
<1> QED BY <1>1, <1>2, PTL DEF MemberSpec

LEMMA AtMostOne ==
  ASSUME NEW S, \A x, y \in S : x = y
  PROVE  Cardinality(S) <= 1
<1>1. CASE S = {}
  BY <1>1, FS_EmptySet
<1>2. CASE S # {}
  <2>1. PICK x : S = {x}
    BY <1>2
  <2> QED BY <2>1, FS_Singleton
<1> QED BY <1>1, <1>2

LEMMA MembersAgree == ASSUME MemberInv PROVE MembersSound
<1>1. ASSUME calm, NEW e \in Addresses PROVE Cardinality(Pending(e)) <= 1 /\ Cardinality(RowsOf(e)) <= 1
  <2>1. \A i, j \in Pending(e) : i = j
    BY <1>1 DEF MemberInv, Settled, OnePending, Pending, Awaits
  <2>2. \A m, n \in RowsOf(e) : m = n
    BY <1>1 DEF MemberInv, Settled, OneRowEach, RowsOf
  <2> QED BY <2>1, <2>2, AtMostOne
<1>2. ASSUME calm PROVE Cardinality({m \in members : m.owner}) <= 1
  <2>1. \A m, n \in {x \in members : x.owner} : m = n
    BY <1>2 DEF MemberInv, Settled, OneRowEach
  <2> QED BY <2>1, AtMostOne
<1>3. LoginHasRow
  BY DEF MemberInv, Settled, LoginsHeld, LoginHasRow, Idle, RowToldOf
<1> QED BY <1>1, <1>2, <1>3 DEF MembersSound, OneLiveToken, OneRow, OneOwner

\* Which statements write which table.
LEMMA RowsWritten ==
  ASSUME [MemberNext]_memberVars
  PROVE  \/ UNCHANGED members
         \/ \E r \in Requests : AddRow(r) \/ Join(r) \/ Redeemed(r) \/ WriteRole(r) \/ DeleteRow(r)
         \/ Deactivate \/ Reactivate
<1>1. ASSUME NEW r \in Requests,
             \/ IssueRevoke(r) \/ IssueInsert(r) \/ Invite(r) \/ ResendInvite(r) \/ ResendMember(r)
             \/ AddMember(r) \/ AddLogin(r) \/ Accept(r) \/ Redeem(r)
      PROVE  UNCHANGED members
  BY <1>1 DEF IssueRevoke, IssueInsert, Invite, ResendInvite, ResendMember, AddMember, AddLogin, Accept, Redeem
<1>2. ASSUME NEW r \in Requests,
             \/ Signup(r) \/ Enrol(r) \/ Provision(r) \/ Mark(r)
             \/ SetRole(r) \/ RemoveMembers(r) \/ Pick(r) \/ Shut(r) \/ Block(r)
      PROVE  UNCHANGED members
  BY <1>2 DEF Signup, Enrol, Provision, Mark, SetRole, RemoveMembers, Pick, Shut, Block
<1>3. ASSUME Revoke \/ Lapse \/ EditPolicy \/ Restart PROVE UNCHANGED members
  BY <1>3 DEF Revoke, Lapse, EditPolicy, Restart
<1> QED BY <1>1, <1>2, <1>3 DEF MemberNext, memberVars

LEMMA LoginsWritten ==
  ASSUME [MemberNext]_memberVars
  PROVE  \/ UNCHANGED login
         \/ \E r \in Requests : AddLogin(r) \/ Enrol(r) \/ Redeemed(r) \/ Shut(r)
         \/ Deactivate \/ Reactivate
<1>1. ASSUME NEW r \in Requests,
             \/ IssueRevoke(r) \/ IssueInsert(r) \/ Invite(r) \/ ResendInvite(r) \/ ResendMember(r)
             \/ AddMember(r) \/ AddRow(r) \/ Accept(r) \/ Redeem(r)
      PROVE  UNCHANGED login
  BY <1>1 DEF IssueRevoke, IssueInsert, Invite, ResendInvite, ResendMember, AddMember, AddRow, Accept, Redeem
<1>2. ASSUME NEW r \in Requests,
             \/ Signup(r) \/ Provision(r) \/ Join(r) \/ Mark(r)
             \/ SetRole(r) \/ WriteRole(r) \/ RemoveMembers(r) \/ Pick(r) \/ DeleteRow(r) \/ Block(r)
      PROVE  UNCHANGED login
  BY <1>2 DEF Signup, Provision, Join, Mark, SetRole, WriteRole, RemoveMembers, Pick, DeleteRow, Block
<1>3. ASSUME Revoke \/ Lapse \/ EditPolicy \/ Restart PROVE UNCHANGED login
  BY <1>3 DEF Revoke, Lapse, EditPolicy, Restart
<1> QED BY <1>1, <1>2, <1>3 DEF MemberNext, memberVars

LEMMA InvitesWritten ==
  ASSUME [MemberNext]_memberVars
  PROVE  \/ UNCHANGED invites
         \/ \E r \in Requests : IssueRevoke(r) \/ IssueInsert(r) \/ Redeemed(r) \/ Mark(r)
         \/ Revoke \/ Lapse \/ Restart
<1>1. ASSUME NEW r \in Requests,
             \/ Invite(r) \/ ResendInvite(r) \/ ResendMember(r)
             \/ AddMember(r) \/ AddLogin(r) \/ AddRow(r) \/ Accept(r) \/ Redeem(r)
      PROVE  UNCHANGED invites
  BY <1>1 DEF Invite, ResendInvite, ResendMember, AddMember, AddLogin, AddRow, Accept, Redeem
<1>2. ASSUME NEW r \in Requests,
             \/ Signup(r) \/ Enrol(r) \/ Provision(r) \/ Join(r) \/ Shut(r)
             \/ SetRole(r) \/ WriteRole(r) \/ RemoveMembers(r) \/ Pick(r) \/ DeleteRow(r) \/ Block(r)
      PROVE  UNCHANGED invites
  BY <1>2 DEF Signup, Enrol, Provision, Join, Shut, SetRole, WriteRole, RemoveMembers, Pick, DeleteRow, Block
<1>3. ASSUME Deactivate \/ Reactivate \/ EditPolicy PROVE UNCHANGED invites
  BY <1>3 DEF Deactivate, Reactivate, SetStatus, EditPolicy
<1> QED BY <1>1, <1>2, <1>3 DEF MemberNext, memberVars

\* Where a row is after a step.
Succeeds(n, m) == n.id = m.id /\ n.owner = m.owner /\ (m.owner => n.status = "Active")

LEMMA RowGoesOn ==
  ASSUME MemberInv, [MemberNext]_memberVars, NEW m \in members
  PROVE  \/ \E n \in members' : /\ Succeeds(n, m)
                                /\ \/ n.role = m.role
                                   \/ \E r \in Requests : Redeemed(r) \/ (WriteRole(r) /\ req[r].id = m.id)
         \/ \E r \in Requests : DeleteRow(r) /\ req[r].id = m.id
<1>1. m \in MemberRows /\ Succeeds(m, m)
  BY DEF MemberInv, MemberShape, MemberRowsSound, Succeeds
<1>2. CASE UNCHANGED members
  BY <1>1, <1>2
<1>3. ASSUME NEW r \in Requests, AddRow(r) \/ Join(r) PROVE m \in members'
  BY <1>3 DEF AddRow, Join, Enter
<1>4. ASSUME NEW r \in Requests, Redeemed(r) PROVE \E n \in members' : Succeeds(n, m)
  <2>1. CASE m \in members'
    BY <1>1, <2>1
  <2>2. CASE /\ members' = {IF x.id = req[r].row THEN [x EXCEPT !.role = req[r].role, !.status = "Active"]
                            ELSE x : x \in members}
             /\ m \notin members'
    <3>1. [m EXCEPT !.role = req[r].role, !.status = "Active"] \in members'
      BY <2>2
    <3>2. Succeeds([m EXCEPT !.role = req[r].role, !.status = "Active"], m)
      BY <1>1 DEF Succeeds, MemberRows
    <3> QED BY <3>1, <3>2
  <2> QED BY <1>4, <2>1, <2>2 DEF Redeemed, Enter
<1>5. ASSUME NEW r \in Requests, WriteRole(r)
      PROVE  \E n \in members' : Succeeds(n, m) /\ (n.role = m.role \/ req[r].id = m.id)
  <2>1. members' = {IF x.id = req[r].id THEN [x EXCEPT !.role = req[r].role] ELSE x : x \in members}
    BY <1>5 DEF WriteRole
  <2>2. CASE m.id # req[r].id
    <3>1. m \in members'
      BY <2>1, <2>2
    <3> QED BY <1>1, <3>1
  <2>3. CASE m.id = req[r].id
    <3>1. [m EXCEPT !.role = req[r].role] \in members'
      BY <2>1, <2>3
    <3>2. Succeeds([m EXCEPT !.role = req[r].role], m)
      BY <1>1 DEF Succeeds, MemberRows
    <3> QED BY <2>3, <3>1, <3>2
  <2> QED BY <2>2, <2>3
<1>6. ASSUME NEW r \in Requests, DeleteRow(r), req[r].id # m.id PROVE m \in members'
  BY <1>6 DEF DeleteRow
<1>7. ASSUME NEW k \in members, NEW s \in {"Active", "Deactivated"}, k.owner => s = "Active", SetStatus(k, s)
      PROVE  \E n \in members' : Succeeds(n, m) /\ n.role = m.role
  <2>1. members' = {IF x = k THEN [k EXCEPT !.status = s] ELSE x : x \in members}
    BY <1>7 DEF SetStatus
  <2>2. CASE m # k
    <3>1. m \in members'
      BY <2>1, <2>2
    <3> QED BY <1>1, <3>1
  <2>3. CASE m = k
    <3>1. [m EXCEPT !.status = s] \in members'
      BY <2>1, <2>3
    <3>2. Succeeds([m EXCEPT !.status = s], m) /\ [m EXCEPT !.status = s].role = m.role
      BY <1>1, <1>7, <2>3 DEF Succeeds, MemberRows
    <3> QED BY <3>1, <3>2
  <2> QED BY <2>2, <2>3
<1>8. CASE Deactivate \/ Reactivate
  BY <1>7, <1>8 DEF Deactivate, Reactivate
<1> QED BY <1>1, <1>2, <1>3, <1>4, <1>5, <1>6, <1>8, RowsWritten

LEMMA OwnersStay ==
  ASSUME MemberInv, [MemberNext]_memberVars, NEW m \in members, m.owner
  PROVE  \E n \in members' : n.id = m.id /\ n.owner /\ n.status = "Active"
<1>1. ASSUME NEW r \in Requests, DeleteRow(r), req[r].id = m.id PROVE FALSE
  BY <1>1 DEF DeleteRow, MemberInv, MemberShape, Spares
<1> QED BY <1>1, RowGoesOn DEF Succeeds

\* A step leaves no request overlapping another that did not.
LEMMA CalmBefore ==
  ASSUME MemberInv, NEW r \in Requests, calm' = calm, calm', req[r].pc # "idle"
  PROVE  Knows(req[r]) /\ Settled /\ \A s \in Requests : s # r => req[s].pc = "idle"
BY DEF MemberInv, MemberTurn

LEMMA LastAdminStays ==
  ASSUME MemberInv, MemberInv', [MemberNext]_memberVars, SomeAdmin, calm', \A r \in Requests : ~Redeemed(r)
  PROVE  SomeAdmin'
<1>1. Admins # {}
  BY AdminsFinite, FS_EmptySet DEF MemberInv, SomeAdmin
<1>2. IsFiniteSet(members') /\ {n \in members' : IsAdmin(n)} \in SUBSET members'
  BY DEF MemberInv, MemberShape, MemberRowsSound
<1>3. IsFiniteSet({n \in members' : IsAdmin(n)})
  BY <1>2, FS_Subset
<1> SUFFICES \E n \in members' : IsAdmin(n)
  <2> SUFFICES ASSUME NEW n \in members', IsAdmin(n) PROVE SomeAdmin'
    OBVIOUS
  <2>1. {x \in members' : IsAdmin(x)} # {}
    OBVIOUS
  <2>2. Cardinality({x \in members' : IsAdmin(x)}) \in Nat /\ Cardinality({x \in members' : IsAdmin(x)}) # 0
    BY <1>3, <2>1, FS_EmptySet, FS_CardinalityType
  <2>3. CountAdmins' = Cardinality({x \in members' : IsAdmin(x)})
    BY DEF CountAdmins, IsAdmin
  <2> QED BY <2>2, <2>3 DEF SomeAdmin
<1>4. \A m \in Admins, r \in Requests : DeleteRow(r) /\ req[r].id = m.id => \E n \in Admins : n.id # m.id
  <2> SUFFICES ASSUME NEW m \in Admins, NEW r \in Requests, DeleteRow(r), req[r].id = m.id
               PROVE  \E n \in Admins : n.id # m.id
    OBVIOUS
  <2>1. calm' = calm /\ req[r].pc = "delete"
    BY DEF DeleteRow, Step
  <2>2. PICK k \in members : /\ k.id = req[r].id /\ ~k.owner
                             /\ k.role = "Admin" => req[r].admins = CountAdmins - 1 /\ req[r].admins >= 1
    BY <2>1, CalmBefore DEF Knows, Doomed
  <2>3. k = m /\ k.role = "Admin"
    BY <2>2 DEF MemberInv, MemberShape, MemberRowsSound, Admins, IsAdmin
  <2>4. CountAdmins > 1
    BY <2>2, <2>3, AdminsFinite DEF MemberInv
  <2>5. PICK n \in Admins : n # m
    BY <2>4, AnotherAdmin DEF MemberInv
  <2> QED BY <2>5 DEF MemberInv, MemberShape, MemberRowsSound, Admins
<1>5. \A m \in Admins, r \in Requests : WriteRole(r) /\ req[r].id = m.id => \E n \in Admins : n.id # m.id
  <2> SUFFICES ASSUME NEW m \in Admins, NEW r \in Requests, WriteRole(r), req[r].id = m.id
               PROVE  \E n \in Admins : n.id # m.id
    OBVIOUS
  <2>1. calm' = calm /\ req[r].pc = "role"
    BY DEF WriteRole, Step
  <2> QED BY <2>1, CalmBefore DEF Knows
<1>6. PICK m \in Admins : \A r \in Requests : (DeleteRow(r) \/ WriteRole(r)) => req[r].id # m.id
  <2>1. PICK a \in Admins : TRUE
    BY <1>1
  <2>2. CASE \A r \in Requests : (DeleteRow(r) \/ WriteRole(r)) => req[r].id # a.id
    BY <2>2
  <2>3. ASSUME NEW r \in Requests, DeleteRow(r) \/ WriteRole(r), req[r].id = a.id PROVE
          \E n \in Admins : \A s \in Requests : (DeleteRow(s) \/ WriteRole(s)) => req[s].id # n.id
    <3>1. PICK n \in Admins : n.id # a.id
      BY <1>4, <1>5, <2>3
    <3>2. calm' = calm /\ req[r].pc # "idle"
      BY <2>3 DEF DeleteRow, WriteRole, Step
    <3>3. \A s \in Requests : (DeleteRow(s) \/ WriteRole(s)) => s = r
      BY <3>2, CalmBefore DEF DeleteRow, WriteRole
    <3> QED BY <2>3, <3>1, <3>3
  <2> QED BY <2>2, <2>3
<1>7. m \in members /\ IsAdmin(m)
  BY DEF Admins
<1>8. PICK n \in members' : Succeeds(n, m) /\ n.role = m.role
  BY <1>6, <1>7, RowGoesOn
<1> QED BY <1>7, <1>8 DEF IsAdmin, Succeeds

\* A login opens by an admin, with a signup, or with an invitation.
LEMMA LoginOpens ==
  ASSUME MemberInv, [MemberNext]_memberVars, calm', NEW e \in Addresses, login[e] # "Active", login'[e] = "Active"
  PROVE  \/ Reactivate
         \/ \E r \in Requests : /\ req[r].email = e /\ Knows(req[r])
                                /\ \/ AddLogin(r) /\ req[r].pc = "add"
                                   \/ Enrol(r) /\ req[r].pc = "enrol"
                                   \/ /\ Redeemed(r) /\ req[r].pc = "redeemed" /\ req[r].pw
                                      /\ invites' = [invites EXCEPT ![req[r].id].status = "accepted"]
<1>1. login \in [Addresses -> Statuses \cup {"none"}] /\ req \in [Requests -> Calls]
  BY DEF MemberInv, MemberShape, MembersRestSound
<1>2. ASSUME NEW r \in Requests, AddLogin(r)
      PROVE  req[r].email = e /\ Knows(req[r]) /\ req[r].pc = "add"
  <2>1. req[r].pc = "add" /\ calm' = calm
    BY <1>2 DEF AddLogin, Step
  <2>2. login' = login \/ login' = [login EXCEPT ![req[r].email] = req[r].status]
    BY <1>2 DEF AddLogin
  <2>3. Knows(req[r])
    BY <2>1, CalmBefore
  <2> QED BY <1>1, <2>1, <2>2, <2>3
<1>3. ASSUME NEW r \in Requests, Enrol(r)
      PROVE  req[r].email = e /\ Knows(req[r]) /\ req[r].pc = "enrol"
  <2>1. req[r].pc = "enrol" /\ calm' = calm
    BY <1>3 DEF Enrol, Step
  <2>2. login' = login \/ login' = [login EXCEPT ![req[r].email] = "Active"]
    BY <1>3 DEF Enrol
  <2>3. Knows(req[r])
    BY <2>1, CalmBefore
  <2> QED BY <1>1, <2>1, <2>2, <2>3
<1>4. ASSUME NEW r \in Requests, Redeemed(r)
      PROVE  /\ req[r].email = e /\ Knows(req[r]) /\ req[r].pc = "redeemed" /\ req[r].pw
             /\ invites' = [invites EXCEPT ![req[r].id].status = "accepted"]
  <2>1. req[r].pc = "redeemed" /\ calm' = calm
    BY <1>4 DEF Redeemed, Step
  <2>2. CASE login' = login
    BY <2>2
  <2>3. CASE /\ login' = [login EXCEPT ![req[r].email] = IF req[r].pw /\ @ = "none" THEN "Active" ELSE @]
             /\ invites' = [invites EXCEPT ![req[r].id].status = "accepted"]
    <3>1. Knows(req[r])
      BY <2>1, CalmBefore
    <3>2. req[r].email = e /\ req[r].pw
      BY <1>1, <2>3
    <3> QED BY <2>1, <2>3, <3>1, <3>2
  <2> QED BY <1>4, <2>2, <2>3 DEF Redeemed
<1>5. ASSUME NEW r \in Requests, Shut(r) PROVE FALSE
  <2>1. login' = [login EXCEPT ![req[r].email] = IF @ = "none" THEN @ ELSE "Deactivated"]
    BY <1>5 DEF Shut
  <2> QED BY <1>1, <2>1
<1>6. ASSUME Deactivate PROVE FALSE
  <2>1. PICK m \in members : login' = [login EXCEPT ![m.email] = IF @ = "none" THEN @ ELSE "Deactivated"]
    BY <1>6 DEF Deactivate, SetStatus
  <2> QED BY <1>1, <2>1
<1>7. Reactivate \/ \E r \in Requests : AddLogin(r) \/ Enrol(r) \/ Redeemed(r)
  BY <1>5, <1>6, LoginsWritten
<1> QED BY <1>2, <1>3, <1>4, <1>7

LEMMA RemovedOut ==
  ASSUME MemberInv, [MemberNext]_memberVars, calm', NEW e \in blocked, login[e] # "Active", login'[e] = "Active"
  PROVE  Reactivate
<1>1. e \in Addresses
  BY DEF MemberInv, MemberShape, MembersRestSound
<1>2. ASSUME NEW r \in Requests, req[r].email = e, Knows(req[r]),
             req[r].pc \in {"add", "enrol"} \/ (req[r].pc = "redeemed" /\ req[r].pw)
      PROVE  FALSE
  BY <1>2 DEF Knows
<1> QED BY <1>1, <1>2, LoginOpens

LEMMA InvitedIn ==
  ASSUME MemberInv, [MemberNext]_memberVars, calm', NEW e \in Addresses, policy = "invite_only",
         login[e] # "Active", login'[e] = "Active"
  PROVE  \/ Reactivate \/ \E r \in Requests : AddLogin(r)
         \/ \E i \in DOMAIN invites' : invites'[i].email = e /\ invites'[i].status # "revoked"
<1>1. ASSUME NEW r \in Requests, req[r].email = e, Knows(req[r]), Enrol(r), req[r].pc = "enrol"
      PROVE  \E i \in DOMAIN invites' : invites'[i].email = e /\ invites'[i].status # "revoked"
  BY <1>1 DEF Knows, Welcomed, Enrol
<1>2. ASSUME NEW r \in Requests, req[r].email = e, Knows(req[r]), req[r].pc = "redeemed",
             invites' = [invites EXCEPT ![req[r].id].status = "accepted"]
      PROVE  \E i \in DOMAIN invites' : invites'[i].email = e /\ invites'[i].status # "revoked"
  <2>1. PICK k : k = req[r].id
    OBVIOUS
  <2>2. Awaits(k, e) /\ invites' = [invites EXCEPT ![k].status = "accepted"]
    BY <1>2, <2>1 DEF Knows
  <2>3. k \in DOMAIN invites' /\ invites'[k].email = e /\ invites'[k].status = "accepted"
    BY <2>2, StatusWritten DEF MemberInv, Awaits
  <2> QED BY <2>3
<1> QED BY <1>1, <1>2, LoginOpens

LEMMA AcceptedIn ==
  ASSUME MemberInv, MemberInv', [MemberNext]_memberVars, calm', NEW i \in DOMAIN invites,
         invites'[i].status # invites[i].status
  PROVE  \/ invites'[i].status = "revoked"
         \/ /\ invites[i].status = "pending" /\ invites'[i].status = "accepted"
            /\ \E m \in members' : m.email = invites[i].email
<1>1. invites \in Seq(Invitations) /\ i \in 1..Len(invites) /\ Len(invites) \in Nat
  BY DEF MemberInv, MemberShape, MembersRestSound
<1>2. ASSUME NEW r \in Requests, IssueRevoke(r) PROVE invites'[i].status = "revoked"
  <2>1. PICK v \in Invitations : v = invites[i]
    BY <1>1
  <2>2. invites'[i] = IF i \in Pending(req[r].email) THEN [v EXCEPT !.status = "revoked"] ELSE v
    BY <1>2, <2>1 DEF IssueRevoke
  <2>3. [v EXCEPT !.status = "revoked"].status = "revoked"
    BY DEF Invitations
  <2> QED BY <2>1, <2>2, <2>3
<1>3. ASSUME NEW r \in Requests, IssueInsert(r) PROVE FALSE
  <2>1. PICK v : invites' = Append(invites, v)
    BY <1>3 DEF IssueInsert
  <2>2. invites'[i] = invites[i]
    BY <1>1, <2>1
  <2> QED BY <2>2
<1>4. ASSUME NEW r \in Requests, calm' = calm, req[r].pc \in {"redeemed", "mark"},
             invites' = [invites EXCEPT ![req[r].id].status = "accepted"],
             \E m \in members' : m.email = req[r].email
      PROVE  /\ invites[i].status = "pending" /\ invites'[i].status = "accepted"
             /\ \E m \in members' : m.email = invites[i].email
  <2>1. PICK k : k = req[r].id
    OBVIOUS
  <2>2. Awaits(k, req[r].email) /\ invites' = [invites EXCEPT ![k].status = "accepted"]
    BY <1>4, <2>1, CalmBefore DEF Knows
  <2>3. i = k /\ invites'[i].status = "accepted"
    BY <2>2, StatusWritten DEF MemberInv
  <2> QED BY <1>4, <2>2, <2>3 DEF Awaits
<1>5. ASSUME NEW r \in Requests, Mark(r)
      PROVE  /\ invites[i].status = "pending" /\ invites'[i].status = "accepted"
             /\ \E m \in members' : m.email = invites[i].email
  <2>1. /\ req[r].pc = "mark" /\ calm' = calm /\ members' = members
        /\ invites' = [invites EXCEPT ![req[r].id].status = "accepted"]
    BY <1>5 DEF Mark, Step
  <2>2. \E m \in members' : m.email = req[r].email
    BY <2>1, CalmBefore DEF Knows, RowsOf
  <2> QED BY <1>4, <2>1, <2>2
<1>6. ASSUME NEW r \in Requests, Redeemed(r)
      PROVE  /\ invites[i].status = "pending" /\ invites'[i].status = "accepted"
             /\ \E m \in members' : m.email = invites[i].email
  <2>1. req[r].pc = "redeemed" /\ calm' = calm
    BY <1>6 DEF Redeemed, Step
  <2>2. invites' = [invites EXCEPT ![req[r].id].status = "accepted"]
    BY <1>6 DEF Redeemed
  <2>3. \E m \in members' : m.email = req[r].email
    <3>1. CASE req[r].row = 0
      <4>1. Enter(req[r].email, req[r].role, "Active", FALSE)
        BY <1>6, <3>1 DEF Redeemed
      <4>2. PICK x : x = [id |-> lastRow', email |-> req[r].email, role |-> req[r].role, status |-> "Active",
                          owner |-> FALSE]
        OBVIOUS
      <4>3. x \in members' /\ x.email = req[r].email
        BY <4>1, <4>2 DEF Enter
      <4> QED BY <4>3
    <3>2. CASE req[r].row # 0
      <4>1. PICK m \in members : m.email = req[r].email
        BY <2>1, <3>2, CalmBefore DEF Knows, RowsOf
      <4>2. members' = {IF x.id = req[r].row THEN [x EXCEPT !.role = req[r].role, !.status = "Active"]
                        ELSE x : x \in members}
        BY <1>6, <3>2 DEF Redeemed
      <4>3. [m EXCEPT !.role = req[r].role, !.status = "Active"].email = m.email
        BY DEF MemberInv, MemberShape, MemberRowsSound, MemberRows
      <4>4. m \in members' \/ [m EXCEPT !.role = req[r].role, !.status = "Active"] \in members'
        BY <4>2
      <4> QED BY <4>1, <4>3, <4>4
    <3> QED BY <3>1, <3>2
  <2> QED BY <1>4, <2>1, <2>2, <2>3
<1>7. ASSUME Revoke PROVE invites'[i].status = "revoked"
  <2>1. PICK k \in DOMAIN invites : invites' = [invites EXCEPT ![k].status = "revoked"]
    BY <1>7 DEF Revoke
  <2> QED BY <2>1, StatusWritten DEF MemberInv
<1>8. ASSUME Lapse PROVE FALSE
  <2>1. PICK k \in DOMAIN invites : invites' = [invites EXCEPT ![k].live = FALSE]
    BY <1>8 DEF Lapse
  <2>2. PICK v \in Invitations : v = invites[i]
    BY <1>1
  <2>3. invites'[i] = IF i = k THEN [v EXCEPT !.live = FALSE] ELSE v
    BY <2>1, <2>2
  <2>4. [v EXCEPT !.live = FALSE].status = v.status
    BY DEF Invitations
  <2> QED BY <2>2, <2>3, <2>4
<1>9. ASSUME Restart PROVE FALSE
  <2>1. PICK new \in Seq(Invitations) : invites' = invites \o new
    BY <1>9, OrphansListed DEF Restart, Reconciled
  <2>2. invites'[i] = invites[i]
    BY <1>1, <2>1
  <2> QED BY <2>2
<1> QED BY <1>2, <1>3, <1>5, <1>6, <1>7, <1>8, <1>9, InvitesWritten

\* The type invariant, however requests overlap; ids are a key.
THEOREM MemberTypes == MemberSpec => []MemberTypeOK
<1>1. MemberInv => MemberTypeOK
  BY DEF MemberInv, MemberShape, MemberRowsSound, MembersRestSound, MemberTypeOK, MemberRows, Invitations
<1> QED BY <1>1, MemberInvariant, PTL

\* MembershipSound, for any number of addresses, requests and rows: one row,
\* one owner and one pending invitation, a login only for a member, an owner
\* who stays whatever overlaps whatever, an admin left behind by every demotion
\* and removal, and nobody let in against the deny-list, the policy or a revoked
\* invitation.
THEOREM MembershipStaysSound == MemberSpec => MembershipSound
<1>1. MemberInv => MembersSound
  BY MembersAgree
<1>2. MemberInv /\ [MemberNext]_memberVars =>
        [\A m \in members : m.owner => \E n \in members' : n.id = m.id /\ n.owner /\ n.status = "Active"]_memberVars
  BY OwnersStay
<1>3. MemberInv /\ MemberInv' /\ [MemberNext]_memberVars =>
        [SomeAdmin /\ ~SomeAdmin' /\ calm' => \E r \in Requests : Redeemed(r)]_memberVars
  BY LastAdminStays
<1>4. MemberInv /\ [MemberNext]_memberVars =>
        [\A e \in blocked : login[e] # "Active" /\ login'[e] = "Active" /\ calm' => Reactivate]_memberVars
  BY RemovedOut
<1>5. MemberInv /\ [MemberNext]_memberVars =>
        [\A e \in Addresses :
           policy = "invite_only" /\ login[e] # "Active" /\ login'[e] = "Active" /\ calm' =>
             \/ Reactivate \/ \E r \in Requests : AddLogin(r)
             \/ \E i \in DOMAIN invites' : invites'[i].email = e /\ invites'[i].status # "revoked"]_memberVars
  BY InvitedIn
<1>6. MemberInv /\ MemberInv' /\ [MemberNext]_memberVars =>
        [calm' => \A i \in DOMAIN invites : invites'[i].status # invites[i].status =>
           \/ invites'[i].status = "revoked"
           \/ /\ invites[i].status = "pending" /\ invites'[i].status = "accepted"
              /\ \E m \in members' : m.email = invites[i].email]_memberVars
  BY AcceptedIn
<1>7. MemberSpec => []MembersSound
  BY <1>1, MemberInvariant, PTL
<1>8. MemberSpec => OwnerKept /\ RemovedStaysOut /\ InviteOnly
  BY <1>2, <1>4, <1>5, MemberInvariant, PTL DEF MemberSpec, OwnerKept, RemovedStaysOut, InviteOnly
<1>9. MemberSpec => LastAdminGuard /\ AcceptedJoins
  BY <1>3, <1>6, MemberInvariant, PTL DEF MemberSpec, LastAdminGuard, AcceptedJoins
<1> QED BY <1>7, <1>8, <1>9 DEF MembershipSound, AdminsKept, Admission

(***************************************************************************)
(* WorkflowConfig.  The rows have their types and ids of their own.        *)
(***************************************************************************)
StatusRows == [id : 1..lastOwn, name : Listed]
FlowRows == [id : 1..lastFlow, name : Titles, default : BOOLEAN, cancel : BOOLEAN, want : BOOLEAN, patched : BOOLEAN]
OwnIds(rows) == \A r, s \in rows : r.id = s.id => r = s
Places == {"idle", "seed", "own", "copy", "new", "look", "edge", "rule", "meta", "find", "clear", "update",
           "insert", "dup", "add", "held", "unlink", "remove"}
EditStates == [pc : Places, todo : Seq(Listed), next : {"idle", "new", "look", "edge"}, edges : Seq(Links), id : Nat,
             name : Listed \cup Titles, default : {Unsaid, "yes", "no", "seeded"}, cancel : {Unsaid, "yes", "no"}]
RowsTyped ==
  /\ up \in {"down", "boot", "up"} /\ made \in BOOLEAN /\ at \in ToSet(Globals)
  /\ torn \in BOOLEAN /\ tidy \in BOOLEAN
  /\ lastOwn \in Nat /\ own \subseteq StatusRows /\ OwnIds(own)
  /\ edge \in [Links -> Nat]
  /\ lastFlow \in Nat /\ flow \subseteq FlowRows /\ OwnIds(flow)
  /\ op \in [Operators -> EditStates]
  /\ kept \subseteq Listed /\ loose \subseteq Links /\ changed \in 0..Changes \cup 0..ChangesAtOnce

\* What a request carries fits the place it is at.
Formed(q) ==
  /\ q.pc \in {"rule", "add", "dup"} => q.edges # <<>>
  /\ q.pc \in {"seed", "own", "look", "edge", "rule", "meta", "find", "clear", "update", "insert"} => q.name \in Titles
  /\ q.pc = "new" => q.name \in Listed
  /\ q.pc = "copy" => /\ q.next \in {"look", "edge"} => q.name \in Titles
                      /\ q.next = "new" => q.name \in Listed
  /\ q.default = "seeded" => q.pc \in {"copy", "edge", "rule", "insert"} /\ (q.pc = "copy" => q.next = "edge")

\* Nobody asks anything of a project that is not there, or of a server that is
\* down; while it boots a project without a workflow is being seeded.
Seeds(q) == q.pc \in {"seed", "own"} \/ q.default = "seeded"
Quiet ==
  /\ ~made \/ up = "down" => AllCalm
  /\ up = "boot" /\ made => flow # {} \/ \E o \in Operators : Seeds(op[o])
  /\ \A f \in flow : f.want => f.cancel

\* What the project showed is its own or global, and is shown or about to be
\* copied; or the project has nothing of its own, and nobody is adding to that.
Coming(s) == \E o \in Operators : In(o, "copy") /\ s \in ToSet(op[o].todo)
NobodyAdds == own = {} /\ \A o \in Operators : op[o].pc \notin {"copy", "new", "look"}
KeptComes ==
  /\ kept \subseteq OwnNames \cup ToSet(Globals)
  /\ ~torn => \A s \in kept \ OwnNames : Coming(s) \/ NobodyAdds

\* While requests come one at a time: transitions lead to what is shown or about
\* to be copied, one workflow is the default, and each request knows what holds
\* at its place.
FlowTurns == \A o, p \in Operators : ~Calm(o) /\ ~Calm(p) => o = p
EdgesLead == \A e \in Links : edge[e] > 0 =>
  e \in loose \/ \A s \in ToSet(e) : s \in Effective \/ Coming(s)
OneDefault == \A f, g \in flow : f.default /\ g.default => f = g
NamesTell == \A f, g \in flow : f.name = g.name /\ f # g => f.patched \/ g.patched
EdgesWithin(q, names) == \A e \in ToSet(q.edges) : e \in loose \/ ToSet(e) \subseteq names
KnowsEdges(q) ==
  /\ q.pc \in {"edge", "rule"} => EdgesWithin(q, Effective)
  /\ q.pc = "copy" /\ q.next = "edge" => EdgesWithin(q, OwnNames \cup ToSet(q.todo))
  /\ q.pc = "copy" /\ q.next = "look" => EdgesWithin(q, OwnNames \cup ToSet(q.todo) \cup ToSet(Template))
  /\ q.pc = "look" => EdgesWithin(q, OwnNames \cup ToSet(Template))
  /\ q.pc \in {"dup", "add"} => Resolves(Head(q.edges))
KnowsStatuses(q) ==
  /\ q.pc = "copy" => own # {} \/ ToSet(Globals) \subseteq ToSet(q.todo)
  /\ q.pc \in {"new", "look"} => own # {}
  /\ q.pc \in {"held", "unlink", "remove"} => \A s \in own : s.id = q.id => s.name = q.name
  /\ q.pc \in {"unlink", "remove"} => q.name # at
  /\ q.pc = "remove" => \A e \in Links : q.name \in ToSet(e) => edge[e] = 0
KnowsFlows(q) ==
  /\ q.pc \in {"find", "update", "insert"} /\ Yes(q.default) => \A f \in flow : ~f.default
  /\ q.pc = "insert" => \A f \in flow : f.name # q.name
  /\ q.pc = "own" \/ q.default = "seeded" => flow = {}
Tidy ==
  /\ FlowTurns /\ EdgesLead /\ OneDefault /\ NamesTell
  /\ \A o \in Operators : KnowsEdges(op[o]) /\ KnowsStatuses(op[o]) /\ KnowsFlows(op[o])

ConfigInv ==
  /\ RowsTyped /\ (\A o \in Operators : Formed(op[o])) /\ Quiet /\ KeptComes
  /\ tidy => Tidy

\* The names and transitions there are, element by element.
LEMMA NamesThere ==
  /\ ToSet(Globals) = {"both", "global"} /\ ToSet(Template) = {"both", "template"}
  /\ Globals \in Seq(Listed) /\ TemplateEdges \in Seq(Links) /\ TemplateEdges # <<>>
  /\ \A e \in ToSet(TemplateEdges) : ToSet(e) = ToSet(Template)
  /\ \A e \in Links : ToSet(e) \subseteq Listed /\ "template" \in ToSet(e)
                      /\ ("both" \in ToSet(e) \/ "global" \in ToSet(e))
<1>1. ToSet(Globals) = {"both", "global"} /\ ToSet(Template) = {"both", "template"}
  BY DEF ToSet, Globals, Template
<1>2. Globals \in Seq(Listed) /\ TemplateEdges \in Seq(Links) /\ TemplateEdges # <<>>
  BY DEF Globals, Listed, TemplateEdges, Links
<1>3. \A e \in ToSet(TemplateEdges) : ToSet(e) = ToSet(Template)
  BY DEF ToSet, TemplateEdges, Template
<1>4. ASSUME NEW e \in Links
      PROVE  ToSet(e) \subseteq Listed /\ "template" \in ToSet(e) /\ ("both" \in ToSet(e) \/ "global" \in ToSet(e))
  <2>1. ToSet(<<"both", "template">>) = {"both", "template"} /\ ToSet(<<"global", "template">>) = {"global", "template"}
    BY DEF ToSet
  <2> QED BY <2>1 DEF Links, Listed
<1> QED BY <1>1, <1>2, <1>3, <1>4

\* The elements of a sequence are its first one and those of the rest.
LEMMA FirstAndRest ==
  ASSUME NEW S, NEW t \in Seq(S), t # <<>>
  PROVE  /\ Head(t) \in S /\ Tail(t) \in Seq(S)
         /\ ToSet(t) = {Head(t)} \cup ToSet(Tail(t))
<1>1. Head(t) \in S /\ Tail(t) \in Seq(S) /\ Len(t) >= 1 /\ DOMAIN t = 1..Len(t) /\ Len(t) \in Nat
  OBVIOUS
<1>2. DOMAIN Tail(t) = 1..(Len(t) - 1) /\ \A i \in 1..(Len(t) - 1) : Tail(t)[i] = t[i + 1]
  OBVIOUS
<1>3. Head(t) = t[1]
  OBVIOUS
<1>4. ASSUME NEW x \in ToSet(t) PROVE x \in {Head(t)} \cup ToSet(Tail(t))
  <2>1. PICK i \in 1..Len(t) : x = t[i]
    BY <1>1 DEF ToSet
  <2>2. CASE i = 1
    BY <1>3, <2>1, <2>2
  <2>3. CASE i # 1
    <3>1. i - 1 \in 1..(Len(t) - 1) /\ (i - 1) + 1 = i
      BY <1>1, <2>3
    <3>2. x = Tail(t)[i - 1]
      BY <1>2, <2>1, <3>1
    <3> QED BY <1>2, <3>1, <3>2 DEF ToSet
  <2> QED BY <2>2, <2>3
<1>5. ASSUME NEW x \in {Head(t)} \cup ToSet(Tail(t)) PROVE x \in ToSet(t)
  <2>1. CASE x = Head(t)
    BY <1>1, <1>3, <2>1 DEF ToSet
  <2>2. CASE x \in ToSet(Tail(t))
    <3>1. PICK i \in 1..(Len(t) - 1) : x = Tail(t)[i]
      BY <1>2, <2>2 DEF ToSet
    <3>2. i + 1 \in 1..Len(t) /\ x = t[i + 1]
      BY <1>1, <1>2, <3>1
    <3> QED BY <1>1, <3>2 DEF ToSet
  <2> QED BY <1>5, <2>1, <2>2
<1> QED BY <1>1, <1>4, <1>5

\* The elements of two sequences put together.
LEMMA PutTogether ==
  ASSUME NEW S, NEW s \in Seq(S), NEW t \in Seq(S)
  PROVE  s \o t \in Seq(S) /\ ToSet(s \o t) = ToSet(s) \cup ToSet(t)
<1>1. s \o t \in Seq(S) /\ Len(s \o t) = Len(s) + Len(t) /\ Len(s) \in Nat /\ Len(t) \in Nat
  OBVIOUS
<1>2. DOMAIN s = 1..Len(s) /\ DOMAIN t = 1..Len(t) /\ DOMAIN (s \o t) = 1..(Len(s) + Len(t))
  OBVIOUS
<1>3. \A i \in 1..(Len(s) + Len(t)) : (s \o t)[i] = IF i <= Len(s) THEN s[i] ELSE t[i - Len(s)]
  OBVIOUS
<1>4. ASSUME NEW x \in ToSet(s \o t) PROVE x \in ToSet(s) \cup ToSet(t)
  <2>1. PICK i \in 1..(Len(s) + Len(t)) : x = (s \o t)[i]
    BY <1>2 DEF ToSet
  <2>2. CASE i <= Len(s)
    BY <1>1, <1>2, <1>3, <2>1, <2>2 DEF ToSet
  <2>3. CASE ~(i <= Len(s))
    <3>1. i - Len(s) \in 1..Len(t) /\ x = t[i - Len(s)]
      BY <1>1, <1>3, <2>1, <2>3
    <3> QED BY <1>2, <3>1 DEF ToSet
  <2> QED BY <2>2, <2>3
<1>5. ASSUME NEW x \in ToSet(s) PROVE x \in ToSet(s \o t)
  <2>1. PICK i \in 1..Len(s) : x = s[i]
    BY <1>2 DEF ToSet
  <2>2. i \in 1..(Len(s) + Len(t)) /\ x = (s \o t)[i]
    BY <1>1, <1>3, <2>1
  <2> QED BY <1>2, <2>2 DEF ToSet
<1>6. ASSUME NEW x \in ToSet(t) PROVE x \in ToSet(s \o t)
  <2>1. PICK i \in 1..Len(t) : x = t[i]
    BY <1>2 DEF ToSet
  <2>2. i + Len(s) \in 1..(Len(s) + Len(t)) /\ ~(i + Len(s) <= Len(s)) /\ (i + Len(s)) - Len(s) = i
    BY <1>1
  <2>3. x = (s \o t)[i + Len(s)]
    BY <1>3, <2>1, <2>2
  <2> QED BY <1>2, <2>2, <2>3 DEF ToSet
<1> QED BY <1>1, <1>4, <1>5, <1>6

\* What is missing of the template and the names that were left out make it up.
LEMMA MissingMakesUp ==
  ASSUME NEW names
  PROVE  Missing(names) \in Seq(Listed) /\ ToSet(Template) \subseteq names \cup ToSet(Missing(names))
<1>1. ASSUME NEW s \in Listed
      PROVE  Unless(s, names) \in Seq(Listed) /\ s \in names \cup ToSet(Unless(s, names))
  <2>1. <<s>> \in Seq(Listed) /\ <<>> \in Seq(Listed) /\ s \in ToSet(<<s>>)
    BY DEF ToSet
  <2> QED BY <2>1 DEF Unless
<1>2. Template[1] \in Listed /\ Template[2] \in Listed /\ ToSet(Template) = {Template[1], Template[2]}
  BY DEF Template, Listed, ToSet
<1> QED BY <1>1, <1>2, PutTogether DEF Missing

\* A step of one request, which it leaves at q.
Stepped(o, q) ==
  /\ op' = [op EXCEPT ![o] = q]
  /\ up' = up /\ up # "down" /\ made' = TRUE /\ (up = "boot" => made) /\ torn' = torn
  /\ changed' \in 0..Changes \cup 0..ChangesAtOnce
  /\ tidy' \in BOOLEAN
  /\ tidy' => tidy /\ \A p \in Operators : p # o => Calm(p)
Informed(q) == KnowsEdges(q) /\ KnowsStatuses(q) /\ KnowsFlows(q)
RowsStand == UNCHANGED <<own, lastOwn, kept, edge, flow, lastFlow, at>>

LEMMA CountsTyped ==
  ASSUME RowsTyped, Counts, tidy' \in BOOLEAN
  PROVE  changed' \in 0..Changes \cup 0..ChangesAtOnce
<1>1. Changes \in Nat /\ ChangesAtOnce \in Nat /\ changed \in Nat
  BY WorkflowConfigAssumption DEF RowsTyped
<1>2. changed' = changed + 1 /\ (changed < Changes \/ changed < ChangesAtOnce)
  BY DEF Counts
<1> QED BY <1>1, <1>2

LEMMA BeginsIsStep ==
  ASSUME ConfigInv, NEW o \in Operators, NEW q, Begins(o, q), made' = made
  PROVE  Stepped(o, q) /\ Calm(o) /\ up = "up" /\ made
<1>1. RowsTyped
  BY DEF ConfigInv
<1>2. tidy' = (tidy /\ AllCalm) /\ Counts /\ op' = [op EXCEPT ![o] = q] /\ up' = up /\ torn' = torn
      /\ up = "up" /\ made /\ Calm(o)
  BY DEF Begins
<1>3. made \in BOOLEAN /\ tidy' \in BOOLEAN /\ made' = TRUE
  BY <1>1, <1>2 DEF RowsTyped
<1>4. changed' \in 0..Changes \cup 0..ChangesAtOnce
  BY <1>1, <1>2, <1>3, CountsTyped
<1>5. tidy' => tidy /\ \A p \in Operators : p # o => Calm(p)
  BY <1>2 DEF AllCalm
<1> QED BY <1>2, <1>3, <1>4, <1>5 DEF Stepped

LEMMA GoesIsStep ==
  ASSUME ConfigInv, NEW o \in Operators, NEW q, Goes(o, q), ~Calm(o)
  PROVE  Stepped(o, q) /\ at' = at /\ made /\ tidy' = tidy
<1>1. RowsTyped /\ Quiet /\ (tidy => FlowTurns)
  BY DEF ConfigInv, Tidy
<1>2. op' = [op EXCEPT ![o] = q] /\ UNCHANGED <<up, made, at, changed, torn, tidy>>
  BY DEF Goes
<1>3. made /\ up # "down" /\ made' = TRUE
  BY <1>1, <1>2 DEF Quiet, AllCalm, RowsTyped
<1>4. tidy' => tidy /\ \A p \in Operators : p # o => Calm(p)
  BY <1>1, <1>2 DEF FlowTurns
<1> QED BY <1>1, <1>2, <1>3, <1>4 DEF Stepped, RowsTyped

\* A step of one request keeps the invariant if it keeps the rows, and if that
\* request knows what it must know.
LEMMA StepKeeps ==
  ASSUME ConfigInv, NEW o \in Operators, NEW q \in EditStates, Stepped(o, q), Formed(q),
         RowsTyped', Quiet', KeptComes',
         tidy' => EdgesLead' /\ OneDefault' /\ NamesTell' /\ Informed(q)'
  PROVE  ConfigInv'
<1>1. op \in [Operators -> EditStates] /\ op' = [op EXCEPT ![o] = q] /\ \A p \in Operators : Formed(op[p])
  BY DEF ConfigInv, RowsTyped, Stepped
<1>2. op'[o] = q /\ \A p \in Operators : p # o => op'[p] = op[p]
  BY <1>1
<1>3. \A p \in Operators : Formed(op[p])'
  BY <1>1, <1>2 DEF Formed
<1>4. ASSUME tidy' PROVE Tidy'
  <2>1. \A p \in Operators : p # o => op'[p].pc = "idle" /\ op'[p].default # "seeded"
    BY <1>1, <1>2, <1>4 DEF Stepped, Calm, Formed
  <2>2. FlowTurns'
    BY <2>1 DEF FlowTurns, Calm
  <2>3. ASSUME NEW p \in Operators PROVE Informed(op[p])'
    <3>1. CASE p = o
      <4>1. (op[p])' = q
        BY <1>2, <3>1
      <4> QED BY <1>4, <4>1 DEF Informed, KnowsEdges, KnowsStatuses, KnowsFlows, EdgesWithin
    <3>2. CASE p # o
      BY <2>1, <3>2 DEF Informed, KnowsEdges, KnowsStatuses, KnowsFlows
    <3> QED BY <3>1, <3>2
  <2> QED BY <1>4, <2>2, <2>3 DEF Tidy, Informed
<1> QED BY <1>3, <1>4 DEF ConfigInv

LEMMA RowsTypedStep ==
  ASSUME ConfigInv, NEW o \in Operators, NEW q \in EditStates, Stepped(o, q), at' = at,
         lastOwn' \in Nat, (own \subseteq StatusRows)', OwnIds(own)', edge' \in [Links -> Nat],
         lastFlow' \in Nat, (flow \subseteq FlowRows)', OwnIds(flow)', kept' \subseteq Listed, loose' \subseteq Links
  PROVE  RowsTyped'
<1>1. RowsTyped
  BY DEF ConfigInv
<1>2. op' \in [Operators -> EditStates] /\ up' \in {"down", "boot", "up"} /\ made' \in BOOLEAN /\ torn' \in BOOLEAN
      /\ tidy' \in BOOLEAN /\ at' \in ToSet(Globals)
  BY <1>1 DEF RowsTyped, Stepped
<1>3. changed' \in 0..Changes \cup 0..ChangesAtOnce
  BY DEF Stepped
<1> QED BY <1>2, <1>3 DEF RowsTyped

LEMMA RowsThatStand ==
  ASSUME ConfigInv
  PROVE  /\ lastOwn \in Nat /\ own \subseteq StatusRows /\ OwnIds(own)
         /\ edge \in [Links -> Nat]
         /\ lastFlow \in Nat /\ flow \subseteq FlowRows /\ OwnIds(flow)
         /\ kept \subseteq Listed /\ loose \subseteq Links
         /\ lastOwn' = lastOwn /\ own' = own => (own \subseteq StatusRows)' /\ OwnIds(own)'
         /\ lastFlow' = lastFlow /\ flow' = flow => (flow \subseteq FlowRows)' /\ OwnIds(flow)'
BY DEF ConfigInv, RowsTyped, StatusRows, FlowRows, OwnIds

LEMMA QuietFlowStep ==
  ASSUME ConfigInv, NEW o \in Operators, NEW q \in EditStates, Stepped(o, q), \A f \in flow' : f.want => f.cancel,
         up = "boot" => /\ flow # {} => flow' # {}
                        /\ Seeds(op[o]) => Seeds(q) \/ flow' # {}
  PROVE  Quiet'
<1>1. RowsTyped /\ Quiet
  BY DEF ConfigInv
<1>2. op \in [Operators -> EditStates] /\ op' = [op EXCEPT ![o] = q] /\ up' = up /\ up # "down" /\ made' = TRUE
      /\ (up = "boot" => made)
  BY <1>1 DEF RowsTyped, Stepped
<1>3. op'[o] = q /\ \A p \in Operators : p # o => op'[p] = op[p]
  BY <1>2
<1>4. ASSUME up' = "boot", flow' = {} PROVE \E p \in Operators : Seeds(op[p])'
  <2>1. flow = {} /\ made
    BY <1>2, <1>4
  <2>2. PICK p \in Operators : Seeds(op[p])
    BY <1>1, <1>2, <1>4, <2>1 DEF Quiet
  <2>3. CASE p = o
    <3>1. Seeds(q)
      BY <1>2, <1>4, <2>1, <2>2, <2>3
    <3> QED BY <1>3, <3>1 DEF Seeds
  <2>4. CASE p # o
    BY <1>3, <2>2, <2>4 DEF Seeds
  <2> QED BY <2>3, <2>4
<1> QED BY <1>2, <1>4 DEF Quiet

\* What is about to be copied stays so while the others go on.
LEMMA ComingStep ==
  ASSUME ConfigInv, NEW o \in Operators, NEW q \in EditStates, Stepped(o, q), NEW s, Coming(s),
         op[o].pc = "copy" /\ s \in ToSet(op[o].todo) => q.pc = "copy" /\ s \in ToSet(q.todo)
  PROVE  Coming(s)'
<1>1. op \in [Operators -> EditStates] /\ op' = [op EXCEPT ![o] = q]
  BY DEF ConfigInv, RowsTyped, Stepped
<1>2. op'[o] = q /\ \A p \in Operators : p # o => op'[p] = op[p]
  BY <1>1
<1>3. PICK p \in Operators : op[p].pc = "copy" /\ s \in ToSet(op[p].todo)
  BY DEF Coming, In
<1>4. CASE p = o
  BY <1>2, <1>3, <1>4 DEF Coming, In
<1>5. CASE p # o
  <2>1. op'[p].pc = "copy" /\ s \in ToSet(op'[p].todo)
    BY <1>2, <1>3, <1>5
  <2> QED BY <2>1 DEF Coming, In
<1> QED BY <1>4, <1>5

Adding(q) == q.pc \in {"copy", "new", "look"}
LEMMA KeptStep ==
  ASSUME ConfigInv, NEW o \in Operators, NEW q \in EditStates, Stepped(o, q), own' = own, kept' = kept,
         op[o].pc = "copy" => op[o].todo = <<>>,
         own = {} /\ Adding(q) => Adding(op[o]) \/ (q.pc = "copy" /\ ToSet(Globals) \subseteq ToSet(q.todo))
  PROVE  KeptComes'
<1>1. RowsTyped /\ KeptComes
  BY DEF ConfigInv
<1>2. op \in [Operators -> EditStates] /\ op' = [op EXCEPT ![o] = q] /\ torn' = torn
  BY <1>1 DEF RowsTyped, Stepped
<1>3. op'[o] = q /\ \A p \in Operators : p # o => op'[p] = op[p]
  BY <1>2
<1>4. OwnNames' = OwnNames
  BY DEF OwnNames
<1>5. ASSUME ~torn, NEW s \in kept \ OwnNames PROVE (Coming(s) \/ NobodyAdds)'
  <2>1. CASE Coming(s)
    <3>1. op[o].pc = "copy" => ~(s \in ToSet(op[o].todo))
      BY DEF ToSet
    <3> QED BY <2>1, <3>1, ComingStep
  <2>2. CASE NobodyAdds
    <3>1. CASE Adding(q)
      <4>1. q.pc = "copy" /\ ToSet(Globals) \subseteq ToSet(q.todo)
        BY <2>2, <3>1 DEF NobodyAdds, Adding
      <4>2. s \in ToSet(q.todo)
        BY <1>1, <1>5, <4>1 DEF KeptComes
      <4>3. Coming(s)'
        BY <1>3, <4>1, <4>2 DEF Coming, In
      <4> QED BY <4>3
    <3>2. CASE ~Adding(q)
      BY <1>3, <2>2, <3>2 DEF NobodyAdds, Adding
    <3> QED BY <3>1, <3>2
  <2> QED BY <1>1, <1>5, <2>1, <2>2 DEF KeptComes
<1> QED BY <1>1, <1>2, <1>4, <1>5 DEF KeptComes

LEMMA EdgesStep ==
  ASSUME ConfigInv, NEW o \in Operators, NEW q \in EditStates, Stepped(o, q), tidy', own' = own,
         op[o].pc = "copy" => op[o].todo = <<>>,
         loose \subseteq loose',
         \A e \in Links : edge'[e] > 0 => edge[e] > 0 \/ e \in loose \/ ToSet(e) \subseteq Effective
  PROVE  EdgesLead'
<1>1. EdgesLead
  BY DEF ConfigInv, Tidy, Stepped
<1>2. Effective' = Effective
  BY DEF Effective, OwnNames
<1>3. ASSUME NEW s, Coming(s) PROVE Coming(s)'
  <2>1. op[o].pc = "copy" => ~(s \in ToSet(op[o].todo))
    BY DEF ToSet
  <2> QED BY <1>3, <2>1, ComingStep
<1>4. ASSUME NEW e \in Links, edge'[e] > 0, e \notin loose', NEW s \in ToSet(e)
      PROVE  s \in Effective \/ Coming(s)'
  BY <1>1, <1>3, <1>4 DEF EdgesLead
<1> QED BY <1>2, <1>4 DEF EdgesLead

\* A step that writes no row.
LEMMA StepOn ==
  ASSUME ConfigInv, NEW o \in Operators, NEW q \in EditStates, Stepped(o, q), Formed(q), RowsStand,
         loose \subseteq loose', loose' \subseteq Links,
         op[o].pc = "copy" => op[o].todo = <<>>,
         own = {} /\ Adding(q) => Adding(op[o]) \/ (q.pc = "copy" /\ ToSet(Globals) \subseteq ToSet(q.todo)),
         up = "boot" => (Seeds(op[o]) => Seeds(q) \/ flow # {}),
         tidy' => Informed(q)'
  PROVE  ConfigInv'
<1>1. own' = own /\ lastOwn' = lastOwn /\ kept' = kept /\ edge' = edge /\ flow' = flow /\ lastFlow' = lastFlow /\ at' = at
  BY DEF RowsStand
<1>2. RowsTyped'
  BY <1>1, RowsThatStand, RowsTypedStep
<1>3. Quiet'
  <2>1. \A f \in flow : f.want => f.cancel
    BY DEF ConfigInv, Quiet
  <2> QED BY <1>1, <2>1, QuietFlowStep
<1>4. KeptComes'
  BY <1>1, KeptStep
<1>5. ASSUME tidy' PROVE EdgesLead' /\ OneDefault' /\ NamesTell'
  <2>1. OneDefault /\ NamesTell
    BY <1>5 DEF ConfigInv, Tidy, Stepped
  <2>2. EdgesLead'
    BY <1>1, <1>5, EdgesStep
  <2> QED BY <1>1, <2>1, <2>2 DEF OneDefault, NamesTell
<1> QED BY <1>2, <1>3, <1>4, <1>5, StepKeeps

LEMMA NoOpIs ==
  /\ NoOp \in EditStates /\ NoOp.pc = "idle" /\ NoOp.todo = <<>> /\ NoOp.next = "idle" /\ NoOp.edges = <<>>
  /\ NoOp.id = 0 /\ NoOp.name \in Titles /\ NoOp.default = Unsaid /\ NoOp.cancel = Unsaid
  /\ Formed(NoOp) /\ ~Adding(NoOp)
BY DEF NoOp, EditStates, Places, Titles, Unsaid, Formed, Adding

LEMMA CopyingIs ==
  ASSUME NEW next \in {"new", "look"}
  PROVE  /\ Copying(next) \in EditStates /\ Copying(next).pc = "copy" /\ Copying(next).next = next
         /\ Copying(next).edges = <<>> /\ Copying(next).name \in Titles
         /\ Copying(next).default = Unsaid /\ Copying(next).cancel = Unsaid
         /\ Copying(next).todo = IF own = {} THEN Globals ELSE <<>>
<1>1. (IF own = {} THEN Globals ELSE <<>>) \in Seq(Listed)
  BY NamesThere
<1> QED BY <1>1, NoOpIs DEF Copying, EditStates, Places

LEMMA MakeProjectKeeps ==
  ASSUME ConfigInv, NEW o \in Operators, MakeProject(o)
  PROVE  ConfigInv'
<1>1. PICK q : q = [NoOp EXCEPT !.pc = "seed"]
  OBVIOUS
<1>2. q \in EditStates /\ q.pc = "seed" /\ q.default = Unsaid /\ Formed(q) /\ ~Adding(q)
  BY <1>1, NoOpIs DEF EditStates, Places, Formed, Adding, Unsaid
<1>3. Stepped(o, q) /\ RowsStand /\ loose' = loose /\ Calm(o) /\ up = "up"
  <2>1. RowsTyped /\ AllCalm
    BY DEF ConfigInv, Quiet, MakeProject
  <2>2. tidy' = tidy /\ Counts /\ op' = [op EXCEPT ![o] = q] /\ up' = up /\ up = "up" /\ made' = TRUE /\ torn' = torn
    BY <1>1 DEF MakeProject
  <2>3. changed' \in 0..Changes \cup 0..ChangesAtOnce
    BY <2>1, <2>2, CountsTyped DEF RowsTyped
  <2>4. RowsStand /\ loose' = loose /\ Calm(o)
    BY DEF MakeProject, StatusesAsWere, EdgesAsWere, FlowsAsWere, RowsStand
  <2>5. tidy' \in BOOLEAN /\ (tidy' => tidy)
    BY <2>1, <2>2 DEF RowsTyped
  <2>6. \A p \in Operators : p # o => Calm(p)
    BY <2>1 DEF AllCalm
  <2>7. up # "down" /\ up # "boot"
    BY <2>2
  <2> QED BY <2>2, <2>3, <2>4, <2>5, <2>6, <2>7 DEF Stepped
<1>4. op[o].pc = "idle"
  BY <1>3 DEF Calm
<1>5. Informed(q)'
  BY <1>2 DEF Informed, KnowsEdges, KnowsStatuses, KnowsFlows, Unsaid
<1>6. loose \subseteq Links
  BY RowsThatStand
<1> QED BY <1>2, <1>3, <1>4, <1>5, <1>6, StepOn

LEMMA PostStatusKeeps ==
  ASSUME ConfigInv, NEW o \in Operators, PostStatus(o)
  PROVE  ConfigInv'
<1>1. PICK s \in Odd : Begins(o, [Copying("new") EXCEPT !.name = s])
  BY DEF PostStatus
<1>2. PICK q : q = [Copying("new") EXCEPT !.name = s]
  OBVIOUS
<1>3. /\ q \in EditStates /\ q.pc = "copy" /\ q.next = "new" /\ q.default = Unsaid /\ Formed(q)
      /\ q.todo = IF own = {} THEN Globals ELSE <<>>
  BY <1>2, CopyingIs DEF EditStates, Formed, Odd, Listed, Unsaid
<1>4. RowsStand /\ loose' = loose /\ made' = made
  BY DEF PostStatus, StatusesAsWere, EdgesAsWere, FlowsAsWere, RowsStand
<1>5. Stepped(o, q) /\ op[o].pc = "idle" /\ up = "up"
  BY <1>1, <1>2, <1>4, BeginsIsStep DEF Calm
<1>6. Informed(q)'
  BY <1>3, <1>4 DEF Informed, KnowsEdges, KnowsStatuses, KnowsFlows, RowsStand, Unsaid, Yes
<1>7. loose \subseteq Links /\ (own = {} => ToSet(Globals) \subseteq ToSet(q.todo))
  BY <1>3, RowsThatStand
<1> QED BY <1>3, <1>4, <1>5, <1>6, <1>7, StepOn

LEMMA ApplyTemplateKeeps ==
  ASSUME ConfigInv, NEW o \in Operators, ApplyTemplate(o)
  PROVE  ConfigInv'
<1>1. PICK q : q = [Copying("look") EXCEPT !.edges = TemplateEdges, !.default = "yes", !.cancel = "yes"]
  OBVIOUS
<1>2. /\ q \in EditStates /\ q.pc = "copy" /\ q.next = "look" /\ q.default = "yes" /\ q.edges = TemplateEdges
      /\ q.todo = IF own = {} THEN Globals ELSE <<>>
      /\ Formed(q)
  BY <1>1, CopyingIs, NamesThere DEF EditStates, Formed
<1>3. RowsStand /\ loose' = loose /\ made' = made
  BY DEF ApplyTemplate, StatusesAsWere, EdgesAsWere, FlowsAsWere, RowsStand
<1>4. Stepped(o, q) /\ op[o].pc = "idle" /\ up = "up"
  BY <1>1, <1>3, BeginsIsStep DEF Calm, ApplyTemplate
<1>5. Informed(q)'
  BY <1>2, <1>3, NamesThere DEF Informed, KnowsEdges, KnowsStatuses, KnowsFlows, RowsStand, EdgesWithin
<1>6. loose \subseteq Links /\ (own = {} => ToSet(Globals) \subseteq ToSet(q.todo))
  BY <1>2, RowsThatStand
<1> QED BY <1>2, <1>3, <1>4, <1>5, <1>6, StepOn

LEMMA PostWorkflowKeeps ==
  ASSUME ConfigInv, NEW o \in Operators, PostWorkflow(o)
  PROVE  ConfigInv'
<1>1. PICK n \in Titles, E \in {<<>>, << <<"global", "template">> >>}, said \in {"default", "cancel"} :
        /\ Begins(o, [IF E = <<>> THEN [NoOp EXCEPT !.pc = "edge"] ELSE Copying("look")
                      EXCEPT !.edges = E, !.name = n, !.default = IF said = "default" THEN "yes" ELSE Unsaid,
                             !.cancel = IF said = "cancel" THEN "yes" ELSE Unsaid])
        /\ loose' = loose \cup {e \in ToSet(E) : ~Resolves(e)}
        /\ made' = made /\ RowsStand
  BY DEF PostWorkflow, StatusesAsWere, FlowsAsWere, RowsStand
<1>2. PICK q0 : q0 = IF E = <<>> THEN [NoOp EXCEPT !.pc = "edge"] ELSE Copying("look")
  OBVIOUS
<1>3. PICK q : q = [q0 EXCEPT !.edges = E, !.name = n, !.default = IF said = "default" THEN "yes" ELSE Unsaid,
                              !.cancel = IF said = "cancel" THEN "yes" ELSE Unsaid]
  OBVIOUS
<1>4. E \in Seq(Links)
  <2>1. <<"global", "template">> \in Links
    BY DEF Links
  <2>2. \A e \in Links : <<e>> \in Seq(Links)
    OBVIOUS
  <2>3. <<>> \in Seq(Links)
    OBVIOUS
  <2> QED BY <2>1, <2>2, <2>3
<1>5. /\ q \in EditStates /\ q.default \in {"yes", Unsaid} /\ q.edges = E /\ q.name \in Titles
      /\ E = <<>> => q.pc = "edge"
      /\ E # <<>> => q.pc = "copy" /\ q.next = "look" /\ q.todo = IF own = {} THEN Globals ELSE <<>>
  <2>1. CASE E = <<>>
    BY <1>2, <1>3, <1>4, <2>1, NoOpIs DEF EditStates, Places, Unsaid
  <2>2. CASE E # <<>>
    BY <1>2, <1>3, <1>4, <2>2, CopyingIs DEF EditStates, Unsaid
  <2> QED BY <2>1, <2>2
<1>6. Formed(q)
  BY <1>5 DEF Formed, Unsaid
<1>7. Stepped(o, q) /\ op[o].pc = "idle" /\ up = "up"
  BY <1>1, <1>2, <1>3, BeginsIsStep DEF Calm
<1>8. Informed(q)'
  <2>1. E = <<>> => ToSet(E) = {}
    BY DEF ToSet
  <2>2. \A e \in ToSet(E) : e \in loose' \/ ToSet(e) \subseteq Effective
    BY <1>1 DEF Resolves
  <2>3. E # <<>> => \A e \in ToSet(E) : e \in loose' \/ ToSet(e) \subseteq OwnNames \cup ToSet(q.todo)
    BY <1>5, <2>2 DEF Effective
  <2>4. Effective' = Effective /\ OwnNames' = OwnNames
    BY <1>1 DEF RowsStand, Effective, OwnNames
  <2> QED BY <1>1, <1>5, <2>1, <2>3, <2>4 DEF Informed, KnowsEdges, KnowsStatuses, KnowsFlows, RowsStand, EdgesWithin, Unsaid
<1>9. loose \subseteq Links /\ (own = {} /\ q.pc = "copy" => ToSet(Globals) \subseteq ToSet(q.todo)) /\ loose' \subseteq Links
  <2>1. ToSet(E) \subseteq Links
    BY <1>4 DEF ToSet
  <2> QED BY <1>1, <1>5, <2>1, RowsThatStand
<1>10. Adding(q) => q.pc = "copy"
  BY <1>5 DEF Adding
<1> QED BY <1>1, <1>5, <1>6, <1>7, <1>8, <1>9, <1>10, StepOn

LEMMA HasRequest ==
  ASSUME ConfigInv, NEW o \in Operators
  PROVE  op[o] \in EditStates /\ Formed(op[o]) /\ (tidy => Informed(op[o]))
BY DEF ConfigInv, RowsTyped, Tidy, Informed

\* A request that goes on, or ends, and writes nothing.
LEMMA GoOn ==
  ASSUME ConfigInv, NEW o \in Operators, NEW q \in EditStates, Goes(o, q), ~Calm(o), Formed(q),
         StatusesAsWere, EdgesAsWere, FlowsAsWere,
         op[o].pc = "copy" => op[o].todo = <<>>,
         own = {} /\ Adding(q) => Adding(op[o]) \/ (q.pc = "copy" /\ ToSet(Globals) \subseteq ToSet(q.todo)),
         Seeds(op[o]) => Seeds(q) \/ flow # {},
         tidy => Informed(q)
  PROVE  ConfigInv'
<1>1. Stepped(o, q) /\ at' = at /\ tidy' = tidy
  BY GoesIsStep
<1>2. RowsStand /\ loose' = loose
  BY <1>1 DEF StatusesAsWere, EdgesAsWere, FlowsAsWere, RowsStand
<1>3. loose \subseteq Links
  BY RowsThatStand
<1>4. tidy' => Informed(q)'
  BY <1>1, <1>2 DEF RowsStand, Informed, KnowsEdges, KnowsStatuses, KnowsFlows, EdgesWithin, Resolves, Effective, OwnNames
<1> QED BY <1>1, <1>2, <1>3, <1>4, StepOn

LEMMA NoOpKnows == Informed(NoOp) /\ ~Seeds(NoOp)
BY NoOpIs DEF Informed, KnowsEdges, KnowsStatuses, KnowsFlows, Seeds, Unsaid

LEMMA Ends ==
  ASSUME ConfigInv, NEW o \in Operators, Finish(o), ~Calm(o), StatusesAsWere, EdgesAsWere, FlowsAsWere,
         op[o].pc # "copy", Seeds(op[o]) => flow # {}
  PROVE  ConfigInv'
<1>1. PICK q : q = NoOp
  OBVIOUS
<1>2. q \in EditStates /\ Formed(q) /\ ~Adding(q) /\ Informed(q) /\ Goes(o, q)
  BY <1>1, NoOpIs, NoOpKnows DEF Finish
<1> QED BY <1>2, GoOn

LEMMA PostEdgeKeeps ==
  ASSUME ConfigInv, NEW o \in Operators, PostEdge(o)
  PROVE  ConfigInv'
<1>1. PICK e \in Links : Resolves(e) /\ Begins(o, [NoOp EXCEPT !.pc = "dup", !.edges = <<e>>])
  BY DEF PostEdge
<1>2. PICK q : q = [NoOp EXCEPT !.pc = "dup", !.edges = <<e>>]
  OBVIOUS
<1>3. q \in EditStates /\ q.pc = "dup" /\ q.edges = <<e>> /\ q.default = Unsaid /\ Formed(q) /\ ~Adding(q)
  <2>1. <<e>> \in Seq(Links) /\ <<e>> # <<>>
    OBVIOUS
  <2>2. q \in EditStates /\ q.pc = "dup" /\ q.edges = <<e>> /\ q.default = Unsaid
    BY <1>2, <2>1, NoOpIs DEF EditStates, Places
  <2> QED BY <2>1, <2>2 DEF Formed, Adding, Unsaid
<1>4. RowsStand /\ loose' = loose /\ made' = made
  BY DEF PostEdge, StatusesAsWere, EdgesAsWere, FlowsAsWere, RowsStand
<1>5. Stepped(o, q) /\ op[o].pc = "idle" /\ up = "up"
  BY <1>1, <1>2, <1>4, BeginsIsStep DEF Calm
<1>6. Informed(q)'
  <2>1. Head(q.edges) = e
    BY <1>3
  <2>2. Effective' = Effective
    BY <1>4 DEF RowsStand, Effective, OwnNames
  <2> QED BY <1>1, <1>3, <2>1, <2>2 DEF Informed, KnowsEdges, KnowsStatuses, KnowsFlows, Unsaid, Resolves
<1>7. loose \subseteq Links
  BY RowsThatStand
<1> QED BY <1>3, <1>4, <1>5, <1>6, <1>7, StepOn

LEMMA PatchFlowKeeps ==
  ASSUME ConfigInv, NEW o \in Operators, PatchFlow(o)
  PROVE  ConfigInv'
<1>1. PICK f \in flow, n \in Titles, d, c \in {Unsaid, "yes", "no"} :
        /\ Unsaid \in {d, c}
        /\ Begins(o, [NoOp EXCEPT !.pc = IF Yes(d) THEN "clear" ELSE "update", !.id = f.id, !.name = n,
                                  !.default = d, !.cancel = c])
        /\ UNCHANGED <<made, at>> /\ StatusesAsWere /\ EdgesAsWere /\ FlowsAsWere
  BY DEF PatchFlow
<1>2. PICK q : q = [NoOp EXCEPT !.pc = IF Yes(d) THEN "clear" ELSE "update", !.id = f.id, !.name = n,
                                !.default = d, !.cancel = c]
  OBVIOUS
<1>3. q \in EditStates /\ q.pc = (IF Yes(d) THEN "clear" ELSE "update") /\ q.default = d /\ q.name \in Titles
  <2>1. f.id \in Nat
    BY RowsThatStand DEF FlowRows
  <2> QED BY <1>2, <2>1, NoOpIs DEF EditStates, Places
<1>4. Formed(q) /\ ~Adding(q)
  BY <1>3 DEF Formed, Adding, Unsaid
<1>5. RowsStand /\ loose' = loose /\ made' = made
  BY <1>1 DEF StatusesAsWere, EdgesAsWere, FlowsAsWere, RowsStand
<1>6. Stepped(o, q) /\ op[o].pc = "idle" /\ up = "up"
  BY <1>1, <1>2, <1>5, BeginsIsStep DEF Calm
<1>7. Informed(q)'
  BY <1>3 DEF Informed, KnowsEdges, KnowsStatuses, KnowsFlows, Unsaid
<1>8. loose \subseteq Links
  BY RowsThatStand
<1> QED BY <1>3, <1>4, <1>5, <1>6, <1>7, <1>8, StepOn

LEMMA DeleteStatusKeeps ==
  ASSUME ConfigInv, NEW o \in Operators, DeleteStatus(o)
  PROVE  ConfigInv'
<1>1. PICK s \in own : Begins(o, [NoOp EXCEPT !.pc = "held", !.id = s.id, !.name = s.name])
  BY DEF DeleteStatus
<1>2. PICK q : q = [NoOp EXCEPT !.pc = "held", !.id = s.id, !.name = s.name]
  OBVIOUS
<1>3. q \in EditStates /\ q.pc = "held" /\ q.default = Unsaid /\ q.id = s.id /\ q.name = s.name
  <2>1. s.id \in Nat /\ s.name \in Listed
    BY RowsThatStand DEF StatusRows
  <2> QED BY <1>2, <2>1, NoOpIs DEF EditStates, Places
<1>4. Formed(q) /\ ~Adding(q)
  BY <1>3 DEF Formed, Adding, Unsaid
<1>5. RowsStand /\ loose' = loose /\ made' = made
  BY DEF DeleteStatus, StatusesAsWere, EdgesAsWere, FlowsAsWere, RowsStand
<1>6. Stepped(o, q) /\ op[o].pc = "idle" /\ up = "up"
  BY <1>1, <1>2, <1>5, BeginsIsStep DEF Calm
<1>7. \A r \in own : r.id = q.id => r.name = q.name
  BY <1>3, RowsThatStand DEF OwnIds
<1>8. Informed(q)'
  BY <1>3, <1>5, <1>7 DEF Informed, KnowsEdges, KnowsStatuses, KnowsFlows, Unsaid, RowsStand
<1>9. loose \subseteq Links
  BY RowsThatStand
<1> QED BY <1>3, <1>4, <1>5, <1>6, <1>8, <1>9, StepOn

LEMMA NewStatusKeeps ==
  ASSUME ConfigInv, NEW o \in Operators, NewStatus(o)
  PROVE  ConfigInv'
<1>1. op[o].pc = "new" /\ ~Calm(o) /\ StatusesAsWere /\ EdgesAsWere /\ FlowsAsWere
  BY DEF NewStatus, In, Calm
<1>2. op[o] \in EditStates /\ Formed(op[o]) /\ (tidy => Informed(op[o]))
  BY HasRequest
<1>3. ~Seeds(op[o]) /\ op[o].name \in Listed /\ op[o].default # "seeded"
  BY <1>1, <1>2 DEF Formed, Seeds
<1>4. CASE op[o].name \in OwnNames
  BY <1>1, <1>3, <1>4, Ends DEF NewStatus
<1>5. CASE op[o].name \notin OwnNames
  <2>1. PICK q : q = [op[o] EXCEPT !.pc = "copy", !.todo = <<op[o].name>>, !.next = "idle"]
    OBVIOUS
  <2>7. <<op[o].name>> \in Seq(Listed)
    BY <1>3
  <2>2. q \in EditStates /\ q.pc = "copy" /\ q.next = "idle" /\ q.default = op[o].default
    BY <1>2, <1>3, <2>1, <2>7 DEF EditStates, Places
  <2>3. Formed(q)
    BY <1>3, <2>2 DEF Formed
  <2>4. tidy => Informed(q)
    BY <1>1, <1>2, <1>3, <2>2 DEF Informed, KnowsEdges, KnowsStatuses, KnowsFlows
  <2>5. Goes(o, q)
    BY <1>5, <2>1 DEF NewStatus
  <2>6. Adding(op[o])
    BY <1>1 DEF Adding
  <2> QED BY <1>1, <1>3, <2>2, <2>3, <2>4, <2>5, <2>6, GoOn
<1> QED BY <1>4, <1>5

LEMMA SeedKeeps ==
  ASSUME ConfigInv, NEW o \in Operators, Seed(o)
  PROVE  ConfigInv'
<1>1. op[o].pc = "seed" /\ ~Calm(o) /\ StatusesAsWere /\ EdgesAsWere /\ FlowsAsWere
  BY DEF Seed, In, Calm
<1>2. op[o] \in EditStates /\ Formed(op[o])
  BY HasRequest
<1>3. CASE flow # {}
  BY <1>1, <1>3, Ends DEF Seed
<1>4. CASE flow = {}
  <2>1. PICK q : q = [op[o] EXCEPT !.pc = "own"]
    OBVIOUS
  <2>2. q \in EditStates /\ q.pc = "own" /\ q.default = op[o].default /\ q.name = op[o].name
    BY <1>2, <2>1 DEF EditStates, Places
  <2>3. Formed(q) /\ ~Adding(q) /\ Seeds(q)
    BY <1>1, <1>2, <2>2 DEF Formed, Adding, Seeds
  <2>4. Informed(q)
    BY <1>4, <2>2 DEF Informed, KnowsEdges, KnowsStatuses, KnowsFlows
  <2>5. Goes(o, q)
    BY <1>4, <2>1 DEF Seed, To
  <2> QED BY <1>1, <2>2, <2>3, <2>4, <2>5, GoOn
<1> QED BY <1>3, <1>4

LEMMA SeedStatusesKeeps ==
  ASSUME ConfigInv, NEW o \in Operators, SeedStatuses(o)
  PROVE  ConfigInv'
<1>1. op[o].pc = "own" /\ ~Calm(o) /\ StatusesAsWere /\ EdgesAsWere /\ FlowsAsWere
  BY DEF SeedStatuses, In, Calm
<1>2. op[o] \in EditStates /\ Formed(op[o]) /\ (tidy => Informed(op[o]))
  BY HasRequest
<1>3. PICK copies : copies = IF own = {} THEN Globals ELSE <<>>
  OBVIOUS
<1>4. PICK todo : todo = copies \o Missing(OwnNames \cup ToSet(copies))
  OBVIOUS
<1>5. PICK q : q = [op[o] EXCEPT !.pc = "copy", !.next = "edge", !.edges = TemplateEdges, !.default = "seeded",
                                 !.cancel = "yes", !.todo = todo]
  OBVIOUS
<1>6. todo \in Seq(Listed) /\ ToSet(copies) \subseteq ToSet(todo) /\ ToSet(Template) \subseteq OwnNames \cup ToSet(todo)
  <2>1. copies \in Seq(Listed)
    BY <1>3, NamesThere
  <2>2. PICK more : more = Missing(OwnNames \cup ToSet(copies))
    OBVIOUS
  <2>3. more \in Seq(Listed) /\ ToSet(Template) \subseteq OwnNames \cup ToSet(copies) \cup ToSet(more)
    BY <2>2, MissingMakesUp
  <2>4. todo = copies \o more
    BY <1>4, <2>2
  <2>5. todo \in Seq(Listed) /\ ToSet(todo) = ToSet(copies) \cup ToSet(more)
    BY <2>1, <2>3, <2>4, PutTogether
  <2> QED BY <2>3, <2>5
<1>7. q \in EditStates /\ q.pc = "copy" /\ q.next = "edge" /\ q.edges = TemplateEdges /\ q.todo = todo /\ q.default = "seeded"
      /\ q.name = op[o].name
  BY <1>2, <1>5, <1>6, NamesThere DEF EditStates, Places
<1>8. own = {} => ToSet(Globals) \subseteq ToSet(q.todo)
  BY <1>3, <1>6, <1>7
<1>9. Formed(q) /\ Seeds(q)
  BY <1>1, <1>2, <1>7 DEF Formed, Seeds
<1>10. Goes(o, q)
  BY <1>3, <1>4, <1>5 DEF SeedStatuses
<1>11. tidy => Informed(q)
  <2>1. \A e \in ToSet(TemplateEdges) : ToSet(e) \subseteq OwnNames \cup ToSet(todo)
    BY <1>6, NamesThere
  <2>2. own # {} \/ ToSet(Globals) \subseteq ToSet(todo)
    BY <1>7, <1>8
  <2>3. tidy => flow = {}
    BY <1>1, <1>2 DEF Informed, KnowsFlows
  <2>4. KnowsEdges(q)
    BY <1>7, <2>1 DEF KnowsEdges, EdgesWithin
  <2>5. KnowsStatuses(q)
    BY <1>7, <2>2 DEF KnowsStatuses
  <2>6. tidy => KnowsFlows(q)
    BY <1>7, <2>3 DEF KnowsFlows
  <2> QED BY <2>4, <2>5, <2>6 DEF Informed
<1> QED BY <1>1, <1>7, <1>8, <1>9, <1>10, <1>11, GoOn

LEMMA LookKeeps ==
  ASSUME ConfigInv, NEW o \in Operators, Look(o)
  PROVE  ConfigInv'
<1>1. op[o].pc = "look" /\ ~Calm(o) /\ StatusesAsWere /\ EdgesAsWere /\ FlowsAsWere
  BY DEF Look, In, Calm
<1>2. op[o] \in EditStates /\ Formed(op[o]) /\ (tidy => Informed(op[o]))
  BY HasRequest
<1>3. PICK todo : todo = Missing(OwnNames)
  OBVIOUS
<1>4. todo \in Seq(Listed) /\ ToSet(Template) \subseteq OwnNames \cup ToSet(todo)
  BY <1>3, MissingMakesUp
<1>5. PICK q : q = [op[o] EXCEPT !.pc = "copy", !.todo = todo, !.next = "edge"]
  OBVIOUS
<1>6. /\ q \in EditStates /\ q.pc = "copy" /\ q.next = "edge" /\ q.edges = op[o].edges /\ q.todo = todo
      /\ q.default = op[o].default /\ q.name = op[o].name
  BY <1>2, <1>4, <1>5 DEF EditStates, Places
<1>7. Formed(q) /\ ~Seeds(op[o]) /\ Adding(op[o])
  BY <1>1, <1>2, <1>6 DEF Formed, Seeds, Adding
<1>8. Goes(o, q)
  BY <1>3, <1>5 DEF Look
<1>9. ASSUME tidy PROVE Informed(q)
  <2>1. EdgesWithin(op[o], OwnNames \cup ToSet(Template)) /\ own # {}
    BY <1>1, <1>2, <1>9 DEF Informed, KnowsEdges, KnowsStatuses
  <2>2. KnowsEdges(q)
    BY <1>4, <1>6, <2>1 DEF KnowsEdges, EdgesWithin
  <2>3. KnowsStatuses(q)
    BY <1>6, <2>1 DEF KnowsStatuses
  <2>4. KnowsFlows(q)
    BY <1>1, <1>2, <1>6 DEF KnowsFlows, Formed
  <2> QED BY <2>2, <2>3, <2>4 DEF Informed
<1> QED BY <1>1, <1>6, <1>7, <1>8, <1>9, GoOn

LEMMA LookAtEdgeKeeps ==
  ASSUME ConfigInv, NEW o \in Operators, LookAtEdge(o)
  PROVE  ConfigInv'
<1>1. op[o].pc = "edge" /\ ~Calm(o) /\ StatusesAsWere /\ EdgesAsWere /\ FlowsAsWere
  BY DEF LookAtEdge, In, Calm
<1>2. op[o] \in EditStates /\ Formed(op[o]) /\ (tidy => Informed(op[o]))
  BY HasRequest
<1>3. tidy => EdgesWithin(op[o], Effective) /\ (op[o].default = "seeded" => flow = {})
  BY <1>1, <1>2 DEF Informed, KnowsEdges, KnowsFlows
<1>4. CASE op[o].edges = <<>>
  <2>1. PICK pc : pc = IF op[o].default = "seeded" THEN "insert" ELSE "meta"
    OBVIOUS
  <2>2. PICK q : q = [op[o] EXCEPT !.pc = pc]
    OBVIOUS
  <2>3. q \in EditStates /\ q.pc = pc /\ q.default = op[o].default /\ q.name = op[o].name
    BY <1>2, <2>1, <2>2 DEF EditStates, Places
  <2>4. Formed(q) /\ ~Adding(q) /\ (Seeds(op[o]) => Seeds(q))
    BY <1>1, <1>2, <2>1, <2>3 DEF Formed, Adding, Seeds
  <2>5. tidy => Informed(q)
    BY <1>3, <2>1, <2>3 DEF Informed, KnowsEdges, KnowsStatuses, KnowsFlows, Yes
  <2>6. Goes(o, q)
    BY <1>4, <2>1, <2>2 DEF LookAtEdge, To
  <2> QED BY <1>1, <2>3, <2>4, <2>5, <2>6, GoOn
<1>5. CASE op[o].edges # <<>> /\ edge[Head(op[o].edges)] > 0
  <2>1. Tail(op[o].edges) \in Seq(Links) /\ ToSet(Tail(op[o].edges)) \subseteq ToSet(op[o].edges)
    BY <1>2, <1>5, FirstAndRest DEF EditStates
  <2>2. PICK q : q = [op[o] EXCEPT !.edges = Tail(op[o].edges)]
    OBVIOUS
  <2>3. /\ q \in EditStates /\ q.pc = "edge" /\ q.default = op[o].default /\ q.name = op[o].name
        /\ q.edges = Tail(op[o].edges)
    BY <1>1, <1>2, <2>1, <2>2 DEF EditStates, Places
  <2>4. Formed(q) /\ ~Adding(q) /\ (Seeds(op[o]) => Seeds(q))
    BY <1>1, <1>2, <2>3 DEF Formed, Adding, Seeds
  <2>5. tidy => Informed(q)
    BY <1>3, <2>1, <2>3 DEF Informed, KnowsEdges, KnowsStatuses, KnowsFlows, EdgesWithin
  <2>6. Goes(o, q)
    BY <1>5, <2>2 DEF LookAtEdge
  <2> QED BY <1>1, <2>3, <2>4, <2>5, <2>6, GoOn
<1>6. CASE op[o].edges # <<>> /\ ~(edge[Head(op[o].edges)] > 0)
  <2>2. PICK q : q = [op[o] EXCEPT !.pc = "rule"]
    OBVIOUS
  <2>3. /\ q \in EditStates /\ q.pc = "rule" /\ q.default = op[o].default /\ q.name = op[o].name
        /\ q.edges = op[o].edges
    BY <1>2, <2>2 DEF EditStates, Places
  <2>4. Formed(q) /\ ~Adding(q) /\ (Seeds(op[o]) => Seeds(q))
    BY <1>1, <1>2, <1>6, <2>3 DEF Formed, Adding, Seeds
  <2>5. tidy => Informed(q)
    BY <1>3, <2>3 DEF Informed, KnowsEdges, KnowsStatuses, KnowsFlows, EdgesWithin
  <2>6. Goes(o, q)
    BY <1>6, <2>2 DEF LookAtEdge, To
  <2> QED BY <1>1, <2>3, <2>4, <2>5, <2>6, GoOn
<1> QED BY <1>4, <1>5, <1>6

LEMMA LookForDupKeeps ==
  ASSUME ConfigInv, NEW o \in Operators, LookForDup(o)
  PROVE  ConfigInv'
<1>1. op[o].pc = "dup" /\ ~Calm(o) /\ StatusesAsWere /\ EdgesAsWere /\ FlowsAsWere
  BY DEF LookForDup, In, Calm
<1>2. op[o] \in EditStates /\ Formed(op[o]) /\ (tidy => Informed(op[o]))
  BY HasRequest
<1>3. ~Seeds(op[o])
  BY <1>1, <1>2 DEF Formed, Seeds
<1>4. CASE edge[Head(op[o].edges)] > 0
  BY <1>1, <1>3, <1>4, Ends DEF LookForDup
<1>5. CASE ~(edge[Head(op[o].edges)] > 0)
  <2>1. PICK q : q = [op[o] EXCEPT !.pc = "add"]
    OBVIOUS
  <2>2. q \in EditStates /\ q.pc = "add" /\ q.default = op[o].default /\ q.edges = op[o].edges
    BY <1>2, <2>1 DEF EditStates, Places
  <2>3. Formed(q) /\ ~Adding(q)
    BY <1>1, <1>2, <2>2 DEF Formed, Adding
  <2>4. tidy => Informed(q)
    BY <1>1, <1>2, <2>2 DEF Informed, KnowsEdges, KnowsStatuses, KnowsFlows, Formed
  <2>5. Goes(o, q)
    BY <1>5, <2>1 DEF LookForDup, To
  <2> QED BY <1>1, <1>3, <2>2, <2>3, <2>4, <2>5, GoOn
<1> QED BY <1>4, <1>5

LEMMA FindFlowKeeps ==
  ASSUME ConfigInv, NEW o \in Operators, FindFlow(o)
  PROVE  ConfigInv'
<1>1. op[o].pc = "find" /\ ~Calm(o) /\ StatusesAsWere /\ EdgesAsWere /\ FlowsAsWere
  BY DEF FindFlow, In, Calm
<1>2. op[o] \in EditStates /\ Formed(op[o]) /\ (tidy => Informed(op[o]))
  BY HasRequest
<1>3. ~Seeds(op[o])
  BY <1>1, <1>2 DEF Formed, Seeds
<1>4. CASE \A f \in flow : f.name # op[o].name
  <2>1. PICK q : q = [op[o] EXCEPT !.pc = "insert"]
    OBVIOUS
  <2>2. q \in EditStates /\ q.pc = "insert" /\ q.default = op[o].default /\ q.name = op[o].name
    BY <1>2, <2>1 DEF EditStates, Places
  <2>3. Formed(q) /\ ~Adding(q)
    BY <1>1, <1>2, <2>2 DEF Formed, Adding
  <2>4. tidy => Informed(q)
    BY <1>1, <1>2, <1>3, <1>4, <2>2 DEF Informed, KnowsEdges, KnowsStatuses, KnowsFlows, Seeds
  <2>5. Goes(o, q)
    BY <1>4, <2>1 DEF FindFlow, To
  <2> QED BY <1>1, <1>3, <2>2, <2>3, <2>4, <2>5, GoOn
<1>5. CASE ~(\A f \in flow : f.name # op[o].name)
  <2>1. PICK f \in flow : Goes(o, [op[o] EXCEPT !.pc = "update", !.id = f.id])
    BY <1>5 DEF FindFlow
  <2>2. PICK q : q = [op[o] EXCEPT !.pc = "update", !.id = f.id]
    OBVIOUS
  <2>3. q \in EditStates /\ q.pc = "update" /\ q.default = op[o].default /\ q.name = op[o].name
    <3>1. f.id \in Nat
      BY RowsThatStand DEF FlowRows
    <3> QED BY <1>2, <2>2, <3>1 DEF EditStates, Places
  <2>4. Formed(q) /\ ~Adding(q)
    BY <1>1, <1>2, <2>3 DEF Formed, Adding
  <2>5. tidy => Informed(q)
    BY <1>1, <1>2, <1>3, <2>3 DEF Informed, KnowsEdges, KnowsStatuses, KnowsFlows, Seeds
  <2>6. Goes(o, q)
    BY <2>1, <2>2
  <2> QED BY <1>1, <1>3, <2>3, <2>4, <2>5, <2>6, GoOn
<1> QED BY <1>4, <1>5

LEMMA LookForIssuesKeeps ==
  ASSUME ConfigInv, NEW o \in Operators, LookForIssues(o)
  PROVE  ConfigInv'
<1>1. op[o].pc = "held" /\ ~Calm(o) /\ StatusesAsWere /\ EdgesAsWere /\ FlowsAsWere
  BY DEF LookForIssues, In, Calm
<1>2. op[o] \in EditStates /\ Formed(op[o]) /\ (tidy => Informed(op[o]))
  BY HasRequest
<1>3. ~Seeds(op[o])
  BY <1>1, <1>2 DEF Formed, Seeds
<1>4. CASE at = op[o].name
  BY <1>1, <1>3, <1>4, Ends DEF LookForIssues
<1>5. CASE at # op[o].name
  <2>1. PICK q : q = [op[o] EXCEPT !.pc = "unlink"]
    OBVIOUS
  <2>2. q \in EditStates /\ q.pc = "unlink" /\ q.default = op[o].default /\ q.id = op[o].id /\ q.name = op[o].name
    BY <1>2, <2>1 DEF EditStates, Places
  <2>3. Formed(q) /\ ~Adding(q)
    BY <1>1, <1>2, <2>2 DEF Formed, Adding
  <2>4. tidy => Informed(q)
    BY <1>1, <1>2, <1>3, <1>5, <2>2 DEF Informed, KnowsEdges, KnowsStatuses, KnowsFlows, Seeds
  <2>5. Goes(o, q)
    BY <1>5, <2>1 DEF LookForIssues, To
  <2> QED BY <1>1, <1>3, <2>2, <2>3, <2>4, <2>5, GoOn
<1> QED BY <1>4, <1>5

\* A step that writes transitions only.
LEMMA EdgeRowsStep ==
  ASSUME ConfigInv, NEW o \in Operators, NEW q \in EditStates, Stepped(o, q), Formed(q), ~Adding(q), op[o].pc # "copy",
         own' = own, lastOwn' = lastOwn, kept' = kept, flow' = flow, lastFlow' = lastFlow, at' = at, loose' = loose,
         edge' \in [Links -> Nat],
         \A e \in Links : edge'[e] > 0 => \/ edge[e] > 0
                                          \/ tidy => e \in loose \/ ToSet(e) \subseteq Effective,
         up = "boot" => (Seeds(op[o]) => Seeds(q) \/ flow # {}),
         tidy' => Informed(q)'
  PROVE  ConfigInv'
<1>1. RowsTyped'
  BY RowsThatStand, RowsTypedStep
<1>2. Quiet'
  <2>1. \A f \in flow : f.want => f.cancel
    BY DEF ConfigInv, Quiet
  <2> QED BY <2>1, QuietFlowStep
<1>3. KeptComes'
  BY KeptStep
<1>4. ASSUME tidy' PROVE EdgesLead' /\ OneDefault' /\ NamesTell'
  <2>1. tidy /\ OneDefault /\ NamesTell
    BY <1>4 DEF ConfigInv, Tidy, Stepped
  <2>2. EdgesLead'
    BY <1>4, <2>1, EdgesStep
  <2> QED BY <2>1, <2>2 DEF OneDefault, NamesTell
<1> QED BY <1>1, <1>2, <1>3, <1>4, StepKeeps

\* A step that writes named workflows only.
LEMMA FlowRowsStep ==
  ASSUME ConfigInv, NEW o \in Operators, NEW q \in EditStates, Stepped(o, q), Formed(q), ~Adding(q), op[o].pc # "copy",
         own' = own, lastOwn' = lastOwn, kept' = kept, edge' = edge, at' = at, loose' = loose,
         lastFlow' \in Nat, (flow \subseteq FlowRows)', OwnIds(flow)', \A f \in flow' : f.want => f.cancel,
         up = "boot" => /\ flow # {} => flow' # {}
                        /\ Seeds(op[o]) => Seeds(q) \/ flow' # {},
         tidy' => OneDefault' /\ NamesTell' /\ Informed(q)'
  PROVE  ConfigInv'
<1>1. RowsTyped'
  BY RowsThatStand, RowsTypedStep
<1>2. Quiet'
  BY QuietFlowStep
<1>3. KeptComes'
  BY KeptStep
<1>4. ASSUME tidy' PROVE EdgesLead'
  BY <1>4, EdgesStep
<1> QED BY <1>1, <1>2, <1>3, <1>4, StepKeeps

LEMMA AddEdgeKeeps ==
  ASSUME ConfigInv, NEW o \in Operators, AddEdge(o)
  PROVE  ConfigInv'
<1>1. op[o].pc \in {"rule", "add"} /\ ~Calm(o) /\ StatusesAsWere /\ FlowsAsWere /\ loose' = loose
      /\ edge' = [edge EXCEPT ![Head(op[o].edges)] = @ + 1]
  BY DEF AddEdge, Calm
<1>2. op[o] \in EditStates /\ Formed(op[o]) /\ (tidy => Informed(op[o])) /\ edge \in [Links -> Nat]
  BY HasRequest, RowsThatStand
<1>3. Head(op[o].edges) \in Links /\ Tail(op[o].edges) \in Seq(Links)
      /\ ToSet(op[o].edges) = {Head(op[o].edges)} \cup ToSet(Tail(op[o].edges))
  BY <1>1, <1>2, FirstAndRest DEF EditStates, Formed
<1>4. edge' \in [Links -> Nat] /\ \A e \in Links : edge'[e] > 0 => edge[e] > 0 \/ e = Head(op[o].edges)
  BY <1>1, <1>2, <1>3
<1>5. tidy => Head(op[o].edges) \in loose \/ ToSet(Head(op[o].edges)) \subseteq Effective
  BY <1>1, <1>2, <1>3 DEF Informed, KnowsEdges, EdgesWithin, Resolves
<1>6. PICK q : q = IF op[o].pc = "add" THEN NoOp ELSE [op[o] EXCEPT !.pc = "edge", !.edges = Tail(op[o].edges)]
  OBVIOUS
<1>7. Goes(o, q)
  BY <1>6 DEF AddEdge, Finish
<1>8. Stepped(o, q) /\ at' = at /\ tidy' = tidy
  BY <1>1, <1>7, GoesIsStep
<1>9. own' = own /\ lastOwn' = lastOwn /\ kept' = kept /\ flow' = flow /\ lastFlow' = lastFlow
  BY <1>1 DEF StatusesAsWere, FlowsAsWere
<1>10. CASE op[o].pc = "add"
  <2>1. q \in EditStates /\ Formed(q) /\ ~Adding(q) /\ q.pc = "idle" /\ q.default = Unsaid /\ ~Seeds(op[o])
    BY <1>2, <1>6, <1>10, NoOpIs DEF Formed, Seeds
  <2>2. Informed(q)'
    BY <2>1 DEF Informed, KnowsEdges, KnowsStatuses, KnowsFlows, Unsaid
  <2> QED BY <1>1, <1>4, <1>5, <1>8, <1>9, <2>1, <2>2, EdgeRowsStep
<1>11. CASE op[o].pc = "rule"
  <2>1. /\ q \in EditStates /\ q.pc = "edge" /\ q.edges = Tail(op[o].edges) /\ q.default = op[o].default
        /\ q.name = op[o].name
    BY <1>2, <1>3, <1>6, <1>11 DEF EditStates, Places
  <2>2. Formed(q) /\ ~Adding(q) /\ (Seeds(op[o]) => Seeds(q))
    BY <1>2, <1>11, <2>1 DEF Formed, Seeds, Adding
  <2>3. tidy => Informed(q)'
    <3>1. tidy => EdgesWithin(q, Effective)
      BY <1>2, <1>3, <1>11, <2>1 DEF Informed, KnowsEdges, EdgesWithin
    <3>2. tidy => (q.default = "seeded" => flow = {})
      BY <1>2, <2>1 DEF Informed, KnowsFlows
    <3> QED BY <1>1, <1>9, <2>1, <3>1, <3>2
        DEF Informed, KnowsEdges, KnowsStatuses, KnowsFlows, EdgesWithin, Effective, OwnNames
  <2> QED BY <1>1, <1>4, <1>5, <1>8, <1>9, <1>11, <2>1, <2>2, <2>3, EdgeRowsStep
<1> QED BY <1>1, <1>10, <1>11

LEMMA DeleteEdgeKeeps ==
  ASSUME ConfigInv, NEW o \in Operators, DeleteEdge(o)
  PROVE  ConfigInv'
<1>1. PICK l \in Links : edge[l] > 0 /\ edge' = [edge EXCEPT ![l] = @ - 1]
  BY DEF DeleteEdge
<1>2. Begins(o, NoOp) /\ made' = made /\ at' = at /\ loose' = loose /\ StatusesAsWere /\ FlowsAsWere
  BY DEF DeleteEdge
<1>3. PICK q : q = NoOp
  OBVIOUS
<1>4. Stepped(o, q) /\ op[o].pc = "idle" /\ up = "up"
  BY <1>2, <1>3, BeginsIsStep DEF Calm
<1>5. own' = own /\ lastOwn' = lastOwn /\ kept' = kept /\ flow' = flow /\ lastFlow' = lastFlow
  BY <1>2 DEF StatusesAsWere, FlowsAsWere
<1>6. edge' \in [Links -> Nat] /\ \A e \in Links : edge'[e] > 0 => edge[e] > 0
  <2>1. edge \in [Links -> Nat]
    BY RowsThatStand
  <2> QED BY <1>1, <2>1
<1>7. q \in EditStates /\ Formed(q) /\ ~Adding(q) /\ q.pc = "idle" /\ q.default = Unsaid
  BY <1>3, NoOpIs
<1>8. Informed(q)'
  BY <1>7 DEF Informed, KnowsEdges, KnowsStatuses, KnowsFlows, Unsaid
<1> QED BY <1>2, <1>4, <1>5, <1>6, <1>7, <1>8, EdgeRowsStep

LEMMA UnlinkKeeps ==
  ASSUME ConfigInv, NEW o \in Operators, Unlink(o)
  PROVE  ConfigInv'
<1>1. op[o].pc = "unlink" /\ ~Calm(o) /\ StatusesAsWere /\ FlowsAsWere /\ loose' = loose /\ To(o, "remove")
      /\ edge' = [e \in Links |-> IF op[o].name \in ToSet(e) THEN 0 ELSE edge[e]]
  BY DEF Unlink, Calm, In
<1>2. op[o] \in EditStates /\ Formed(op[o]) /\ (tidy => Informed(op[o])) /\ edge \in [Links -> Nat]
  BY HasRequest, RowsThatStand
<1>3. PICK q : q = [op[o] EXCEPT !.pc = "remove"]
  OBVIOUS
<1>4. q \in EditStates /\ q.pc = "remove" /\ q.default = op[o].default /\ q.id = op[o].id /\ q.name = op[o].name
  BY <1>2, <1>3 DEF EditStates, Places
<1>5. Formed(q) /\ ~Adding(q) /\ ~Seeds(op[o])
  BY <1>1, <1>2, <1>4 DEF Formed, Adding, Seeds
<1>6. Stepped(o, q) /\ at' = at /\ tidy' = tidy
  BY <1>1, <1>3, GoesIsStep DEF To
<1>7. own' = own /\ lastOwn' = lastOwn /\ kept' = kept /\ flow' = flow /\ lastFlow' = lastFlow
  BY <1>1 DEF StatusesAsWere, FlowsAsWere
<1>8. /\ edge' \in [Links -> Nat]
      /\ \A e \in Links : edge'[e] > 0 => edge[e] > 0
      /\ \A e \in Links : q.name \in ToSet(e) => edge'[e] = 0
  BY <1>1, <1>2, <1>4
<1>9. tidy => Informed(q)'
  <2>1. tidy => KnowsStatuses(op[o])
    BY <1>2 DEF Informed
  <2>2. tidy => KnowsStatuses(q)'
    BY <1>1, <1>4, <1>6, <1>7, <1>8, <2>1 DEF KnowsStatuses
  <2> QED BY <1>4, <1>5, <2>2 DEF Informed, KnowsEdges, KnowsFlows, Formed
<1> QED BY <1>1, <1>4, <1>5, <1>6, <1>7, <1>8, <1>9, EdgeRowsStep

LEMMA ClearDefaultsKeeps ==
  ASSUME ConfigInv, NEW o \in Operators, ClearDefaults(o)
  PROVE  ConfigInv'
<1>1. /\ op[o].pc \in {"meta", "clear"} /\ ~Calm(o) /\ StatusesAsWere /\ EdgesAsWere /\ lastFlow' = lastFlow
      /\ To(o, IF op[o].pc = "clear" THEN "update" ELSE "find")
      /\ flow' = IF Yes(op[o].default) THEN NoDefault ELSE flow
  BY DEF ClearDefaults, Calm
<1>2. op[o] \in EditStates /\ Formed(op[o])
  BY HasRequest
<1>3. PICK q : q = [op[o] EXCEPT !.pc = IF op[o].pc = "clear" THEN "update" ELSE "find"]
  OBVIOUS
<1>4. q \in EditStates /\ q.pc \in {"update", "find"} /\ q.default = op[o].default /\ q.name = op[o].name
  BY <1>2, <1>3 DEF EditStates, Places
<1>5. Formed(q) /\ ~Adding(q) /\ ~Seeds(op[o])
  BY <1>1, <1>2, <1>4 DEF Formed, Adding, Seeds
<1>6. Stepped(o, q) /\ at' = at /\ tidy' = tidy
  BY <1>1, <1>3, GoesIsStep DEF To
<1>7. own' = own /\ lastOwn' = lastOwn /\ kept' = kept /\ edge' = edge /\ loose' = loose
  BY <1>1 DEF StatusesAsWere, EdgesAsWere
<1>8. flow \subseteq FlowRows /\ OwnIds(flow) /\ lastFlow \in Nat /\ \A f \in flow : f.want => f.cancel
  BY RowsThatStand DEF ConfigInv, Quiet
<1>9. tidy => OneDefault /\ NamesTell
  BY DEF ConfigInv, Tidy
<1>10. CASE Yes(op[o].default)
  <2>1. flow' = {[f EXCEPT !.default = FALSE] : f \in flow}
    BY <1>1, <1>10 DEF NoDefault
  <2>2. ASSUME NEW f \in flow, NEW g, g = [f EXCEPT !.default = FALSE]
        PROVE  /\ g \in FlowRows /\ g.id = f.id /\ g.name = f.name /\ g.default = FALSE /\ g.cancel = f.cancel
               /\ g.want = f.want /\ g.patched = f.patched
    BY <1>8, <2>2 DEF FlowRows
  <2>3. FlowRows' = FlowRows
    BY <1>1 DEF FlowRows
  <2>4. \A g \in flow' : \E f \in flow : g = [f EXCEPT !.default = FALSE]
    BY <2>1
  <2>5. (flow \subseteq FlowRows)' /\ (\A f \in flow' : f.want => f.cancel) /\ (flow # {} => flow' # {})
    <3>1. \A g \in flow' : g \in FlowRows /\ (g.want => g.cancel)
      <4> SUFFICES ASSUME NEW g \in flow' PROVE g \in FlowRows /\ (g.want => g.cancel)
        OBVIOUS
      <4>1. PICK f \in flow : g = [f EXCEPT !.default = FALSE]
        BY <2>4
      <4>2. g \in FlowRows /\ g.cancel = f.cancel /\ g.want = f.want
        BY <2>2, <4>1
      <4>3. f.want => f.cancel
        BY <1>8
      <4> QED BY <4>2, <4>3
    <3>2. flow # {} => flow' # {}
      BY <2>1
    <3> QED BY <2>3, <3>1, <3>2
  <2>6. OwnIds(flow)'
    <3> SUFFICES ASSUME NEW g \in flow', NEW h \in flow', g.id = h.id PROVE g = h
      BY DEF OwnIds
    <3>1. PICK f \in flow : g = [f EXCEPT !.default = FALSE]
      BY <2>4
    <3>2. PICK k \in flow : h = [k EXCEPT !.default = FALSE]
      BY <2>4
    <3>3. f.id = k.id
      BY <2>2, <3>1, <3>2
    <3> QED BY <1>8, <3>1, <3>2, <3>3 DEF OwnIds
  <2>7. \A g \in flow' : ~g.default
    BY <2>2, <2>4
  <2>8. OneDefault'
    BY <2>7 DEF OneDefault
  <2>9. NamesTell => NamesTell'
    <3> SUFFICES ASSUME NamesTell, NEW g \in flow', NEW h \in flow', g.name = h.name, g # h
                 PROVE  g.patched \/ h.patched
      BY DEF NamesTell
    <3>1. PICK f \in flow : g = [f EXCEPT !.default = FALSE]
      BY <2>4
    <3>2. PICK k \in flow : h = [k EXCEPT !.default = FALSE]
      BY <2>4
    <3>3. f.name = k.name /\ f # k
      BY <2>2, <3>1, <3>2
    <3>4. f.patched \/ k.patched
      BY <3>3, Zenon DEF NamesTell
    <3>5. g.patched = f.patched /\ h.patched = k.patched
      BY <2>2, <3>1, <3>2
    <3> QED BY <3>4, <3>5, Zenon
  <2>10. Informed(q)'
    BY <1>4, <1>5, <2>7 DEF Informed, KnowsEdges, KnowsStatuses, KnowsFlows, Formed
  <2> QED BY <1>1, <1>4, <1>5, <1>6, <1>7, <1>8, <1>9, <2>5, <2>6, <2>8, <2>9, <2>10, FlowRowsStep
<1>11. CASE ~Yes(op[o].default)
  <2>1. flow' = flow
    BY <1>1, <1>11
  <2>2. Informed(q)'
    BY <1>4, <1>5, <1>11 DEF Informed, KnowsEdges, KnowsStatuses, KnowsFlows, Formed
  <2>3. tidy => OneDefault' /\ NamesTell'
    BY <1>9, <2>1 DEF OneDefault, NamesTell
  <2> QED BY <1>1, <1>4, <1>5, <1>6, <1>7, <1>8, <2>1, <2>2, <2>3, RowsThatStand, FlowRowsStep
<1> QED BY <1>10, <1>11

\* What a write by id makes of a row.
FlowRowWritten(f, q) ==
  IF f.id # q.id THEN f
  ELSE [f EXCEPT !.default = Said(q.default, @), !.cancel = Said(q.cancel, @), !.want = Said(q.cancel, @),
                 !.patched = @ \/ q.name # f.name, !.name = q.name]

LEMMA WrittenIs ==
  ASSUME NEW q \in EditStates, q.name \in Titles, NEW f \in FlowRows
  PROVE  /\ FlowRowWritten(f, q) \in FlowRows /\ FlowRowWritten(f, q).id = f.id
         /\ f.id # q.id => FlowRowWritten(f, q) = f
         /\ f.id = q.id => /\ FlowRowWritten(f, q).default = Said(q.default, f.default)
                           /\ FlowRowWritten(f, q).cancel = Said(q.cancel, f.cancel)
                           /\ FlowRowWritten(f, q).want = Said(q.cancel, f.want)
                           /\ FlowRowWritten(f, q).name = q.name
                           /\ FlowRowWritten(f, q).patched <=> f.patched \/ q.name # f.name
<1>1. CASE f.id # q.id
  BY <1>1 DEF FlowRowWritten
<1>2. CASE f.id = q.id
  <2>1. PICK d \in BOOLEAN : d = Said(q.default, f.default)
    BY DEF Said, Yes, FlowRows
  <2>2. PICK c \in BOOLEAN : c = Said(q.cancel, f.cancel)
    BY DEF Said, Yes, FlowRows
  <2>3. PICK w \in BOOLEAN : w = Said(q.cancel, f.want)
    BY DEF Said, Yes, FlowRows
  <2>4. PICK p \in BOOLEAN : p <=> f.patched \/ q.name # f.name
    OBVIOUS
  <2>5. FlowRowWritten(f, q) = [f EXCEPT !.default = d, !.cancel = c, !.want = w, !.patched = p, !.name = q.name]
    <3>1. p = (f.patched \/ q.name # f.name)
      BY <2>4
    <3> QED BY <1>2, <2>1, <2>2, <2>3, <3>1 DEF FlowRowWritten
  <2>6. /\ FlowRowWritten(f, q) \in FlowRows /\ FlowRowWritten(f, q).id = f.id /\ FlowRowWritten(f, q).default = d
        /\ FlowRowWritten(f, q).cancel = c /\ FlowRowWritten(f, q).want = w /\ FlowRowWritten(f, q).patched = p /\ FlowRowWritten(f, q).name = q.name
    BY <2>5 DEF FlowRows
  <2> QED BY <1>2, <2>1, <2>2, <2>3, <2>4, <2>6
<1> QED BY <1>1, <1>2

LEMMA WriteFlowKeeps ==
  ASSUME ConfigInv, NEW o \in Operators, WriteFlow(o)
  PROVE  ConfigInv'
<1>1. PICK was : was = op[o]
  OBVIOUS
<1>2. PICK q : q = NoOp
  OBVIOUS
<1>3. /\ was.pc = "update" /\ ~Calm(o) /\ StatusesAsWere /\ EdgesAsWere /\ lastFlow' = lastFlow /\ Goes(o, q)
      /\ flow' = {FlowRowWritten(f, was) : f \in flow}
  BY <1>1, <1>2 DEF WriteFlow, Calm, In, Finish, FlowRowWritten
<1>4. was \in EditStates /\ Formed(was) /\ (tidy => Informed(was))
  BY <1>1, HasRequest
<1>5. was.name \in Titles /\ was.default \in {Unsaid, "yes", "no"} /\ was.cancel \in {Unsaid, "yes", "no"} /\ ~Seeds(was)
  BY <1>3, <1>4 DEF Formed, EditStates, Seeds
<1>6. q \in EditStates /\ Formed(q) /\ ~Adding(q) /\ q.pc = "idle" /\ q.default = Unsaid
  BY <1>2, NoOpIs
<1>7. Stepped(o, q) /\ at' = at /\ tidy' = tidy
  BY <1>3, GoesIsStep
<1>8. own' = own /\ lastOwn' = lastOwn /\ kept' = kept /\ edge' = edge /\ loose' = loose
  BY <1>3 DEF StatusesAsWere, EdgesAsWere
<1>9. flow \subseteq FlowRows /\ OwnIds(flow) /\ lastFlow \in Nat /\ \A f \in flow : f.want => f.cancel
  BY RowsThatStand DEF ConfigInv, Quiet
<1>10. ASSUME NEW f \in flow
       PROVE  /\ FlowRowWritten(f, was) \in FlowRows /\ FlowRowWritten(f, was).id = f.id
              /\ f.id # was.id => FlowRowWritten(f, was) = f
              /\ f.id = was.id => /\ FlowRowWritten(f, was).default = Said(was.default, f.default)
                                  /\ FlowRowWritten(f, was).cancel = Said(was.cancel, f.cancel)
                                  /\ FlowRowWritten(f, was).want = Said(was.cancel, f.want)
                                  /\ FlowRowWritten(f, was).name = was.name
                                  /\ FlowRowWritten(f, was).patched <=> f.patched \/ was.name # f.name
  BY <1>4, <1>5, <1>9, WrittenIs
<1>11. \A g \in flow' : \E f \in flow : g = FlowRowWritten(f, was)
  BY <1>3
<1>12. (flow \subseteq FlowRows)' /\ (\A f \in flow' : f.want => f.cancel) /\ (flow # {} => flow' # {})
  <2>1. FlowRows' = FlowRows
    BY <1>3 DEF FlowRows
  <2>2. ASSUME NEW g \in flow' PROVE g \in FlowRows /\ (g.want => g.cancel)
    <3>1. PICK f \in flow : g = FlowRowWritten(f, was)
      BY <1>11
    <3>2. CASE f.id # was.id
      BY <1>9, <1>10, <3>1, <3>2
    <3>3. CASE f.id = was.id
      <4>1. g.want = Said(was.cancel, f.want) /\ g.cancel = Said(was.cancel, f.cancel) /\ g \in FlowRows
        BY <1>10, <3>1, <3>3
      <4>2. f.want => f.cancel
        BY <1>9
      <4>3. CASE was.cancel = Unsaid
        BY <4>1, <4>2, <4>3, Zenon DEF Said
      <4>4. CASE was.cancel # Unsaid
        BY <4>1, <4>4, Zenon DEF Said
      <4> QED BY <4>1, <4>3, <4>4, Zenon
    <3> QED BY <3>2, <3>3
  <2>3. flow # {} => flow' # {}
    BY <1>3
  <2> QED BY <2>1, <2>2, <2>3
<1>13. OwnIds(flow)'
  <2> SUFFICES ASSUME NEW g \in flow', NEW h \in flow', g.id = h.id PROVE g = h
    BY DEF OwnIds
  <2>1. PICK f \in flow : g = FlowRowWritten(f, was)
    BY <1>11
  <2>2. PICK k \in flow : h = FlowRowWritten(k, was)
    BY <1>11
  <2> QED BY <1>9, <1>10, <2>1, <2>2 DEF OwnIds
<1>14. ASSUME tidy PROVE OneDefault'
  <2>1. OneDefault /\ (Yes(was.default) => \A f \in flow : ~f.default)
    BY <1>3, <1>4, <1>14 DEF ConfigInv, Tidy, Informed, KnowsFlows
  <2> SUFFICES ASSUME NEW g \in flow', NEW h \in flow', g.default, h.default PROVE g = h
    BY DEF OneDefault
  <2>2. PICK f \in flow : g = FlowRowWritten(f, was)
    BY <1>11
  <2>3. PICK k \in flow : h = FlowRowWritten(k, was)
    BY <1>11
  <2>4. ASSUME NEW r \in flow, FlowRowWritten(r, was).default
        PROVE  r.default \/ (r.id = was.id /\ Yes(was.default))
    <3>1. CASE r.id # was.id
      BY <1>10, <2>4, <3>1, Zenon
    <3>2. CASE r.id = was.id
      <4>1. Said(was.default, r.default)
        BY <1>10, <2>4, <3>2, Zenon
      <4> QED BY <3>2, <4>1, Zenon DEF Said
    <3> QED BY <3>1, <3>2
  <2>5. f.default \/ (f.id = was.id /\ Yes(was.default))
    BY <2>2, <2>4, Zenon
  <2>6. k.default \/ (k.id = was.id /\ Yes(was.default))
    BY <2>3, <2>4, Zenon
  <2>7. f = k
    <3>1. CASE Yes(was.default)
      <4>1. f.id = was.id /\ k.id = was.id
        BY <2>1, <2>5, <2>6, <3>1, Zenon
      <4> QED BY <1>9, <4>1 DEF OwnIds
    <3>2. CASE ~Yes(was.default)
      BY <2>1, <2>5, <2>6, <3>2, Zenon DEF OneDefault
    <3> QED BY <3>1, <3>2
  <2> QED BY <2>2, <2>3, <2>7
<1>15. ASSUME tidy PROVE NamesTell'
  <2>1. NamesTell
    BY <1>15 DEF ConfigInv, Tidy
  <2> SUFFICES ASSUME NEW g \in flow', NEW h \in flow', g.name = h.name, g # h
               PROVE  g.patched \/ h.patched
    BY DEF NamesTell
  <2>2. PICK f \in flow : g = FlowRowWritten(f, was)
    BY <1>11
  <2>3. PICK k \in flow : h = FlowRowWritten(k, was)
    BY <1>11
  <2>4. ASSUME NEW r \in flow
        PROVE  FlowRowWritten(r, was).patched \/ (~r.patched /\ FlowRowWritten(r, was).name = r.name)
    <3>1. CASE r.id # was.id
      BY <1>10, <3>1, Zenon
    <3>2. CASE r.id = was.id
      BY <1>10, <3>2, Zenon
    <3> QED BY <3>1, <3>2
  <2>5. CASE g.patched \/ h.patched
    BY <2>5
  <2>6. CASE ~g.patched /\ ~h.patched
    <3>1. ~f.patched /\ g.name = f.name
      BY <2>2, <2>4, <2>6, Zenon
    <3>2. ~k.patched /\ h.name = k.name
      BY <2>3, <2>4, <2>6, Zenon
    <3>3. f # k /\ f.name = k.name
      BY <2>2, <2>3, <3>1, <3>2
    <3> QED BY <2>1, <3>1, <3>2, <3>3, Zenon DEF NamesTell
  <2> QED BY <2>5, <2>6, Zenon
<1>16. Informed(q)'
  BY <1>6 DEF Informed, KnowsEdges, KnowsStatuses, KnowsFlows, Unsaid
<1> QED BY <1>1, <1>3, <1>5, <1>6, <1>7, <1>8, <1>9, <1>12, <1>13, <1>14, <1>15, <1>16, FlowRowsStep

LEMMA InsertFlowKeeps ==
  ASSUME ConfigInv, NEW o \in Operators, InsertFlow(o)
  PROVE  ConfigInv'
<1>1. PICK was : was = op[o]
  OBVIOUS
<1>2. PICK q : q = NoOp
  OBVIOUS
<1>3. PICK fresh : fresh = [id |-> lastFlow + 1, name |-> was.name, default |-> was.default \in {"yes", "seeded"},
                        cancel |-> Yes(was.cancel), want |-> Yes(was.cancel), patched |-> FALSE]
  OBVIOUS
<1>4. /\ was.pc = "insert" /\ ~Calm(o) /\ StatusesAsWere /\ EdgesAsWere /\ lastFlow' = lastFlow + 1 /\ Goes(o, q)
      /\ flow' = flow \cup {fresh}
  BY <1>1, <1>2, <1>3 DEF InsertFlow, Calm, In, Finish
<1>5. was \in EditStates /\ Formed(was) /\ (tidy => Informed(was))
  BY <1>1, HasRequest
<1>6. was.name \in Titles
  BY <1>4, <1>5 DEF Formed
<1>7. q \in EditStates /\ Formed(q) /\ ~Adding(q) /\ q.pc = "idle" /\ q.default = Unsaid
  BY <1>2, NoOpIs
<1>8. Stepped(o, q) /\ at' = at /\ tidy' = tidy
  BY <1>4, GoesIsStep
<1>9. own' = own /\ lastOwn' = lastOwn /\ kept' = kept /\ edge' = edge /\ loose' = loose
  BY <1>4 DEF StatusesAsWere, EdgesAsWere
<1>10. flow \subseteq FlowRows /\ OwnIds(flow) /\ lastFlow \in Nat /\ \A f \in flow : f.want => f.cancel
  BY RowsThatStand DEF ConfigInv, Quiet
<1>11. /\ fresh \in FlowRows' /\ fresh.id = lastFlow + 1 /\ fresh.name = was.name
       /\ fresh.default <=> was.default \in {"yes", "seeded"}
       /\ fresh.want <=> fresh.cancel
  <2>1. PICK d \in BOOLEAN : d <=> was.default \in {"yes", "seeded"}
    OBVIOUS
  <2>7. d = (was.default \in {"yes", "seeded"})
    BY <2>1
  <2>2. PICK c \in BOOLEAN : c = Yes(was.cancel)
    BY DEF Yes
  <2>3. fresh = [id |-> lastFlow + 1, name |-> was.name, default |-> d, cancel |-> c, want |-> c, patched |-> FALSE]
    BY <1>3, <2>2, <2>7
  <2>4. lastFlow + 1 \in 1..lastFlow'
    BY <1>4, <1>10
  <2>5. fresh \in FlowRows'
    BY <1>6, <2>3, <2>4 DEF FlowRows
  <2>6. fresh.id = lastFlow + 1 /\ fresh.name = was.name /\ fresh.default = d /\ fresh.want = c /\ fresh.cancel = c
    BY <2>3
  <2> QED BY <2>1, <2>5, <2>6
<1>12. (flow \subseteq FlowRows)' /\ OwnIds(flow)' /\ lastFlow' \in Nat
  <2>1. \A f \in flow : f \in FlowRows' /\ f.id # lastFlow + 1
    BY <1>4, <1>10 DEF FlowRows
  <2> QED BY <1>4, <1>10, <1>11, <2>1 DEF OwnIds
<1>13. \A f \in flow' : f.want => f.cancel
  BY <1>4, <1>10, <1>11, Zenon
<1>14. ASSUME tidy PROVE OneDefault' /\ NamesTell'
  <2>1. /\ OneDefault /\ NamesTell
        /\ fresh.default => \A f \in flow : ~f.default
        /\ \A f \in flow : f.name # fresh.name
    BY <1>4, <1>5, <1>11, <1>14 DEF ConfigInv, Tidy, Informed, KnowsFlows, Yes
  <2>2. OneDefault'
    BY <1>4, <2>1, Zenon DEF OneDefault
  <2>3. NamesTell'
    BY <1>4, <2>1, Zenon DEF NamesTell
  <2> QED BY <2>2, <2>3
<1>15. Informed(q)'
  BY <1>7 DEF Informed, KnowsEdges, KnowsStatuses, KnowsFlows, Unsaid
<1>16. flow' # {}
  BY <1>4
<1> QED BY <1>1, <1>4, <1>7, <1>8, <1>9, <1>12, <1>13, <1>14, <1>15, <1>16, FlowRowsStep

LEMMA DeleteFlowKeeps ==
  ASSUME ConfigInv, NEW o \in Operators, DeleteFlow(o)
  PROVE  ConfigInv'
<1>1. PICK f \in flow : flow' = flow \ {f}
  BY DEF DeleteFlow
<1>2. Begins(o, NoOp) /\ made' = made /\ at' = at /\ lastFlow' = lastFlow /\ StatusesAsWere /\ EdgesAsWere
  BY DEF DeleteFlow
<1>3. PICK q : q = NoOp
  OBVIOUS
<1>4. Stepped(o, q) /\ op[o].pc = "idle" /\ up = "up"
  BY <1>2, <1>3, BeginsIsStep DEF Calm
<1>5. own' = own /\ lastOwn' = lastOwn /\ kept' = kept /\ edge' = edge /\ loose' = loose
  BY <1>2 DEF StatusesAsWere, EdgesAsWere
<1>6. q \in EditStates /\ Formed(q) /\ ~Adding(q) /\ q.pc = "idle" /\ q.default = Unsaid
  BY <1>3, NoOpIs
<1>7. Informed(q)'
  BY <1>6 DEF Informed, KnowsEdges, KnowsStatuses, KnowsFlows, Unsaid
<1>8. flow \subseteq FlowRows /\ OwnIds(flow) /\ lastFlow \in Nat /\ \A g \in flow : g.want => g.cancel
  BY RowsThatStand DEF ConfigInv, Quiet
<1>9. (flow \subseteq FlowRows)' /\ OwnIds(flow)' /\ \A g \in flow' : g.want => g.cancel
  <2>1. FlowRows' = FlowRows
    BY <1>2 DEF FlowRows
  <2> QED BY <1>1, <1>8, <2>1 DEF OwnIds
<1>10. ASSUME tidy' PROVE OneDefault' /\ NamesTell'
  <2>1. OneDefault /\ NamesTell
    BY <1>4, <1>10 DEF ConfigInv, Tidy, Stepped
  <2> QED BY <1>1, <2>1, Zenon DEF OneDefault, NamesTell
<1> QED BY <1>2, <1>4, <1>5, <1>6, <1>7, <1>8, <1>9, <1>10, FlowRowsStep

LEMMA CopyKeeps ==
  ASSUME ConfigInv, NEW o \in Operators, Copy(o)
  PROVE  ConfigInv'
<1>1. PICK was : was = op[o]
  OBVIOUS
<1>2. was.pc = "copy" /\ op[o].pc = "copy" /\ ~Calm(o) /\ EdgesAsWere /\ FlowsAsWere
  BY <1>1 DEF Copy, In, Calm
<1>3. was \in EditStates /\ Formed(was) /\ (tidy => Informed(was))
  BY <1>1, HasRequest
<1>4. CASE was.todo = <<>>
  <2>1. PICK q : q = [op[o] EXCEPT !.pc = op[o].next]
    OBVIOUS
  <2>2. /\ q \in EditStates /\ q.pc = was.next /\ q.default = was.default /\ q.name = was.name /\ q.edges = was.edges
        /\ q.pc \in {"idle", "new", "look", "edge"}
    BY <1>1, <1>3, <2>1 DEF EditStates, Places
  <2>3. Formed(q) /\ (Seeds(was) => Seeds(q)) /\ Adding(was)
    BY <1>2, <1>3, <2>2 DEF Formed, Seeds, Adding
  <2>4. ASSUME tidy PROVE Informed(q)
    <3>1. own # {}
      <4>1. ToSet(was.todo) = {}
        BY <1>4 DEF ToSet
      <4>2. own # {} \/ ToSet(Globals) \subseteq {}
        BY <1>2, <1>3, <2>4, <4>1 DEF Informed, KnowsStatuses
      <4> QED BY <4>2, NamesThere
    <3>2. ToSet(was.todo) = {} /\ Effective = OwnNames
      BY <1>4, <3>1 DEF ToSet, Effective
    <3>3. KnowsEdges(q)
      BY <1>2, <1>3, <2>2, <2>4, <3>2 DEF Informed, KnowsEdges, EdgesWithin
    <3>4. KnowsStatuses(q)
      BY <2>2, <3>1 DEF KnowsStatuses
    <3>5. KnowsFlows(q)
      BY <1>3, <2>2, <2>4 DEF Informed, KnowsFlows
    <3> QED BY <3>3, <3>4, <3>5 DEF Informed
  <2>5. Goes(o, q) /\ StatusesAsWere
    BY <1>1, <1>4, <2>1 DEF Copy, To
  <2> QED BY <1>1, <1>2, <1>4, <2>2, <2>3, <2>4, <2>5, GoOn
<1>5. CASE was.todo # <<>>
  <2>1. PICK h : h = Head(was.todo)
    OBVIOUS
  <2>2. PICK rest : rest = Tail(was.todo)
    OBVIOUS
  <2>3. h \in Listed /\ rest \in Seq(Listed) /\ ToSet(was.todo) = {h} \cup ToSet(rest)
    BY <1>3, <1>5, <2>1, <2>2, FirstAndRest DEF EditStates
  <2>4. PICK q : q = [op[o] EXCEPT !.todo = rest]
    OBVIOUS
  <2>5. /\ q \in EditStates /\ q.pc = "copy" /\ q.todo = rest /\ q.next = was.next /\ q.edges = was.edges
        /\ q.name = was.name /\ q.default = was.default
    BY <1>1, <1>2, <1>3, <2>3, <2>4 DEF EditStates
  <2>6. Formed(q) /\ (Seeds(was) => Seeds(q))
    BY <1>2, <1>3, <2>5 DEF Formed, Seeds
  <2>7. PICK fresh : fresh = [id |-> lastOwn + 1, name |-> h]
    OBVIOUS
  <2>8. Goes(o, q) /\ lastOwn' = lastOwn + 1 /\ own' = own \cup {fresh} /\ kept' = kept \cup {h}
    BY <1>1, <1>5, <2>1, <2>2, <2>4, <2>7 DEF Copy
  <2>9. Stepped(o, q) /\ at' = at /\ tidy' = tidy
    BY <1>2, <2>8, GoesIsStep
  <2>10. edge' = edge /\ loose' = loose /\ flow' = flow /\ lastFlow' = lastFlow
    BY <1>2 DEF EdgesAsWere, FlowsAsWere
  <2>11. fresh.name = h /\ fresh.id = lastOwn + 1
    BY <2>7
  <2>12. OwnNames' = OwnNames \cup {h} /\ own' # {}
    BY <2>8, <2>11 DEF OwnNames
  <2>13. RowsTyped'
    <3>1. own \subseteq StatusRows /\ OwnIds(own) /\ lastOwn \in Nat
      BY RowsThatStand
    <3>2. fresh \in StatusRows' /\ \A r \in own : r \in StatusRows' /\ r.id # lastOwn + 1
      BY <2>3, <2>7, <2>8, <3>1 DEF StatusRows
    <3>3. (own \subseteq StatusRows)' /\ OwnIds(own)' /\ lastOwn' \in Nat
      BY <2>8, <2>11, <3>1, <3>2 DEF OwnIds
    <3>4. kept' \subseteq Listed
      BY <2>3, <2>8, RowsThatStand
    <3> QED BY <2>5, <2>9, <2>10, <3>3, <3>4, RowsThatStand, RowsTypedStep
  <2>14. Quiet'
    <3>1. \A f \in flow : f.want => f.cancel
      BY DEF ConfigInv, Quiet
    <3> QED BY <1>1, <2>5, <2>6, <2>9, <2>10, <3>1, QuietFlowStep
  <2>15. ASSUME NEW s, s # h, Coming(s) PROVE Coming(s)'
    BY <1>1, <2>3, <2>5, <2>9, <2>15, ComingStep
  <2>16. KeptComes'
    <3>1. KeptComes
      BY DEF ConfigInv
    <3>2. ASSUME ~torn', NEW s \in kept' \ OwnNames' PROVE Coming(s)'
      <4>1. s \in kept \ OwnNames /\ s # h /\ ~torn
        BY <2>8, <2>9, <2>12, <3>2 DEF Stepped
      <4>2. Coming(s) \/ NobodyAdds
        BY <3>1, <4>1 DEF KeptComes
      <4>3. ~NobodyAdds
        BY <1>2 DEF NobodyAdds
      <4> QED BY <2>15, <4>1, <4>2, <4>3
    <3> QED BY <2>8, <2>12, <3>1, <3>2 DEF KeptComes
  <2>17. ASSUME tidy' PROVE EdgesLead' /\ OneDefault' /\ NamesTell' /\ Informed(q)'
    <3>1. tidy /\ EdgesLead /\ OneDefault /\ NamesTell /\ Informed(was)
      BY <1>3, <2>9, <2>17 DEF ConfigInv, Tidy
    <3>2. Effective' = OwnNames \cup {h}
      BY <2>12 DEF Effective
    <3>3. ASSUME NEW s \in ToSet(rest) PROVE Coming(s)'
      <4>1. op'[o] = q
        BY <2>9 DEF Stepped, ConfigInv, RowsTyped
      <4> QED BY <2>5, <4>1 DEF Coming, In
    <3>4. ASSUME NEW s, s \in Effective \/ Coming(s) PROVE s \in Effective' \/ Coming(s)'
      <4>1. CASE own # {} /\ s \in Effective
        BY <3>2, <4>1 DEF Effective
      <4>2. CASE own = {} /\ s \in Effective
        <5>1. s \in ToSet(was.todo)
          BY <1>2, <3>1, <4>2 DEF Effective, Informed, KnowsStatuses
        <5> QED BY <2>3, <3>2, <3>3, <5>1
      <4>3. CASE Coming(s)
        BY <2>15, <3>2, <4>3
      <4> QED BY <3>4, <4>1, <4>2, <4>3
    <3>5. EdgesLead'
      BY <2>10, <3>1, <3>4 DEF EdgesLead
    <3>6. KnowsEdges(q)'
      <4>1. OwnNames' \cup ToSet(q.todo) = OwnNames \cup ToSet(was.todo)
        BY <2>3, <2>5, <2>12
      <4>2. KnowsEdges(was)
        BY <3>1 DEF Informed
      <4> QED BY <1>2, <2>5, <2>10, <4>1, <4>2 DEF KnowsEdges, EdgesWithin
    <3>7. KnowsStatuses(q)'
      BY <2>5, <2>12 DEF KnowsStatuses
    <3>8. KnowsFlows(q)'
      BY <2>5, <2>10, <3>1 DEF Informed, KnowsFlows
    <3> QED BY <2>10, <3>1, <3>5, <3>6, <3>7, <3>8 DEF OneDefault, NamesTell, Informed
  <2> QED BY <2>5, <2>6, <2>9, <2>13, <2>14, <2>16, <2>17, StepKeeps
<1> QED BY <1>4, <1>5

LEMMA RenameStatusKeeps ==
  ASSUME ConfigInv, NEW o \in Operators, RenameStatus(o)
  PROVE  ConfigInv'
<1>1. PICK s \in own, n \in Odd :
        /\ s.name # n
        /\ Begins(o, NoOp)
        /\ own' = (own \ {s}) \cup {[s EXCEPT !.name = n]}
        /\ kept' = (kept \ {s.name}) \cup {n}
        /\ loose' = loose \cup {e \in Links : s.name \in ToSet(e)}
        /\ UNCHANGED <<made, at, lastOwn, edge>> /\ FlowsAsWere
  BY DEF RenameStatus
<1>2. PICK fresh : fresh = [s EXCEPT !.name = n]
  OBVIOUS
<1>3. PICK q : q = NoOp
  OBVIOUS
<1>4. Stepped(o, q) /\ op[o].pc = "idle" /\ up = "up" /\ (tidy' => AllCalm)
  BY <1>1, <1>3, BeginsIsStep DEF Calm, Begins
<1>5. q \in EditStates /\ Formed(q) /\ ~Adding(q) /\ q.pc = "idle" /\ q.default = Unsaid
  BY <1>3, NoOpIs
<1>6. Informed(q)'
  BY <1>5 DEF Informed, KnowsEdges, KnowsStatuses, KnowsFlows, Unsaid
<1>7. own \subseteq StatusRows /\ OwnIds(own) /\ lastOwn \in Nat /\ kept \subseteq Listed /\ loose \subseteq Links
  BY RowsThatStand
<1>8. fresh \in StatusRows /\ fresh.id = s.id /\ fresh.name = n /\ n \in Listed
  BY <1>2, <1>7 DEF StatusRows, Odd, Listed
<1>9. own' = (own \ {s}) \cup {fresh} /\ own' # {}
  BY <1>1, <1>2
<1>10. OwnNames \ {s.name} \subseteq OwnNames' /\ n \in OwnNames'
  BY <1>8, <1>9 DEF OwnNames
<1>11. RowsTyped'
  <2>1. StatusRows' = StatusRows
    BY <1>1 DEF StatusRows
  <2>2. (own \subseteq StatusRows)' /\ OwnIds(own)'
    BY <1>7, <1>8, <1>9, <2>1 DEF OwnIds
  <2>3. kept' \subseteq Listed /\ loose' \subseteq Links
    BY <1>1, <1>7, <1>8
  <2>4. flow' = flow /\ lastFlow' = lastFlow
    BY <1>1 DEF FlowsAsWere
  <2> QED BY <1>1, <1>4, <1>5, <1>7, <2>2, <2>3, <2>4, RowsThatStand, RowsTypedStep
<1>12. Quiet'
  <2>1. \A f \in flow : f.want => f.cancel
    BY DEF ConfigInv, Quiet
  <2>2. flow' = flow
    BY <1>1 DEF FlowsAsWere
  <2> QED BY <1>4, <1>5, <2>1, <2>2, QuietFlowStep
<1>13. ASSUME NEW t, Coming(t) PROVE Coming(t)'
  BY <1>4, <1>5, <1>13, ComingStep
<1>14. KeptComes'
  <2>1. KeptComes
    BY DEF ConfigInv
  <2>2. \A t \in kept' : t = n \/ (t \in kept /\ t # s.name)
    BY <1>1
  <2>3. kept' \subseteq OwnNames' \cup ToSet(Globals)
    BY <1>10, <2>1, <2>2 DEF KeptComes
  <2>4. ASSUME ~torn', NEW t \in kept' \ OwnNames' PROVE Coming(t)'
    <3>1. t \in kept \ OwnNames /\ ~torn
      BY <1>4, <1>10, <2>2, <2>4 DEF Stepped
    <3>2. ~NobodyAdds
      BY DEF NobodyAdds
    <3>3. Coming(t)
      BY <2>1, <3>1, <3>2 DEF KeptComes
    <3> QED BY <1>13, <3>3
  <2> QED BY <2>3, <2>4 DEF KeptComes
<1>15. ASSUME tidy' PROVE EdgesLead' /\ OneDefault' /\ NamesTell'
  <2>1. tidy /\ EdgesLead /\ OneDefault /\ NamesTell /\ AllCalm
    BY <1>4, <1>15 DEF ConfigInv, Tidy, Stepped
  <2>2. \A t : ~Coming(t)
    BY <2>1 DEF Coming, AllCalm, Calm, In
  <2>3. Effective = OwnNames /\ Effective' = OwnNames'
    BY <1>9 DEF Effective
  <2>4. ASSUME NEW e \in Links, edge[e] > 0, e \notin loose', NEW t \in ToSet(e) PROVE t \in Effective'
    <3>1. e \notin loose /\ t # s.name
      BY <1>1, <2>4
    <3>2. t \in OwnNames
      BY <2>1, <2>2, <2>3, <2>4, <3>1 DEF EdgesLead
    <3> QED BY <1>10, <2>3, <3>1, <3>2
  <2>5. EdgesLead'
    BY <1>1, <2>4 DEF EdgesLead
  <2>6. flow' = flow
    BY <1>1 DEF FlowsAsWere
  <2> QED BY <2>1, <2>5, <2>6 DEF OneDefault, NamesTell
<1> QED BY <1>4, <1>5, <1>6, <1>11, <1>12, <1>14, <1>15, StepKeeps

LEMMA RemoveStatusKeeps ==
  ASSUME ConfigInv, NEW o \in Operators, RemoveStatus(o)
  PROVE  ConfigInv'
<1>1. PICK was : was = op[o]
  OBVIOUS
<1>2. PICK gone : gone = {s.name : s \in {r \in own : r.id = was.id}}
  OBVIOUS
<1>3. PICK q : q = NoOp
  OBVIOUS
<1>4. /\ was.pc = "remove" /\ ~Calm(o) /\ lastOwn' = lastOwn /\ EdgesAsWere /\ FlowsAsWere /\ Goes(o, q)
      /\ own' = {s \in own : s.id # was.id}
      /\ kept' = kept \ IF tidy THEN gone \ {at} ELSE gone
  BY <1>1, <1>2, <1>3 DEF RemoveStatus, Calm, In, Finish
<1>5. was \in EditStates /\ Formed(was) /\ (tidy => Informed(was))
  BY <1>1, HasRequest
<1>6. q \in EditStates /\ Formed(q) /\ ~Adding(q) /\ q.pc = "idle" /\ q.default = Unsaid
  BY <1>3, NoOpIs
<1>7. Stepped(o, q) /\ at' = at /\ tidy' = tidy
  BY <1>4, GoesIsStep
<1>8. Informed(q)'
  BY <1>6 DEF Informed, KnowsEdges, KnowsStatuses, KnowsFlows, Unsaid
<1>9. edge' = edge /\ loose' = loose /\ flow' = flow /\ lastFlow' = lastFlow
  BY <1>4 DEF EdgesAsWere, FlowsAsWere
<1>10. tidy => gone \subseteq {was.name} /\ was.name # at
  BY <1>2, <1>4, <1>5 DEF Informed, KnowsStatuses
<1>11. kept' = kept \ gone
  <2>1. tidy => gone \ {at} = gone
    BY <1>10
  <2> QED BY <1>4, <2>1
<1>12. OwnNames \subseteq OwnNames' \cup gone /\ OwnNames' \subseteq OwnNames
  BY <1>2, <1>4 DEF OwnNames
<1>13. RowsTyped'
  <2>1. own \subseteq StatusRows /\ OwnIds(own) /\ kept \subseteq Listed
    BY RowsThatStand
  <2>2. StatusRows' = StatusRows
    BY <1>4 DEF StatusRows
  <2>3. (own \subseteq StatusRows)' /\ OwnIds(own)' /\ kept' \subseteq Listed
    BY <1>4, <1>11, <2>1, <2>2 DEF OwnIds
  <2> QED BY <1>4, <1>6, <1>7, <1>9, <2>3, RowsThatStand, RowsTypedStep
<1>14. Quiet'
  <2>1. (\A f \in flow : f.want => f.cancel) /\ ~Seeds(op[o])
    BY <1>1, <1>4, <1>5 DEF ConfigInv, Quiet, Formed, Seeds
  <2> QED BY <1>6, <1>7, <1>9, <2>1, QuietFlowStep
<1>15. ASSUME NEW t, Coming(t) PROVE Coming(t)'
  BY <1>1, <1>4, <1>6, <1>7, <1>15, ComingStep
<1>16. KeptComes'
  <2>1. KeptComes
    BY DEF ConfigInv
  <2>2. kept' \subseteq OwnNames' \cup ToSet(Globals)
    BY <1>11, <1>12, <2>1 DEF KeptComes
  <2>3. ASSUME ~torn', NEW t \in kept' \ OwnNames' PROVE (Coming(t) \/ NobodyAdds)'
    <3>1. t \in kept \ OwnNames /\ ~torn
      BY <1>7, <1>11, <1>12, <2>3 DEF Stepped
    <3>2. CASE Coming(t)
      BY <1>15, <3>2
    <3>3. CASE NobodyAdds
      <4>1. own' = {}
        BY <1>4, <3>3 DEF NobodyAdds
      <4>2. \A p \in Operators : op'[p] = IF p = o THEN q ELSE op[p]
        BY <1>7 DEF Stepped, ConfigInv, RowsTyped
      <4> QED BY <1>6, <3>3, <4>1, <4>2 DEF NobodyAdds
    <3> QED BY <2>1, <3>1, <3>2, <3>3 DEF KeptComes
  <2> QED BY <2>2, <2>3 DEF KeptComes
<1>17. ASSUME tidy' PROVE EdgesLead' /\ OneDefault' /\ NamesTell'
  <2>1. tidy /\ EdgesLead /\ OneDefault /\ NamesTell /\ FlowTurns /\ KnowsStatuses(was)
    BY <1>5, <1>7, <1>17 DEF ConfigInv, Tidy, Informed
  <2>2. \A t : ~Coming(t)
    BY <1>1, <1>4, <2>1 DEF Coming, FlowTurns, Calm, In
  <2>3. ASSUME NEW e \in Links, edge[e] > 0, e \notin loose, NEW t \in ToSet(e) PROVE t \in Effective'
    <3>1. t \in Effective
      BY <2>1, <2>2, <2>3 DEF EdgesLead
    <3>2. t # was.name
      <4>1. edge[e] # 0
        BY <2>3
      <4> QED BY <1>4, <2>1, <2>3, <4>1 DEF KnowsStatuses
    <3>3. CASE own = {}
      <4>1. own' = {}
        BY <1>4, <3>3
      <4> QED BY <3>1, <3>3, <4>1 DEF Effective
    <3>4. CASE own # {}
      <4>1. t \in OwnNames
        BY <3>1, <3>4 DEF Effective
      <4>2. t \in OwnNames'
        BY <1>10, <1>12, <2>1, <3>2, <4>1
      <4>3. own' # {}
        BY <4>2 DEF OwnNames
      <4> QED BY <4>2, <4>3 DEF Effective
    <3> QED BY <3>3, <3>4
  <2>4. EdgesLead'
    BY <1>9, <2>3 DEF EdgesLead
  <2> QED BY <1>9, <2>1, <2>4 DEF OneDefault, NamesTell
<1> QED BY <1>6, <1>7, <1>8, <1>13, <1>14, <1>16, <1>17, StepKeeps

\* Where no request is under way but one that is about to seed there is nothing
\* to know.
LEMMA RestKnows ==
  ASSUME ConfigInv, \A p \in Operators : op'[p].pc \in {"idle", "seed"} /\ op'[p].default # "seeded",
         FlowTurns', EdgesLead', OneDefault', NamesTell'
  PROVE  Tidy'
<1>1. \A p \in Operators : (KnowsEdges(op[p]) /\ KnowsStatuses(op[p]) /\ KnowsFlows(op[p]))'
  BY DEF KnowsEdges, KnowsStatuses, KnowsFlows
<1> QED BY <1>1 DEF Tidy

LEMMA AtRestHolds ==
  ASSUME ConfigInv, AllCalm
  PROVE  /\ \A t : ~Coming(t)
         /\ \A p \in Operators : op[p].pc = "idle" /\ op[p].default # "seeded"
         /\ ~torn => kept \subseteq Effective
         /\ tidy => \A e \in Links : edge[e] > 0 => e \in loose \/ ToSet(e) \subseteq Effective
<1>1. \A t : ~Coming(t)
  BY DEF Coming, AllCalm, Calm, In
<1>2. \A p \in Operators : op[p].pc = "idle" /\ op[p].default # "seeded"
  BY DEF AllCalm, Calm, ConfigInv, Formed
<1>3. ~torn => kept \subseteq Effective
  <2>1. KeptComes
    BY DEF ConfigInv
  <2> QED BY <1>1, <2>1 DEF KeptComes, Effective, NobodyAdds, OwnNames
<1>4. tidy => \A e \in Links : edge[e] > 0 => e \in loose \/ ToSet(e) \subseteq Effective
  <2>1. tidy => EdgesLead
    BY DEF ConfigInv, Tidy
  <2> QED BY <1>1, <2>1 DEF EdgesLead
<1> QED BY <1>1, <1>2, <1>3, <1>4

LEMMA MoveIssuesKeeps ==
  ASSUME ConfigInv, MoveIssues
  PROVE  ConfigInv'
<1>1. PICK s \in {"both", "global"} \ {at} :
        /\ up = "up" /\ made /\ at' = s
        /\ tidy' = (tidy /\ AllCalm) /\ Counts
        /\ UNCHANGED <<up, made, op, torn>> /\ StatusesAsWere /\ EdgesAsWere /\ FlowsAsWere
  BY DEF MoveIssues
<1>2. /\ own' = own /\ lastOwn' = lastOwn /\ kept' = kept /\ edge' = edge /\ loose' = loose /\ flow' = flow
      /\ lastFlow' = lastFlow
  BY <1>1 DEF StatusesAsWere, EdgesAsWere, FlowsAsWere
<1>3. RowsTyped'
  <2>1. RowsTyped
    BY DEF ConfigInv
  <2>2. tidy' \in BOOLEAN
    BY <1>1, <2>1 DEF RowsTyped
  <2>3. changed' \in 0..Changes \cup 0..ChangesAtOnce
    BY <1>1, <2>1, <2>2, CountsTyped
  <2>4. at' \in ToSet(Globals)
    BY <1>1, NamesThere
  <2> QED BY <1>1, <1>2, <2>1, <2>2, <2>3, <2>4 DEF RowsTyped, StatusRows, FlowRows, OwnIds
<1>4. \A p \in Operators : Formed(op[p])'
  BY <1>1 DEF ConfigInv, Formed
<1>5. Quiet'
  BY <1>1, <1>2 DEF ConfigInv, Quiet, AllCalm, Calm, Seeds
<1>6. \A t : Coming(t)' <=> Coming(t)
  BY <1>1 DEF Coming, In
<1>7. KeptComes'
  <2>1. OwnNames' = OwnNames /\ (NobodyAdds => NobodyAdds')
    BY <1>1, <1>2 DEF OwnNames, NobodyAdds
  <2> QED BY <1>1, <1>2, <1>6, <2>1 DEF ConfigInv, KeptComes
<1>8. ASSUME tidy' PROVE Tidy'
  <2>1. AllCalm /\ tidy
    BY <1>1, <1>8
  <2>2. \A p \in Operators : op'[p].pc \in {"idle", "seed"} /\ op'[p].default # "seeded"
    BY <1>1, <2>1, AtRestHolds
  <2>3. FlowTurns'
    BY <1>1, <2>1, AtRestHolds DEF FlowTurns, Calm
  <2>4. EdgesLead'
    <3>1. Effective' = Effective
      BY <1>2 DEF Effective, OwnNames
    <3> QED BY <1>2, <2>1, <3>1, AtRestHolds DEF EdgesLead
  <2>5. OneDefault' /\ NamesTell'
    BY <1>2, <2>1 DEF ConfigInv, Tidy, OneDefault, NamesTell
  <2> QED BY <2>2, <2>3, <2>4, <2>5, RestKnows
<1> QED BY <1>3, <1>4, <1>5, <1>7, <1>8 DEF ConfigInv

LEMMA StopKeeps ==
  ASSUME ConfigInv, Stop
  PROVE  ConfigInv'
<1>1. /\ up' = "down" /\ op' = [o \in Operators |-> NoOp] /\ made' = made /\ at' = at
      /\ torn' = (torn \/ \E o \in Operators : In(o, "copy") /\ own # {} /\ ~(ToSet(Globals) \cap kept \subseteq OwnNames))
      /\ tidy' = (tidy /\ AllCalm) /\ Counts
  BY DEF Stop
<1>2. /\ own' = own /\ lastOwn' = lastOwn /\ kept' = kept /\ edge' = edge /\ loose' = loose /\ flow' = flow
      /\ lastFlow' = lastFlow
  BY DEF Stop, StatusesAsWere, EdgesAsWere, FlowsAsWere
<1>3. \A p \in Operators : op'[p] = NoOp
  BY <1>1
<1>4. NoOp \in EditStates /\ NoOp.pc = "idle" /\ NoOp.default # "seeded" /\ Formed(NoOp)
  BY NoOpIs DEF Unsaid
<1>5. RowsTyped'
  <2>1. RowsTyped
    BY DEF ConfigInv
  <2>2. tidy' \in BOOLEAN /\ torn' \in BOOLEAN
    BY <1>1, <2>1 DEF RowsTyped
  <2>3. changed' \in 0..Changes \cup 0..ChangesAtOnce
    BY <1>1, <2>1, <2>2, CountsTyped
  <2>4. op' \in [Operators -> EditStates]
    BY <1>1, <1>4
  <2> QED BY <1>1, <1>2, <2>1, <2>2, <2>3, <2>4 DEF RowsTyped, StatusRows, FlowRows, OwnIds
<1>6. \A p \in Operators : Formed(op[p])'
  BY <1>3, <1>4 DEF Formed
<1>7. Quiet'
  <2>1. \A f \in flow : f.want => f.cancel
    BY DEF ConfigInv, Quiet
  <2> QED BY <1>1, <1>2, <1>3, <1>4, <2>1 DEF Quiet, AllCalm, Calm
<1>8. OwnNames' = OwnNames
  BY <1>2 DEF OwnNames
<1>9. KeptComes'
  <2>1. KeptComes
    BY DEF ConfigInv
  <2>2. ASSUME ~torn', NEW s \in kept \ OwnNames PROVE NobodyAdds'
    <3>1. Coming(s) \/ NobodyAdds
      BY <1>1, <2>1, <2>2 DEF KeptComes
    <3>2. own = {}
      <4>1. CASE Coming(s)
        <5>1. PICK o \in Operators : In(o, "copy")
          BY <4>1 DEF Coming
        <5>2. s \in ToSet(Globals) \cap kept
          BY <2>1, <2>2 DEF KeptComes
        <5> QED BY <1>1, <2>2, <5>1, <5>2
      <4> QED BY <3>1, <4>1 DEF NobodyAdds
    <3> QED BY <1>2, <1>3, <1>4, <3>2 DEF NobodyAdds
  <2> QED BY <1>2, <1>8, <2>1, <2>2 DEF KeptComes
<1>10. ASSUME tidy' PROVE Tidy'
  <2>1. AllCalm /\ tidy
    BY <1>1, <1>10
  <2>2. \A p \in Operators : op'[p].pc \in {"idle", "seed"} /\ op'[p].default # "seeded"
    BY <1>3, <1>4
  <2>3. FlowTurns'
    BY <1>3, <1>4 DEF FlowTurns, Calm
  <2>4. EdgesLead'
    <3>1. Effective' = Effective
      BY <1>2 DEF Effective, OwnNames
    <3> QED BY <1>2, <2>1, <3>1, AtRestHolds DEF EdgesLead
  <2>5. OneDefault' /\ NamesTell'
    BY <1>2, <2>1 DEF ConfigInv, Tidy, OneDefault, NamesTell
  <2> QED BY <2>2, <2>3, <2>4, <2>5, RestKnows
<1> QED BY <1>5, <1>6, <1>7, <1>9, <1>10 DEF ConfigInv

LEMMA ListenKeeps ==
  ASSUME ConfigInv, Listen
  PROVE  ConfigInv'
<1>1. up = "boot" /\ AllCalm /\ up' = "up" /\ UNCHANGED <<made, at, op, changed, torn, tidy>>
  BY DEF Listen
<1>2. /\ own' = own /\ lastOwn' = lastOwn /\ kept' = kept /\ edge' = edge /\ loose' = loose /\ flow' = flow
      /\ lastFlow' = lastFlow
  BY DEF Listen, StatusesAsWere, EdgesAsWere, FlowsAsWere
<1>3. RowsTyped'
  BY <1>1, <1>2 DEF ConfigInv, RowsTyped, StatusRows, FlowRows, OwnIds
<1>4. \A p \in Operators : Formed(op[p])'
  BY <1>1 DEF ConfigInv, Formed
<1>5. Quiet'
  BY <1>1, <1>2 DEF ConfigInv, Quiet, AllCalm, Calm
<1>6. OwnNames' = OwnNames /\ (NobodyAdds => NobodyAdds') /\ \A t : Coming(t)' <=> Coming(t)
  BY <1>1, <1>2 DEF OwnNames, NobodyAdds, Coming, In
<1>7. KeptComes'
  BY <1>1, <1>2, <1>6 DEF ConfigInv, KeptComes
<1>8. ASSUME tidy' PROVE Tidy'
  <2>1. tidy
    BY <1>1, <1>8
  <2>2. \A p \in Operators : op'[p].pc \in {"idle", "seed"} /\ op'[p].default # "seeded"
    BY <1>1, AtRestHolds
  <2>3. FlowTurns'
    BY <1>1, AtRestHolds DEF FlowTurns, Calm
  <2>4. EdgesLead'
    <3>1. Effective' = Effective
      BY <1>2 DEF Effective, OwnNames
    <3> QED BY <1>1, <1>2, <2>1, <3>1, AtRestHolds DEF EdgesLead
  <2>5. OneDefault' /\ NamesTell'
    BY <1>2, <2>1 DEF ConfigInv, Tidy, OneDefault, NamesTell
  <2> QED BY <2>2, <2>3, <2>4, <2>5, RestKnows
<1> QED BY <1>3, <1>4, <1>5, <1>7, <1>8 DEF ConfigInv

\* What initDb makes of the row of a workflow: cancelling may be turned on.
Repaired(f) == [f EXCEPT !.cancel = @ \/ (f.name = "QA" /\ "template" \in OwnNames)]

LEMMA RepairedIs ==
  ASSUME NEW f \in FlowRows
  PROVE  /\ Repaired(f) \in FlowRows /\ Repaired(f).id = f.id /\ Repaired(f).name = f.name
         /\ Repaired(f).default = f.default /\ Repaired(f).want = f.want /\ Repaired(f).patched = f.patched
         /\ f.cancel => Repaired(f).cancel
<1>1. PICK c \in BOOLEAN : c <=> f.cancel \/ (f.name = "QA" /\ "template" \in OwnNames)
  OBVIOUS
<1>2. c = (f.cancel \/ (f.name = "QA" /\ "template" \in OwnNames))
  BY <1>1
<1>3. Repaired(f) = [f EXCEPT !.cancel = c]
  BY <1>2 DEF Repaired
<1>4. /\ Repaired(f) \in FlowRows /\ Repaired(f).id = f.id /\ Repaired(f).name = f.name /\ Repaired(f).cancel = c
      /\ Repaired(f).default = f.default /\ Repaired(f).want = f.want /\ Repaired(f).patched = f.patched
  BY <1>3 DEF FlowRows
<1> QED BY <1>1, <1>4

LEMMA BootKeeps ==
  ASSUME ConfigInv, Boot
  PROVE  ConfigInv'
<1>1. /\ up = "down" /\ up' = "boot" /\ UNCHANGED <<made, lastFlow, at, changed, loose, torn, tidy>>
      /\ own' = own /\ lastOwn' = lastOwn /\ kept' = kept
      /\ flow' = {Repaired(f) : f \in {g \in flow : Newest(g)}}
      /\ edge' = [e \in Links |-> IF ToSet(e) \subseteq OwnNames \cup ToSet(Globals) THEN edge[e] ELSE 0]
  BY DEF Boot, StatusesAsWere, Repaired
<1>2. PICK q : q = [NoOp EXCEPT !.pc = "seed"]
  OBVIOUS
<1>3. PICK o \in Operators : o = CHOOSE p \in Operators : TRUE
  BY WorkflowConfigAssumption
<1>4. op' = IF made THEN [op EXCEPT ![o] = q] ELSE op
  BY <1>2, <1>3 DEF Boot
<1>5. q \in EditStates /\ q.pc = "seed" /\ q.default = Unsaid /\ Formed(q) /\ q.default # "seeded"
  BY <1>2, NoOpIs DEF EditStates, Places, Formed, Unsaid
<1>6. RowsTyped /\ AllCalm /\ (\A p \in Operators : Formed(op[p])) /\ KeptComes /\ (\A f \in flow : f.want => f.cancel)
  BY <1>1 DEF ConfigInv, Quiet
<1>7. \A p \in Operators : op'[p] = IF made /\ p = o THEN q ELSE op[p]
  BY <1>4, <1>6 DEF RowsTyped
<1>8. flow \subseteq FlowRows /\ OwnIds(flow) /\ edge \in [Links -> Nat]
  BY RowsThatStand
<1>9. \A g \in flow' : \E f \in flow : g = Repaired(f)
  BY <1>1
<1>10. RowsTyped'
  <2>1. OwnIds(flow)'
    <3> SUFFICES ASSUME NEW g \in flow', NEW h \in flow', g.id = h.id PROVE g = h
      BY DEF OwnIds
    <3>1. PICK f \in flow : g = Repaired(f)
      BY <1>9
    <3>2. PICK k \in flow : h = Repaired(k)
      BY <1>9
    <3> QED BY <1>8, <3>1, <3>2, RepairedIs DEF OwnIds
  <2>2. (flow \subseteq FlowRows)'
    <3>1. FlowRows' = FlowRows
      BY <1>1 DEF FlowRows
    <3> QED BY <1>8, <1>9, <3>1, RepairedIs
  <2>3. edge' \in [Links -> Nat]
    BY <1>1, <1>8
  <2>4. op' \in [Operators -> EditStates]
    BY <1>4, <1>5, <1>6 DEF RowsTyped
  <2>5. (own \subseteq StatusRows)' /\ OwnIds(own)'
    BY <1>1, RowsThatStand
  <2> QED BY <1>1, <1>6, <2>1, <2>2, <2>3, <2>4, <2>5 DEF RowsTyped
<1>11. \A p \in Operators : Formed(op[p])'
  BY <1>5, <1>6, <1>7 DEF Formed
<1>12. Quiet'
  <2>1. ASSUME ~made PROVE AllCalm'
    BY <1>4, <1>6, <2>1 DEF AllCalm, Calm
  <2>2. ASSUME made PROVE Seeds(op[o])'
    BY <1>5, <1>7, <2>2 DEF Seeds
  <2>3. ASSUME NEW g \in flow' PROVE g.want => g.cancel
    <3>1. PICK f \in flow : g = Repaired(f)
      BY <1>9
    <3>2. g.want = f.want /\ (f.cancel => g.cancel) /\ (f.want => f.cancel)
      BY <1>6, <1>8, <3>1, RepairedIs
    <3> QED BY <3>2, Zenon
  <2> QED BY <1>1, <2>1, <2>2, <2>3 DEF Quiet
<1>13. KeptComes'
  <2>1. OwnNames' = OwnNames
    BY <1>1 DEF OwnNames
  <2>2. ASSUME ~torn, NEW s \in kept \ OwnNames PROVE NobodyAdds'
    <3>1. own = {}
      BY <1>6, <2>2, AtRestHolds DEF KeptComes, NobodyAdds
    <3>2. \A p \in Operators : op'[p].pc \in {"idle", "seed"}
      BY <1>5, <1>6, <1>7, AtRestHolds
    <3> QED BY <1>1, <3>1, <3>2 DEF NobodyAdds
  <2> QED BY <1>1, <1>6, <2>1, <2>2 DEF KeptComes
<1>14. ASSUME tidy' PROVE Tidy'
  <2>1. tidy /\ OneDefault /\ NamesTell
    BY <1>1, <1>14 DEF ConfigInv, Tidy
  <2>2. \A p \in Operators : op'[p].pc \in {"idle", "seed"} /\ op'[p].default # "seeded"
    BY <1>5, <1>6, <1>7, AtRestHolds
  <2>3. FlowTurns'
    BY <1>6, <1>7, AtRestHolds DEF FlowTurns, Calm
  <2>4. EdgesLead'
    <3>1. Effective' = Effective
      BY <1>1 DEF Effective, OwnNames
    <3>2. \A e \in Links : edge'[e] > 0 => edge[e] > 0
      BY <1>1, <1>8
    <3> QED BY <1>1, <1>6, <2>1, <3>1, <3>2, AtRestHolds DEF EdgesLead
  <2>5. OneDefault'
    <3> SUFFICES ASSUME NEW g \in flow', NEW h \in flow', g.default, h.default PROVE g = h
      BY DEF OneDefault
    <3>1. PICK f \in flow : g = Repaired(f)
      BY <1>9
    <3>2. PICK k \in flow : h = Repaired(k)
      BY <1>9
    <3>3. g.default = f.default /\ h.default = k.default
      BY <1>8, <3>1, <3>2, RepairedIs
    <3>4. f = k
      BY <2>1, <3>3, Zenon DEF OneDefault
    <3> QED BY <3>1, <3>2, <3>4
  <2>6. NamesTell'
    <3> SUFFICES ASSUME NEW g \in flow', NEW h \in flow', g.name = h.name, g # h
                 PROVE  g.patched \/ h.patched
      BY DEF NamesTell
    <3>1. PICK f \in flow : g = Repaired(f)
      BY <1>9
    <3>2. PICK k \in flow : h = Repaired(k)
      BY <1>9
    <3>3. g.patched = f.patched /\ h.patched = k.patched /\ g.name = f.name /\ h.name = k.name
      BY <1>8, <3>1, <3>2, RepairedIs
    <3>4. f # k /\ f.name = k.name
      BY <3>1, <3>2, <3>3
    <3> QED BY <2>1, <3>3, <3>4, Zenon DEF NamesTell
  <2> QED BY <2>2, <2>3, <2>4, <2>5, <2>6, RestKnows
<1> QED BY <1>10, <1>11, <1>12, <1>13, <1>14 DEF ConfigInv

LEMMA ConfigInitHolds ==
  ASSUME ConfigInit
  PROVE  ConfigInv
<1>1. /\ up = "down" /\ made \in BOOLEAN /\ own = {} /\ lastOwn = 0 /\ edge = [e \in Links |-> 0] /\ flow = {}
      /\ lastFlow = 0 /\ at = "both" /\ op = [o \in Operators |-> NoOp] /\ changed = 0
      /\ kept = ToSet(Globals) /\ loose = {} /\ torn = FALSE /\ tidy = TRUE
  BY DEF ConfigInit
<1>2. \A p \in Operators : op[p] = NoOp
  BY <1>1
<1>3. RowsTyped
  <2>1. changed \in 0..Changes
    BY <1>1, WorkflowConfigAssumption
  <2>2. at \in ToSet(Globals) /\ kept \subseteq Listed
    BY <1>1, NamesThere DEF Listed
  <2>3. op \in [Operators -> EditStates] /\ edge \in [Links -> Nat]
    BY <1>1, NoOpIs
  <2> QED BY <1>1, <2>1, <2>2, <2>3 DEF RowsTyped, OwnIds
<1>4. \A p \in Operators : Formed(op[p])
  BY <1>2, NoOpIs
<1>5. Quiet
  BY <1>1, <1>2, NoOpIs DEF Quiet, AllCalm, Calm
<1>6. KeptComes
  BY <1>1, <1>2, NoOpIs DEF KeptComes, NobodyAdds
<1>7. Tidy
  BY <1>1, <1>2, NoOpIs DEF Tidy, FlowTurns, Calm, EdgesLead, OneDefault, NamesTell, KnowsEdges, KnowsStatuses, KnowsFlows,
     Unsaid
<1> QED BY <1>3, <1>4, <1>5, <1>6, <1>7 DEF ConfigInv

LEMMA ConfigNextKeeps ==
  ASSUME ConfigInv, [ConfigNext]_configVars
  PROVE  ConfigInv'
<1>1. CASE UNCHANGED configVars
  <2>1. /\ up' = up /\ made' = made /\ own' = own /\ lastOwn' = lastOwn /\ edge' = edge /\ flow' = flow
        /\ lastFlow' = lastFlow /\ at' = at /\ op' = op /\ changed' = changed /\ kept' = kept /\ loose' = loose
        /\ torn' = torn /\ tidy' = tidy
    BY <1>1 DEF configVars
  <2>2. RowsTyped'
    BY <2>1 DEF ConfigInv, RowsTyped, StatusRows, FlowRows, OwnIds
  <2>3. (\A p \in Operators : Formed(op[p])') /\ Quiet'
    BY <2>1 DEF ConfigInv, Formed, Quiet, AllCalm, Calm, Seeds
  <2>4. KeptComes'
    BY <2>1 DEF ConfigInv, KeptComes, OwnNames, NobodyAdds, Coming, In
  <2>5. Tidy => Tidy'
    BY <2>1 DEF Tidy, FlowTurns, Calm, EdgesLead, OneDefault, NamesTell, KnowsEdges, KnowsStatuses, KnowsFlows,
       Effective, OwnNames, Coming, In, EdgesWithin, Resolves
  <2> QED BY <2>1, <2>2, <2>3, <2>4, <2>5 DEF ConfigInv
<1>2. ASSUME NEW o \in Operators,
             \/ MakeProject(o) \/ Seed(o) \/ SeedStatuses(o) \/ PostStatus(o) \/ NewStatus(o) \/ Copy(o) \/ Look(o)
             \/ ApplyTemplate(o) \/ PostWorkflow(o) \/ LookAtEdge(o) \/ AddEdge(o) \/ PostEdge(o) \/ LookForDup(o)
      PROVE  ConfigInv'
  BY <1>2, MakeProjectKeeps, SeedKeeps, SeedStatusesKeeps, PostStatusKeeps, NewStatusKeeps, CopyKeeps, LookKeeps,
     ApplyTemplateKeeps, PostWorkflowKeeps, LookAtEdgeKeeps, AddEdgeKeeps, PostEdgeKeeps, LookForDupKeeps
<1>3. ASSUME NEW o \in Operators,
             \/ ClearDefaults(o) \/ FindFlow(o) \/ WriteFlow(o) \/ InsertFlow(o) \/ PatchFlow(o) \/ DeleteFlow(o)
             \/ DeleteEdge(o) \/ RenameStatus(o) \/ DeleteStatus(o) \/ LookForIssues(o) \/ Unlink(o) \/ RemoveStatus(o)
      PROVE  ConfigInv'
  BY <1>3, ClearDefaultsKeeps, FindFlowKeeps, WriteFlowKeeps, InsertFlowKeeps, PatchFlowKeeps, DeleteFlowKeeps,
     DeleteEdgeKeeps, RenameStatusKeeps, DeleteStatusKeeps, LookForIssuesKeeps, UnlinkKeeps, RemoveStatusKeeps
<1>4. CASE MoveIssues \/ Stop \/ Boot \/ Listen
  BY <1>4, MoveIssuesKeeps, StopKeeps, BootKeeps, ListenKeeps
<1> QED BY <1>1, <1>2, <1>3, <1>4 DEF ConfigNext

\* The invariant of the workflow's configuration: what each request in progress
\* of issueConfig.js, workflowTransitions.js, workflowDefinitions.js or
\* workflowSeed.js may rely on at its place.
THEOREM ConfigInvariant == ConfigSpec => []ConfigInv
<1>1. ConfigInit => ConfigInv
  BY ConfigInitHolds
<1>2. ConfigInv /\ [ConfigNext]_configVars => ConfigInv'
  BY ConfigNextKeeps
<1> QED BY <1>1, <1>2, PTL DEF ConfigSpec

\* The rows of statuses, transitions and workflows have their types.
THEOREM ConfigTypes == ConfigSpec => []ConfigTypeOK
<1>1. ASSUME ConfigInv PROVE ConfigTypeOK
  <2>1. RowsTyped
    BY <1>1 DEF ConfigInv
  <2>2. at \in Listed
    BY <2>1, NamesThere DEF RowsTyped, Listed
  <2>3. \A s \in own : s.id \in 1..lastOwn /\ s.name \in Listed
    BY <2>1 DEF RowsTyped, StatusRows
  <2>4. \A f \in flow : f.id \in 1..lastFlow /\ f.name \in Titles /\ {f.default, f.cancel, f.want, f.patched} \subseteq BOOLEAN
    <3> SUFFICES ASSUME NEW f \in flow
                 PROVE  f.id \in 1..lastFlow /\ f.name \in Titles /\ {f.default, f.cancel, f.want, f.patched} \subseteq BOOLEAN
      OBVIOUS
    <3>1. f \in FlowRows
      BY <2>1 DEF RowsTyped
    <3>2. f.id \in 1..lastFlow /\ f.name \in Titles
      BY <3>1 DEF FlowRows
    <3>3. f.default \in BOOLEAN /\ f.cancel \in BOOLEAN /\ f.want \in BOOLEAN /\ f.patched \in BOOLEAN
      BY <3>1 DEF FlowRows
    <3> QED BY <3>2, <3>3, Zenon
  <2> QED BY <2>1, <2>2, <2>3, <2>4 DEF ConfigTypeOK, RowsTyped
<1> QED BY <1>1, ConfigInvariant, PTL

\* What a project shows goes on being shown unless it is deleted or renamed,
\* transitions lead to what is shown, and there is one default workflow
\* (issueConfig.js:176, workflowDefinitions.js:109, workflowSeed.js:28): the
\* property that the run of the records checks.
THEOREM ConfigStaysSound == ConfigSpec => []ConfigSound
<1>1. ASSUME ConfigInv PROVE ConfigSound
  <2>1. NothingVanishes
    BY <1>1, AtRestHolds DEF NothingVanishes, AtRest
  <2>2. EdgesResolve
    BY <1>1, AtRestHolds DEF EdgesResolve, AtRest, Resolves
  <2>3. ASSUME tidy
        PROVE  /\ Cardinality({f \in flow : f.default}) <= 1
               /\ \A f, g \in flow : f.name = g.name /\ f # g => f.patched \/ g.patched
    <3>1. OneDefault /\ NamesTell
      BY <1>1, <2>3 DEF ConfigInv, Tidy
    <3>2. \A f, g \in {h \in flow : h.default} : f = g
      BY <3>1, Zenon DEF OneDefault
    <3> QED BY <3>1, <3>2, AtMostOne DEF NamesTell
  <2>4. \A f \in flow : f.want => f.cancel
    BY <1>1 DEF ConfigInv, Quiet
  <2>5. up = "boot" /\ AllCalm /\ made => flow # {}
    BY <1>1, AtRestHolds DEF ConfigInv, Quiet, Seeds
  <2> QED BY <2>1, <2>2, <2>3, <2>4, <2>5 DEF ConfigSound, FlowsHold
<1> QED BY <1>1, ConfigInvariant, PTL

-----------------------------------------------------------------------------
(***************************************************************************)
(* Reports (FlowReports).  First sums, as MapThenSumSet takes them: over a *)
(* function, and what one more element or one larger term adds.            *)
(***************************************************************************)
Total(h, S) == MapThenSumSet(LAMBDA x : h[x], S)

LEMMA TotalIsSum ==
  ASSUME NEW h, NEW S, IsFiniteSet(S)
  PROVE  \E g : Adds(h, S, g) /\ Total(h, S) = g[S]
<1> DEFINE R(g) == g = [s \in SUBSET S |-> IF s = {} THEN 0 ELSE h[AnyOf(s)] + g[s \ {AnyOf(s)}]]
           iter == CHOOSE g : R(g)
<1>1. Total(h, S) = iter[S]
  BY Zenon DEF Total, MapThenSumSet, MapThenFoldSet, AnyOf
<1>2. \A g : R(g) <=> Adds(h, S, g)
  BY DEF Adds, SumOver
<1> HIDE DEF R
<1>3. R(iter)
  <2>1. PICK g : Adds(h, S, g)
    BY SumExists
  <2> QED BY <1>2, <2>1
<1> QED BY <1>1, <1>2, <1>3

LEMMA TotalTyped ==
  ASSUME NEW h, NEW S, IsFiniteSet(S), \A x \in S : h[x] \in Nat
  PROVE  Total(h, S) \in Nat
<1>1. PICK g : Adds(h, S, g) /\ Total(h, S) = g[S]
  BY TotalIsSum
<1> QED BY <1>1, SumTyped

\* A sum goes by the terms.
LEMMA TotalSame ==
  ASSUME NEW h, NEW k, NEW S, IsFiniteSet(S), \A x \in S : h[x] = k[x]
  PROVE  Total(h, S) = Total(k, S)
<1>1. PICK f : Adds(h, S, f) /\ Total(h, S) = f[S]
  BY TotalIsSum
<1>2. PICK g : Adds(k, S, g) /\ Total(k, S) = g[S]
  BY TotalIsSum
<1> QED BY <1>1, <1>2, SumSame

LEMMA TotalOfNone == ASSUME NEW h PROVE Total(h, {}) = 0
<1>1. PICK g : Adds(h, {}, g) /\ Total(h, {}) = g[{}]
  BY TotalIsSum, FS_EmptySet
<1> QED BY <1>1, SumRule

LEMMA TotalSplit ==
  ASSUME NEW h, NEW S, IsFiniteSet(S), \A x \in S : h[x] \in Nat, NEW z \in S
  PROVE  Total(h, S) = h[z] + Total(h, S \ {z}) /\ Total(h, S \ {z}) \in Nat
<1>1. PICK g : Adds(h, S, g) /\ Total(h, S) = g[S]
  BY TotalIsSum
<1>2. IsFiniteSet(S \ {z})
  BY FS_Subset
<1>3. PICK f : Adds(h, S \ {z}, f) /\ Total(h, S \ {z}) = f[S \ {z}]
  BY <1>2, TotalIsSum
<1>4. f[S \ {z}] = g[S \ {z}]
  BY <1>1, <1>2, <1>3, SumSame
<1>5. g[S] = h[z] + g[S \ {z}]
  BY <1>1, SumWithout
<1>6. Total(h, S \ {z}) \in Nat
  BY <1>2, TotalTyped
<1> QED BY <1>1, <1>3, <1>4, <1>5, <1>6

\* A larger term makes the sum larger by as much.
LEMMA TotalUp ==
  ASSUME NEW h, NEW k, NEW S, IsFiniteSet(S), NEW z \in S, NEW d \in Nat,
         \A x \in S : h[x] \in Nat, \A x \in S \ {z} : k[x] = h[x], k[z] = h[z] + d
  PROVE  Total(k, S) = Total(h, S) + d
<1>1. \A x \in S : k[x] \in Nat
  OBVIOUS
<1>2. Total(h, S) = h[z] + Total(h, S \ {z}) /\ Total(h, S \ {z}) \in Nat
  BY TotalSplit
<1>3. Total(k, S) = k[z] + Total(k, S \ {z})
  BY <1>1, TotalSplit
<1>4. IsFiniteSet(S \ {z})
  BY FS_Subset
<1>5. Total(k, S \ {z}) = Total(h, S \ {z})
  BY <1>4, TotalSame
<1>6. h[z] \in Nat
  OBVIOUS
<1> QED BY <1>2, <1>3, <1>5, <1>6

\* Terms of nothing add nothing.
LEMMA TotalOfZeros ==
  ASSUME NEW S, IsFiniteSet(S), NEW h, \A x \in S : h[x] = 0
  PROVE  Total(h, S) = 0
<1>1. PICK g : Adds(h, S, g) /\ Total(h, S) = g[S]
  BY TotalIsSum
<1> DEFINE Bad == {s \in SUBSET S : g[s] # 0}
<1> SUFFICES ASSUME Bad # {} PROVE FALSE
  BY <1>1
<1>2. PICK s \in Bad : \A x \in s : s \ {x} \notin Bad
  <2>1. Bad \subseteq SUBSET S
    OBVIOUS
  <2> HIDE DEF Bad
  <2> QED BY <2>1, SmallestSet
<1>3. s # {}
  BY <1>1, <1>2, SumRule
<1>4. AnyOf(s) \in s /\ s \ {AnyOf(s)} \in SUBSET S /\ g[s] = h[AnyOf(s)] + g[s \ {AnyOf(s)}]
  BY <1>1, <1>2, <1>3, SumRule
<1>5. g[s \ {AnyOf(s)}] = 0 /\ h[AnyOf(s)] = 0
  BY <1>2, <1>4
<1> QED BY <1>2, <1>4, <1>5

\* The least and the greatest of some numbers, as Min and Max give them.
LEMMA MinOf ==
  ASSUME NEW S, S \subseteq Nat, S # {}
  PROVE  Min(S) \in S /\ \A n \in S : Min(S) <= n
<1>1. \E m \in S : \A n \in S : m <= n
  BY LeastOf
<1> QED BY <1>1 DEF Min

LEMMA MaxOf ==
  ASSUME NEW S, S \subseteq Nat, S # {}, NEW b \in Nat, \A n \in S : n <= b
  PROVE  Max(S) \in S /\ \A n \in S : n <= Max(S)
<1>1. \E m \in S : \A n \in S : n <= m
  BY GreatestOf
<1>2. \E m \in S : \A n \in S : m >= n
  BY <1>1
<1> QED BY <1>2 DEF Max

LEMMA MaxIs ==
  ASSUME NEW S, S \subseteq Nat, NEW m \in S, \A n \in S : n <= m
  PROVE  Max(S) = m
<1>1. m \in Nat
  OBVIOUS
<1>2. Max(S) \in S /\ \A n \in S : n <= Max(S)
  BY <1>1, MaxOf
<1>3. PICK x : x = Max(S)
  OBVIOUS
<1>4. x \in Nat /\ x <= m /\ m <= x
  BY <1>2, <1>3
<1> QED BY <1>1, <1>3, <1>4

LEMMA MinIs ==
  ASSUME NEW S, S \subseteq Nat, NEW m \in S, \A n \in S : m <= n
  PROVE  Min(S) = m
<1>1. m \in Nat
  OBVIOUS
<1>2. Min(S) \in S /\ \A n \in S : Min(S) <= n
  BY MinOf
<1>3. PICK x : x = Min(S)
  OBVIOUS
<1>4. x \in Nat /\ x <= m /\ m <= x
  BY <1>2, <1>3
<1> QED BY <1>1, <1>3, <1>4

(***************************************************************************)
(* What an issue went through, and what its trail tells: sequences whose   *)
(* moments never fall, none of them after now.                             *)
(***************************************************************************)
LifeRows == [status : Stages, at : Nat]
ChangeRows == [from : Stages, to : Stages, at : Nat]
Rising(c, now) ==
  /\ \A k \in DOMAIN c : c[k].at \in Nat /\ c[k].at <= now
  /\ \A j, k \in DOMAIN c : j <= k => c[j].at <= c[k].at

\* The status at an instant, the instants spent in a status, and what the trail makes of them.
StageIn(l, t) == l[Max({k \in DOMAIN l : l[k].at <= t})].status
Spent(l, now, s) == {t \in l[1].at..(now - 1) : StageIn(l, t) = s}
Stays(c, now) == [k \in DOMAIN c |-> (IF k < Len(c) THEN c[k+1].at ELSE now) - c[k].at]
TimeOf(c, since, now, s) ==
  (IF c[1].from = s THEN c[1].at - since ELSE 0) + Total(Stays(c, now), entered(c, s))

\* The facts of the constants that need no name of a status.
LEMMA ReportConstants ==
  /\ IsFiniteSet(Stages) /\ "Done" \in Stages
  /\ DayLength \in Nat \ {0} /\ LastInstant \in Nat /\ MaxCaseMoves \in Nat
BY FlowReportsAssumption, Zenon

LEMMA FirstAndLast ==
  ASSUME NEW R, NEW l \in Seq(R), l # <<>>
  PROVE  /\ Len(l) \in Nat /\ Len(l) # 0 /\ DOMAIN l = 1..Len(l)
         /\ 1 \in DOMAIN l /\ Len(l) \in DOMAIN l /\ l[1] \in R /\ l[Len(l)] \in R
<1>1. Len(l) \in Nat /\ DOMAIN l = 1..Len(l) /\ Len(l) # 0
  BY LenProperties, EmptySeq
<1>2. 1 \in DOMAIN l /\ Len(l) \in DOMAIN l
  BY <1>1
<1> QED BY <1>1, <1>2, LenProperties

LEMMA FirstMoment == ASSUME NEW l \in Seq(LifeRows), l # <<>> PROVE l[1].at \in Nat /\ l[1].status \in Stages
<1>1. l[1] \in LifeRows
  BY FirstAndLast
<1> QED BY <1>1 DEF LifeRows

\* One more row at the end.
LEMMA RowAdded ==
  ASSUME NEW R, NEW c \in Seq(R), NEW e \in R, NEW d, d = Append(c, e)
  PROVE  /\ d \in Seq(R) /\ d # <<>> /\ Len(c) \in Nat /\ Len(d) = Len(c) + 1
         /\ DOMAIN c = 1..Len(c) /\ DOMAIN d = 1..(Len(c) + 1)
         /\ \A k \in 1..Len(c) : d[k] = c[k] /\ c[k] \in R
         /\ d[Len(c) + 1] = e
BY AppendProperties, LenProperties

LEMMA RisingAdded ==
  ASSUME NEW R, NEW c \in Seq(R), NEW e \in R, NEW d, d = Append(c, e),
         NEW now \in Nat, Rising(c, now), e.at = now
  PROVE  Rising(d, now)
<1>1. /\ Len(c) \in Nat /\ DOMAIN c = 1..Len(c) /\ DOMAIN d = 1..(Len(c) + 1)
      /\ \A k \in 1..Len(c) : d[k] = c[k]
      /\ d[Len(c) + 1] = e
  BY RowAdded
<1>2. PICK n \in Nat : n = Len(c)
  BY <1>1
<1>3. \A k \in 1..n : d[k].at \in Nat /\ d[k].at <= now
  BY <1>1, <1>2 DEF Rising
<1>4. \A k \in DOMAIN d : d[k].at \in Nat /\ d[k].at <= now
  BY <1>1, <1>2, <1>3
<1>5. ASSUME NEW j \in DOMAIN d, NEW k \in DOMAIN d, j <= k PROVE d[j].at <= d[k].at
  <2>1. CASE k = n + 1
    BY <1>1, <1>2, <1>4, <2>1
  <2>2. CASE k \in 1..n
    BY <1>1, <1>2, <1>5, <2>2 DEF Rising
  <2> QED BY <1>1, <1>2, <2>1, <2>2
<1> QED BY <1>4, <1>5 DEF Rising

LEMMA RisingLater ==
  ASSUME NEW c, NEW now \in Nat, NEW then \in Nat, now <= then, Rising(c, now)
  PROVE  Rising(c, then)
BY DEF Rising

\* Which rows are not later than an instant: those up to the last of them.
LEMMA LastBefore ==
  ASSUME NEW R, NEW l \in Seq(R), NEW now \in Nat, Rising(l, now), NEW t \in Int,
         l # <<>>, l[1].at <= t
  PROVE  LET K == {k \in DOMAIN l : l[k].at <= t}
         IN  Max(K) \in DOMAIN l /\ l[Max(K)].at <= t /\ \A k \in K : k <= Max(K)
<1>1. Len(l) \in Nat /\ DOMAIN l = 1..Len(l) /\ Len(l) # 0
  BY LenProperties, EmptySeq
<1> DEFINE K == {k \in DOMAIN l : l[k].at <= t}
<1>2. K \subseteq Nat /\ K # {} /\ \A k \in K : k <= Len(l)
  BY <1>1
<1>3. Max(K) \in K /\ \A k \in K : k <= Max(K)
  BY <1>1, <1>2, MaxOf
<1> QED BY <1>3

\* The status at an instant does not change with what comes later.
LEMMA StageStays ==
  ASSUME NEW l \in Seq(LifeRows), NEW now \in Nat, Rising(l, now), l # <<>>, NEW e \in LifeRows, e.at = now,
         NEW d, d = Append(l, e), NEW t \in Int, l[1].at <= t, t < now
  PROVE  StageIn(d, t) = StageIn(l, t)
<1>1. /\ Len(l) \in Nat /\ DOMAIN l = 1..Len(l) /\ DOMAIN d = 1..(Len(l) + 1)
      /\ \A k \in 1..Len(l) : d[k] = l[k]
      /\ d[Len(l) + 1] = e
  BY RowAdded
<1> DEFINE K == {k \in DOMAIN l : l[k].at <= t}
<1>2. {k \in DOMAIN d : d[k].at <= t} = K
  <2>1. PICK n \in Nat : n = Len(l)
    BY <1>1
  <2>2. ~(d[n + 1].at <= t)
    BY <1>1, <2>1
  <2> QED BY <1>1, <2>1, <2>2
<1>3. Max(K) \in DOMAIN l
  BY LastBefore
<1> HIDE DEF K
<1> QED BY <1>1, <1>2, <1>3 DEF StageIn, K

\* From the last row on it is the status of that row.
LEMMA StageLast ==
  ASSUME NEW l \in Seq(LifeRows), NEW now \in Nat, Rising(l, now), l # <<>>, NEW t \in Int, l[Len(l)].at <= t
  PROVE  StageIn(l, t) = l[Len(l)].status
<1>1. Len(l) \in Nat /\ DOMAIN l = 1..Len(l) /\ Len(l) # 0
  BY LenProperties, EmptySeq
<1> DEFINE K == {k \in DOMAIN l : l[k].at <= t}
<1>2. K \subseteq Nat /\ Len(l) \in K /\ \A k \in K : k <= Len(l)
  BY <1>1
<1>3. Max(K) = Len(l)
  BY <1>2, MaxIs
<1> QED BY <1>3 DEF StageIn

\* What has been spent is finite, and grows by the instant that passes.
LEMMA SpentFinite ==
  ASSUME NEW l \in Seq(LifeRows), l # <<>>, NEW now \in Nat, NEW s
  PROVE  IsFiniteSet(Spent(l, now, s)) /\ Cardinality(Spent(l, now, s)) \in Nat
<1>1. l[1].at \in Nat
  BY FirstMoment
<1>2. IsFiniteSet(l[1].at..(now - 1))
  <2>1. \A a \in Int, b \in Int : IsFiniteSet(a..b)
    BY FS_Interval
  <2>2. now - 1 \in Int
    OBVIOUS
  <2> QED BY <1>1, <2>1, <2>2
<1>3. Spent(l, now, s) \in SUBSET (l[1].at..(now - 1))
  BY DEF Spent
<1> QED BY <1>2, <1>3, FS_Subset, FS_CardinalityType

LEMMA SpentPasses ==
  ASSUME NEW l \in Seq(LifeRows), l # <<>>, NEW now \in Nat, Rising(l, now), NEW s
  PROVE  Cardinality(Spent(l, now + 1, s))
         = Cardinality(Spent(l, now, s)) + (IF l[Len(l)].status = s THEN 1 ELSE 0)
<1>1. Len(l) \in Nat /\ DOMAIN l = 1..Len(l) /\ Len(l) # 0
  BY LenProperties, EmptySeq
<1>2. l[1].at \in Nat /\ l[1].at <= now /\ l[Len(l)].at <= now
  BY <1>1 DEF Rising
<1>3. StageIn(l, now) = l[Len(l)].status
  BY <1>2, StageLast
<1>4. IsFiniteSet(Spent(l, now, s)) /\ Cardinality(Spent(l, now, s)) \in Nat
  BY SpentFinite
<1>5. now \notin Spent(l, now, s)
  BY <1>2 DEF Spent
<1>6. l[1].at..((now + 1) - 1) = (l[1].at..(now - 1)) \cup {now}
  BY <1>2
<1>7. CASE l[Len(l)].status = s
  <2>1. Spent(l, now + 1, s) = Spent(l, now, s) \cup {now}
    BY <1>3, <1>6, <1>7 DEF Spent
  <2> QED BY <1>4, <1>5, <1>7, <2>1, FS_AddElement
<1>8. CASE l[Len(l)].status # s
  <2>1. Spent(l, now + 1, s) = Spent(l, now, s)
    BY <1>3, <1>6, <1>8 DEF Spent
  <2> QED BY <1>4, <1>8, <2>1
<1> QED BY <1>7, <1>8

\* Another status, entered now.
Enters(l, now, e, d) == e \in LifeRows /\ e.at = now /\ d = Append(l, e)

LEMMA SpentStays ==
  ASSUME NEW l \in Seq(LifeRows), NEW now \in Nat, Rising(l, now), l # <<>>, NEW e, NEW d, Enters(l, now, e, d), NEW s
  PROVE  Spent(d, now, s) = Spent(l, now, s)
<1> USE DEF Enters
<1>1. Len(l) \in Nat /\ Len(l) # 0 /\ d[1] = l[1]
  BY LenProperties, EmptySeq, RowAdded
<1>2. l[1].at \in Nat
  BY FirstMoment
<1>3. ASSUME NEW t \in l[1].at..(now - 1) PROVE StageIn(d, t) = StageIn(l, t)
  <2>1. t \in Int /\ l[1].at <= t /\ t < now
    BY <1>2
  <2> QED BY <2>1, StageStays
<1> QED BY <1>1, <1>3 DEF Spent

(***************************************************************************)
(* The time in a status as the trail tells it: every change stays until    *)
(* the next one, and the last one until now.                               *)
(***************************************************************************)
LEMMA StaysTyped ==
  ASSUME NEW c \in Seq(ChangeRows), NEW now \in Nat, Rising(c, now)
  PROVE  /\ Len(c) \in Nat /\ DOMAIN c = 1..Len(c) /\ IsFiniteSet(DOMAIN c)
         /\ \A k \in DOMAIN c : Stays(c, now)[k] \in Nat
         /\ \A s : IsFiniteSet(entered(c, s)) /\ entered(c, s) \subseteq DOMAIN c
<1>1. Len(c) \in Nat /\ DOMAIN c = 1..Len(c)
  BY LenProperties
<1>2. IsFiniteSet(DOMAIN c)
  BY <1>1, FS_Interval
<1>3. ASSUME NEW k \in DOMAIN c PROVE Stays(c, now)[k] \in Nat
  <2>1. c[k].at \in Nat /\ c[k].at <= now
    BY DEF Rising
  <2>2. CASE k < Len(c)
    <3>1. k + 1 \in DOMAIN c /\ k <= k + 1
      BY <1>1, <2>2
    <3>2. c[k+1].at \in Nat /\ c[k].at <= c[k+1].at
      BY <3>1 DEF Rising
    <3> QED BY <2>1, <2>2, <3>2 DEF Stays
  <2>3. CASE ~(k < Len(c))
    BY <2>1, <2>3 DEF Stays
  <2> QED BY <2>2, <2>3
<1>4. ASSUME NEW s PROVE IsFiniteSet(entered(c, s)) /\ entered(c, s) \subseteq DOMAIN c
  <2>1. entered(c, s) \in SUBSET DOMAIN c
    BY DEF entered
  <2> QED BY <1>2, <2>1, FS_Subset
<1> QED BY <1>1, <1>2, <1>3, <1>4

LEMMA TimeTyped ==
  ASSUME NEW c \in Seq(ChangeRows), c # <<>>, NEW now \in Nat, Rising(c, now),
         NEW since \in Nat, since <= c[1].at, NEW s
  PROVE  TimeOf(c, since, now, s) \in Nat
<1>1. Total(Stays(c, now), entered(c, s)) \in Nat
  BY StaysTyped, TotalTyped
<1>2. c[1].at \in Nat
  BY FirstAndLast DEF Rising
<1> QED BY <1>1, <1>2 DEF TimeOf

\* As an instant passes, the status entered last grows by it, and no other.
LEMMA TimePasses ==
  ASSUME NEW c \in Seq(ChangeRows), c # <<>>, NEW now \in Nat, Rising(c, now),
         NEW since \in Nat, since <= c[1].at, NEW s
  PROVE  TimeOf(c, since, now + 1, s) = TimeOf(c, since, now, s) + (IF c[Len(c)].to = s THEN 1 ELSE 0)
<1> DEFINE n == Len(c)
           E == entered(c, s)
           h == Stays(c, now)
           k == Stays(c, now + 1)
<1>1. /\ n \in Nat /\ n # 0 /\ DOMAIN c = 1..n /\ n \in DOMAIN c /\ 1 \in DOMAIN c
  BY FirstAndLast
<1>2. IsFiniteSet(E) /\ E \subseteq DOMAIN c /\ \A x \in E : h[x] \in Nat
  BY StaysTyped
<1>3. \A x \in DOMAIN c : x # n => k[x] = h[x]
  BY <1>1 DEF Stays
<1>4. k[n] = h[n] + 1
  <2>1. h[n] = now - c[n].at /\ k[n] = (now + 1) - c[n].at
    BY <1>1 DEF Stays
  <2>2. c[n].at \in Nat
    BY <1>1 DEF Rising
  <2> QED BY <2>1, <2>2
<1>5. n \in E <=> c[n].to = s
  BY <1>1 DEF entered
<1>6. Total(h, E) \in Nat /\ c[1].at \in Nat
  BY <1>1, <1>2, TotalTyped DEF Rising
<1>7. Total(k, E) = Total(h, E) + (IF c[n].to = s THEN 1 ELSE 0)
  <2> HIDE DEF h, k, E, n
  <2>1. CASE n \in E
    <3>1. Total(k, E) = Total(h, E) + 1
      BY <1>2, <1>3, <1>4, <2>1, TotalUp
    <3> QED BY <1>5, <2>1, <3>1
  <2>2. CASE n \notin E
    <3>1. Total(k, E) = Total(h, E)
      BY <1>2, <1>3, <2>2, TotalSame
    <3> QED BY <1>5, <1>6, <2>2, <3>1
  <2> QED BY <2>1, <2>2
<1> QED BY <1>6, <1>7 DEF TimeOf

\* A change that is recorded now adds nothing yet.
RecordedOnce(c, now, e, d) ==
  /\ c \in Seq(ChangeRows) /\ c # <<>> /\ now \in Nat /\ Rising(c, now)
  /\ e \in ChangeRows /\ e.at = now /\ d = Append(c, e)

LEMMA TimeStays ==
  ASSUME NEW c, NEW now, NEW e, NEW d, RecordedOnce(c, now, e, d), NEW since \in Nat, NEW s
  PROVE  TimeOf(d, since, now, s) = TimeOf(c, since, now, s)
<1> DEFINE n == Len(c)
           E == entered(c, s)
           F == entered(d, s)
           h == Stays(c, now)
           k == Stays(d, now)
<1> USE DEF RecordedOnce
<1>1. /\ n \in Nat /\ n # 0 /\ DOMAIN c = 1..n /\ 1 \in DOMAIN c
      /\ d \in Seq(ChangeRows) /\ Len(d) = n + 1 /\ DOMAIN d = 1..(n + 1)
      /\ \A x \in 1..n : d[x] = c[x]
      /\ d[n + 1] = e
  BY FirstAndLast, RowAdded
<1>2. Rising(d, now)
  BY RisingAdded
<1>3. /\ IsFiniteSet(E) /\ E \subseteq DOMAIN c /\ IsFiniteSet(F) /\ F \subseteq DOMAIN d
      /\ \A x \in DOMAIN d : k[x] \in Nat
  BY <1>1, <1>2, StaysTyped
<1>4. \A x \in DOMAIN c : k[x] = h[x]
  <2>1. \A x \in DOMAIN c : x < n => k[x] = h[x]
    BY <1>1 DEF Stays
  <2>2. k[n] = h[n]
    BY <1>1 DEF Stays
  <2> QED BY <1>1, <2>1, <2>2
<1>5. k[n + 1] = 0
  <2>1. k[n + 1] = now - e.at
    BY <1>1 DEF Stays
  <2> QED BY <2>1
<1>6. F \ {n + 1} = E
  BY <1>1 DEF entered
<1>7. Total(k, E) = Total(h, E)
  <2> HIDE DEF h, k, E
  <2> QED BY <1>3, <1>4, TotalSame
<1>8. Total(k, F) = Total(k, E)
  <2> HIDE DEF h, k, E, F
  <2>1. CASE n + 1 \in F
    <3>1. \A x \in F : k[x] \in Nat
      BY <1>3
    <3>2. Total(k, F) = k[n + 1] + Total(k, F \ {n + 1}) /\ Total(k, F \ {n + 1}) \in Nat
      BY <1>3, <2>1, <3>1, TotalSplit
    <3>3. PICK a : a = Total(k, E)
      OBVIOUS
    <3>4. Total(k, F) = 0 + a /\ a \in Nat
      BY <1>5, <1>6, <3>2, <3>3
    <3> QED BY <3>3, <3>4
  <2>2. CASE n + 1 \notin F
    <3>1. F = E
      BY <1>6, <2>2
    <3> QED BY <3>1
  <2> QED BY <2>1, <2>2
<1>9. d[1] = c[1]
  BY <1>1
<1> QED BY <1>7, <1>8, <1>9 DEF TimeOf

\* The first change tells of the status before it.
LEMMA TimeBegins ==
  ASSUME NEW now \in Nat, NEW e \in ChangeRows, e.at = now, NEW d, d = Append(<<>>, e), NEW since \in Nat, NEW s
  PROVE  /\ TimeOf(d, since, now, s) = IF e.from = s THEN now - since ELSE 0
         /\ d # <<>> /\ Len(d) = 1 /\ d[1] = e /\ d \in Seq(ChangeRows)
<1>1. <<>> \in Seq(ChangeRows) /\ Len(<<>>) = 0
  BY EmptySeq
<1>2. d \in Seq(ChangeRows) /\ d # <<>> /\ Len(d) = 1 /\ DOMAIN d = 1..1 /\ d[1] = e
  BY <1>1, AppendProperties, LenProperties
<1>3. Stays(d, now)[1] = 0
  <2>1. Stays(d, now)[1] = now - e.at
    BY <1>2 DEF Stays
  <2> QED BY <2>1
<1>4. entered(d, s) \subseteq {1}
  BY <1>2 DEF entered
<1>5. Total(Stays(d, now), entered(d, s)) = 0
  <2>1. IsFiniteSet(entered(d, s))
    BY <1>4, FS_Singleton, FS_Subset
  <2> QED BY <1>3, <1>4, <2>1, TotalOfZeros
<1> QED BY <1>2, <1>5 DEF TimeOf

\* The times of all statuses, together.
TimesOf(c, since, now) == [s \in Stages |-> TimeOf(c, since, now, s)]

LEMMA TimesPass ==
  ASSUME NEW c \in Seq(ChangeRows), c # <<>>, NEW now \in Nat, Rising(c, now), NEW since \in Nat, since <= c[1].at
  PROVE  Total(TimesOf(c, since, now + 1), Stages) = Total(TimesOf(c, since, now), Stages) + 1
<1> DEFINE z == c[Len(c)].to
           h == TimesOf(c, since, now)
           k == TimesOf(c, since, now + 1)
<1>1. z \in Stages
  <2>1. c[Len(c)] \in ChangeRows
    BY FirstAndLast
  <2> QED BY <2>1 DEF ChangeRows
<1>2. \A s \in Stages : h[s] \in Nat
  BY TimeTyped DEF TimesOf
<1>3. \A s \in Stages : k[s] = h[s] + (IF z = s THEN 1 ELSE 0)
  BY TimePasses DEF TimesOf
<1>4. k[z] = h[z] + 1
  BY <1>1, <1>3
<1>5. \A s \in Stages \ {z} : k[s] = h[s]
  BY <1>2, <1>3
<1> HIDE DEF h, k, z
<1> QED BY <1>1, <1>2, <1>4, <1>5, ReportConstants, TotalUp DEF h, k

LEMMA TimesStay ==
  ASSUME NEW c, NEW now, NEW e, NEW d, RecordedOnce(c, now, e, d), NEW since \in Nat
  PROVE  Total(TimesOf(d, since, now), Stages) = Total(TimesOf(c, since, now), Stages)
<1>1. \A s \in Stages : TimesOf(d, since, now)[s] = TimesOf(c, since, now)[s]
  <2>1. ASSUME NEW s \in Stages PROVE TimeOf(d, since, now, s) = TimeOf(c, since, now, s)
    BY TimeStays
  <2> QED BY <2>1 DEF TimesOf
<1> QED BY <1>1, ReportConstants, TotalSame

LEMMA TimesBegin ==
  ASSUME NEW now \in Nat, NEW e \in ChangeRows, e.at = now, NEW d, d = Append(<<>>, e),
         NEW since \in Nat, since <= now
  PROVE  Total(TimesOf(d, since, now), Stages) = now - since
<1> DEFINE k == TimesOf(d, since, now)
           h == [s \in Stages |-> 0]
<1>1. e.from \in Stages
  BY DEF ChangeRows
<1>2. \A s \in Stages : k[s] = IF e.from = s THEN now - since ELSE 0
  <2>1. ASSUME NEW s \in Stages PROVE TimeOf(d, since, now, s) = IF e.from = s THEN now - since ELSE 0
    BY TimeBegins
  <2>2. \A s \in Stages : k[s] = TimeOf(d, since, now, s)
    BY DEF TimesOf
  <2> HIDE DEF k
  <2> QED BY <2>1, <2>2
<1>3. now - since \in Nat
  OBVIOUS
<1>4. k[e.from] = 0 + (now - since) /\ \A s \in Stages \ {e.from} : k[s] = 0
  BY <1>1, <1>2, <1>3
<1>5. \A s \in Stages : h[s] = 0 /\ h[s] \in Nat
  OBVIOUS
<1> HIDE DEF h, k
<1>6. Total(h, Stages) = 0
  BY <1>5, ReportConstants, TotalOfZeros
<1>7. PICK z, g : z = e.from /\ g = now - since
  OBVIOUS
<1>8. z \in Stages /\ g \in Nat /\ k[z] = h[z] + g /\ \A s \in Stages \ {z} : k[s] = h[s]
  BY <1>1, <1>3, <1>4, <1>5, <1>7
<1>9. Total(k, Stages) = Total(h, Stages) + g
  BY <1>5, <1>8, ReportConstants, TotalUp
<1> QED BY <1>6, <1>7, <1>8, <1>9 DEF k

(***************************************************************************)
(* An issue and its trail.  The trail of an issue that is told of in full  *)
(* has a row for every status but the first; while a change is still to be *)
(* recorded it lacks the last.                                             *)
(***************************************************************************)
Change(l, k) == [from |-> l[k].status, to |-> l[k+1].status, at |-> l[k+1].at]
Tells(l, c) == \A k \in DOMAIN c : c[k] = Change(l, k)
Full(l, c) == Len(l) = Len(c) + 1 /\ Tells(l, c)
Half(l, c, now, from, to) ==
  /\ Len(l) = Len(c) + 2 /\ Tells(l, c)
  /\ l[Len(c) + 1].status = from /\ l[Len(c) + 2] = [status |-> to, at |-> now]
CaseSound(l, c, now) ==
  /\ now \in Nat /\ l \in Seq(LifeRows) /\ c \in Seq(ChangeRows) /\ Rising(l, now) /\ Rising(c, now)
  /\ c # <<>> => /\ l # <<>> /\ l[1].at <= c[1].at
                 /\ Total(TimesOf(c, l[1].at, now), Stages) = now - l[1].at
SpentTold(l, c, now) == c # <<>> =>
  \A s \in Stages : TimeOf(c, l[1].at, now, s) = Cardinality(Spent(l, now, s))

LEMMA LifeAdded ==
  ASSUME NEW l, NEW c, NEW now, NEW e, NEW d, CaseSound(l, c, now), Enters(l, now, e, d)
  PROVE  /\ CaseSound(d, c, now) /\ d # <<>> /\ Len(d) = Len(l) + 1 /\ Len(l) \in Nat
         /\ \A k \in 1..Len(l) : d[k] = l[k]
         /\ d[Len(d)] = e
         /\ l # <<>> => d[1] = l[1]
<1> USE DEF Enters
<1>1. /\ d \in Seq(LifeRows) /\ d # <<>> /\ Len(d) = Len(l) + 1 /\ Len(l) \in Nat
      /\ \A k \in 1..Len(l) : d[k] = l[k]
      /\ d[Len(l) + 1] = e
  BY RowAdded DEF CaseSound
<1>2. Rising(d, now)
  BY RisingAdded DEF CaseSound
<1>3. l # <<>> => d[1] = l[1]
  <2>1. l # <<>> => Len(l) # 0
    BY FirstAndLast DEF CaseSound
  <2> QED BY <1>1, <2>1
<1> QED BY <1>1, <1>2, <1>3 DEF CaseSound

LEMMA SpentAdded ==
  ASSUME NEW l, NEW c, NEW now, NEW e, NEW d, CaseSound(l, c, now), Enters(l, now, e, d), SpentTold(l, c, now)
  PROVE  SpentTold(d, c, now)
<1>1. SUFFICES ASSUME c # <<>>, NEW s \in Stages PROVE TimeOf(c, d[1].at, now, s) = Cardinality(Spent(d, now, s))
  BY DEF SpentTold
<1>2. l # <<>> /\ d[1] = l[1]
  BY <1>1, LifeAdded DEF CaseSound
<1>3. Spent(d, now, s) = Spent(l, now, s)
  BY <1>2, SpentStays DEF CaseSound
<1> QED BY <1>1, <1>2, <1>3 DEF SpentTold

LEMMA TellsAdded ==
  ASSUME NEW l, NEW c, NEW now, NEW e, NEW d, CaseSound(l, c, now), Enters(l, now, e, d), Full(l, c),
         NEW from, NEW to, l[Len(l)].status = from, e = [status |-> to, at |-> now]
  PROVE  Half(d, c, now, from, to)
<1>1. /\ Len(d) = Len(l) + 1 /\ Len(l) \in Nat
      /\ \A k \in 1..Len(l) : d[k] = l[k]
      /\ d[Len(d)] = e
  BY LifeAdded
<1>2. Len(c) \in Nat /\ DOMAIN c = 1..Len(c) /\ Len(l) = Len(c) + 1
  BY LenProperties DEF CaseSound, Full
<1>3. PICK n \in Nat : n = Len(c)
  BY <1>2
<1>4. ASSUME NEW k \in DOMAIN c PROVE c[k] = Change(d, k)
  <2>1. k \in 1..Len(l) /\ k + 1 \in 1..Len(l)
    BY <1>2, <1>3
  <2>2. d[k] = l[k] /\ d[k + 1] = l[k + 1]
    BY <1>1, <2>1
  <2> QED BY <2>2 DEF Full, Tells, Change
<1>5. Len(l) = n + 1 /\ Len(d) = n + 2 /\ d[n + 1] = l[n + 1] /\ d[n + 2] = e /\ l[n + 1].status = from
  BY <1>1, <1>2, <1>3
<1> QED BY <1>3, <1>4, <1>5 DEF Half, Tells

\* A row of the trail, written now.
RowNow(c, now, e, d) == e \in ChangeRows /\ e.at = now /\ d = Append(c, e)

LEMMA CaseRecorded ==
  ASSUME NEW l, NEW c, NEW now, NEW e, NEW d, CaseSound(l, c, now), l # <<>>, RowNow(c, now, e, d)
  PROVE  CaseSound(l, d, now)
<1> USE DEF RowNow
<1>1. /\ d \in Seq(ChangeRows) /\ d # <<>> /\ Len(d) = Len(c) + 1 /\ Len(c) \in Nat
      /\ \A k \in 1..Len(c) : d[k] = c[k]
      /\ d[Len(c) + 1] = e
  BY RowAdded DEF CaseSound
<1>2. Rising(d, now)
  BY RisingAdded DEF CaseSound
<1>3. l[1].at \in Nat /\ l[1].at <= now
  <2>1. 1 \in DOMAIN l
    BY FirstAndLast DEF CaseSound
  <2> QED BY <2>1 DEF CaseSound, Rising
<1>4. CASE c = <<>>
  <2>1. Len(c) = 0 /\ d[1] = e
    BY <1>1, <1>4, EmptySeq
  <2>2. Total(TimesOf(d, l[1].at, now), Stages) = now - l[1].at
    BY <1>3, <1>4, TimesBegin DEF CaseSound
  <2> QED BY <1>1, <1>2, <1>3, <2>1, <2>2 DEF CaseSound
<1>5. CASE c # <<>>
  <2>1. d[1] = c[1]
    <3>1. Len(c) # 0
      BY <1>5, FirstAndLast DEF CaseSound
    <3> QED BY <1>1, <3>1
  <2>2. RecordedOnce(c, now, e, d)
    BY <1>5 DEF RecordedOnce, CaseSound
  <2>3. Total(TimesOf(d, l[1].at, now), Stages) = Total(TimesOf(c, l[1].at, now), Stages)
    BY <1>3, <2>2, TimesStay
  <2> QED BY <1>1, <1>2, <1>5, <2>1, <2>3 DEF CaseSound
<1> QED BY <1>4, <1>5

\* Before its first change an issue was in one status.
LEMMA SpentFirst ==
  ASSUME NEW l \in Seq(LifeRows), NEW now \in Nat, Rising(l, now), Len(l) = 2, l[2].at = now, NEW s
  PROVE  Cardinality(Spent(l, now, s)) = IF l[1].status = s THEN now - l[1].at ELSE 0
<1>1. DOMAIN l = 1..2 /\ l[1].at \in Nat /\ l[1].at <= now
  <2>1. DOMAIN l = 1..2
    BY LenProperties
  <2> QED BY <2>1 DEF Rising
<1>2. ASSUME NEW t \in l[1].at..(now - 1) PROVE StageIn(l, t) = l[1].status
  <2>1. {k \in DOMAIN l : l[k].at <= t} = {1}
    BY <1>1
  <2>2. Max({1}) = 1
    <3>1. PICK S : S = {1}
      OBVIOUS
    <3>2. S \subseteq Nat /\ 1 \in S /\ \A n \in S : n <= 1
      BY <3>1
    <3>3. Max(S) = 1
      BY <3>2, MaxIs
    <3> QED BY <3>1, <3>3
  <2> QED BY <2>1, <2>2 DEF StageIn
<1>3. CASE l[1].status = s
  <2>1. Spent(l, now, s) = l[1].at..(now - 1)
    BY <1>2, <1>3 DEF Spent
  <2>2. \A a \in Int, b \in Int : Cardinality(a..b) = IF a > b THEN 0 ELSE b - a + 1
    BY FS_Interval
  <2>3. Cardinality(l[1].at..(now - 1)) = IF l[1].at > now - 1 THEN 0 ELSE (now - 1) - l[1].at + 1
    <3>1. PICK a, b : a = l[1].at /\ b = now - 1
      OBVIOUS
    <3>2. a \in Int /\ b \in Int
      BY <1>1, <3>1
    <3>3. Cardinality(a..b) = IF a > b THEN 0 ELSE b - a + 1
      BY <2>2, <3>2
    <3> QED BY <3>1, <3>3
  <2>4. PICK a \in Nat : a = l[1].at
    BY <1>1
  <2>5. (IF a > now - 1 THEN 0 ELSE (now - 1) - a + 1) = now - a
    BY <1>1, <2>4
  <2> QED BY <1>3, <2>1, <2>3, <2>4, <2>5
<1>4. CASE l[1].status # s
  <2>1. Spent(l, now, s) = {}
    BY <1>2, <1>4 DEF Spent
  <2> QED BY <1>4, <2>1, FS_EmptySet
<1> QED BY <1>3, <1>4

LEMMA FullRecorded ==
  ASSUME NEW l, NEW c, NEW now, NEW e, NEW d, CaseSound(l, c, now), RowNow(c, now, e, d),
         NEW from, NEW to, Half(l, c, now, from, to), e = [from |-> from, to |-> to, at |-> now]
  PROVE  Full(l, d)
<1>1. /\ Len(d) = Len(c) + 1 /\ Len(c) \in Nat /\ DOMAIN c = 1..Len(c) /\ DOMAIN d = 1..(Len(c) + 1)
      /\ \A k \in 1..Len(c) : d[k] = c[k]
      /\ d[Len(c) + 1] = e
  BY RowAdded DEF CaseSound, RowNow
<1>2. PICK n \in Nat : n = Len(c)
  BY <1>1
<1>3. l[n + 1].status = from /\ l[n + 2].status = to /\ l[n + 2].at = now /\ (n + 1) + 1 = n + 2
  BY <1>2 DEF Half
<1>4. d[n + 1] = Change(l, n + 1)
  BY <1>1, <1>2, <1>3 DEF Change
<1>5. ASSUME NEW k \in 1..n PROVE d[k] = Change(l, k)
  BY <1>1, <1>2 DEF Half, Tells
<1>6. \A k \in DOMAIN d : d[k] = Change(l, k)
  BY <1>1, <1>2, <1>4, <1>5
<1>7. Len(l) = n + 2
  BY <1>2 DEF Half
<1> QED BY <1>1, <1>2, <1>6, <1>7 DEF Full, Tells

LEMMA SpentRecorded ==
  ASSUME NEW l, NEW c, NEW now, NEW e, NEW d, CaseSound(l, c, now), RowNow(c, now, e, d),
         NEW from, NEW to, Half(l, c, now, from, to), e = [from |-> from, to |-> to, at |-> now],
         SpentTold(l, c, now)
  PROVE  SpentTold(l, d, now)
<1>1. SUFFICES ASSUME NEW s \in Stages PROVE TimeOf(d, l[1].at, now, s) = Cardinality(Spent(l, now, s))
  BY DEF SpentTold
<1>2. CASE c # <<>>
  <2>1. RecordedOnce(c, now, e, d)
    BY <1>2 DEF RecordedOnce, CaseSound, RowNow
  <2>2. l[1].at \in Nat
    BY <1>2, FirstMoment DEF CaseSound
  <2>3. TimeOf(d, l[1].at, now, s) = TimeOf(c, l[1].at, now, s)
    BY <2>1, <2>2, TimeStays
  <2> QED BY <1>2, <2>3 DEF SpentTold
<1>3. CASE c = <<>>
  <2>1. Len(l) = 2 /\ l[1].status = from /\ l[2].at = now
    <3>1. Len(c) = 0
      BY <1>3, EmptySeq
    <3> QED BY <3>1 DEF Half
  <2>2. l[1].at \in Nat
    <3>1. l # <<>>
      BY <2>1, EmptySeq
    <3> QED BY <3>1, FirstMoment DEF CaseSound
  <2>3. Cardinality(Spent(l, now, s)) = IF l[1].status = s THEN now - l[1].at ELSE 0
    BY <2>1, SpentFirst DEF CaseSound
  <2>4. TimeOf(d, l[1].at, now, s) = IF e.from = s THEN now - l[1].at ELSE 0
    BY <1>3, <2>2, TimeBegins DEF CaseSound, RowNow
  <2> QED BY <2>1, <2>3, <2>4
<1> QED BY <1>2, <1>3

\* An instant passes.
LEMMA CasePasses ==
  ASSUME NEW l, NEW c, NEW now, CaseSound(l, c, now)
  PROVE  CaseSound(l, c, now + 1)
<1>1. now \in Nat /\ now + 1 \in Nat /\ now <= now + 1
  BY DEF CaseSound
<1>2. Rising(l, now + 1) /\ Rising(c, now + 1)
  BY <1>1, RisingLater DEF CaseSound
<1>3. ASSUME c # <<>> PROVE Total(TimesOf(c, l[1].at, now + 1), Stages) = (now + 1) - l[1].at
  <2>1. l[1].at \in Nat
    BY <1>3, FirstMoment DEF CaseSound
  <2>2. Total(TimesOf(c, l[1].at, now + 1), Stages) = Total(TimesOf(c, l[1].at, now), Stages) + 1
    BY <1>3, <2>1, TimesPass DEF CaseSound
  <2>3. Total(TimesOf(c, l[1].at, now), Stages) = now - l[1].at
    BY <1>3 DEF CaseSound
  <2> QED BY <1>1, <2>1, <2>2, <2>3
<1> QED BY <1>1, <1>2, <1>3 DEF CaseSound

LEMMA SpentGoesOn ==
  ASSUME NEW l, NEW c, NEW now, CaseSound(l, c, now), Full(l, c), SpentTold(l, c, now)
  PROVE  SpentTold(l, c, now + 1)
<1>1. SUFFICES ASSUME c # <<>>, NEW s \in Stages
               PROVE  TimeOf(c, l[1].at, now + 1, s) = Cardinality(Spent(l, now + 1, s))
  BY DEF SpentTold
<1>2. l # <<>> /\ l[1].at \in Nat /\ l[1].at <= c[1].at
  BY <1>1, FirstMoment DEF CaseSound
<1>3. TimeOf(c, l[1].at, now + 1, s) = TimeOf(c, l[1].at, now, s) + (IF c[Len(c)].to = s THEN 1 ELSE 0)
  BY <1>1, <1>2, TimePasses DEF CaseSound
<1>4. Cardinality(Spent(l, now + 1, s)) = Cardinality(Spent(l, now, s)) + (IF l[Len(l)].status = s THEN 1 ELSE 0)
  BY <1>2, SpentPasses DEF CaseSound
<1>5. c[Len(c)].to = l[Len(l)].status
  <2>1. Len(c) \in DOMAIN c
    BY <1>1, FirstAndLast DEF CaseSound
  <2>2. c[Len(c)] = Change(l, Len(c)) /\ Len(l) = Len(c) + 1
    BY <2>1 DEF Full, Tells
  <2> QED BY <2>2 DEF Change
<1>6. TimeOf(c, l[1].at, now, s) = Cardinality(Spent(l, now, s))
  BY <1>1 DEF SpentTold
<1> QED BY <1>3, <1>4, <1>5, <1>6

(***************************************************************************)
(* What the tables keep: issues and trails as above, and a first answer    *)
(* that was true of the issues it names.                                   *)
(***************************************************************************)
MoveRows == [case : Made, from : Stages, to : Stages, left : {<<"update", "record">>, <<"record">>}]
\* An issue whose trail is true has one row to be written at most.
MoveSound ==
  /\ moving \in [Shifters -> MoveRows \cup {NoMove}]
  /\ \A i \in Made \ lapsed : \A m, n \in Shifters : Recording(m, i) /\ Recording(n, i) => m = n
CaseTold(i) ==
  /\ SpentTold(lived[i], trail[i], instant)
  /\ \A m \in Shifters : Recording(m, i) =>
       Half(lived[i], trail[i], instant, moving[m].from, moving[m].to)
  /\ (\A m \in Shifters : ~Recording(m, i)) => Full(lived[i], trail[i])
FirstSound ==
  /\ first.of \in {"none", "cases", "trail"}
  /\ first.of = "cases" =>
       /\ DOMAIN first.cases \subseteq Made
       /\ \A i \in DOMAIN first.cases :
            /\ first.cases[i].at = lived[i][1].at
            /\ Len(lived[i]) = 1 => first.cases[i].status = lived[i][1].status
CasesTyped ==
  /\ instant \in 0..LastInstant /\ caseMoves \in 0..MaxCaseMoves /\ lapsed \subseteq Made
  /\ lived \in [Cases -> Seq(LifeRows)] /\ trail \in [Cases -> Seq(ChangeRows)]
CasesSound == \A i \in Cases : CaseSound(lived[i], trail[i], instant)
CasesTold == \A i \in Made \ lapsed : CaseTold(i)
ReportInv == CasesTyped /\ MoveSound /\ CasesSound /\ CasesTold /\ FirstSound

\* The statements still to come, told apart.
LEMMA LeftApart ==
  /\ <<"update", "record">> # <<"record">> /\ <<>> # <<"record">> /\ <<>> # <<"update", "record">>
  /\ NoMove.left = <<>>
BY DEF NoMove

\* What a request that is not at rest has in hand.
LEMMA InHand ==
  ASSUME MoveSound, NEW m \in Shifters, moving[m] # NoMove
  PROVE  /\ moving[m] \in MoveRows /\ moving[m].case \in Made /\ moving[m].case \in Cases
         /\ moving[m].from \in Stages /\ moving[m].to \in Stages
BY DEF MoveSound, MoveRows, Made

\* Requests that go on as they were, while issues are added or set aside.
LEMMA MovesRest ==
  ASSUME MoveSound, moving' = moving, Made \subseteq Made',
         \A i \in (Made \ lapsed)' : i \in Made \ lapsed
  PROVE  MoveSound'
<1>1. moving' \in [Shifters -> MoveRows' \cup {NoMove}]
  BY DEF MoveSound, MoveRows
<1>2. \A m \in Shifters : \A i : Recording(m, i)' <=> Recording(m, i)
  BY DEF Recording
<1> QED BY <1>1, <1>2 DEF MoveSound, NoMove

\* One request comes to rest, or begins.
LEMMA MovesOn ==
  ASSUME MoveSound, NEW m \in Shifters, NEW x \in MoveRows \cup {NoMove}, x.left # <<"record">>,
         moving' = [moving EXCEPT ![m] = x], Made' = Made, lapsed \subseteq lapsed'
  PROVE  /\ MoveSound' /\ \A i : ~Recording(m, i)'
         /\ \A n \in Shifters \ {m} : moving'[n] = moving[n] /\ \A i : Recording(n, i)' <=> Recording(n, i)
<1>1. moving' \in [Shifters -> MoveRows \cup {NoMove}] /\ moving'[m] = x
      /\ \A n \in Shifters \ {m} : moving'[n] = moving[n]
  BY DEF MoveSound
<1>2. \A i : ~Recording(m, i)'
  BY <1>1 DEF Recording
<1>3. \A n \in Shifters \ {m} : \A i : Recording(n, i)' <=> Recording(n, i)
  BY <1>1 DEF Recording
<1>4. moving' \in [Shifters -> MoveRows' \cup {NoMove}]
  BY <1>1 DEF MoveRows
<1>5. \A i \in (Made \ lapsed)' : \A n, o \in Shifters : Recording(n, i)' /\ Recording(o, i)' => n = o
  BY <1>2, <1>3 DEF MoveSound
<1> QED BY <1>1, <1>2, <1>3, <1>4, <1>5 DEF MoveSound, NoMove

\* An issue that has a status.
LEMMA MadeCase ==
  ASSUME ReportInv, NEW i \in Made
  PROVE  /\ i \in Cases /\ lived[i] \in Seq(LifeRows) /\ lived[i] # <<>>
         /\ Len(lived[i]) \in Nat /\ Len(lived[i]) # 0 /\ Stage(i) \in Stages
         /\ Stage(i) = lived[i][Len(lived[i])].status
<1>1. i \in Cases /\ lived[i] \in Seq(LifeRows) /\ lived[i] # <<>>
  BY DEF ReportInv, CasesTyped, Made
<1>2. Len(lived[i]) \in Nat /\ Len(lived[i]) # 0 /\ lived[i][Len(lived[i])] \in LifeRows
  BY <1>1, FirstAndLast
<1>3. lived[i][Len(lived[i])].status \in Stages
  BY <1>2 DEF LifeRows
<1> QED BY <1>1, <1>2, <1>3 DEF Stage, Last

LEMMA FirstKept ==
  ASSUME FirstSound, first' = first,
         \A i \in Made : i \in Made' /\ lived'[i][1] = lived[i][1] /\ (Len(lived'[i]) = 1 => Len(lived[i]) = 1)
  PROVE  FirstSound'
BY DEF FirstSound

\* Another status entered by one issue.
LEMMA LivedAdded ==
  ASSUME ReportInv, NEW i \in Cases, NEW s \in Stages, lived' = Lives(i, s), UNCHANGED <<instant, trail, first>>
  PROVE  /\ lived' \in [Cases -> Seq(LifeRows)] /\ Made' = Made \cup {i}
         /\ CasesSound' /\ FirstSound'
         /\ Enters(lived[i], instant, [status |-> s, at |-> instant], lived'[i])
         /\ lived'[i] # <<>> /\ Len(lived'[i]) = Len(lived[i]) + 1 /\ Len(lived[i]) \in Nat
         /\ \A j \in Cases \ {i} : lived'[j] = lived[j]
<1> DEFINE e == [status |-> s, at |-> instant]
           l == lived[i]
           d == Append(l, e)
<1>1. instant \in Nat /\ lived \in [Cases -> Seq(LifeRows)] /\ l \in Seq(LifeRows)
  BY ReportConstants DEF ReportInv, CasesTyped
<1>2. e \in LifeRows /\ e.at = instant
  BY <1>1 DEF LifeRows
<1>3. lived' = [lived EXCEPT ![i] = d]
  BY DEF Lives
<1>4. Enters(l, instant, e, d)
  BY <1>2 DEF Enters
<1>5. CaseSound(l, trail[i], instant)
  BY DEF ReportInv, CasesSound
<1>6. PICK m, r : m = l /\ r = d
  OBVIOUS
<1>e. PICK f : f = e
  OBVIOUS
<1> HIDE DEF e, l, d
<1>7. CaseSound(m, trail[i], instant) /\ Enters(m, instant, f, r)
  BY <1>4, <1>5, <1>6, <1>e
<1>c. /\ CaseSound(r, trail[i], instant) /\ r # <<>> /\ Len(r) = Len(m) + 1 /\ Len(m) \in Nat
      /\ m # <<>> => r[1] = m[1]
  BY <1>7, LifeAdded
<1>d. r \in Seq(LifeRows)
  BY <1>c DEF CaseSound
<1>8. lived' \in [Cases -> Seq(LifeRows)] /\ lived'[i] = r /\ \A j \in Cases \ {i} : lived'[j] = lived[j]
  BY <1>1, <1>3, <1>d, <1>6
<1>m. lived[i] = m
  BY <1>6 DEF l
<1>9. Made' = Made \cup {i}
  BY <1>c, <1>8 DEF Made
<1>10. CasesSound'
  BY <1>c, <1>8 DEF ReportInv, CasesSound
<1>11. FirstSound'
  <2>1. ASSUME NEW j \in Made
        PROVE  j \in Made' /\ lived'[j][1] = lived[j][1] /\ (Len(lived'[j]) = 1 => Len(lived[j]) = 1)
    <3>1. CASE j = i
      <4>1. Len(lived[j]) # 0 /\ lived[j] # <<>>
        BY MadeCase
      <4> QED BY <1>c, <1>m, <1>8, <1>9, <3>1, <4>1
    <3>2. CASE j # i
      BY <1>8, <1>9, <3>2 DEF Made
    <3> QED BY <3>1, <3>2
  <2> QED BY <2>1, FirstKept DEF ReportInv
<1> QED BY <1>7, <1>m, <1>e, <1>c, <1>8, <1>9, <1>10, <1>11 DEF e

\* An issue a step leaves alone is told of as before.
LEMMA ToldRests ==
  ASSUME NEW i, CaseTold(i), lived'[i] = lived[i], trail'[i] = trail[i], instant' = instant,
         \A m \in Shifters : (Recording(m, i)' <=> Recording(m, i)) /\ (Recording(m, i) => moving'[m] = moving[m])
  PROVE  CaseTold(i)'
BY DEF CaseTold

LEMMA CreateCaseKeeps == ASSUME ReportInv, CreateCase PROVE ReportInv'
<1>1. PICK i \in Cases, s \in Stages :
        /\ lived[i] = <<>> /\ lived' = Lives(i, s)
        /\ UNCHANGED <<instant, trail, moving, lapsed, first, caseMoves>>
  BY DEF CreateCase
<1>2. /\ lived' \in [Cases -> Seq(LifeRows)] /\ Made' = Made \cup {i}
      /\ CasesSound' /\ FirstSound'
      /\ lived'[i] # <<>> /\ Len(lived'[i]) = Len(lived[i]) + 1
      /\ \A j \in Cases \ {i} : lived'[j] = lived[j]
  BY <1>1, LivedAdded
<1>3. CasesTyped'
  BY <1>1, <1>2 DEF ReportInv, CasesTyped
<1>4. i \notin Made /\ Made \subseteq Cases
  BY <1>1 DEF Made
<1>5. MoveSound /\ CasesTold
  BY DEF ReportInv
<1>9. \A m \in Shifters : \A j : (Recording(m, j)' <=> Recording(m, j)) /\ (Recording(m, j) => j \in Made)
  BY <1>1, <1>5, InHand, LeftApart DEF Recording
<1>6. MoveSound'
  <2>1. moving' \in [Shifters -> MoveRows' \cup {NoMove}]
    BY <1>1, <1>2, <1>5 DEF MoveSound, MoveRows
  <2>2. ASSUME NEW j \in Made' \ lapsed', NEW m \in Shifters, NEW n \in Shifters, Recording(m, j)', Recording(n, j)'
        PROVE  m = n
    BY <1>1, <1>5, <1>9, <2>2 DEF MoveSound
  <2> QED BY <2>1, <2>2 DEF MoveSound, NoMove
<1>7. CasesTold'
  <2> SUFFICES ASSUME NEW j \in Made' \ lapsed PROVE CaseTold(j)'
    BY <1>1 DEF CasesTold
  <2>1. CASE j = i
    <3>1. trail[i] = <<>> /\ Len(lived[i]) = 0 /\ Len(trail[i]) = 0
      BY <1>1, EmptySeq DEF ReportInv, CasesSound, CaseSound
    <3>2. Full(lived'[i], trail'[i])
      BY <1>1, <1>2, <3>1 DEF Full, Tells
    <3>3. SpentTold(lived'[i], trail'[i], instant')
      BY <1>1, <3>1 DEF SpentTold
    <3>4. \A m \in Shifters : ~Recording(m, i)'
      BY <1>4, <1>9
    <3> QED BY <2>1, <3>2, <3>3, <3>4 DEF CaseTold
  <2>2. CASE j # i
    <3>1. CaseTold(j) /\ lived'[j] = lived[j]
      BY <1>2, <1>4, <1>5, <2>2 DEF CasesTold
    <3> QED BY <1>1, <1>9, <3>1, ToldRests
  <2> QED BY <2>1, <2>2
<1> QED BY <1>2, <1>3, <1>6, <1>7 DEF ReportInv

LEMMA BeginMoveKeeps == ASSUME ReportInv, BeginMove PROVE ReportInv'
<1>1. PICK m \in Shifters, i \in Made, s \in Stages :
        /\ moving[m] = NoMove /\ caseMoves < MaxCaseMoves /\ caseMoves' = caseMoves + 1
        /\ moving' = [moving EXCEPT ![m] =
             [case |-> i, from |-> Stage(i), to |-> s, left |-> <<"update", "record">>]]
        /\ UNCHANGED <<instant, lived, trail, lapsed, first>>
  BY DEF BeginMove
<1>2. Stage(i) \in Stages
  BY MadeCase
<1>3. [case |-> i, from |-> Stage(i), to |-> s, left |-> <<"update", "record">>] \in MoveRows
  BY <1>2 DEF MoveRows
<1>4. Made' = Made
  BY <1>1 DEF Made
<1>5. /\ MoveSound' /\ \A j : ~Recording(m, j)'
      /\ \A n \in Shifters \ {m} : moving'[n] = moving[n] /\ \A j : Recording(n, j)' <=> Recording(n, j)
  BY <1>1, <1>3, <1>4, MovesOn, LeftApart DEF ReportInv
<1>6. CasesTold'
  <2> SUFFICES ASSUME NEW j \in Made \ lapsed PROVE CaseTold(j)'
    BY <1>1, <1>4 DEF CasesTold
  <2>1. CaseTold(j)
    BY DEF ReportInv, CasesTold
  <2>2. ~Recording(m, j)
    BY <1>1, LeftApart DEF Recording
  <2> QED BY <1>1, <1>5, <2>1, <2>2, ToldRests
<1>7. CasesTyped' /\ CasesSound' /\ FirstSound'
  <2>1. caseMoves' \in 0..MaxCaseMoves
    BY <1>1, ReportConstants DEF ReportInv, CasesTyped
  <2> QED BY <1>1, <2>1 DEF ReportInv, CasesTyped, CasesSound, FirstSound, Made
<1> QED BY <1>5, <1>6, <1>7 DEF ReportInv

LEMMA UpdateStageKeeps == ASSUME ReportInv, UpdateStage PROVE ReportInv'
<1>0. PICK m \in Shifters :
        /\ moving[m].left = <<"update", "record">>
        /\ lived' = Lives(moving[m].case, moving[m].to)
        /\ lapsed' = IF Crossed(m) THEN lapsed \cup {moving[m].case} ELSE lapsed
        /\ moving' = [moving EXCEPT ![m].left = <<"record">>]
        /\ UNCHANGED <<instant, trail, first, caseMoves>>
  BY DEF UpdateStage
<1>1. PICK i, s, f : i = moving[m].case /\ s = moving[m].to /\ f = moving[m].from
  OBVIOUS
<1>2. moving[m] \in MoveRows /\ i \in Made /\ s \in Stages /\ f \in Stages /\ i \in Cases
  BY <1>0, <1>1, InHand, LeftApart DEF ReportInv
<1>3. moving \in [Shifters -> MoveRows \cup {NoMove}]
  BY DEF ReportInv, MoveSound
<1>4. /\ moving'[m] = [moving[m] EXCEPT !.left = <<"record">>]
      /\ \A n \in Shifters \ {m} : moving'[n] = moving[n]
      /\ DOMAIN moving' = Shifters
  BY <1>0, <1>3
<1>5. moving'[m] \in MoveRows /\ moving'[m].case = i /\ moving'[m].from = f /\ moving'[m].to = s
      /\ moving'[m].left = <<"record">>
  BY <1>1, <1>2, <1>4 DEF MoveRows
<1>6. /\ lived' \in [Cases -> Seq(LifeRows)] /\ Made' = Made \cup {i}
      /\ CasesSound' /\ FirstSound'
      /\ Enters(lived[i], instant, [status |-> s, at |-> instant], lived'[i])
      /\ \A j \in Cases \ {i} : lived'[j] = lived[j]
  BY <1>0, <1>1, <1>2, LivedAdded
<1>7. Made' = Made /\ Made \subseteq Cases /\ lapsed \subseteq lapsed' /\ lapsed' \subseteq Made
  BY <1>0, <1>1, <1>2, <1>6 DEF Made, ReportInv, CasesTyped
<1>8. CasesTyped'
  BY <1>0, <1>6, <1>7 DEF ReportInv, CasesTyped
<1>9. i \notin lapsed' => f = Stage(i) /\ \A n \in Shifters : ~Recording(n, i)
  BY <1>0, <1>1 DEF Crossed
<1>10. /\ \A n \in Shifters \ {m} : \A j : Recording(n, j)' <=> Recording(n, j)
       /\ \A j : Recording(m, j)' <=> j = i
       /\ \A j : ~Recording(m, j)
  BY <1>0, <1>4, <1>5, LeftApart DEF Recording
<1>11. MoveSound'
  <2>1. moving' \in [Shifters -> MoveRows \cup {NoMove}]
    BY <1>0, <1>3, <1>4, <1>5
  <2>2. ASSUME NEW j \in Made' \ lapsed', NEW n \in Shifters, NEW o \in Shifters, Recording(n, j)', Recording(o, j)'
        PROVE  n = o
    <3>1. CASE j = i
      BY <1>9, <1>10, <2>2, <3>1
    <3>2. CASE j # i
      BY <1>7, <1>10, <2>2, <3>2 DEF ReportInv, MoveSound
    <3> QED BY <3>1, <3>2
  <2> QED BY <1>7, <2>1, <2>2 DEF MoveSound, MoveRows, NoMove
<1>12. CasesTold'
  <2> SUFFICES ASSUME NEW j \in Made \ lapsed' PROVE CaseTold(j)'
    BY <1>7 DEF CasesTold
  <2>1. CaseTold(j) /\ j \in Cases
    BY <1>7 DEF ReportInv, CasesTold
  <2>2. CASE j = i
    <3>0. f = Stage(i) /\ \A n \in Shifters : ~Recording(n, i)
      BY <1>9, <2>2
    <3>1. Full(lived[i], trail[i]) /\ SpentTold(lived[i], trail[i], instant)
      BY <2>1, <2>2, <3>0 DEF CaseTold
    <3>2. CaseSound(lived[i], trail[i], instant)
      BY <1>2 DEF ReportInv, CasesSound
    <3>3. SpentTold(lived'[i], trail[i], instant)
      BY <1>6, <3>1, <3>2, SpentAdded
    <3>4. lived[i][Len(lived[i])].status = f
      BY <1>2, <3>0, MadeCase
    <3>5. Half(lived'[i], trail[i], instant, f, s)
      BY <1>6, <3>1, <3>2, <3>4, TellsAdded
    <3>6. Recording(m, i)' /\ \A n \in Shifters : Recording(n, i)' => n = m
      BY <1>10, <3>0
    <3> QED BY <1>0, <1>5, <2>2, <3>3, <3>5, <3>6 DEF CaseTold
  <2>3. CASE j # i
    BY <1>0, <1>4, <1>6, <1>10, <2>1, <2>3, ToldRests
  <2> QED BY <2>2, <2>3
<1> QED BY <1>6, <1>8, <1>11, <1>12 DEF ReportInv

LEMMA RecordMoveKeeps == ASSUME ReportInv, RecordMove PROVE ReportInv'
<1>0. PICK m \in Shifters :
        /\ moving[m].left = <<"record">>
        /\ trail' = [trail EXCEPT ![moving[m].case] =
             Append(@, [from |-> moving[m].from, to |-> moving[m].to, at |-> instant])]
        /\ moving' = [moving EXCEPT ![m] = NoMove]
        /\ UNCHANGED <<instant, lived, lapsed, first, caseMoves>>
  BY DEF RecordMove
<1>i. PICK i : i = moving[m].case
  OBVIOUS
<1> DEFINE e == [from |-> moving[m].from, to |-> moving[m].to, at |-> instant]
           c == trail[i]
           d == Append(c, e)
<1>2. i \in Made /\ i \in Cases /\ moving[m].from \in Stages /\ moving[m].to \in Stages
  BY <1>0, <1>i, InHand, LeftApart DEF ReportInv
<1>1. trail' = [trail EXCEPT ![i] = d] /\ Made' = Made
  BY <1>0, <1>i DEF Made
<1>3. /\ MoveSound' /\ \A j : ~Recording(m, j)'
      /\ \A n \in Shifters \ {m} : moving'[n] = moving[n] /\ \A j : Recording(n, j)' <=> Recording(n, j)
  BY <1>0, <1>1, MovesOn, LeftApart DEF ReportInv
<1>4. instant \in Nat /\ trail \in [Cases -> Seq(ChangeRows)]
  BY ReportConstants DEF ReportInv, CasesTyped
<1>5. RowNow(c, instant, e, d)
  BY <1>2, <1>4 DEF RowNow, ChangeRows
<1>6. CaseSound(lived[i], c, instant) /\ lived[i] # <<>>
  BY <1>2 DEF ReportInv, CasesSound, Made
<1>e. e = [from |-> moving[m].from, to |-> moving[m].to, at |-> instant]
  OBVIOUS
<1> HIDE DEF e
<1>7. CaseSound(lived[i], d, instant)
  BY <1>5, <1>6, CaseRecorded
<1>8. d \in Seq(ChangeRows)
  BY <1>7 DEF CaseSound
<1> HIDE DEF d
<1>9. trail' \in [Cases -> Seq(ChangeRows)] /\ trail'[i] = d /\ \A j \in Cases \ {i} : trail'[j] = trail[j]
  BY <1>1, <1>2, <1>4, <1>8
<1>10. CasesTyped' /\ FirstSound'
  BY <1>0, <1>1, <1>9 DEF ReportInv, CasesTyped, FirstSound
<1>11. CasesSound'
  BY <1>0, <1>7, <1>9 DEF ReportInv, CasesSound
<1>12. Recording(m, i) /\ \A j : Recording(m, j) => j = i
  BY <1>0, <1>i DEF Recording
<1>13. CasesTold'
  <2> SUFFICES ASSUME NEW j \in Made \ lapsed PROVE CaseTold(j)'
    BY <1>0, <1>1 DEF CasesTold
  <2>1. CaseTold(j) /\ j \in Cases
    BY DEF ReportInv, CasesTold, Made
  <2>2. CASE j = i
    <3>1. Half(lived[i], c, instant, moving[m].from, moving[m].to) /\ SpentTold(lived[i], c, instant)
      BY <1>12, <2>1, <2>2 DEF CaseTold
    <3>2. Full(lived[i], d)
      BY <1>5, <1>6, <1>e, <3>1, FullRecorded
    <3>3. SpentTold(lived[i], d, instant)
      BY <1>5, <1>6, <1>e, <3>1, SpentRecorded
    <3>4. \A n \in Shifters : ~Recording(n, i)'
      BY <1>3, <1>12, <2>2 DEF ReportInv, MoveSound
    <3> QED BY <1>0, <1>9, <2>2, <3>2, <3>3, <3>4 DEF CaseTold
  <2>3. CASE j # i
    BY <1>0, <1>3, <1>9, <1>12, <2>1, <2>3, ToldRests
  <2> QED BY <2>2, <2>3
<1> QED BY <1>3, <1>10, <1>11, <1>13 DEF ReportInv

LEMMA CutMoveKeeps == ASSUME ReportInv, CutMove PROVE ReportInv'
<1>1. PICK m \in Shifters :
        /\ moving[m] # NoMove /\ moving' = [moving EXCEPT ![m] = NoMove]
        /\ lapsed' = IF moving[m].left = <<"record">> THEN lapsed \cup {moving[m].case} ELSE lapsed
        /\ UNCHANGED <<instant, lived, trail, first, caseMoves>>
  BY DEF CutMove
<1>2. lapsed' \subseteq Made /\ lapsed \subseteq lapsed' /\ Made' = Made
  BY <1>1, InHand DEF ReportInv, CasesTyped, Made
<1>3. /\ MoveSound' /\ \A j : ~Recording(m, j)'
      /\ \A n \in Shifters \ {m} : moving'[n] = moving[n] /\ \A j : Recording(n, j)' <=> Recording(n, j)
  BY <1>1, <1>2, MovesOn, LeftApart DEF ReportInv
<1>4. CasesTyped' /\ CasesSound' /\ FirstSound'
  BY <1>1, <1>2 DEF ReportInv, CasesTyped, CasesSound, FirstSound
<1>5. CasesTold'
  <2> SUFFICES ASSUME NEW j \in Made \ lapsed' PROVE CaseTold(j)'
    BY <1>2 DEF CasesTold
  <2>1. CaseTold(j)
    BY <1>2 DEF ReportInv, CasesTold
  <2>2. ~Recording(m, j)
    BY <1>1 DEF Recording
  <2> QED BY <1>1, <1>3, <2>1, <2>2, ToldRests
<1> QED BY <1>3, <1>4, <1>5 DEF ReportInv

LEMMA MoveUnrecordedKeeps == ASSUME ReportInv, MoveUnrecorded PROVE ReportInv'
<1>1. PICK i \in Made, s \in Stages :
        /\ caseMoves < MaxCaseMoves /\ caseMoves' = caseMoves + 1
        /\ lived' = Lives(i, s) /\ lapsed' = lapsed \cup {i}
        /\ UNCHANGED <<instant, trail, moving, first>>
  BY DEF MoveUnrecorded
<1>2. i \in Cases
  BY DEF Made
<1>3. /\ lived' \in [Cases -> Seq(LifeRows)] /\ Made' = Made \cup {i} /\ CasesSound' /\ FirstSound'
      /\ \A j \in Cases \ {i} : lived'[j] = lived[j]
  BY <1>1, <1>2, LivedAdded
<1>4. Made' = Made /\ Made \subseteq Cases
  BY <1>3 DEF Made
<1>5. CasesTyped'
  <2>1. caseMoves' \in 0..MaxCaseMoves
    BY <1>1, ReportConstants DEF ReportInv, CasesTyped
  <2> QED BY <1>1, <1>3, <1>4, <2>1 DEF ReportInv, CasesTyped
<1>6. MoveSound'
  BY <1>1, <1>4, MovesRest DEF ReportInv
<1>7. CasesTold'
  <2> SUFFICES ASSUME NEW j \in Made \ lapsed' PROVE CaseTold(j)'
    BY <1>4 DEF CasesTold
  <2>1. CaseTold(j) /\ j # i /\ j \in Cases
    BY <1>1, <1>4 DEF ReportInv, CasesTold
  <2>2. \A m \in Shifters : Recording(m, j)' <=> Recording(m, j)
    BY <1>1 DEF Recording
  <2> QED BY <1>1, <1>3, <2>1, <2>2, ToldRests
<1> QED BY <1>3, <1>5, <1>6, <1>7 DEF ReportInv

LEMMA ElapseKeeps == ASSUME ReportInv, Elapse PROVE ReportInv'
<1>1. /\ instant < LastInstant /\ instant' = instant + 1 /\ lapsed' = lapsed \cup InBetween
      /\ UNCHANGED <<lived, trail, moving, first, caseMoves>>
  BY DEF Elapse
<1>2. lapsed' \subseteq Made /\ Made' = Made
  BY <1>1 DEF ReportInv, CasesTyped, Made, InBetween
<1>3. instant' \in 0..LastInstant
  BY <1>1, ReportConstants DEF ReportInv, CasesTyped
<1>4. CasesTyped' /\ FirstSound'
  BY <1>1, <1>2, <1>3 DEF ReportInv, CasesTyped, FirstSound
<1>5. MoveSound'
  BY <1>1, <1>2, MovesRest DEF ReportInv
<1>6. CasesSound'
  <2>1. ASSUME NEW i \in Cases PROVE CaseSound(lived[i], trail[i], instant + 1)
    BY CasePasses DEF ReportInv, CasesSound
  <2> QED BY <1>1, <2>1 DEF CasesSound
<1>7. CasesTold'
  <2> SUFFICES ASSUME NEW j \in Made \ lapsed' PROVE CaseTold(j)'
    BY <1>2 DEF CasesTold
  <2>1. CaseTold(j) /\ j \in Cases
    BY <1>1 DEF ReportInv, CasesTold, Made
  <2>2. \A m \in Shifters : ~Recording(m, j) /\ ~Recording(m, j)'
    BY <1>1 DEF Recording, InBetween
  <2>3. Full(lived[j], trail[j]) /\ SpentTold(lived[j], trail[j], instant) /\ CaseSound(lived[j], trail[j], instant)
    BY <2>1, <2>2 DEF CaseTold, ReportInv, CasesSound
  <2>4. SpentTold(lived[j], trail[j], instant + 1)
    BY <2>3, SpentGoesOn
  <2> QED BY <1>1, <2>2, <2>3, <2>4 DEF CaseTold
<1> QED BY <1>4, <1>5, <1>6, <1>7 DEF ReportInv

\* Reads change nothing but the answer they leave.
LEMMA ReadsKeep == ASSUME ReportInv, ReadFirst \/ ReadSecond PROVE ReportInv'
<1>1. UNCHANGED <<instant, lived, trail, moving, lapsed, caseMoves>> /\ Made' = Made
  BY DEF ReadFirst, ReadSecond, Made
<1>2. FirstSound'
  <2>1. CASE ReadSecond
    BY <1>1, <2>1 DEF ReadSecond, FirstSound, NoRead
  <2>2. CASE first' = [of |-> "trail", cases |-> <<>>, trail |-> trail]
    BY <1>1, <2>2 DEF FirstSound
  <2>3. CASE first' = [of |-> "cases", cases |-> CasesNow, trail |-> <<>>]
    <3>1. ASSUME NEW i \in Made
          PROVE  /\ CasesNow[i].at = lived[i][1].at
                 /\ Len(lived[i]) = 1 => CasesNow[i].status = lived[i][1].status
      BY MadeCase DEF CasesNow, MadeAt
    <3>2. DOMAIN CasesNow = Made
      BY DEF CasesNow
    <3> HIDE DEF CasesNow
    <3>3. first'.of = "cases" /\ first'.cases = CasesNow
      BY <2>3
    <3> QED BY <1>1, <3>1, <3>2, <3>3 DEF FirstSound
  <2> QED BY <2>1, <2>2, <2>3 DEF ReadFirst
<1>3. CasesTyped' /\ CasesSound'
  BY <1>1 DEF ReportInv, CasesTyped, CasesSound
<1>4. MoveSound'
  BY <1>1, MovesRest DEF ReportInv
<1>5. CasesTold'
  BY <1>1 DEF ReportInv, CasesTold, CaseTold, Recording
<1> QED BY <1>2, <1>3, <1>4, <1>5 DEF ReportInv

LEMMA ReportRests == ASSUME ReportInv, UNCHANGED reportVars PROVE ReportInv'
<1>1. UNCHANGED <<instant, lived, trail, moving, lapsed, first, caseMoves>> /\ Made' = Made
  BY DEF reportVars, Made
<1>2. CasesTyped' /\ CasesSound' /\ FirstSound'
  BY <1>1 DEF ReportInv, CasesTyped, CasesSound, FirstSound
<1>3. MoveSound'
  BY <1>1, MovesRest DEF ReportInv
<1>4. CasesTold'
  BY <1>1 DEF ReportInv, CasesTold, CaseTold, Recording
<1> QED BY <1>2, <1>3, <1>4 DEF ReportInv

LEMMA ReportStart == ReportInit => ReportInv
<1> SUFFICES ASSUME ReportInit PROVE ReportInv
  OBVIOUS
<1>1. /\ instant = 0 /\ lived = [i \in Cases |-> <<>>] /\ trail = [i \in Cases |-> <<>>]
      /\ moving = [m \in Shifters |-> NoMove] /\ lapsed = {} /\ first = NoRead /\ caseMoves = 0 /\ Made = {}
  BY DEF ReportInit, Made
<1>2. <<>> \in Seq(LifeRows) /\ <<>> \in Seq(ChangeRows) /\ DOMAIN <<>> = 1..0
  BY EmptySeq, LenProperties
<1>3. CasesTyped
  BY <1>1, <1>2, ReportConstants DEF CasesTyped
<1>4. Rising(<<>>, 0)
  BY <1>2 DEF Rising
<1>5. CasesSound
  BY <1>1, <1>2, <1>4 DEF CasesSound, CaseSound
<1>6. MoveSound /\ CasesTold /\ FirstSound
  BY <1>1 DEF MoveSound, CasesTold, FirstSound, NoRead
<1> QED BY <1>3, <1>5, <1>6 DEF ReportInv

\* ReportInv is inductive: reports.js, timeInStatusReport.js and the recording of
\* changes (issueTransitionService.js) keep trails that tell what issues lived,
\* one change of which may be on its way.
THEOREM ReportInvariant == ReportSpec => []ReportInv
<1>1. ReportInv /\ [ReportNext]_reportVars => ReportInv'
  <2> SUFFICES ASSUME ReportInv, [ReportNext]_reportVars PROVE ReportInv'
    OBVIOUS
  <2> QED BY CreateCaseKeeps, BeginMoveKeeps, UpdateStageKeeps, RecordMoveKeeps, CutMoveKeeps,
             MoveUnrecordedKeeps, ElapseKeeps, ReadsKeep, ReportRests DEF ReportNext
<1> QED BY <1>1, ReportStart, PTL DEF ReportSpec

\* The type invariant.
THEOREM ReportTypes == ReportSpec => []ReportTypeOK
<1>1. ReportInv => ReportTypeOK
  <2> SUFFICES ASSUME ReportInv PROVE ReportTypeOK
    OBVIOUS
  <2>1. ASSUME NEW i \in Cases
        PROVE  /\ \A k \in DOMAIN lived[i] : lived[i][k].status \in Stages /\ lived[i][k].at <= instant
               /\ \A k \in DOMAIN trail[i] : {trail[i][k].from, trail[i][k].to} \subseteq Stages
    <3>1. CaseSound(lived[i], trail[i], instant)
      BY DEF ReportInv, CasesSound
    <3>2. ASSUME NEW k \in DOMAIN lived[i] PROVE lived[i][k].status \in Stages /\ lived[i][k].at <= instant
      <4>1. lived[i][k] \in LifeRows
        BY <3>1, ElementOfSeq, LenProperties DEF CaseSound
      <4> QED BY <3>1, <4>1 DEF LifeRows, CaseSound, Rising
    <3>3. ASSUME NEW k \in DOMAIN trail[i] PROVE {trail[i][k].from, trail[i][k].to} \subseteq Stages
      <4>1. trail[i][k] \in ChangeRows
        BY <3>1, ElementOfSeq, LenProperties DEF CaseSound
      <4> QED BY <4>1 DEF ChangeRows
    <3> QED BY <3>2, <3>3
  <2> QED BY <2>1 DEF ReportInv, CasesTyped, FirstSound, ReportTypeOK
<1> QED BY <1>1, ReportInvariant, PTL

(***************************************************************************)
(* Time in status (timeInStatusReport.js), as TimeOf reckons it.           *)
(***************************************************************************)
Spans(c, now, S) == MapThenSumSet(LAMBDA k : (IF k < Len(c) THEN c[k+1].at ELSE now) - c[k].at, S)

LEMMA SpansIsTotal ==
  ASSUME NEW c, NEW now, NEW S, IsFiniteSet(S), S \subseteq DOMAIN c
  PROVE  Spans(c, now, S) = Total(Stays(c, now), S)
<1> DEFINE f(x) == (IF x < Len(c) THEN c[x+1].at ELSE now) - c[x].at
           R(g) == g = [s \in SUBSET S |-> IF s = {} THEN 0 ELSE f(AnyOf(s)) + g[s \ {AnyOf(s)}]]
           iter == CHOOSE g : R(g)
<1>1. Spans(c, now, S) = iter[S]
  BY Zenon DEF Spans, MapThenSumSet, MapThenFoldSet, AnyOf
<1> DEFINE h == Stays(c, now)
<1>2. ASSUME NEW g PROVE R(g) <=> Adds(h, S, g)
  <2>1. \A s \in SUBSET S : s # {} => h[AnyOf(s)] = f(AnyOf(s))
    BY DEF AnyOf, Stays
  <2> HIDE DEF f, h
  <2>2. [s \in SUBSET S |-> IF s = {} THEN 0 ELSE f(AnyOf(s)) + g[s \ {AnyOf(s)}]]
        = [s \in SUBSET S |-> IF s = {} THEN 0 ELSE h[AnyOf(s)] + g[s \ {AnyOf(s)}]]
    BY <2>1
  <2> QED BY <2>2 DEF Adds, SumOver
<1>3. PICK a : Adds(h, S, a) /\ Total(h, S) = a[S]
  BY TotalIsSum
<1> HIDE DEF R, h
<1>4. Adds(h, S, iter)
  BY <1>2, <1>3
<1>5. iter[S] = a[S]
  BY <1>3, <1>4, SumSame
<1> QED BY <1>1, <1>3, <1>5 DEF h

LEMMA TimeInStatus ==
  ASSUME NEW i, NEW s, trail[i] # <<>>, IsFiniteSet(entered(trail[i], s))
  PROVE  timeInStatus(i, s) = TimeOf(trail[i], MadeAt(i), instant, s)
<1>1. timeInStatus(i, s) = (IF trail[i][1].from = s THEN trail[i][1].at - MadeAt(i) ELSE 0)
                           + Spans(trail[i], instant, entered(trail[i], s))
  BY Zenon DEF timeInStatus, Spans, MapThenSumSet, MapThenFoldSet
<1>2. entered(trail[i], s) \subseteq DOMAIN trail[i]
  BY DEF entered
<1>3. Spans(trail[i], instant, entered(trail[i], s)) = Total(Stays(trail[i], instant), entered(trail[i], s))
  BY <1>2, SpansIsTotal
<1> QED BY <1>1, <1>3 DEF TimeOf

TimeOfAll(i) == MapThenSumSet(LAMBDA s : timeInStatus(i, s), Stages)
LEMMA TimeOfAllIsTotal ==
  ASSUME NEW i, NEW h, \A s \in Stages : timeInStatus(i, s) = h[s]
  PROVE  TimeOfAll(i) = Total(h, Stages)
<1> DEFINE R(g) == g = [s \in SUBSET Stages |-> IF s = {} THEN 0 ELSE timeInStatus(i, AnyOf(s)) + g[s \ {AnyOf(s)}]]
           iter == CHOOSE g : R(g)
<1>1. TimeOfAll(i) = iter[Stages]
  BY Zenon DEF TimeOfAll, MapThenSumSet, MapThenFoldSet, AnyOf
<1>2. ASSUME NEW g PROVE R(g) <=> Adds(h, Stages, g)
  <2>1. \A s \in SUBSET Stages : s # {} => h[AnyOf(s)] = timeInStatus(i, AnyOf(s))
    BY DEF AnyOf
  <2>2. [s \in SUBSET Stages |-> IF s = {} THEN 0 ELSE timeInStatus(i, AnyOf(s)) + g[s \ {AnyOf(s)}]]
        = [s \in SUBSET Stages |-> IF s = {} THEN 0 ELSE h[AnyOf(s)] + g[s \ {AnyOf(s)}]]
    BY <2>1
  <2> QED BY <2>2 DEF Adds, SumOver
<1>3. PICK a : Adds(h, Stages, a) /\ Total(h, Stages) = a[Stages]
  BY TotalIsSum, ReportConstants
<1> HIDE DEF R
<1>4. Adds(h, Stages, iter)
  BY <1>2, <1>3
<1>5. iter[Stages] = a[Stages]
  BY <1>3, <1>4, SumSame, ReportConstants
<1> QED BY <1>1, <1>3, <1>5

\* What is known of an issue whose trail is whole.
LEMMA WholeTold ==
  ASSUME ReportInv, NEW i \in Whole
  PROVE  /\ i \in Made /\ CaseSound(lived[i], trail[i], instant) /\ SpentTold(lived[i], trail[i], instant)
         /\ Full(lived[i], trail[i])
<1>1. i \in Made \ lapsed /\ i \in Cases /\ \A m \in Shifters : ~Recording(m, i)
  BY DEF Whole, Made, InBetween
<1>2. CaseTold(i) /\ CaseSound(lived[i], trail[i], instant)
  BY <1>1 DEF ReportInv, CasesTold, CasesSound
<1> QED BY <1>1, <1>2 DEF CaseTold

LEMMA EnteredFinite ==
  ASSUME NEW l, NEW c, NEW now, CaseSound(l, c, now), NEW s
  PROVE  IsFiniteSet(entered(c, s)) /\ entered(c, s) \subseteq 1..Len(c) /\ Len(c) \in Nat
<1>1. Len(c) \in Nat /\ DOMAIN c = 1..Len(c)
  BY LenProperties DEF CaseSound
<1>2. IsFiniteSet(1..Len(c))
  BY <1>1, FS_Interval
<1>3. entered(c, s) \subseteq 1..Len(c)
  BY <1>1 DEF entered
<1> QED BY <1>1, <1>2, <1>3, FS_Subset

LEMMA TimesAreTold == ASSUME ReportInv PROVE TimesTold
<1>1. ASSUME NEW i \in Made, trail[i] # <<>>
      PROVE  TimeOfAll(i) = instant - MadeAt(i)
  <2>1. CaseSound(lived[i], trail[i], instant)
    BY DEF ReportInv, CasesSound, Made
  <2>2. PICK h : h = TimesOf(trail[i], lived[i][1].at, instant)
    OBVIOUS
  <2>3. ASSUME NEW s \in Stages PROVE timeInStatus(i, s) = h[s]
    <3>1. timeInStatus(i, s) = TimeOf(trail[i], MadeAt(i), instant, s)
      BY <1>1, <2>1, EnteredFinite, TimeInStatus
    <3> QED BY <2>2, <3>1 DEF TimesOf, MadeAt
  <2>4. TimeOfAll(i) = Total(h, Stages)
    BY <2>3, TimeOfAllIsTotal
  <2> QED BY <1>1, <2>1, <2>2, <2>4 DEF CaseSound, MadeAt
<1>2. ASSUME NEW i \in Whole, Len(lived[i]) > 1, NEW s \in Stages
      PROVE  timeInStatus(i, s) = Cardinality({t \in MadeAt(i)..(instant - 1) : StageAt(i, t) = s})
  <2>1. /\ CaseSound(lived[i], trail[i], instant) /\ SpentTold(lived[i], trail[i], instant)
        /\ Full(lived[i], trail[i])
    BY WholeTold
  <2>2. trail[i] # <<>>
    <3>1. trail[i] = <<>> => Len(trail[i]) = 0
      BY EmptySeq
    <3> QED BY <1>2, <2>1, <3>1 DEF Full
  <2>3. timeInStatus(i, s) = TimeOf(trail[i], MadeAt(i), instant, s)
    BY <2>1, <2>2, EnteredFinite, TimeInStatus
  <2>4. TimeOf(trail[i], lived[i][1].at, instant, s) = Cardinality(Spent(lived[i], instant, s))
    BY <2>1, <2>2 DEF SpentTold
  <2> QED BY <2>3, <2>4 DEF MadeAt, Spent, StageIn, StageAt
<1>3. \A i \in Made : trail[i] # <<>> => MapThenSumSet(LAMBDA s : timeInStatus(i, s), Stages) = instant - MadeAt(i)
  <2> SUFFICES ASSUME NEW i \in Made, trail[i] # <<>>
               PROVE  MapThenSumSet(LAMBDA s : timeInStatus(i, s), Stages) = instant - MadeAt(i)
    BY Zenon DEF MapThenSumSet, MapThenFoldSet
  <2>1. TimeOfAll(i) = instant - MadeAt(i)
    BY <1>1
  <2> QED BY <2>1, Zenon DEF TimeOfAll, MapThenSumSet, MapThenFoldSet
<1>4. \A i \in Whole : Len(lived[i]) > 1 => \A s \in Stages :
        timeInStatus(i, s) = Cardinality({t \in MadeAt(i)..(instant - 1) : StageAt(i, t) = s})
  BY <1>2
<1> QED BY <1>3, <1>4, Zenon DEF TimesTold, MapThenSumSet, MapThenFoldSet

(***************************************************************************)
(* The reports that read whole trails.                                     *)
(***************************************************************************)
\* A whole trail and a life, row by row.
RowByRow(l, c) ==
  /\ Len(c) \in Nat /\ DOMAIN c = 1..Len(c) /\ DOMAIN l = 1..(Len(c) + 1) /\ Len(l) = Len(c) + 1
  /\ \A k \in 1..Len(c) : c[k].from = l[k].status /\ c[k].to = l[k+1].status /\ c[k].at = l[k+1].at
  /\ \A k \in 1..Len(c) : c[k].at \in Nat
  /\ l # <<>> /\ l[1].at \in Nat

LEMMA FullRows ==
  ASSUME NEW l, NEW c, NEW now, CaseSound(l, c, now), Full(l, c)
  PROVE  RowByRow(l, c)
<1>1. Len(c) \in Nat /\ DOMAIN c = 1..Len(c) /\ Len(l) \in Nat /\ DOMAIN l = 1..Len(l) /\ Len(l) = Len(c) + 1
  BY LenProperties DEF CaseSound, Full
<1>2. \A k \in 1..Len(c) : c[k] = Change(l, k)
  BY <1>1 DEF Full, Tells
<1>3. l # <<>>
  <2>1. l = <<>> => Len(l) = 0
    BY EmptySeq
  <2> QED BY <1>1, <2>1
<1>4. l[1].at \in Nat
  BY <1>3, FirstMoment DEF CaseSound
<1>5. \A k \in 1..Len(c) : c[k].from = l[k].status /\ c[k].to = l[k+1].status /\ c[k].at = l[k+1].at
  <2> SUFFICES ASSUME NEW k \in 1..Len(c)
               PROVE  c[k].from = l[k].status /\ c[k].to = l[k+1].status /\ c[k].at = l[k+1].at
    OBVIOUS
  <2>1. c[k] = Change(l, k)
    BY <1>2
  <2>2. Change(l, k).from = l[k].status /\ Change(l, k).to = l[k+1].status /\ Change(l, k).at = l[k+1].at
    BY DEF Change
  <2> QED BY <2>1, <2>2
<1>6. \A k \in 1..Len(c) : c[k].at \in Nat
  BY <1>1 DEF CaseSound, Rising
<1> QED BY <1>1, <1>3, <1>4, <1>5, <1>6 DEF RowByRow

\* What the table says was the status at an instant.
Latest(c, t, init) == LET by == {k \in DOMAIN c : c[k].at <= t} IN IF by = {} THEN init ELSE c[Max(by)].to

\* The latest change by an instant gives the status of that instant.
LEMMA LatestTells ==
  ASSUME NEW l, NEW c, NEW now, CaseSound(l, c, now), Full(l, c), NEW t \in Int, l[1].at <= t,
         NEW init, init = l[1].status
  PROVE  Latest(c, t, init) = StageIn(l, t)
<1> DEFINE by == {k \in DOMAIN c : c[k].at <= t}
           K == {k \in DOMAIN l : l[k].at <= t}
<1>1. /\ Len(c) \in Nat /\ DOMAIN c = 1..Len(c) /\ DOMAIN l = 1..(Len(c) + 1)
      /\ \A k \in 1..Len(c) : c[k].from = l[k].status /\ c[k].to = l[k+1].status /\ c[k].at = l[k+1].at
      /\ l # <<>> /\ l[1].at \in Nat
  <2>1. RowByRow(l, c)
    BY FullRows
  <2> QED BY <2>1 DEF RowByRow
<1>2. PICK n \in Nat : n = Len(c)
  BY <1>1
<1>3. \A k : k \in by <=> k \in 1..n /\ k + 1 \in K
  BY <1>1, <1>2
<1>4. Max(K) \in DOMAIN l /\ l[Max(K)].at <= t /\ \A k \in K : k <= Max(K)
  <2>1. now \in Nat /\ Rising(l, now) /\ l \in Seq(LifeRows)
    BY DEF CaseSound
  <2> QED BY <1>1, <2>1, LastBefore
<1>5. PICK m : m = Max(K)
  OBVIOUS
<1>6. m \in 1..(n + 1) /\ m \in K /\ \A k \in K : k <= m
  BY <1>1, <1>2, <1>4, <1>5
<1>7. StageIn(l, t) = l[m].status
  BY <1>5 DEF StageIn
<1>8. K \subseteq 1..(n + 1) /\ by \subseteq 1..n
  BY <1>1, <1>2
<1> HIDE DEF K, by
<1>9. CASE m = 1
  <2>1. by = {}
    BY <1>3, <1>6, <1>8, <1>9
  <2> QED BY <1>7, <1>9, <2>1 DEF by, Latest
<1>10. CASE m # 1
  <2>1. m - 1 \in by
    BY <1>3, <1>6, <1>10
  <2>2. \A k \in by : k <= m - 1
    BY <1>3, <1>6, <1>8
  <2>3. Max(by) = m - 1
    <3>1. PICK z : z = m - 1
      OBVIOUS
    <3>2. by \subseteq Nat /\ z \in by /\ \A k \in by : k <= z
      BY <1>8, <2>1, <2>2, <3>1
    <3> QED BY <3>1, <3>2, MaxIs
  <2>4. c[m - 1].to = l[m].status
    <3>1. m - 1 \in 1..n /\ (m - 1) + 1 = m
      BY <1>6, <1>10
    <3> QED BY <1>1, <1>2, <3>1
  <2> QED BY <1>7, <2>1, <2>3, <2>4 DEF by, Latest
<1> QED BY <1>9, <1>10

\* The issues read.
LEMMA ReadCases ==
  ASSUME ReportInv, NEW i \in DOMAIN CasesRead
  PROVE  /\ i \in Made /\ CasesRead[i].at = MadeAt(i)
         /\ Len(lived[i]) = 1 => CasesRead[i].status = lived[i][1].status
<1>1. CASE first.of = "cases"
  BY <1>1 DEF ReportInv, FirstSound, CasesRead, MadeAt
<1>2. CASE first.of # "cases"
  <2>1. CasesRead = CasesNow /\ i \in Made
    BY <1>2 DEF CasesRead, CasesNow
  <2>2. CasesNow[i] = [status |-> Stage(i), at |-> MadeAt(i)]
    BY <2>1 DEF CasesNow
  <2>3. Stage(i) = lived[i][Len(lived[i])].status
    BY <2>1, MadeCase
  <2> QED BY <2>1, <2>2, <2>3
<1> QED BY <1>1, <1>2

LEMMA DaysTyped == ASSUME ReportInv, NEW d \in Days PROVE d \in Int
<1>1. PICK t \in 0..instant : d = EndOfDay(t)
  BY DEF Days
<1>2. t \in Int /\ DayLength \in Nat \ {0}
  BY <1>1, ReportConstants DEF ReportInv, CasesTyped
<1>3. (t \div DayLength) \in Int
  BY <1>2
<1>4. PICK q \in Int : q = t \div DayLength
  BY <1>3
<1>5. q * DayLength \in Int
  BY <1>2, <1>4
<1> QED BY <1>1, <1>2, <1>4, <1>5 DEF EndOfDay

LEMMA FlowIsTold == ASSUME ReportInv PROVE FlowTold
<1> SUFFICES ASSUME first.of = "trail" => first.trail = trail, DOMAIN CasesRead \subseteq Whole,
                    NEW d \in Days, NEW s \in Stages
             PROVE  counts(d)[s] = Cardinality({i \in DOMAIN CasesRead : MadeAt(i) <= d /\ StageAt(i, d) = s})
  BY DEF FlowTold
<1>1. TrailRead = trail /\ d \in Int
  BY DaysTyped DEF TrailRead
<1>2. ASSUME NEW i \in DOMAIN CasesRead, MadeAt(i) <= d PROVE statusOf(i, d) = StageAt(i, d)
  <2>1. CaseSound(lived[i], trail[i], instant) /\ Full(lived[i], trail[i]) /\ i \in Made
    BY WholeTold
  <2>2. /\ Len(trail[i]) \in Nat /\ Len(lived[i]) = Len(trail[i]) + 1
        /\ \A k \in 1..Len(trail[i]) : trail[i][k].from = lived[i][k].status
    <3>1. RowByRow(lived[i], trail[i])
      BY <2>1, FullRows
    <3> QED BY <3>1 DEF RowByRow
  <2>3. initialStatus(i) = lived[i][1].status
    <3>1. CASE trail[i] = <<>>
      <4>1. Len(trail[i]) = 0
        BY <3>1, EmptySeq
      <4>2. CasesRead[i].status = lived[i][1].status
        BY <2>2, <4>1, ReadCases
      <4> QED BY <1>1, <3>1, <4>2 DEF initialStatus
    <3>2. CASE trail[i] # <<>>
      <4>1. Len(trail[i]) # 0
        BY <2>1, <3>2, EmptySeq DEF CaseSound
      <4> QED BY <1>1, <2>2, <3>2, <4>1 DEF initialStatus
    <3> QED BY <3>1, <3>2
  <2>4. lived[i][1].at <= d
    BY <1>2 DEF MadeAt
  <2>5. Latest(trail[i], d, initialStatus(i)) = StageIn(lived[i], d)
    BY <1>1, <2>1, <2>3, <2>4, LatestTells
  <2> QED BY <1>1, <2>5 DEF statusOf, Latest, StageIn, StageAt
<1>3. Counted(d) = {i \in DOMAIN CasesRead : MadeAt(i) <= d}
  BY ReadCases DEF Counted
<1>4. {i \in Counted(d) : statusOf(i, d) = s} = {i \in DOMAIN CasesRead : MadeAt(i) <= d /\ StageAt(i, d) = s}
  BY <1>2, <1>3
<1>5. counts(d)[s] = Cardinality({i \in Counted(d) : statusOf(i, d) = s})
  BY DEF counts
<1> QED BY <1>4, <1>5

\* The first row that enters a status.
LEMMA FirstEntered ==
  ASSUME NEW l, NEW c, NEW now, CaseSound(l, c, now), NEW s, entered(c, s) # {}
  PROVE  /\ Min(entered(c, s)) \in entered(c, s) /\ Min(entered(c, s)) \in DOMAIN c
         /\ c[Min(entered(c, s))].at \in Nat
         /\ \A k \in entered(c, s) : Min(entered(c, s)) <= k /\ c[Min(entered(c, s))].at <= c[k].at
<1>1. DOMAIN c = 1..Len(c) /\ Len(c) \in Nat /\ Rising(c, now)
  BY LenProperties DEF CaseSound
<1>2. entered(c, s) \subseteq Nat /\ entered(c, s) \subseteq DOMAIN c
  BY <1>1 DEF entered
<1>3. Min(entered(c, s)) \in entered(c, s) /\ \A k \in entered(c, s) : Min(entered(c, s)) <= k
  BY <1>2, MinOf
<1> QED BY <1>1, <1>2, <1>3 DEF Rising

LEMMA FirstTime ==
  ASSUME ReportInv, NEW i \in Made, NEW s, NEW x, x = firstTransitionTime(i, s)
  PROVE  x \in Int /\ (entered(trail[i], s) = {} => x = Never)
         /\ (entered(trail[i], s) # {} => x \in Nat /\ x # Never /\ x = trail[i][Min(entered(trail[i], s))].at)
<1>1. CaseSound(lived[i], trail[i], instant)
  BY DEF ReportInv, CasesSound, Made
<1>2. CASE entered(trail[i], s) = {}
  BY <1>2 DEF firstTransitionTime, Never
<1>3. CASE entered(trail[i], s) # {}
  <2>1. x = trail[i][Min(entered(trail[i], s))].at
    BY <1>3 DEF firstTransitionTime
  <2>2. x \in Nat
    BY <1>1, <1>3, <2>1, FirstEntered
  <2> QED BY <1>3, <2>1, <2>2 DEF Never
<1> QED BY <1>2, <1>3

LEMMA CycleIsTold == ASSUME ReportInv PROVE CycleTold
<1>1. ASSUME NEW i \in Made, cycleDays(i) # Unknown
      PROVE  \/ cycleDays(i) >= 0 /\ computeCycleTime(i) = cycleDays(i)
             \/ cycleDays(i) < 0 /\ computeCycleTime(i) = Unknown
  <2>1. PICK p : p = "In Progress"
    OBVIOUS
  <2>2. PICK a, b : a = firstTransitionTime(i, "Done") /\ b = firstTransitionTime(i, p)
    OBVIOUS
  <2>3. a \in Int /\ b \in Int
    BY <2>2, FirstTime
  <2>4. cycleDays(i) = IF Stage(i) # "Done" \/ a = Never \/ b = Never THEN Unknown ELSE a - b
    BY <2>1, <2>2, Zenon DEF cycleDays
  <2>5. computeCycleTime(i) = LET from == IF b # Never THEN b ELSE MadeAt(i)
                              IN  IF a = Never \/ a < from THEN Unknown ELSE a - from
    BY <2>1, <2>2, Zenon DEF computeCycleTime
  <2>6. a # Never /\ b # Never /\ cycleDays(i) = a - b
    BY <1>1, <2>4
  <2>7. computeCycleTime(i) = IF a < b THEN Unknown ELSE a - b
    BY <2>5, <2>6
  <2> QED BY <2>3, <2>6, <2>7
<1> QED BY <1>1 DEF CycleTold

LEMMA ResolvedIsTold == ASSUME ReportInv PROVE ResolvedTold
<1> SUFFICES ASSUME Made = Whole, NEW d \in Days
             PROVE  cumulativeResolved(d) = Cardinality({i \in Made : \E k \in 2..Len(lived[i]) :
                                              lived[i][k].status = "Done" /\ lived[i][k].at <= d})
  BY DEF ResolvedTold
<1>1. ASSUME NEW i \in Made, NEW f, f = firstTransitionTime(i, "Done")
      PROVE  (f # Never /\ f <= d) <=> \E k \in 2..Len(lived[i]) : lived[i][k].status = "Done" /\ lived[i][k].at <= d
  <2>1. CaseSound(lived[i], trail[i], instant) /\ Full(lived[i], trail[i])
    BY WholeTold
  <2>2. /\ Len(trail[i]) \in Nat /\ DOMAIN trail[i] = 1..Len(trail[i]) /\ Len(lived[i]) = Len(trail[i]) + 1
        /\ \A k \in 1..Len(trail[i]) : trail[i][k].to = lived[i][k+1].status /\ trail[i][k].at = lived[i][k+1].at
        /\ \A k \in 1..Len(trail[i]) : trail[i][k].at \in Nat
    <3>1. RowByRow(lived[i], trail[i])
      BY <2>1, FullRows
    <3> QED BY <3>1 DEF RowByRow
  <2>3. PICK n \in Nat : n = Len(trail[i])
    BY <2>2
  <2>4. PICK E : E = entered(trail[i], "Done")
    OBVIOUS
  <2>5. \A k : k \in E <=> k \in 1..n /\ lived[i][k+1].status = "Done"
    BY <2>2, <2>3, <2>4 DEF entered
  <2>6. \A k \in 2..(n + 1) : k - 1 \in 1..n /\ (k - 1) + 1 = k
    OBVIOUS
  <2>7. d \in Int
    BY DaysTyped
  <2>8. CASE E = {}
    <3>1. f = Never
      BY <1>1, <2>4, <2>8, FirstTime
    <3>2. \A k \in 2..(n + 1) : lived[i][k].status # "Done"
      BY <2>5, <2>6, <2>8
    <3> QED BY <2>2, <2>3, <3>1, <3>2
  <2>9. CASE E # {}
    <3>1. PICK m : m = Min(E)
      OBVIOUS
    <3>2. f # Never /\ f \in Nat /\ f = trail[i][m].at
      BY <1>1, <2>4, <2>9, <3>1, FirstTime
    <3>3. m \in E /\ \A k \in E : trail[i][m].at <= trail[i][k].at
      BY <2>1, <2>4, <2>9, <3>1, FirstEntered
    <3>4. ASSUME f <= d PROVE \E k \in 2..(n + 1) : lived[i][k].status = "Done" /\ lived[i][k].at <= d
      <4>1. m + 1 \in 2..(n + 1) /\ lived[i][m+1].status = "Done" /\ lived[i][m+1].at = f
        BY <2>2, <2>3, <2>5, <3>2, <3>3
      <4> QED BY <3>4, <4>1
    <3>5. ASSUME NEW k \in 2..(n + 1), lived[i][k].status = "Done", lived[i][k].at <= d PROVE f <= d
      <4>1. k - 1 \in E /\ trail[i][k - 1].at = lived[i][k].at /\ trail[i][k - 1].at \in Nat
        BY <2>2, <2>3, <2>5, <2>6, <3>5
      <4>2. f <= trail[i][k - 1].at
        BY <3>2, <3>3, <4>1
      <4>3. PICK x \in Nat : x = trail[i][k - 1].at
        BY <4>1
      <4>4. f <= x /\ x <= d
        BY <3>5, <4>1, <4>2, <4>3
      <4> QED BY <2>7, <3>2, <4>3, <4>4
    <3> QED BY <2>2, <2>3, <3>2, <3>4, <3>5
  <2> QED BY <2>8, <2>9
<1> DEFINE A == {i \in Made : firstTransitionTime(i, "Done") # Never /\ firstTransitionTime(i, "Done") <= d}
           B == {i \in Made : \E k \in 2..Len(lived[i]) : lived[i][k].status = "Done" /\ lived[i][k].at <= d}
<1>2. A = B
  <2>1. ASSUME NEW i \in Made
        PROVE  (firstTransitionTime(i, "Done") # Never /\ firstTransitionTime(i, "Done") <= d)
               <=> \E k \in 2..Len(lived[i]) : lived[i][k].status = "Done" /\ lived[i][k].at <= d
    BY <1>1
  <2> QED BY <2>1
<1>3. cumulativeResolved(d) = Cardinality(A)
  BY DEF cumulativeResolved
<1> QED BY <1>2, <1>3

LEMMA LeadIsTold == ASSUME ReportInv PROVE LeadTold
<1> SUFFICES ASSUME first.of # "trail", NEW i \in DOMAIN CasesRead \cap Whole, NEW done,
                    done = {k \in DOMAIN lived[i] : lived[i][k].status = "Done"}
             PROVE  /\ done = {} => doneAt(i) = Never
                    /\ done # {} /\ (1 \notin done \/ Len(lived[i]) = 1) => doneAt(i) = lived[i][Min(done)].at
  BY DEF LeadTold
<1>1. TrailRead = trail
  BY DEF TrailRead
<1>2. CaseSound(lived[i], trail[i], instant) /\ Full(lived[i], trail[i])
  BY WholeTold
<1>3. /\ Len(trail[i]) \in Nat /\ DOMAIN trail[i] = 1..Len(trail[i]) /\ Len(lived[i]) = Len(trail[i]) + 1
      /\ DOMAIN lived[i] = 1..(Len(trail[i]) + 1)
      /\ \A k \in 1..Len(trail[i]) : trail[i][k].to = lived[i][k+1].status /\ trail[i][k].at = lived[i][k+1].at
  <2>1. RowByRow(lived[i], trail[i])
    BY <1>2, FullRows
  <2> QED BY <2>1 DEF RowByRow
<1>4. PICK n \in Nat : n = Len(trail[i])
  BY <1>3
<1>5. PICK E : E = entered(trail[i], "Done")
  OBVIOUS
<1>6. \A k : k \in E <=> k \in 1..n /\ k + 1 \in done
  BY <1>3, <1>4, <1>5 DEF entered
<1>7. doneAt(i) = IF E # {} THEN trail[i][Min(E)].at
                  ELSE IF CasesRead[i].status = "Done" /\ trail[i] = <<>> THEN CasesRead[i].at ELSE Never
  BY <1>1, <1>5 DEF doneAt
<1>8. done \subseteq 1..(n + 1) /\ E \subseteq 1..n
  BY <1>3, <1>4, <1>6
<1>9. CasesRead[i].at = lived[i][1].at /\ (Len(lived[i]) = 1 => CasesRead[i].status = lived[i][1].status)
  BY ReadCases DEF MadeAt
<1>10. trail[i] = <<>> <=> n = 0
  BY <1>2, <1>4, EmptySeq DEF CaseSound
<1>11. ASSUME done = {} PROVE doneAt(i) = Never
  <2>1. E = {}
    BY <1>6, <1>11
  <2>2. n = 0 => CasesRead[i].status # "Done"
    BY <1>3, <1>4, <1>9, <1>11
  <2> QED BY <1>7, <1>10, <2>1, <2>2
<1>12. ASSUME done # {}, Len(lived[i]) = 1 PROVE doneAt(i) = lived[i][Min(done)].at
  <2>1. n = 0 /\ done = {1} /\ E = {}
    BY <1>3, <1>4, <1>8, <1>12
  <2>2. 1 \in done /\ \A k \in done : 1 <= k
    BY <2>1
  <2>3. Min(done) = 1
    BY <1>8, <2>2, MinIs
  <2>4. CasesRead[i].status = "Done"
    BY <1>9, <1>12, <2>2
  <2> QED BY <1>7, <1>9, <1>10, <2>1, <2>3, <2>4
<1>13. ASSUME done # {}, 1 \notin done PROVE doneAt(i) = lived[i][Min(done)].at
  <2>1. PICK m : m = Min(done)
    OBVIOUS
  <2>2. m \in done /\ \A k \in done : m <= k
    BY <1>8, <1>13, <2>1, MinOf
  <2>3. m - 1 \in 1..n /\ (m - 1) + 1 = m
    BY <1>8, <1>13, <2>2
  <2>4. m - 1 \in E /\ \A k \in E : m - 1 <= k
    BY <1>6, <1>8, <2>2, <2>3
  <2>5. Min(E) = m - 1
    <3>1. PICK z : z = m - 1
      OBVIOUS
    <3>2. E \subseteq Nat /\ z \in E /\ \A k \in E : z <= k
      BY <1>8, <2>4, <3>1
    <3> QED BY <3>1, <3>2, MinIs
  <2>6. trail[i][m - 1].at = lived[i][m].at
    BY <1>3, <1>4, <2>3
  <2> QED BY <1>7, <2>1, <2>4, <2>5, <2>6
<1> QED BY <1>11, <1>12, <1>13

\* The reports tell what issues went through: cumulative flow, time in status,
\* both cycle times, created against resolved and lead time (reports.js,
\* timeInStatusReport.js), whatever the statuses, the moves and their moments.
THEOREM ReportsStaySound == ReportSpec => []ReportsSound
<1>1. ReportInv => ReportsSound
  BY FlowIsTold, TimesAreTold, CycleIsTold, ResolvedIsTold, LeadIsTold DEF ReportsSound
<1> QED BY <1>1, ReportInvariant, PTL
-----------------------------------------------------------------------------
(***************************************************************************)
(* Links and dependencies (Dependencies).  First what RowsAt gives: the    *)
(* rows at its places, each of them at its rank.                           *)
(***************************************************************************)
UpTo(K, k) == {m \in K : m <= k}
Rank(K, k) == Cardinality(UpTo(K, k))

LEMMA RankTyped ==
  ASSUME NEW K, K \subseteq Nat, IsFiniteSet(K), NEW k \in K
  PROVE  /\ Rank(K, k) \in 1..Cardinality(K) /\ IsFiniteSet(UpTo(K, k)) /\ Cardinality(K) \in Nat
         /\ Rank(K, k) \in Nat
<1>1. UpTo(K, k) \subseteq K /\ k \in UpTo(K, k)
  BY DEF UpTo
<1>2. IsFiniteSet(UpTo(K, k)) /\ Rank(K, k) <= Cardinality(K)
  BY <1>1, FS_Subset DEF Rank
<1>3. Rank(K, k) \in Nat /\ Cardinality(K) \in Nat
  BY <1>2, FS_CardinalityType DEF Rank
<1>4. Rank(K, k) # 0
  BY <1>1, <1>2, FS_EmptySet DEF Rank
<1> QED BY <1>2, <1>3, <1>4

LEMMA RankBelow ==
  ASSUME NEW K, K \subseteq Nat, IsFiniteSet(K), NEW k \in K, Rank(K, k) # 1
  PROVE  \E j \in K : j < k /\ Rank(K, j) = Rank(K, k) - 1
<1> DEFINE B == UpTo(K, k) \ {k}
<1>0. /\ Rank(K, k) \in 1..Cardinality(K) /\ IsFiniteSet(UpTo(K, k)) /\ Cardinality(K) \in Nat
      /\ Rank(K, k) \in Nat
  BY RankTyped
<1>1. Rank(K, k) \in Nat /\ IsFiniteSet(UpTo(K, k)) /\ Rank(K, k) # 0 /\ Cardinality(K) \in Nat
  BY <1>0
<1>2. k \in UpTo(K, k)
  BY DEF UpTo
<1>3. IsFiniteSet(B) /\ Cardinality(B) = Rank(K, k) - 1
  BY <1>1, <1>2, FS_RemoveElement DEF Rank
<1>4. B # {}
  <2>1. Cardinality(B) # 0
    BY <1>1, <1>3
  <2> HIDE DEF B
  <2> QED BY <2>1, FS_EmptySet
<1>5. B \subseteq Nat /\ \A m \in B : m <= k
  BY DEF UpTo
<1>6. PICK j \in B : \A m \in B : m <= j
  <2>1. k \in Nat
    OBVIOUS
  <2> HIDE DEF B
  <2> QED BY <1>4, <1>5, <2>1, GreatestOf
<1>7. j \in K /\ j < k
  BY <1>6 DEF UpTo
<1>8. UpTo(K, j) = B
  <2>1. j \in Nat /\ k \in Nat /\ \A m \in K : m \in Nat
    BY <1>7
  <2>2. \A m \in K : m <= j => m <= k /\ m # k
    BY <1>7, <2>1
  <2>3. \A m \in K : m <= k /\ m # k => m <= j
    BY <1>6 DEF UpTo
  <2> QED BY <2>2, <2>3 DEF UpTo
<1> HIDE DEF B
<1> QED BY <1>3, <1>7, <1>8 DEF Rank

LEMMA RankGrows ==
  ASSUME NEW K, K \subseteq Nat, IsFiniteSet(K), NEW j \in K, NEW k \in K, Rank(K, j) = Rank(K, k)
  PROVE  j = k
<1>1. ASSUME NEW a \in K, NEW b \in K, a < b PROVE Rank(K, a) # Rank(K, b)
  <2>1. UpTo(K, a) \subseteq UpTo(K, b) /\ b \in UpTo(K, b) /\ b \notin UpTo(K, a)
    <3>1. a \in Nat /\ b \in Nat /\ \A m \in K : m \in Nat
      OBVIOUS
    <3>2. (\A m \in K : m <= a => m <= b) /\ b <= b /\ ~(b <= a)
      BY <1>1, <3>1
    <3> QED BY <3>2 DEF UpTo
  <2>2. IsFiniteSet(UpTo(K, b))
    BY RankTyped
  <2>3. Cardinality(UpTo(K, a)) = Cardinality(UpTo(K, b)) => UpTo(K, a) = UpTo(K, b)
    BY <2>1, <2>2, FS_Subset
  <2> QED BY <2>1, <2>3 DEF Rank
<1>2. j \in Nat /\ k \in Nat
  OBVIOUS
<1> QED BY <1>1, <1>2

LEMMA RankTaken ==
  ASSUME NEW K, K \subseteq Nat, IsFiniteSet(K), NEW z \in Nat, \A m \in K : m <= z, NEW n \in 1..Cardinality(K)
  PROVE  \E k \in K : Rank(K, k) = n
<1> DEFINE B == {k \in K : n <= Rank(K, k)}
<1>1. Cardinality(K) \in Nat /\ n \in Nat
  BY FS_CardinalityType
<1>2. B # {}
  <2>1. K # {}
    BY <1>1, FS_EmptySet
  <2>3. PICK k \in K : \A m \in K : m <= k
    BY <2>1, GreatestOf
  <2>4. UpTo(K, k) = K
    BY <2>3 DEF UpTo
  <2> QED BY <1>1, <2>4 DEF Rank
<1>3. B \subseteq Nat
  OBVIOUS
<1>4. PICK k \in B : \A m \in B : k <= m
  <2> HIDE DEF B
  <2> QED BY <1>2, <1>3, LeastOf
<1>5. SUFFICES ASSUME Rank(K, k) # n PROVE FALSE
  BY <1>4
<1>6. Rank(K, k) \in Nat /\ n <= Rank(K, k) /\ Rank(K, k) # 1
  <2>1. k \in K /\ n <= Rank(K, k)
    BY <1>4
  <2>2. Rank(K, k) \in Nat
    BY <2>1, RankTyped
  <2>3. n # 0
    BY <1>1
  <2> QED BY <1>1, <1>5, <2>1, <2>2, <2>3
<1>7. PICK j \in K : j < k /\ Rank(K, j) = Rank(K, k) - 1
  BY <1>4, <1>6, RankBelow
<1>8. n <= Rank(K, j)
  BY <1>1, <1>5, <1>6, <1>7
<1> QED BY <1>4, <1>7, <1>8

LEMMA RowsAtTells ==
  ASSUME NEW R, NEW s \in Seq(R), NEW K, K \subseteq DOMAIN s
  PROVE  RowsAt(s, K) \in Seq(R) /\ Rows(RowsAt(s, K)) = {s[k] : k \in K}
<1>1. Len(s) \in Nat /\ DOMAIN s = 1..Len(s) /\ \A k \in DOMAIN s : s[k] \in R
  BY LenProperties
<1>2. IsFiniteSet(K) /\ K \subseteq Nat /\ \A m \in K : m <= Len(s)
  <2>1. IsFiniteSet(1..Len(s))
    BY <1>1, FS_Interval
  <2> QED BY <1>1, <2>1, FS_Subset
<1>3. PICK c \in Nat : c = Cardinality(K)
  BY <1>2, FS_CardinalityType
<1> DEFINE pick(n) == CHOOSE k \in K : Rank(K, k) = n
           d == [n \in 1..c |-> s[pick(n)]]
<1>4. RowsAt(s, K) = d
  BY <1>3 DEF RowsAt, Rank, UpTo
<1>5. ASSUME NEW n \in 1..c PROVE pick(n) \in K /\ Rank(K, pick(n)) = n
  <2>1. \E k \in K : Rank(K, k) = n
    BY <1>1, <1>2, <1>3, RankTaken
  <2> QED BY <2>1
<1>6. ASSUME NEW k \in K PROVE Rank(K, k) \in 1..c /\ pick(Rank(K, k)) = k
  <2>1. Rank(K, k) \in 1..c
    BY <1>2, <1>3, RankTyped
  <2>2. pick(Rank(K, k)) \in K /\ Rank(K, pick(Rank(K, k))) = Rank(K, k)
    BY <1>5, <2>1
  <2> HIDE DEF pick
  <2> QED BY <1>2, <2>1, <2>2, RankGrows
<1> HIDE DEF pick
<1>7. d \in [1..c -> R]
  BY <1>1, <1>5
<1>8. d \in Seq(R)
  BY <1>7, SeqDef
<1>9. Rows(d) = {s[k] : k \in K}
  <2>1. DOMAIN d = 1..c /\ \A n \in 1..c : d[n] = s[pick(n)]
    OBVIOUS
  <2> HIDE DEF d
  <2> QED BY <1>5, <1>6, <2>1 DEF Rows
<1> QED BY <1>4, <1>8, <1>9

\* One row less.
LEMMA OneRowLess ==
  ASSUME NEW R, NEW s \in Seq(R), NEW k \in DOMAIN s
  PROVE  RemoveAt(s, k) \in Seq(R) /\ Rows(RemoveAt(s, k)) \subseteq Rows(s)
<1>1. PICK n \in Nat : n = Len(s) /\ DOMAIN s = 1..n /\ k \in 1..n /\ \A j \in 1..n : s[j] \in R
  BY LenProperties
<1>2. PICK a, b : a = SubSeq(s, 1, k - 1) /\ b = SubSeq(s, k + 1, n)
  OBVIOUS
<1>3. a \in Seq(R) /\ Len(a) = k - 1 /\ \A j \in 1..(k - 1) : a[j] = s[j]
  BY <1>1, <1>2, SubSeqProperties
<1>4. b \in Seq(R) /\ Len(b) = n - k /\ \A j \in 1..(n - k) : b[j] = s[k + j]
  BY <1>1, <1>2, SubSeqProperties
<1>5. RemoveAt(s, k) = a \o b
  BY <1>1, <1>2 DEF RemoveAt
<1>6. /\ a \o b \in Seq(R) /\ Len(a \o b) = (k - 1) + (n - k)
      /\ \A j \in 1..((k - 1) + (n - k)) : (a \o b)[j] = IF j <= k - 1 THEN a[j] ELSE b[j - (k - 1)]
  <2>1. /\ a \o b \in Seq(R) /\ Len(a \o b) = Len(a) + Len(b)
        /\ \A j \in 1..(Len(a) + Len(b)) : (a \o b)[j] = IF j <= Len(a) THEN a[j] ELSE b[j - Len(a)]
    BY <1>3, <1>4, ConcatProperties, Zenon
  <2> QED BY <1>3, <1>4, <2>1
<1>7. PICK d : d = a \o b
  OBVIOUS
<1>8. d \in Seq(R) /\ DOMAIN d = 1..(n - 1)
  BY <1>1, <1>6, <1>7, LenProperties
<1>9. ASSUME NEW j \in 1..(n - 1) PROVE \E m \in 1..n : d[j] = s[m]
  <2>1. j \in 1..((k - 1) + (n - k))
    BY <1>1
  <2>2. CASE j <= k - 1
    <3>1. j \in 1..(k - 1) /\ j \in 1..n
      BY <1>1, <2>2
    <3>2. d[j] = a[j]
      BY <1>6, <1>7, <2>1, <2>2
    <3> QED BY <1>3, <3>1, <3>2
  <2>3. CASE ~(j <= k - 1)
    <3>1. j - (k - 1) \in 1..(n - k) /\ k + (j - (k - 1)) = j + 1 /\ j + 1 \in 1..n
      BY <1>1, <2>3
    <3>2. d[j] = b[j - (k - 1)]
      BY <1>6, <1>7, <2>1, <2>3
    <3> QED BY <1>4, <3>1, <3>2
  <2> QED BY <2>2, <2>3
<1>10. Rows(d) \subseteq Rows(s)
  <2> SUFFICES ASSUME NEW x \in Rows(d) PROVE x \in Rows(s)
    OBVIOUS
  <2>1. PICK j \in 1..(n - 1) : x = d[j]
    BY <1>8 DEF Rows
  <2>2. PICK m \in 1..n : d[j] = s[m]
    BY <1>9
  <2> QED BY <1>1, <2>1, <2>2 DEF Rows
<1> QED BY <1>5, <1>7, <1>8, <1>10

LEMMA OneRowMore ==
  ASSUME NEW R, NEW s \in Seq(R), NEW q \in R
  PROVE  Append(s, q) \in Seq(R) /\ Rows(Append(s, q)) = Rows(s) \cup {q}
<1>1. PICK n \in Nat : n = Len(s) /\ DOMAIN s = 1..n
  BY LenProperties
<1>2. PICK d : d = Append(s, q)
  OBVIOUS
<1>3. d \in Seq(R) /\ Len(d) = n + 1 /\ (\A j \in 1..n : d[j] = s[j]) /\ d[n + 1] = q
  BY <1>1, <1>2, AppendProperties
<1>4. DOMAIN d = 1..(n + 1)
  BY <1>3, LenProperties
<1> QED BY <1>1, <1>2, <1>3, <1>4 DEF Rows

(***************************************************************************)
(* What the tables keep: types, the ends of rows are there, and, while     *)
(* requests come one at a time, no row nor the one about to be inserted    *)
(* has a mirror image.                                                     *)
(***************************************************************************)
NodeRows == [project : 0..2, done : BOOLEAN, epic : BOOLEAN]
LinkRows == [source : Nodes, target : Nodes, type : LinkTypes]
DepRows == [source : Nodes, target : Nodes, type : {"finish_to_start"}]
Mirror(r) == Link(r.target, r.source, INVERSE(r.type))
NodesTyped ==
  /\ node \in [Nodes -> NodeRows] /\ seen \in [Nodes -> NodeRows]
  /\ \A i \in Nodes : Present(i) => node[i].project # 0
LinkersTyped ==
  /\ linker \in [Linkers -> LinkRows \cup DepRows \cup {NoLink}]
  /\ linked \in Nat /\ inTurns \in BOOLEAN
RowsKept ==
  /\ links \in Seq(LinkRows) /\ deps \in Seq(DepRows)
  /\ \A r \in Rows(links) \cup Rows(deps) : Present(r.source) /\ Present(r.target)
Unmirrored == inTurns =>
  /\ \A l, m \in Linkers : linker[l] # NoLink /\ linker[m] # NoLink => l = m
  /\ \A r \in Rows(links) : Mirror(r) \notin Rows(links)
  /\ \A l \in Linkers : linker[l].type \in LinkTypes => Mirror(linker[l]) \notin Rows(links) \cup {linker[l]}
DependencyInv == NodesTyped /\ LinkersTyped /\ RowsKept /\ Unmirrored

LEMMA KindsApart ==
  /\ "none" \notin LinkTypes /\ "finish_to_start" \notin LinkTypes /\ "none" # "finish_to_start"
  /\ \A t \in LinkTypes : INVERSE(INVERSE(t)) = t
<1>1. "none" \notin LinkTypes /\ "finish_to_start" \notin LinkTypes /\ "none" # "finish_to_start"
  BY DependenciesAssumption, Zenon
<1>2. PICK a, b, c : a = "blocks" /\ b = "is blocked by" /\ c = "relates to"
  OBVIOUS
<1>3. a # b /\ a # c /\ b # c /\ LinkTypes \subseteq {a, b, c}
  BY <1>2, DependenciesAssumption, Zenon
<1>4. INVERSE(a) = b /\ INVERSE(b) = a /\ INVERSE(c) = c
  <2>1. \A t : INVERSE(t) = CASE t = a -> b [] t = b -> a [] OTHER -> t
    BY <1>2, Zenon DEF INVERSE
  <2> QED BY <1>3, <2>1
<1> QED BY <1>1, <1>3, <1>4

LEMMA MirrorTwice == ASSUME NEW r \in LinkRows PROVE Mirror(Mirror(r)) = r
<1>1. INVERSE(INVERSE(r.type)) = r.type
  BY KindsApart DEF LinkRows
<1>2. Mirror(Mirror(r)) = Link(r.source, r.target, INVERSE(INVERSE(r.type)))
  BY DEF Mirror, Link
<1> QED BY <1>1, <1>2 DEF Link, LinkRows

\* A request begins, and one ends.
LEMMA CallTells ==
  ASSUME DependencyInv, NEW l \in Linkers, NEW q \in LinkRows \cup DepRows \cup {NoLink}, Call(l, q)
  PROVE  /\ LinkersTyped' /\ linker' = [linker EXCEPT ![l] = q]
         /\ inTurns' => inTurns /\ \A m \in Linkers : linker[m] = NoLink
<1>1. /\ inTurns' = (inTurns /\ \A m \in Linkers : linker[m] = NoLink)
      /\ linked' = linked + 1 /\ linker' = [linker EXCEPT ![l] = q]
  BY DEF Call
<1>2. inTurns' \in BOOLEAN
  BY <1>1, Zenon
<1>3. linked' \in Nat /\ linker' \in [Linkers -> LinkRows \cup DepRows \cup {NoLink}]
  BY <1>1 DEF DependencyInv, LinkersTyped
<1> QED BY <1>1, <1>2, <1>3 DEF LinkersTyped

LEMMA CloseTells ==
  ASSUME DependencyInv, NEW l \in Linkers, linker[l] # NoLink, Close(l)
  PROVE  /\ LinkersTyped' /\ inTurns' = inTurns
         /\ inTurns' => \A m \in Linkers : linker'[m] = NoLink
<1>1. linker' = [linker EXCEPT ![l] = NoLink] /\ UNCHANGED <<linked, inTurns>>
  BY DEF Close
<1>2. LinkersTyped'
  BY <1>1 DEF DependencyInv, LinkersTyped
<1>3. ASSUME inTurns, NEW m \in Linkers PROVE linker'[m] = NoLink
  <2>1. linker[m] # NoLink => m = l
    BY <1>3 DEF DependencyInv, Unmirrored
  <2> QED BY <1>1, <2>1 DEF DependencyInv, LinkersTyped
<1> QED BY <1>1, <1>2, <1>3

\* No request under way, and no row that was not there: no mirror either.
LEMMA StillUnmirrored ==
  ASSUME DependencyInv, inTurns' => inTurns /\ \A m \in Linkers : linker'[m] = NoLink,
         Rows(links') \subseteq Rows(links)
  PROVE  Unmirrored'
<1> SUFFICES ASSUME inTurns' PROVE Unmirrored'
  BY DEF Unmirrored
<1>1. inTurns /\ \A m \in Linkers : linker'[m] = NoLink /\ linker'[m].type \notin LinkTypes
  BY KindsApart DEF NoLink
<1>2. \A r \in Rows(links) : Mirror(r) \notin Rows(links)
  BY <1>1 DEF DependencyInv, Unmirrored
<1>3. \A r \in Rows(links') : Mirror(r) \notin Rows(links')
  BY <1>2
<1> QED BY <1>1, <1>3 DEF Unmirrored, Mirror

LEMMA PostLinkKeeps == ASSUME DependencyInv, NEW l \in Linkers, PostLink(l) PROVE DependencyInv'
<1>1. PICK s, t \in Nodes, type \in LinkTypes :
        /\ Present(s) /\ Present(t) /\ s # t
        /\ {Link(s, t, type), Link(t, s, INVERSE(type))} \cap Rows(links) = {}
        /\ Call(l, Link(s, t, type))
        /\ UNCHANGED <<node, links, deps, seen>>
  BY DEF PostLink
<1>2. PICK q : q = Link(s, t, type)
  OBVIOUS
<1>3. q \in LinkRows /\ Mirror(q) = Link(t, s, INVERSE(type)) /\ Mirror(q) # q /\ q.type = type
  BY <1>1, <1>2 DEF LinkRows, Link, Mirror
<1>4. /\ LinkersTyped' /\ linker' = [linker EXCEPT ![l] = q]
      /\ inTurns' => inTurns /\ \A m \in Linkers : linker[m] = NoLink
  BY <1>1, <1>2, <1>3, CallTells
<1>5. Unmirrored'
  <2> SUFFICES ASSUME inTurns' PROVE Unmirrored'
    BY DEF Unmirrored
  <2>1. \A m \in Linkers \ {l} : linker'[m] = NoLink /\ linker'[m].type \notin LinkTypes
    BY <1>4, KindsApart DEF DependencyInv, LinkersTyped, NoLink
  <2>2. linker'[l] = q
    BY <1>4 DEF DependencyInv, LinkersTyped
  <2>3. Mirror(q) \notin Rows(links) \cup {q}
    BY <1>1, <1>2, <1>3
  <2>4. \A r \in Rows(links) : Mirror(r) \notin Rows(links)
    BY <1>4 DEF DependencyInv, Unmirrored
  <2>5. links' = links
    BY <1>1
  <2> QED BY <2>1, <2>2, <2>3, <2>4, <2>5 DEF Unmirrored, Mirror
<1>6. NodesTyped' /\ RowsKept'
  BY <1>1 DEF DependencyInv, NodesTyped, RowsKept, Present
<1> QED BY <1>4, <1>5, <1>6 DEF DependencyInv

LEMMA InsertLinkKeeps == ASSUME DependencyInv, NEW l \in Linkers, InsertLink(l) PROVE DependencyInv'
<1>1. PICK q : q = linker[l]
  OBVIOUS
<1>2. /\ q.type \in LinkTypes /\ Close(l) /\ UNCHANGED <<node, deps, seen>>
      /\ links' = IF Present(q.source) /\ Present(q.target) /\ q \notin Rows(links)
                  THEN Append(links, q) ELSE links
  BY <1>1 DEF InsertLink
<1>3. q \in LinkRows /\ q # NoLink
  BY <1>1, <1>2, KindsApart DEF DependencyInv, LinkersTyped, DepRows, NoLink
<1>4. /\ LinkersTyped' /\ inTurns' = inTurns
      /\ inTurns' => \A m \in Linkers : linker'[m] = NoLink
  BY <1>1, <1>2, <1>3, CloseTells
<1>5. NodesTyped'
  BY <1>2 DEF DependencyInv, NodesTyped, Present
<1>6. CASE links' = links
  <2>1. RowsKept'
    BY <1>2, <1>6 DEF DependencyInv, RowsKept, Present
  <2>2. Unmirrored'
    BY <1>4, <1>6, StillUnmirrored
  <2> QED BY <1>4, <1>5, <2>1, <2>2 DEF DependencyInv
<1>7. CASE links' = Append(links, q) /\ Present(q.source) /\ Present(q.target)
  <2>1. links' \in Seq(LinkRows) /\ Rows(links') = Rows(links) \cup {q}
    BY <1>3, <1>7, OneRowMore DEF DependencyInv, RowsKept
  <2>2. RowsKept'
    BY <1>2, <1>7, <2>1 DEF DependencyInv, RowsKept, Present
  <2>3. Unmirrored'
    <3> SUFFICES ASSUME inTurns' PROVE Unmirrored'
      BY DEF Unmirrored
    <3>1. /\ Mirror(q) \notin Rows(links) \cup {q}
          /\ \A r \in Rows(links) : Mirror(r) \notin Rows(links)
      BY <1>1, <1>2, <1>4 DEF DependencyInv, Unmirrored
    <3>2. ASSUME NEW r \in Rows(links) PROVE Mirror(r) # q
      <4>1. r \in LinkRows
        BY LenProperties DEF DependencyInv, RowsKept, Rows
      <4> QED BY <3>1, <4>1, MirrorTwice
    <3>3. \A r \in Rows(links') : Mirror(r) \notin Rows(links')
      BY <2>1, <3>1, <3>2
    <3>4. \A m \in Linkers : linker'[m] = NoLink /\ linker'[m].type \notin LinkTypes
      BY <1>4, KindsApart DEF NoLink
    <3> QED BY <3>3, <3>4 DEF Unmirrored, Mirror
  <2> QED BY <1>4, <1>5, <2>2, <2>3 DEF DependencyInv
<1> QED BY <1>2, <1>6, <1>7

LEMMA DeleteLinkKeeps == ASSUME DependencyInv, NEW l \in Linkers, DeleteLink(l) PROVE DependencyInv'
<1>1. PICK k \in DOMAIN links :
        Call(l, NoLink) /\ links' = RemoveAt(links, k) /\ UNCHANGED <<node, deps, seen>>
  BY DEF DeleteLink
<1>2. LinkersTyped' /\ (inTurns' => inTurns /\ \A m \in Linkers : linker'[m] = NoLink)
  BY <1>1, CallTells DEF DependencyInv, LinkersTyped
<1>3. links' \in Seq(LinkRows) /\ Rows(links') \subseteq Rows(links)
  BY <1>1, OneRowLess DEF DependencyInv, RowsKept
<1>4. Unmirrored'
  BY <1>2, <1>3, StillUnmirrored
<1>5. NodesTyped' /\ RowsKept'
  BY <1>1, <1>3 DEF DependencyInv, NodesTyped, RowsKept, Present
<1> QED BY <1>2, <1>4, <1>5 DEF DependencyInv

LEMMA PostDependencyKeeps == ASSUME DependencyInv, NEW l \in Linkers, PostDependency(l) PROVE DependencyInv'
<1>1. PICK s, t \in Nodes : Call(l, Link(s, t, "finish_to_start")) /\ UNCHANGED <<node, links, deps, seen>>
  BY DEF PostDependency
<1>2. PICK q : q = Link(s, t, "finish_to_start")
  OBVIOUS
<1>3. q \in DepRows /\ q.type \notin LinkTypes
  BY <1>2, KindsApart DEF DepRows, Link
<1>4. /\ LinkersTyped' /\ linker' = [linker EXCEPT ![l] = q]
      /\ inTurns' => inTurns /\ \A m \in Linkers : linker[m] = NoLink
  BY <1>1, <1>2, <1>3, CallTells
<1>5. Unmirrored'
  <2> SUFFICES ASSUME inTurns' PROVE Unmirrored'
    BY DEF Unmirrored
  <2>1. \A m \in Linkers \ {l} : linker'[m] = NoLink /\ linker'[m].type \notin LinkTypes
    BY <1>4, KindsApart DEF DependencyInv, LinkersTyped, NoLink
  <2>2. linker'[l] = q
    BY <1>4 DEF DependencyInv, LinkersTyped
  <2>4. \A r \in Rows(links) : Mirror(r) \notin Rows(links)
    BY <1>4 DEF DependencyInv, Unmirrored
  <2>5. links' = links
    BY <1>1
  <2> QED BY <1>3, <2>1, <2>2, <2>4, <2>5 DEF Unmirrored, Mirror
<1>6. NodesTyped' /\ RowsKept'
  BY <1>1 DEF DependencyInv, NodesTyped, RowsKept, Present
<1> QED BY <1>4, <1>5, <1>6 DEF DependencyInv

LEMMA InsertDependencyKeeps == ASSUME DependencyInv, NEW l \in Linkers, InsertDependency(l) PROVE DependencyInv'
<1>1. PICK q : q = linker[l]
  OBVIOUS
<1>2. /\ q.type = "finish_to_start" /\ Close(l) /\ UNCHANGED <<node, links, seen>>
      /\ deps' = IF Present(q.source) /\ Present(q.target) /\ q \notin Rows(deps)
                 THEN Append(deps, q) ELSE deps
  BY <1>1 DEF InsertDependency
<1>3. q \in DepRows /\ q # NoLink
  BY <1>1, <1>2, KindsApart DEF DependencyInv, LinkersTyped, LinkRows, NoLink
<1>4. /\ LinkersTyped' /\ inTurns' = inTurns
      /\ inTurns' => \A m \in Linkers : linker'[m] = NoLink
  BY <1>1, <1>2, <1>3, CloseTells
<1>5. NodesTyped'
  BY <1>2 DEF DependencyInv, NodesTyped, Present
<1>6. Unmirrored'
  BY <1>2, <1>4, StillUnmirrored
<1>7. RowsKept'
  <2>1. CASE deps' = deps
    BY <1>2, <2>1 DEF DependencyInv, RowsKept, Present
  <2>2. CASE deps' = Append(deps, q) /\ Present(q.source) /\ Present(q.target)
    <3>1. deps' \in Seq(DepRows) /\ Rows(deps') = Rows(deps) \cup {q}
      BY <1>3, <2>2, OneRowMore DEF DependencyInv, RowsKept
    <3> QED BY <1>2, <2>2, <3>1 DEF DependencyInv, RowsKept, Present
  <2> QED BY <1>2, <2>1, <2>2
<1> QED BY <1>4, <1>5, <1>6, <1>7 DEF DependencyInv

LEMMA DeleteDependencyKeeps == ASSUME DependencyInv, NEW l \in Linkers, DeleteDependency(l) PROVE DependencyInv'
<1>1. PICK k \in DOMAIN deps :
        Call(l, NoLink) /\ deps' = RemoveAt(deps, k) /\ UNCHANGED <<node, links, seen>>
  BY DEF DeleteDependency
<1>2. LinkersTyped' /\ (inTurns' => inTurns /\ \A m \in Linkers : linker'[m] = NoLink)
  BY <1>1, CallTells DEF DependencyInv, LinkersTyped
<1>3. deps' \in Seq(DepRows) /\ Rows(deps') \subseteq Rows(deps)
  BY <1>1, OneRowLess DEF DependencyInv, RowsKept
<1>4. Unmirrored'
  BY <1>1, <1>2, StillUnmirrored
<1>5. NodesTyped' /\ RowsKept'
  BY <1>1, <1>3 DEF DependencyInv, NodesTyped, RowsKept, Present
<1> QED BY <1>2, <1>4, <1>5 DEF DependencyInv

LEMMA EditNodeKeeps == ASSUME DependencyInv, NEW l \in Linkers, EditNode(l) PROVE DependencyInv'
<1>1. PICK i \in Nodes :
        /\ Present(i) /\ Call(l, NoLink)
        /\ \/ node' = [node EXCEPT ![i].done = ~@]
           \/ node' = [node EXCEPT ![i].epic = ~@]
        /\ UNCHANGED <<links, deps, seen>>
  BY DEF EditNode
<1>2. LinkersTyped' /\ (inTurns' => inTurns /\ \A m \in Linkers : linker'[m] = NoLink)
  BY <1>1, CallTells DEF DependencyInv, LinkersTyped
<1>3. Unmirrored'
  BY <1>1, <1>2, StillUnmirrored
<1>4. node' \in [Nodes -> NodeRows] /\ \A j \in Nodes : node'[j].project = node[j].project /\ (j # i => node'[j] = node[j])
  <2>1. node \in [Nodes -> NodeRows]
    BY DEF DependencyInv, NodesTyped
  <2>2. CASE node' = [node EXCEPT ![i].done = ~@]
    BY <2>1, <2>2 DEF NodeRows
  <2>3. CASE node' = [node EXCEPT ![i].epic = ~@]
    BY <2>1, <2>3 DEF NodeRows
  <2> QED BY <1>1, <2>2, <2>3
<1>5. node[i].project # 0
  BY <1>1 DEF DependencyInv, NodesTyped
<1>6. \A j \in Nodes : node'[j] # NoNode <=> node[j] # NoNode
  <2>1. node'[i] # NoNode /\ node[i] # NoNode
    BY <1>1, <1>4, <1>5 DEF NoNode, Present
  <2> QED BY <1>4, <2>1
<1>7. NodesTyped'
  BY <1>1, <1>4, <1>6 DEF DependencyInv, NodesTyped, Present
<1>8. RowsKept'
  <2>1. ASSUME NEW r \in Rows(links) \cup Rows(deps) PROVE node'[r.source] # NoNode /\ node'[r.target] # NoNode
    <3>1. r \in LinkRows \cup DepRows
      BY LenProperties DEF DependencyInv, RowsKept, Rows
    <3>2. r.source \in Nodes /\ r.target \in Nodes
      BY <3>1 DEF LinkRows, DepRows
    <3> QED BY <1>6, <3>2 DEF DependencyInv, RowsKept, Present
  <2> QED BY <1>1, <2>1 DEF DependencyInv, RowsKept, Present
<1> QED BY <1>2, <1>3, <1>7, <1>8 DEF DependencyInv

LEMMA DeleteNodeKeeps == ASSUME DependencyInv, NEW l \in Linkers, DeleteNode(l) PROVE DependencyInv'
<1>1. PICK i \in Nodes :
        /\ Present(i) /\ Call(l, NoLink)
        /\ node' = [node EXCEPT ![i] = NoNode]
        /\ links' = RowsAt(links, Spared(links, i)) /\ deps' = RowsAt(deps, Spared(deps, i))
        /\ seen' = seen
  BY DEF DeleteNode
<1>2. LinkersTyped' /\ (inTurns' => inTurns /\ \A m \in Linkers : linker'[m] = NoLink)
  BY <1>1, CallTells DEF DependencyInv, LinkersTyped
<1>3. ASSUME NEW R, NEW s \in Seq(R), NEW t, t = RowsAt(s, Spared(s, i))
      PROVE  t \in Seq(R) /\ Rows(t) \subseteq Rows(s) /\ \A r \in Rows(t) : i # r.source /\ i # r.target
  <2>1. Spared(s, i) \subseteq DOMAIN s
    BY DEF Spared
  <2>2. t \in Seq(R) /\ Rows(t) = {s[k] : k \in Spared(s, i)}
    BY <1>3, <2>1, RowsAtTells
  <2> QED BY <2>2 DEF Spared, Rows
<1>4. /\ links' \in Seq(LinkRows) /\ Rows(links') \subseteq Rows(links)
      /\ \A r \in Rows(links') : i # r.source /\ i # r.target
  <2>1. links \in Seq(LinkRows)
    BY DEF DependencyInv, RowsKept
  <2> QED BY <1>1, <1>3, <2>1
<1>5. /\ deps' \in Seq(DepRows) /\ Rows(deps') \subseteq Rows(deps)
      /\ \A r \in Rows(deps') : i # r.source /\ i # r.target
  <2>1. deps \in Seq(DepRows)
    BY DEF DependencyInv, RowsKept
  <2> QED BY <1>1, <1>3, <2>1
<1>6. Unmirrored'
  BY <1>2, <1>4, StillUnmirrored
<1>7. node' \in [Nodes -> NodeRows] /\ node'[i] = NoNode /\ \A j \in Nodes \ {i} : node'[j] = node[j]
  BY <1>1 DEF DependencyInv, NodesTyped, NodeRows, NoNode
<1>8. NodesTyped'
  BY <1>1, <1>7 DEF DependencyInv, NodesTyped, Present
<1>9. RowsKept'
  <2>1. ASSUME NEW r \in Rows(links') \cup Rows(deps') PROVE node'[r.source] # NoNode /\ node'[r.target] # NoNode
    <3>1. r \in Rows(links) \cup Rows(deps) /\ i # r.source /\ i # r.target
      BY <1>4, <1>5
    <3>0. Rows(links) \subseteq LinkRows /\ Rows(deps) \subseteq DepRows
      BY LenProperties DEF DependencyInv, RowsKept, Rows
    <3>3. r \in LinkRows \cup DepRows
      BY <3>1, <3>0
    <3>4. node[r.source] # NoNode /\ node[r.target] # NoNode
      BY <3>1 DEF DependencyInv, RowsKept, Present
    <3>2. r.source \in Nodes \ {i} /\ r.target \in Nodes \ {i}
      BY <3>1, <3>3 DEF LinkRows, DepRows
    <3> QED BY <1>7, <3>4, <3>2
  <2> QED BY <1>4, <1>5, <2>1 DEF RowsKept, Present
<1> QED BY <1>2, <1>6, <1>8, <1>9 DEF DependencyInv

LEMMA DependencyRests == ASSUME DependencyInv, ReadNodes \/ UNCHANGED linkVars PROVE DependencyInv'
<1>1. /\ UNCHANGED <<node, links, deps, linker, linked, inTurns>> /\ (seen' = seen \/ seen' = node)
  BY DEF ReadNodes, linkVars
<1>2. NodesTyped' /\ LinkersTyped' /\ RowsKept'
  BY <1>1 DEF DependencyInv, NodesTyped, LinkersTyped, RowsKept, Present
<1>3. Unmirrored'
  BY <1>1 DEF DependencyInv, Unmirrored, Mirror
<1> QED BY <1>2, <1>3 DEF DependencyInv

LEMMA DependencyStart == ASSUME DependencyInit PROVE DependencyInv
<1>1. PICK far \in SUBSET Nodes :
        node = [i \in Nodes |-> [project |-> IF i \in far THEN 2 ELSE 1, done |-> FALSE, epic |-> TRUE]]
  BY DEF DependencyInit
<1>2. /\ links = <<>> /\ deps = <<>> /\ seen = [i \in Nodes |-> NoNode]
      /\ linker = [l \in Linkers |-> NoLink] /\ linked = 0 /\ inTurns = TRUE
  BY DEF DependencyInit
<1>3. NodesTyped
  BY <1>1, <1>2 DEF NodesTyped, NodeRows, NoNode
<1>4. LinkersTyped
  BY <1>2 DEF LinkersTyped
<1>5. Rows(<<>>) = {} /\ <<>> \in Seq(LinkRows) /\ <<>> \in Seq(DepRows)
  BY EmptySeq DEF Rows
<1>6. RowsKept
  BY <1>2, <1>5 DEF RowsKept
<1>7. Unmirrored
  <2>1. \A m \in Linkers : linker[m] = NoLink /\ linker[m].type \notin LinkTypes
    BY <1>2, KindsApart DEF NoLink
  <2> QED BY <1>2, <1>5, <2>1 DEF Unmirrored
<1> QED BY <1>3, <1>4, <1>6, <1>7 DEF DependencyInv

\* DependencyInv is inductive (issueLinks.js, advancedRoadmap.js): a link or dependency
\* joins issues that are there, whatever requests overlap and issues go.
THEOREM DependencyInvariant == DependencySpec => []DependencyInv
<1>1. DependencyInv /\ [DependencyNext]_linkVars => DependencyInv'
  <2> SUFFICES ASSUME DependencyInv, [DependencyNext]_linkVars PROVE DependencyInv'
    OBVIOUS
  <2> QED BY PostLinkKeeps, InsertLinkKeeps, DeleteLinkKeeps, PostDependencyKeeps, InsertDependencyKeeps,
             DeleteDependencyKeeps, EditNodeKeeps, DeleteNodeKeeps, DependencyRests DEF DependencyNext
<1> QED BY <1>1, DependencyStart, PTL DEF DependencySpec

\* The types of the links (issueLinks.js, advancedRoadmap.js): the ends of a link
\* or dependency are there.
THEOREM DependencyTypes == DependencySpec => []DependencyTypeOK
<1>1. ASSUME DependencyInv PROVE DependencyTypeOK
  <2>1. Rows(links) \subseteq LinkRows
    BY <1>1, LenProperties DEF DependencyInv, RowsKept, Rows
  <2>2. Rows(deps) \subseteq DepRows
    BY <1>1, LenProperties DEF DependencyInv, RowsKept, Rows
  <2>3. \A r \in Rows(links) : {r.source, r.target} \subseteq {i \in Nodes : Present(i)} /\ r.type \in LinkTypes
    <3> SUFFICES ASSUME NEW r \in Rows(links)
                 PROVE  {r.source, r.target} \subseteq {i \in Nodes : Present(i)} /\ r.type \in LinkTypes
      OBVIOUS
    <3>1. r.source \in Nodes /\ r.target \in Nodes /\ r.type \in LinkTypes
      BY <2>1 DEF LinkRows
    <3>2. Present(r.source) /\ Present(r.target)
      BY <1>1 DEF DependencyInv, RowsKept
    <3> QED BY <3>1, <3>2
  <2>4. \A r \in Rows(deps) : {r.source, r.target} \subseteq {i \in Nodes : Present(i)}
    <3> SUFFICES ASSUME NEW r \in Rows(deps) PROVE {r.source, r.target} \subseteq {i \in Nodes : Present(i)}
      OBVIOUS
    <3>1. r.source \in Nodes /\ r.target \in Nodes
      BY <2>2 DEF DepRows
    <3>2. Present(r.source) /\ Present(r.target)
      BY <1>1 DEF DependencyInv, RowsKept
    <3> QED BY <3>1, <3>2
  <2>5. node \in [Nodes -> NodeRows] /\ seen \in [Nodes -> NodeRows] /\ linked \in Nat /\ inTurns \in BOOLEAN
    BY <1>1 DEF DependencyInv, NodesTyped, LinkersTyped
  <2> QED BY <2>3, <2>4, <2>5 DEF DependencyTypeOK, NodeRows
<1> QED BY <1>1, DependencyInvariant, PTL

LEMMA MirrorsOut == ASSUME DependencyInv PROVE NoMirrors
<1> SUFFICES ASSUME inTurns, NEW i \in Nodes, NEW j \in DOMAIN links, NEW k \in DOMAIN links,
                    links[j].source = i, links[k].target = i, links[j].target = links[k].source,
                    links[j].type = INVERSE(links[k].type)
             PROVE  FALSE
  BY DEF NoMirrors
<1>1. links[j] \in LinkRows /\ links[k] \in LinkRows /\ links[j] \in Rows(links) /\ links[k] \in Rows(links)
  BY LenProperties DEF DependencyInv, RowsKept, Rows
<1>2. PICK a, b : a = links[j] /\ b = links[k]
  OBVIOUS
<1>3. a = [source |-> b.target, target |-> b.source, type |-> INVERSE(b.type)]
  BY <1>1, <1>2 DEF LinkRows
<1>4. a = Mirror(b)
  BY <1>3 DEF Mirror, Link
<1> QED BY <1>1, <1>2, <1>4 DEF DependencyInv, Unmirrored

(***************************************************************************)
(* The graph.  Its edges are those of all rows that block: each edge has a *)
(* first row that gives it.                                                *)
(***************************************************************************)
LEMMA EdgesTell ==
  ASSUME DependencyInv, NEW p
  PROVE  Rows(Edges(p)) = {normalizeEdge(links[k]) : k \in Blocks(p)}
<1>1. links \in Seq(LinkRows) /\ DOMAIN links \subseteq Nat /\ DOMAIN links = 1..Len(links)
  BY LenProperties DEF DependencyInv, RowsKept
<1>2. Blocks(p) \subseteq DOMAIN links /\ Firsts(p) \subseteq Blocks(p)
  BY DEF Blocks, Firsts
<1>3. PICK rows : rows = RowsAt(links, Firsts(p))
  OBVIOUS
<1>4. Rows(rows) = {links[k] : k \in Firsts(p)}
  BY <1>1, <1>2, <1>3, RowsAtTells
<1>5. PICK es : es = [n \in DOMAIN rows |-> normalizeEdge(rows[n])]
  OBVIOUS
<1>6. Edges(p) = es
  BY <1>3, <1>5 DEF Edges
<1>7. Rows(es) = {normalizeEdge(rows[n]) : n \in DOMAIN rows}
  BY <1>5 DEF Rows
<1>8. Rows(es) = {normalizeEdge(r) : r \in Rows(rows)}
  BY <1>7 DEF Rows
<1>9. Rows(es) = {normalizeEdge(links[k]) : k \in Firsts(p)}
  BY <1>8, <1>4
<1>10. ASSUME NEW k \in Blocks(p) PROVE \E m \in Firsts(p) : normalizeEdge(links[m]) = normalizeEdge(links[k])
  <2> DEFINE B == {m \in Blocks(p) : normalizeEdge(links[m]) = normalizeEdge(links[k])}
  <2>1. B \subseteq Nat /\ B # {}
    BY <1>1, <1>2
  <2>2. PICK m \in B : \A x \in B : m <= x
    <3> HIDE DEF B
    <3> QED BY <2>1, LeastOf
  <2>3. m \in Blocks(p) /\ m \in Nat /\ normalizeEdge(links[m]) = normalizeEdge(links[k])
    BY <2>1
  <2>4. ASSUME NEW x \in Blocks(p), x < m PROVE normalizeEdge(links[x]) # normalizeEdge(links[m])
    <3>1. x \in Nat
      BY <1>1, <1>2
    <3> QED BY <2>2, <2>3, <2>4, <3>1
  <2>5. m \in Firsts(p)
    BY <2>3, <2>4 DEF Firsts
  <2> QED BY <2>3, <2>5
<1> QED BY <1>2, <1>6, <1>9, <1>10

LEMMA GraphTells == ASSUME DependencyInv PROVE GraphTellsLinks
<1> SUFFICES ASSUME seen = node, NEW p \in {1, 2}, NEW i \in Known(p)
             PROVE  /\ blockedBy(p, i) = {l.issue : l \in {x \in LinkList(i) :
                                        x.type = "is blocked by" /\ node[x.issue].project = p}}
                    /\ isBlocked(p, i) = \E l \in LinkList(i) :
                         l.type = "is blocked by" /\ node[l.issue].project = p /\ ~node[l.issue].done
  BY DEF GraphTellsLinks
<1>1. PICK a, b, c : a = "blocks" /\ b = "is blocked by" /\ c = "relates to"
  OBVIOUS
<1>2. a # b /\ a # c /\ b # c /\ LinkTypes \subseteq {a, b, c}
  BY <1>1, DependenciesAssumption, Zenon
<1>3. INVERSE(a) = b /\ INVERSE(b) = a /\ INVERSE(c) = c
  <2>1. \A t : INVERSE(t) = CASE t = a -> b [] t = b -> a [] OTHER -> t
    BY <1>1, Zenon DEF INVERSE
  <2> QED BY <1>2, <2>1
<1>4. \A t : normalizeEdge(t) = IF t.type = a THEN <<t.source, t.target>> ELSE <<t.target, t.source>>
  BY <1>1, Zenon DEF normalizeEdge
<1>5. i \in Nodes /\ node[i].project = p
  BY DEF Known
<1>6. \A k \in DOMAIN links : links[k] \in LinkRows
  BY LenProperties DEF DependencyInv, RowsKept
<1>7. \A k : k \in Blocks(p) <=>
        /\ k \in DOMAIN links
        /\ links[k].type \in {a, b}
        /\ node[links[k].source].project = p /\ node[links[k].target].project = p
  <2> SUFFICES ASSUME NEW k \in DOMAIN links
               PROVE  k \in Blocks(p) <=>
                        /\ links[k].type \in {a, b}
                        /\ node[links[k].source].project = p /\ node[links[k].target].project = p
    BY DEF Blocks
  <2>1. PICK s, t, y : s = links[k].source /\ t = links[k].target /\ y = links[k].type
    OBVIOUS
  <2>2. s \in Nodes /\ t \in Nodes
    BY <1>6, <2>1 DEF LinkRows
  <2>3. k \in Blocks(p) <=> y \in {a, b} /\ {node[s].project, node[t].project} = {p} /\ {s, t} \subseteq Known(p)
    BY <1>1, <2>1, Zenon DEF Blocks
  <2>4. {s, t} \subseteq Known(p) <=> node[s].project = p /\ node[t].project = p
    BY <2>2 DEF Known
  <2> QED BY <2>1, <2>3, <2>4
\* The blockers of i, in the graph and in the list of its links.
<1> DEFINE Blocker(x) == \E k \in DOMAIN links :
             /\ node[x].project = p
             /\ \/ links[k].type = a /\ links[k].source = x /\ links[k].target = i
                \/ links[k].type = b /\ links[k].source = i /\ links[k].target = x
<1>8. ASSUME NEW x PROVE x \in blockedBy(p, i) <=> Blocker(x)
  <2>1. x \in blockedBy(p, i) <=> \E e \in Rows(Edges(p)) : e[2] = i /\ e[1] = x
    BY DEF blockedBy
  <2>2. x \in blockedBy(p, i) <=> \E k \in Blocks(p) : normalizeEdge(links[k])[2] = i /\ normalizeEdge(links[k])[1] = x
    BY <2>1, EdgesTell
  <2>3. ASSUME NEW k
        PROVE  k \in Blocks(p) /\ normalizeEdge(links[k])[2] = i /\ normalizeEdge(links[k])[1] = x
               <=> /\ k \in DOMAIN links /\ node[x].project = p
                   /\ \/ links[k].type = a /\ links[k].source = x /\ links[k].target = i
                      \/ links[k].type = b /\ links[k].source = i /\ links[k].target = x
    <3>1. CASE links[k].type = a
      <4>1. normalizeEdge(links[k]) = <<links[k].source, links[k].target>>
        BY <1>4, <3>1
      <4> QED BY <1>2, <1>5, <1>7, <3>1, <4>1
    <3>2. CASE links[k].type # a
      <4>1. normalizeEdge(links[k]) = <<links[k].target, links[k].source>>
        BY <1>4, <3>2
      <4> QED BY <1>2, <1>5, <1>7, <3>2, <4>1
    <3> QED BY <3>1, <3>2
  <2> QED BY <2>2, <2>3
<1>9. ASSUME NEW x PROVE [type |-> b, issue |-> x] \in LinkList(i) /\ node[x].project = p <=> Blocker(x)
  <2>1. [type |-> b, issue |-> x] \in LinkList(i) <=>
          \/ \E r \in Rows(links) : r.source = i /\ r.type = b /\ r.target = x
          \/ \E r \in Rows(links) : r.target = i /\ INVERSE(r.type) = b /\ r.source = x
    BY DEF LinkList
  <2>2. [type |-> b, issue |-> x] \in LinkList(i) <=>
          \E k \in DOMAIN links : \/ links[k].source = i /\ links[k].type = b /\ links[k].target = x
                                  \/ links[k].target = i /\ INVERSE(links[k].type) = b /\ links[k].source = x
    BY <2>1 DEF Rows
  <2>3. \A k \in DOMAIN links : INVERSE(links[k].type) = b <=> links[k].type = a
    BY <1>2, <1>3, <1>6 DEF LinkRows
  <2> QED BY <2>2, <2>3
<1> HIDE DEF Blocker
<1>10. ASSUME NEW x \in LinkList(i) PROVE x = [type |-> x.type, issue |-> x.issue]
  BY DEF LinkList
<1>11. \A x : x \in blockedBy(p, i) <=> \E l \in LinkList(i) : l.type = b /\ l.issue = x /\ node[l.issue].project = p
  <2> SUFFICES ASSUME NEW x
               PROVE  x \in blockedBy(p, i) <=> \E l \in LinkList(i) : l.type = b /\ l.issue = x /\ node[l.issue].project = p
    OBVIOUS
  <2>1. ASSUME x \in blockedBy(p, i)
        PROVE  \E l \in LinkList(i) : l.type = b /\ l.issue = x /\ node[l.issue].project = p
    <3>1. [type |-> b, issue |-> x] \in LinkList(i) /\ node[x].project = p
      BY <1>8, <1>9, <2>1
    <3> QED BY <3>1
  <2>2. ASSUME NEW l \in LinkList(i), l.type = b, l.issue = x, node[l.issue].project = p
        PROVE  x \in blockedBy(p, i)
    <3>1. [type |-> b, issue |-> x] \in LinkList(i)
      BY <1>10, <2>2
    <3> QED BY <1>8, <1>9, <2>2, <3>1
  <2> QED BY <2>1, <2>2
<1>12. blockedBy(p, i) = {l.issue : l \in {x \in LinkList(i) : x.type = b /\ node[x.issue].project = p}}
  BY <1>11
<1>13. isBlocked(p, i) = \E l \in LinkList(i) : l.type = b /\ node[l.issue].project = p /\ ~node[l.issue].done
  <2>1. isBlocked(p, i) <=> \E x \in blockedBy(p, i) : ~node[x].done
    BY DEF isBlocked
  <2>2. isBlocked(p, i) <=> \E l \in LinkList(i) : l.type = b /\ node[l.issue].project = p /\ ~node[l.issue].done
    BY <1>11, <2>1
  <2> QED BY <2>2, Zenon DEF isBlocked
<1> QED BY <1>1, <1>12, <1>13, Zenon

\* The graph of a project says of every issue what the issue's own link list says of it,
\* whatever was linked, finished, retyped or deleted meanwhile, once the report has read
\* the issues; and no link is there twice, seen from either end, while requests come one
\* at a time ("Prevent duplicate links in either direction", issueLinks.js:81).
THEOREM LinksStaySound == DependencySpec => [](GraphTellsLinks /\ NoMirrors)
<1>1. DependencyInv => GraphTellsLinks /\ NoMirrors
  BY GraphTells, MirrorsOut
<1> QED BY <1>1, DependencyInvariant, PTL
=============================================================================
