------------------------------- MODULE Access -------------------------------
(***************************************************************************)
(* Who may see, edit and manage a project: the gates of                    *)
(* server/middleware/authorize.js, the project and project-member handlers *)
(* of server/routes/projects.js, the roles GET /auth/me tells the pages,   *)
(* and the permissions src/hooks/usePermissions.js derives from them.      *)
(*                                                                         *)
(* One project, as every gate asks about one.  A call loads its sender's   *)
(* workspace role first, is judged by a later read, and writes later still.*)
(* The workspace role "Admin" stands for the Owner too: both bypass.       *)
(***************************************************************************)
EXTENDS Integers, FiniteSets

CONSTANTS
  People,          \* who may be a member of the workspace
  WsRoles,         \* the roles of members
  ProjectRoles,    \* the roles of project_members
  Nobody,          \* no lead
  Callers,         \* slots for the requests in progress
  MaxCalls,        \* requests of a behaviour whose requests come one at a time
  MaxCallsAtOnce   \* requests of one in which they overlap

ROLE_RANK == [none |-> 0, Viewer |-> 1, Member |-> 2, Admin |-> 3, Lead |-> 4]
Tier == {"Lead", "Admin"}

ASSUME AccessAssumption ==
  /\ Nobody \notin People
  /\ "Admin" \in WsRoles /\ WsRoles \subseteq {"Viewer", "Member", "Admin"}
  /\ "Lead" \in ProjectRoles /\ ProjectRoles \subseteq {"Viewer", "Member", "Admin", "Lead"}
  /\ MaxCalls \in Nat /\ MaxCallsAtOnce \in Nat

VARIABLES
  wsRole,    \* members.role, "none" without a row
  project,   \* "unborn", "stands" or "gone"
  lead,      \* projects.lead_member_id
  seat,      \* project_members.role, "none" without a row
  call,      \* the requests in progress
  calls,     \* requests begun so far
  apart,     \* history variable: no two requests overlapped
  could      \* history variable: what the sender of each request had the right
             \* to do at some instant since it began

accessVars == <<wsRole, project, lead, seat, call, calls, apart, could>>

Members == {m \in People : wsRole[m] # "none"}
NoCall == [pc |-> "idle", op |-> "none", who |-> Nobody, known |-> FALSE, ws |-> "Viewer",
           target |-> Nobody, role |-> "none", lead |-> Nobody]
Free(r) == call[r].pc = "idle"

(***************************************************************************)
(* The gates.                                                              *)
(***************************************************************************)
\* The role resolveProjectAccess finds: an explicit one, or the lead's.
ProjectRole(m) == IF seat[m] # "none" THEN seat[m] ELSE IF lead = m THEN "Lead" ELSE "none"

\* mutated: the better of the two roles counts, as before JL-289
BetterRank(ws, role) ==
  IF ROLE_RANK[role] > ROLE_RANK[ws] THEN ROLE_RANK[role] ELSE ROLE_RANK[ws]
\* A role in the project counts for more than the one in the workspace, up or down.
EffectiveRank(ws, role) == IF role # "none" THEN ROLE_RANK[role] ELSE ROLE_RANK[ws]

ReadGate(ws, role) == ws = "Admin" \/ project # "stands" \/ role # "none"
WriteGate(ws, role) ==
  \/ ws = "Admin"
  \/ /\ project = "stands" => role # "none"
     /\ EffectiveRank(ws, role) >= ROLE_RANK["Member"]
\* mutated: a member of the project passes
LaxGate(ws, row) == ws = "Admin" \/ ROLE_RANK[row] >= ROLE_RANK["Member"]
\* requireProjectRole('Admin'), which knows the rows of project_members only.
SettingsGate(ws, row) == ws = "Admin" \/ ROLE_RANK[row] >= ROLE_RANK["Admin"]
\* POST /issues/bulk has a gate of its own.
BulkGate(ws, role) ==
  \/ ws = "Admin"
  \/ role # "none" /\ (ROLE_RANK[ws] >= ROLE_RANK["Member"] \/ ROLE_RANK[role] >= ROLE_RANK["Member"])

\* accessibleProjectIds, which the listings narrow by: is the project among them?
InScope(m) == wsRole[m] = "Admin" \/ seat[m] # "none" \/ lead = m

\* mutated: a role is told to those with a row only
RowTold(m) == seat[m]
\* The role of the project that GET /auth/me tells m, "none" if it lists no such project.
Told(m) ==
  IF wsRole[m] # "none" /\ (seat[m] # "none" \/ lead = m)
  THEN IF seat[m] = "none" THEN "Lead" ELSE seat[m]
  ELSE "none"

\* usePermissions: canEditIssue and its like, and canManageProjectSettings.
UiEdits(m) ==
  \/ wsRole[m] = "Admin"
  \/ (IF Told(m) # "none" THEN ROLE_RANK[Told(m)] ELSE ROLE_RANK[wsRole[m]]) >= ROLE_RANK["Member"]
UiManages(m) == wsRole[m] = "Admin" \/ ROLE_RANK[Told(m)] >= ROLE_RANK["Admin"]

(***************************************************************************)
(* Requests.  The first step is loadUserRoles.                             *)
(***************************************************************************)
Count == apart' = (apart /\ \A r \in Callers : Free(r))
         /\ calls < (IF apart' THEN MaxCalls ELSE MaxCallsAtOnce)
         /\ calls' = calls + 1
\* A request takes the first free slot.
First == CHOOSE r \in Callers : Free(r) \/ \A s \in Callers : ~Free(s)
Begin(r, m, op, pc, target, role) ==
  /\ r = First /\ Free(r) /\ Count
  /\ call' = [call EXCEPT ![r] =
       [NoCall EXCEPT !.pc = pc, !.op = op, !.who = m, !.known = m \in Members, !.target = target,
                      !.role = role, !.ws = IF m \in Members THEN wsRole[m] ELSE "Viewer"]]
  /\ UNCHANGED <<wsRole, project, lead, seat>>
Goto(r, pc) ==
  /\ call' = [call EXCEPT ![r] = IF pc = "idle" THEN NoCall ELSE [@ EXCEPT !.pc = pc]]
  /\ UNCHANGED <<calls, apart>>
\* memberId is null for a sender who had no row when the request began.
RoleOf(r) == IF call[r].known THEN ProjectRole(call[r].who) ELSE "none"
RowOf(r) == IF call[r].known THEN seat[call[r].who] ELSE "none"

\* requireProjectWrite before a handler that edits an issue of the project.
AskEdit(r) == \E m \in People : project = "stands" /\ Begin(r, m, "edit", "resolve", Nobody, "none")
Resolve(r) ==
  /\ call[r].pc = "resolve"
  /\ Goto(r, IF WriteGate(call[r].ws, RoleOf(r)) THEN "edit" ELSE "idle")
  /\ UNCHANGED <<wsRole, project, lead, seat>>
Edit(r) ==
  /\ call[r].pc = "edit" /\ Goto(r, "idle")
  /\ UNCHANGED <<wsRole, project, lead, seat>>

\* POST /projects: the creator of the chosen lead's project becomes a Lead of it.
AskProject(r) == \E m \in People, l \in Members \cup {Nobody} :
  /\ project = "unborn" /\ \A s \in Callers : call[s].op # "make"
  /\ m \in Members /\ ROLE_RANK[wsRole[m]] >= ROLE_RANK["Member"]
  /\ Begin(r, m, "make", "insert", l, "none")
InsertProject(r) ==
  /\ call[r].pc = "insert"
  /\ LET there == call[r].target \in Members \cup {Nobody} IN      \* the foreign key
     /\ project' = IF there THEN "stands" ELSE project
     /\ lead' = IF there THEN call[r].target ELSE lead
     /\ Goto(r, IF there THEN "found" ELSE "idle")
  /\ UNCHANGED <<wsRole, seat>>
Found(r) ==
  /\ call[r].pc = "found"
  /\ seat' = IF project = "stands" /\ call[r].who \in Members /\ seat[call[r].who] = "none"
             THEN [seat EXCEPT ![call[r].who] = "Lead"] ELSE seat
  /\ Goto(r, "idle")
  /\ UNCHANGED <<wsRole, project, lead>>

\* The handlers behind loadProjectRole and requireProjectRole('Admin').
AskLead(r) == \E m \in People, l \in People \cup {Nobody} : Begin(r, m, "lead", "gate", l, "none")
AskRename(r) == \E m \in People : Begin(r, m, "rename", "gate", Nobody, "none")
AskDrop(r) == \E m \in People : Begin(r, m, "drop", "gate", Nobody, "none")
AskSeat(r) == \E m \in People, t \in People, g \in ProjectRoles : Begin(r, m, "seat", "gate", t, g)
AskRole(r) == \E m \in People, t \in People, g \in ProjectRoles : Begin(r, m, "role", "gate", t, g)
AskUnseat(r) == \E m \in People, t \in People : Begin(r, m, "unseat", "gate", t, "none")
AskManage(r) ==
  /\ project # "unborn"
  /\ AskLead(r) \/ AskRename(r) \/ AskDrop(r) \/ AskSeat(r) \/ AskRole(r) \/ AskUnseat(r)

Gate(r) ==
  /\ call[r].pc = "gate"
  /\ Goto(r, IF ~SettingsGate(call[r].ws, RowOf(r)) THEN "idle"
             ELSE IF call[r].op = "seat" THEN "set" ELSE "read")
  /\ UNCHANGED <<wsRole, project, lead, seat>>

\* PUT /:id reads the row it will write back; a lead that is named must be a member.
ReadProject(r) ==
  /\ call[r].pc = "read" /\ call[r].op \in {"rename", "lead"}
  /\ IF project = "stands" /\ call[r].target \in Members \cup {Nobody}
     THEN call' = [call EXCEPT ![r].pc = "put", ![r].lead = IF call[r].op = "lead" THEN call[r].target ELSE lead]
          /\ UNCHANGED <<calls, apart>>
     ELSE Goto(r, "idle")
  /\ UNCHANGED <<wsRole, project, lead, seat>>
PutProject(r) ==
  /\ call[r].pc = "put"
  /\ lead' = IF project = "stands" /\ call[r].lead \in Members \cup {Nobody} THEN call[r].lead ELSE lead
  /\ Goto(r, "idle")
  /\ UNCHANGED <<wsRole, project, seat>>

\* DELETE /:id
ReadToDrop(r) ==
  /\ call[r].pc = "read" /\ call[r].op = "drop"
  /\ Goto(r, IF project = "stands" THEN "empty" ELSE "idle")
  /\ UNCHANGED <<wsRole, project, lead, seat>>
EmptyProject(r) ==
  /\ call[r].pc = "empty" /\ Goto(r, "drop")
  /\ seat' = [m \in People |-> "none"]
  /\ UNCHANGED <<wsRole, project, lead>>
DropProject(r) ==
  /\ call[r].pc = "drop" /\ Goto(r, "idle")
  /\ project' = "gone" /\ lead' = Nobody /\ seat' = [m \in People |-> "none"]
  /\ UNCHANGED wsRole

\* PATCH and DELETE /:id/members/:memberId: the last of the admin tier stays.
Leaves(r) == seat[call[r].target] \in Tier /\ call[r].role \notin Tier
\* mutated: nothing is asked of somebody who is removed
ReadSeatLax(r) ==
  /\ call[r].pc = "read" /\ call[r].op \in {"role", "unseat"}
  /\ Goto(r, IF call[r].op = "role" /\ seat[call[r].target] = "none" THEN "idle"
             ELSE IF call[r].op = "role" /\ Leaves(r) THEN "count" ELSE "set")
  /\ UNCHANGED <<wsRole, project, lead, seat>>
ReadSeat(r) ==
  /\ call[r].pc = "read" /\ call[r].op \in {"role", "unseat"}
  /\ Goto(r, IF call[r].op = "role" /\ seat[call[r].target] = "none" THEN "idle"
             ELSE IF Leaves(r) THEN "count" ELSE "set")
  /\ UNCHANGED <<wsRole, project, lead, seat>>
CountTier(r) ==
  /\ call[r].pc = "count"
  /\ Goto(r, IF Cardinality({m \in People : seat[m] \in Tier}) <= 1 THEN "idle" ELSE "set")
  /\ UNCHANGED <<wsRole, project, lead, seat>>
\* mutated: no foreign key refuses a member, or a project, that is gone
SetSeatAnyway(r) ==
  /\ call[r].pc = "set"
  /\ LET t == call[r].target IN
     seat' = IF call[r].op = "seat" \/ seat[t] # "none" THEN [seat EXCEPT ![t] = call[r].role] ELSE seat
  /\ Goto(r, "idle")
  /\ UNCHANGED <<wsRole, project, lead>>
\* POST inserts one row of a member, PATCH and DELETE change what row there is.
SetSeat(r) ==
  /\ call[r].pc = "set"
  /\ LET t == call[r].target IN
     seat' = IF (IF call[r].op = "seat" THEN project = "stands" /\ t \in Members /\ seat[t] = "none"
                 ELSE seat[t] # "none")
             THEN [seat EXCEPT ![t] = call[r].role] ELSE seat
  /\ Goto(r, "idle")
  /\ UNCHANGED <<wsRole, project, lead>>

\* The workspace's own handlers (module Membership), by somebody with the bypass.
SomeAdmin == \E a \in Members : wsRole[a] = "Admin"
SparesAdmin(m) == wsRole[m] = "Admin" => \E a \in Members \ {m} : wsRole[a] = "Admin"
SetRole(r) == \E m \in People, g \in WsRoles :
  /\ r = First /\ Free(r) /\ Count
  /\ SomeAdmin /\ g # wsRole[m] /\ (g # "Admin" => SparesAdmin(m))
  /\ wsRole' = [wsRole EXCEPT ![m] = g]
  /\ UNCHANGED <<project, lead, seat, call>>
AskRemove(r) == \E m \in Members : SomeAdmin /\ SparesAdmin(m) /\ Begin(r, Nobody, "remove", "strip", m, "none")
Strip(r) ==
  /\ call[r].pc = "strip" /\ Goto(r, "delete")
  /\ seat' = [seat EXCEPT ![call[r].target] = "none"]
  /\ UNCHANGED <<wsRole, project, lead>>
Delete(r) ==
  /\ call[r].pc = "delete" /\ Goto(r, "idle")
  /\ wsRole' = [wsRole EXCEPT ![call[r].target] = "none"]
  /\ seat' = [seat EXCEPT ![call[r].target] = "none"]
  /\ lead' = IF lead = call[r].target THEN Nobody ELSE lead
  /\ UNCHANGED project

(***************************************************************************)
(* What JL-224 to JL-289 promise, whoever asks.                            *)
(***************************************************************************)
MayEdit(m) == wsRole[m] = "Admin" \/ ProjectRole(m) \in {"Member"} \cup Tier
MayManage(m) == wsRole[m] = "Admin" \/ ProjectRole(m) \in Tier
Rights(m) ==
  IF m = Nobody THEN {} ELSE (IF MayEdit(m) THEN {"edit"} ELSE {}) \cup (IF MayManage(m) THEN {"manage"} ELSE {})

Remember ==
  could' = [r \in Callers |-> IF call'[r].pc = "idle" THEN {} ELSE could[r] \cup Rights(call[r].who)']

AccessInit ==
  /\ wsRole \in [People -> WsRoles \cup {"none"}] /\ SomeAdmin
  /\ project = "unborn" /\ lead = Nobody
  /\ seat = [m \in People |-> "none"]
  /\ call = [r \in Callers |-> NoCall]
  /\ calls = 0 /\ apart = TRUE
  /\ could = [r \in Callers |-> {}]

AccessNext ==
  /\ \E r \in Callers :
       \/ AskEdit(r) \/ Resolve(r) \/ Edit(r)
       \/ AskProject(r) \/ InsertProject(r) \/ Found(r)
       \/ AskManage(r) \/ Gate(r)
       \/ ReadProject(r) \/ PutProject(r) \/ ReadToDrop(r) \/ EmptyProject(r) \/ DropProject(r)
       \/ ReadSeat(r) \/ CountTier(r) \/ SetSeat(r)
       \/ SetRole(r) \/ AskRemove(r) \/ Strip(r) \/ Delete(r)
  /\ Remember
AccessSpec == AccessInit /\ [][AccessNext]_accessVars

AccessTypeOK ==
  /\ wsRole \in [People -> WsRoles \cup {"none"}]
  /\ project \in {"unborn", "stands", "gone"}
  /\ lead \in Members \cup {Nobody}
  /\ seat \in [People -> ProjectRoles \cup {"none"}]
  /\ \A m \in People : seat[m] # "none" => m \in Members /\ project = "stands"
  /\ \A r \in Callers : call[r].who \in People \cup {Nobody} /\ could[r] \subseteq {"edit", "manage"}

\* For every member the listing, the roles told to the pages and the read gate
\* agree on who sees the project; whoever sees it is offered to edit exactly when
\* the write gate clears the edit, and whoever holds a row is offered to manage it
\* exactly when the settings gate clears that.  Four readers derive it from
\* different joins (authorize.js:143-185 and 280-310, auth.js:498-545, usePermissions.js).
AccessAgrees ==
  project = "stands" => \A m \in Members :
    LET sees == ReadGate(wsRole[m], ProjectRole(m)) IN
    /\ sees <=> InScope(m)
    /\ sees <=> wsRole[m] = "Admin" \/ Told(m) # "none"
    /\ sees => (UiEdits(m) <=> WriteGate(wsRole[m], ProjectRole(m)))
    /\ seat[m] # "none" => (UiManages(m) <=> SettingsGate(wsRole[m], seat[m]))

\* However requests overlap with changes of roles, with removals and with each
\* other, an issue of the project is edited and its settings, members and
\* existence are changed only for somebody who had the right to at some instant
\* since the request began (authorize.js:205-262 judges reads made earlier).
RightsHeld ==
  [][\A r \in Callers : call[r].pc # "idle" /\ call'[r].pc = "idle" =>
       /\ call[r].pc = "edit" => "edit" \in could[r] \/ project # "stands"
       /\ call[r].pc \in {"put", "drop", "set"} => "manage" \in could[r] \/ project # "stands"]_accessVars

\* While requests come one at a time, a project that has a Lead or an Admin among
\* its members keeps one until it is deleted or a member is removed from the
\* workspace (the guards of projects.js:473-479 and 511-517).
Tended == \E m \in People : seat[m] \in Tier
TierKept ==
  [][apart' /\ Tended /\ ~Tended' => \E r \in Callers : call[r].pc \in {"empty", "strip"}]_accessVars

\* Nobody acts on a project without a right to, and nobody's last manager goes.
AccessHeld == RightsHeld /\ TierKept

\* The gate of bulk changes clears nobody whom the gate of single changes refuses:
\* "a workspace Member holding project Viewer is genuinely restricted"
\* (authorize.js:134-138; issues.js:1232-1238 restates the rule for bulk changes).
BulkAsStrict ==
  project = "stands" => \A m \in Members :
    BulkGate(wsRole[m], ProjectRole(m)) => WriteGate(wsRole[m], ProjectRole(m))
=============================================================================
