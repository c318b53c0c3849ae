-------------------------------- MODULE Teams --------------------------------
(***************************************************************************)
(* A team, its members and its links: server/routes/teams.js.  Being on a  *)
(* team grants no access to a project; who is on it is all that is at      *)
(* stake here.  The workspace role "Admin" stands for the Owner too.       *)
(***************************************************************************)
EXTENDS Integers, FiniteSets

CONSTANTS
  Folk,            \* who may be a member of the workspace
  Hands,           \* slots for the requests in progress
  MAX_TEAM_LINKS,
  MaxTurns,        \* requests of a behaviour whose requests come one at a time
  MaxTurnsAtOnce   \* requests of one in which they overlap

ASSUME TeamsAssumption ==
  /\ IsFiniteSet(Hands)
  /\ MAX_TEAM_LINKS \in Nat /\ MaxTurns \in Nat /\ MaxTurnsAtOnce \in Nat

VARIABLES
  rank,      \* members.role: "Admin", "Member" or, without a row, "none"
  team,      \* "unborn", "stands" or "gone"
  mode,      \* teams.membership
  roster,    \* team_members.role, "none" without a row
  links,     \* how many team_links
  turn,      \* the requests in progress
  turns,     \* requests begun so far
  single,    \* history variable: no two requests overlapped
  grounds    \* history variable: what spoke for each request at some instant of it

teamVars == <<rank, team, mode, roster, links, turn, turns, single, grounds>>

MEMBERSHIP_MODES == {"OPEN", "MEMBER_INVITE"}
TEAM_ROLES == {"Lead", "Member"}
NoTurn == [pc |-> "idle", op |-> "none", who |-> "nobody", admin |-> FALSE, target |-> "nobody",
           role |-> "none", mode |-> "OPEN"]
Resting(r) == turn[r].pc = "idle"
Leads == {m \in Folk : roster[m] = "Lead"}

Admit == /\ single' = (single /\ \A r \in Hands : Resting(r))
         /\ turns < (IF single' THEN MaxTurns ELSE MaxTurnsAtOnce)
         /\ turns' = turns + 1
\* A request takes the first free slot.
NextHand == CHOOSE r \in Hands : Resting(r) \/ \A s \in Hands : ~Resting(s)
\* loadUserRoles; whoever is no member of the workspace has no memberId.
Take(r, m, op, pc, target, role, md) ==
  /\ r = NextHand /\ Resting(r) /\ Admit /\ rank[m] # "none"
  /\ turn' = [turn EXCEPT ![r] = [pc |-> pc, op |-> op, who |-> m, admin |-> rank[m] = "Admin",
                                  target |-> target, role |-> role, mode |-> md]]
  /\ UNCHANGED <<rank, team, mode, roster, links>>
Then(r, pc) ==
  /\ turn' = [turn EXCEPT ![r] = IF pc = "idle" THEN NoTurn ELSE [@ EXCEPT !.pc = pc]]
  /\ UNCHANGED <<turns, single>>

\* POST /: the team, and then its creator as a Lead.
AskTeam(r) == \E m \in Folk, md \in MEMBERSHIP_MODES :
  /\ team = "unborn" /\ \A s \in Hands : turn[s].op # "create"
  /\ Take(r, m, "create", "create", m, "Lead", md)
CreateTeam(r) ==
  /\ turn[r].pc = "create" /\ Then(r, "insert")
  /\ team' = "stands" /\ mode' = turn[r].mode
  /\ UNCHANGED <<rank, roster, links>>

AskOf(r) == \E m \in Folk :
  /\ team # "unborn"
  /\ \/ \E md \in MEMBERSHIP_MODES : Take(r, m, "mode", "load", "nobody", "none", md)
     \/ Take(r, m, "rename", "load", "nobody", "none", "OPEN")
     \/ Take(r, m, "drop", "load", "nobody", "none", "OPEN")
     \/ \E t \in Folk, g \in TEAM_ROLES : Take(r, m, "add", "load", t, g, "OPEN")
     \/ \E t \in Folk, g \in TEAM_ROLES : Take(r, m, "role", "load", t, g, "OPEN")
     \/ \E t \in Folk : Take(r, m, "remove", "load", t, "none", "OPEN")
     \/ Take(r, m, "link", "load", "nobody", "none", "OPEN")
     \/ Take(r, m, "unlink", "load", "nobody", "none", "OPEN")

\* loadTeam.  What is not given keeps the value read here.
Load(r) ==
  /\ turn[r].pc = "load"
  /\ IF team = "stands"
     THEN turn' = [turn EXCEPT ![r].pc = "manage", ![r].mode = IF turn[r].op = "mode" THEN @ ELSE mode]
          /\ UNCHANGED <<turns, single>>
     ELSE Then(r, "idle")
  /\ UNCHANGED <<rank, team, mode, roster, links>>

CanManageTeam(r) == turn[r].admin \/ roster[turn[r].who] = "Lead"
Itself(r) == turn[r].target = turn[r].who
\* mutated: the mode of the team is not asked
MayAlways(r) ==
  \/ CanManageTeam(r)
  \/ turn[r].op = "add" /\ Itself(r) /\ turn[r].role = "Member"
  \/ turn[r].op = "remove" /\ Itself(r)
\* Whoever does not manage the team may join an open one and leave any.
May(r) ==
  \/ CanManageTeam(r)
  \/ turn[r].op = "add" /\ Itself(r) /\ turn[r].mode = "OPEN" /\ turn[r].role = "Member"
  \/ turn[r].op = "remove" /\ Itself(r)
Manage(r) ==
  /\ turn[r].pc = "manage"
  /\ Then(r, IF ~May(r) THEN "idle"
             ELSE CASE turn[r].op \in {"mode", "rename"} -> "update"
                    [] turn[r].op = "add" -> "insert"
                    [] turn[r].op \in {"role", "remove"} -> "existing"
                    [] OTHER -> turn[r].op)
  /\ UNCHANGED <<rank, team, mode, roster, links>>

Update(r) ==
  /\ turn[r].pc = "update" /\ Then(r, "idle")
  /\ mode' = IF team = "stands" THEN turn[r].mode ELSE mode
  /\ UNCHANGED <<rank, team, roster, links>>
DropTeam(r) ==
  /\ turn[r].pc = "drop" /\ Then(r, "idle")
  /\ team' = "gone" /\ roster' = [m \in Folk |-> "none"] /\ links' = 0
  /\ UNCHANGED <<rank, mode>>
\* ON CONFLICT DO NOTHING; the row of somebody who is gone, or of a team that is, fails.
Insert(r) ==
  /\ turn[r].pc = "insert" /\ Then(r, "idle")
  /\ roster' = IF team = "stands" /\ rank[turn[r].target] # "none" /\ roster[turn[r].target] = "none"
               THEN [roster EXCEPT ![turn[r].target] = turn[r].role] ELSE roster
  /\ UNCHANGED <<rank, team, mode, links>>

\* The last-Lead guard of PATCH and DELETE.
Existing(r) ==
  /\ turn[r].pc = "existing"
  /\ Then(r, CASE roster[turn[r].target] = "none" -> "idle"
               [] roster[turn[r].target] = "Lead" /\ turn[r].role # "Lead" -> "leads"
               [] OTHER -> "change")
  /\ UNCHANGED <<rank, team, mode, roster, links>>
\* mutated: the Lead who goes is not counted out
LeadCountLax(r) ==
  /\ turn[r].pc = "leads" /\ Then(r, IF Cardinality(Leads) < 1 THEN "idle" ELSE "change")
  /\ UNCHANGED <<rank, team, mode, roster, links>>
LeadCount(r) ==
  /\ turn[r].pc = "leads" /\ Then(r, IF Cardinality(Leads) <= 1 THEN "idle" ELSE "change")
  /\ UNCHANGED <<rank, team, mode, roster, links>>
Change(r) ==
  /\ turn[r].pc = "change" /\ Then(r, "idle")
  /\ roster' = IF roster[turn[r].target] = "none" THEN roster
               ELSE [roster EXCEPT ![turn[r].target] = turn[r].role]
  /\ UNCHANGED <<rank, team, mode, links>>

CountLinks(r) ==
  /\ turn[r].pc = "link" /\ Then(r, IF links >= MAX_TEAM_LINKS THEN "idle" ELSE "addlink")
  /\ UNCHANGED <<rank, team, mode, roster, links>>
AddLink(r) ==
  /\ turn[r].pc = "addlink" /\ Then(r, "idle")
  /\ links' = IF team = "stands" THEN links + 1 ELSE links
  /\ UNCHANGED <<rank, team, mode, roster>>
\* The link that is asked for may have gone already.
Unlink(r) ==
  /\ turn[r].pc = "unlink" /\ Then(r, "idle")
  /\ links' \in {links, links - 1} \cap Nat
  /\ UNCHANGED <<rank, team, mode, roster>>

\* The workspace's own handlers (module Membership).
LeaveWorkspace(r) == \E m \in Folk :
  /\ r = NextHand /\ Resting(r) /\ Admit /\ rank[m] # "none"
  /\ rank' = [rank EXCEPT ![m] = "none"] /\ roster' = [roster EXCEPT ![m] = "none"]
  /\ UNCHANGED <<team, mode, links, turn>>
Promote(r) == \E m \in Folk, g \in {"Admin", "Member"} :
  /\ r = NextHand /\ Resting(r) /\ Admit /\ rank[m] \notin {"none", g}
  /\ rank' = [rank EXCEPT ![m] = g]
  /\ UNCHANGED <<team, mode, roster, links, turn>>

Speaks(m) ==
  (IF rank[m] = "Admin" \/ roster[m] = "Lead" THEN {"manager"} ELSE {})
  \cup (IF mode = "OPEN" THEN {"open"} ELSE {})
Note == grounds' = [r \in Hands |->
  IF turn'[r].pc = "idle" THEN {} ELSE grounds[r] \cup Speaks(turn[r].who)']

TeamInit ==
  /\ rank \in [Folk -> {"Admin", "Member"}]
  /\ team = "unborn" /\ mode = "OPEN"
  /\ roster = [m \in Folk |-> "none"] /\ links = 0
  /\ turn = [r \in Hands |-> NoTurn] /\ turns = 0 /\ single = TRUE
  /\ grounds = [r \in Hands |-> {}]
TeamNext ==
  /\ \E r \in Hands :
       \/ AskTeam(r) \/ CreateTeam(r) \/ AskOf(r) \/ Load(r) \/ Manage(r)
       \/ Update(r) \/ DropTeam(r) \/ Insert(r) \/ Existing(r) \/ LeadCount(r) \/ Change(r)
       \/ CountLinks(r) \/ AddLink(r) \/ Unlink(r) \/ LeaveWorkspace(r) \/ Promote(r)
  /\ Note
TeamSpec == TeamInit /\ [][TeamNext]_teamVars

TeamTypeOK ==
  /\ rank \in [Folk -> {"Admin", "Member", "none"}]
  /\ team \in {"unborn", "stands", "gone"} /\ mode \in MEMBERSHIP_MODES
  /\ roster \in [Folk -> TEAM_ROLES \cup {"none"}]
  /\ \A m \in Folk : roster[m] # "none" => rank[m] # "none" /\ team = "stands"
  /\ links \in Nat
  /\ \A r \in Hands : grounds[r] \subseteq {"manager", "open"}

\* However requests overlap with changes of mode and roles, somebody is put on the
\* team, given another role or taken off it by somebody else only for a request
\* whose sender managed the team at some instant of it, or by joining on their own
\* while it was open (teams.js:385-420 judges what 388 and 407 read earlier).
Warranted ==
  [][\A r \in Hands, m \in Folk :
       ~Resting(r) /\ turn'[r].pc = "idle" /\ turn[r].op \in {"add", "role", "remove"} /\ roster'[m] # roster[m] =>
         \/ "manager" \in grounds[r]
         \/ m = turn[r].who /\ (roster'[m] = "none" \/ ("open" \in grounds[r] /\ roster'[m] = "Member"))]_teamVars

\* While requests come one at a time, a team that has a Lead keeps one until it is
\* deleted or a member leaves the workspace (teams.js:466-468 and 496-498).
LeadKept ==
  [][single' /\ Leads # {} /\ Leads' = {} => team' = "gone" \/ rank' # rank]_teamVars

\* The cap on links holds for requests that come one at a time, and overlapping
\* ones exceed it by no more than there are others in progress (teams.js:550-557).
LinksCapped == links <= MAX_TEAM_LINKS + (IF single THEN 0 ELSE Cardinality(Hands) - 1)

TeamsSound == Warranted /\ LeadKept /\ []LinksCapped
=============================================================================
