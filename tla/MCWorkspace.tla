----------------------------- MODULE MCWorkspace -----------------------------
(***************************************************************************)
(* The workspace around the issues: the audit log and sprints, with        *)
(* requests that come one at a time, who may do what in a project, teams,  *)
(* and the search.  They share no state, so a behaviour is one of theirs,  *)
(* chosen by `scene`, with the others at rest.                             *)
(***************************************************************************)
EXTENDS AuditChain, Access, Teams, Search, TLC

VARIABLES
  scene,
  unused, exists, home, started, completed, committed, added, parallel,
  fresh, live, stage, sprintOf, spc, job, mpc, move, steady

\* What stands for nothing is no project.
ASSUME WorkspaceAssumption == Null \notin {"p", "q"}

\* Two projects, an issue of each, a shared sprint and a later one.
Sprint == INSTANCE SprintLifecycle WITH
  Projects <- {"p", "q"}, Sprints <- {1, 2}, Legacy <- {1},
  Issues <- {1, 2}, ProjectOf <- <<"p", "q">>, Born <- {1},
  Admins <- {"a"}, Movers <- {"m"}, Statuses <- {"Backlog", "Done"},
  MaxRows <- 0, Opting <- {"q"}, Overlap <- FALSE,
  status <- stage, apc <- spc

sprintVars == <<unused, exists, home, started, completed, committed, added, parallel,
                fresh, live, stage, sprintOf, spc, job, mpc, move, steady>>
workspaceVars == <<scene, vars, sprintVars, accessVars, teamVars, searchVars>>

WorkspaceInit ==
  /\ scene \in {"audit", "sprints", "access", "teams", "search"}
  /\ Init /\ Sprint!Init /\ AccessInit /\ TeamInit /\ SearchInit
  /\ scene # "access" => \A m \in People : wsRole[m] = "Admin"
  /\ scene # "teams" => \A m \in Folk : rank[m] = "Admin"
  /\ scene # "search" => status = "" /\ q = "" /\ asker = "admin"

\* Events differ in nothing, nor do purges: the first that has not begun begins.
InLine ==
  /\ \A e \in Events : apc[e] = "new" /\ apc'[e] # "new" => e = CHOOSE f \in Events : apc[f] = "new"
  /\ \A r \in Retentions : rpc[r] = "idle" /\ rpc'[r] # "idle" => r = CHOOSE o \in Retentions : rpc[o] = "idle"

\* The scope of an admin is empty and that of a stranger takes no parameter: the
\* longest queries are a member's.
LongOnesScoped == Typed < 2 \/ asker = "member"

WorkspaceNext ==
  \/ scene = "audit" /\ Next /\ InLine /\ UNCHANGED <<scene, sprintVars, accessVars, teamVars, searchVars>>
  \/ scene = "sprints" /\ Sprint!Next /\ UNCHANGED <<scene, vars, accessVars, teamVars, searchVars>>
  \/ scene = "access" /\ AccessNext /\ UNCHANGED <<scene, vars, sprintVars, teamVars, searchVars>>
  \/ scene = "teams" /\ TeamNext /\ UNCHANGED <<scene, vars, sprintVars, accessVars, searchVars>>
  \/ scene = "search" /\ SearchNext /\ LongOnesScoped /\ UNCHANGED <<scene, vars, sprintVars, accessVars, teamVars>>

\* The others keep their types too, at rest and at work.
WorkspaceTypeOK == Sprint!TypeOK /\ AccessTypeOK /\ TeamTypeOK /\ SearchTypeOK

\* An issue never sits in a sprint of another project (SprintLifecycle).
Fits == Sprint!Fits
\* A sprint keeps its project, starts next to another of its project only where the
\* settings allow, and leaves no work behind when it ends (SprintLifecycle).
SprintRules == Sprint!SprintRules

\* The search finds what was asked for (Search).
Searched == scene = "search" => SearchSound

WorkspaceSpec == WorkspaceInit /\ [][WorkspaceNext]_workspaceVars

\* No handler prefers a person.
Symmetry == Permutations(People) \cup Permutations(Folk)
=============================================================================
