----------------------------- MODULE IssueTree ------------------------------
(***************************************************************************)
(* Keys and structure of issues: what routes/issues.js, importExport.js,   *)
(* portal.js and inboundEmail.js insert, what PATCH and the bulk route     *)
(* retype, and what deleting issues and projects takes along.              *)
(*                                                                         *)
(* A request takes one step per statement another request may come         *)
(* between.  Titles, people, statuses and sprints are left out: statuses   *)
(* are IssueTransition's, sprints SprintLifecycle's.                       *)
(***************************************************************************)
EXTENDS Integers, FiniteSets, Sequences

CONSTANTS
  Askers,       \* slots for the requests in progress
  MaxProjects,  \* projects.id is handed out up to here
  Names,        \* project keys; "A" is that of the first project, and a project-less key begins with "PROJ"
  MaxAsks,      \* requests of a behaviour whose requests come one at a time
  MaxAsksAtOnce \* requests of one in which they overlap

ASSUME IssueTreeAssumption ==
  {"A", "PROJ"} \subseteq Names /\ MaxProjects \in Nat /\ MaxAsks \in Nat /\ MaxAsksAtOnce \in Nat

VARIABLES
  project,      \* projects: [state, name, counter], by id
  issue,        \* issues: rows [id, key, type, project, parent, epic]
  lastIssue,    \* the issues.id handed out last
  ask,          \* the requests in progress
  asked,        \* requests begun so far
  used,         \* history variable: every key an issue was ever given, with its id
  served,       \* history variable: for whom numbers were drawn under a name
  refused,      \* history variable: the names under which the unique index refused a key
  retyped,      \* history variable: issues whose type changed without a look at epics
  orderly       \* history variable: no two requests overlapped

treeVars == <<project, issue, lastIssue, ask, asked, used, served, refused, retyped, orderly>>

NoOne == 0
Projects == 1..MaxProjects
Types == {"Story", "Epic", "Sub-task"}      \* Bug and Task fare as Story does
NoAsk == [pc |-> "idle", project |-> NoOne, name |-> "PROJ", n |-> 0, left |-> 1, type |-> "Story",
          parent |-> NoOne, epic |-> NoOne, id |-> NoOne, todo |-> {}]
Resting(a) == ask[a].pc = "idle"
Ids == {i.id : i \in issue}
Row(id) == CHOOSE i \in issue : i.id = id
Stands(p) == p \in Projects /\ project[p].state = "live"
NameFor(p) == IF p = NoOne THEN "PROJ" ELSE project[p].name

Take(a, q) ==
  /\ a = CHOOSE b \in Askers : Resting(b) \/ \A c \in Askers : ~Resting(c)
  /\ Resting(a)
  /\ orderly' = (orderly /\ \A b \in Askers : Resting(b))
  /\ asked < IF orderly' THEN MaxAsks ELSE MaxAsksAtOnce
  /\ asked' = asked + 1
  /\ ask' = [ask EXCEPT ![a] = q]
Then(a, q) == ask' = [ask EXCEPT ![a] = q] /\ UNCHANGED <<asked, orderly>>
Over(a) == Then(a, NoAsk)
Drawn == UNCHANGED <<used, served, refused, retyped>>

TreeInit ==
  /\ project = [p \in Projects |-> [state |-> IF p = 1 THEN "live" ELSE "none",
                                    name |-> IF p = 1 THEN "A" ELSE "PROJ", counter |-> 0]]
  /\ issue = {} /\ lastIssue = 0
  /\ ask = [a \in Askers |-> NoAsk] /\ asked = 0
  /\ used = {} /\ served = [n \in Names |-> {}] /\ refused = {} /\ retyped = {}
  /\ orderly = TRUE

(***************************************************************************)
(* What makes issues: POST /issues and the portal and mailboxes (which     *)
(* name no epic), sub-tasks, clones and imports.  Each first reads the     *)
(* project, and with it the name its keys begin with.                      *)
(***************************************************************************)
AskIssue(a) == \E p \in {NoOne} \cup {q \in Projects : Stands(q)}, t \in Types, e \in {NoOne} \cup Ids :
  /\ Take(a, [NoAsk EXCEPT !.pc = "number", !.project = p, !.name = NameFor(p), !.type = t, !.epic = e])
  /\ UNCHANGED <<project, issue, lastIssue>> /\ Drawn

AskSubtask(a) == \E i \in issue :
  /\ i.parent = NoOne
  /\ Take(a, [NoAsk EXCEPT !.pc = "number", !.project = i.project, !.name = NameFor(i.project),
                          !.type = "Sub-task", !.parent = i.id])
  /\ UNCHANGED <<project, issue, lastIssue>> /\ Drawn

\* A clone takes the type and the epic of its source as they are, not the parent.
AskClone(a) == \E i \in issue :
  /\ Take(a, [NoAsk EXCEPT !.pc = "number", !.project = i.project, !.name = NameFor(i.project),
                          !.type = i.type, !.epic = i.epic, !.id = i.id])
  /\ UNCHANGED <<project, issue, lastIssue>> /\ Drawn

\* An import of two rows.
AskImport(a) == \E p \in Projects :
  /\ Stands(p)
  /\ Take(a, [NoAsk EXCEPT !.pc = "number", !.project = p, !.name = NameFor(p), !.left = 2])
  /\ UNCHANGED <<project, issue, lastIssue>> /\ Drawn

\* nextIssueKey: the counter of the project moves past every number it gives
\* out; without a project the issues are counted; a project that has gone
\* meanwhile is an error 500.
\* mutated: an import counts the issues of its project and leaves the counter (JL-363)
NumberByCount(a) == LET q == ask[a] IN
  /\ q.pc = "number"
  /\ IF q.project # NoOne /\ ~Stands(q.project)
     THEN Over(a) /\ UNCHANGED <<project, served>>
     ELSE LET last == IF q.project = NoOne THEN Cardinality(issue) + 1
                      ELSE IF q.left = 2 THEN Cardinality({i \in issue : i.project = q.project}) + 2
                      ELSE project[q.project].counter + 1 IN
       /\ Then(a, [q EXCEPT !.pc = IF q.id = NoOne /\ q.epic # NoOne THEN "epic" ELSE "insert",
                            !.n = last - q.left + 1])
       /\ project' = IF q.project = NoOne \/ q.left = 2 THEN project
                     ELSE [project EXCEPT ![q.project].counter = last]
       /\ served' = [served EXCEPT ![q.name] = @ \cup {q.project}]
  /\ UNCHANGED <<issue, lastIssue, used, refused, retyped>>
DrawNumber(a) == LET q == ask[a] IN
  /\ q.pc = "number"
  /\ IF q.project # NoOne /\ ~Stands(q.project)
     THEN Over(a) /\ UNCHANGED <<project, served>>
     ELSE LET last == IF q.project = NoOne THEN Cardinality(issue) + 1
                      ELSE project[q.project].counter + q.left IN
       /\ Then(a, [q EXCEPT !.pc = IF q.id = NoOne /\ q.epic # NoOne THEN "epic" ELSE "insert",
                            !.n = last - q.left + 1])
       /\ project' = IF q.project = NoOne THEN project ELSE [project EXCEPT ![q.project].counter = last]
       /\ served' = [served EXCEPT ![q.name] = @ \cup {q.project}]
  /\ UNCHANGED <<issue, lastIssue, used, refused, retyped>>

\* validateEpicRef, after the number was drawn: a refusal leaves a gap.
EpicFits(e, t) == t = "Story" /\ \E i \in issue : i.id = e /\ i.type = "Epic"
CheckEpic(a) == LET q == ask[a] IN
  /\ q.pc = "epic"
  /\ IF EpicFits(q.epic, q.type) THEN Then(a, [q EXCEPT !.pc = "insert"]) ELSE Over(a)
  /\ UNCHANGED <<project, issue, lastIssue>> /\ Drawn

\* A required field is missing, or the process stops: the number is lost.
GiveUp(a) ==
  /\ ask[a].pc = "insert" /\ Over(a)
  /\ UNCHANGED <<project, issue, lastIssue>> /\ Drawn

\* INSERT INTO issues: what it refers to must be there, and its key must be new.
Insert(a) ==
  LET q == ask[a]
      key == <<q.name, q.n>>
      refers == /\ q.project = NoOne \/ Stands(q.project)
                /\ {q.parent, q.epic} \subseteq Ids \cup {NoOne}
      taken == \E i \in issue : i.key = key
  IN
  /\ q.pc = "insert"
  /\ lastIssue' = lastIssue + 1
  /\ IF refers /\ ~taken
     THEN /\ issue' = issue \cup {[id |-> lastIssue', key |-> key, type |-> q.type, project |-> q.project,
                                   parent |-> q.parent, epic |-> q.epic]}
          /\ used' = used \cup {<<key, lastIssue'>>}
          /\ retyped' = IF q.id \in retyped THEN retyped \cup {lastIssue'} ELSE retyped
          /\ IF q.left = 1 THEN Over(a) ELSE Then(a, [q EXCEPT !.n = @ + 1, !.left = @ - 1])
     ELSE Over(a) /\ UNCHANGED <<issue, used, retyped>>
  /\ refused' = IF refers /\ taken THEN refused \cup {q.name} ELSE refused
  /\ UNCHANGED <<project, served>>

(***************************************************************************)
(* What changes issues.                                                    *)
(***************************************************************************)
\* An Epic that is none any more, or an issue that becomes something else than
\* the epic it has allows, without a word on the epic.
Strays(i, t, epicNamed) == t # i.type /\ (i.type = "Epic" \/ ~epicNamed)

\* PATCH /issues/:id with a type, an epic, or both: judged on the row as read ...
PatchIssue(a) == \E i \in issue, t \in Types \cup {"same"}, e \in Ids \cup {NoOne}, named \in BOOLEAN :
  /\ named \/ e = NoOne
  /\ e # NoOne => e # i.id /\ EpicFits(e, IF t = "same" THEN i.type ELSE t)
  /\ Take(a, [NoAsk EXCEPT !.pc = IF named THEN "patch" ELSE "retype", !.id = i.id, !.type = t, !.epic = e])
  /\ UNCHANGED <<project, issue, lastIssue>> /\ Drawn

\* ... and written by id.  An epic that has gone meanwhile is an error 500.
WritePatch(a) == LET q == ask[a] IN
  /\ q.pc \in {"patch", "retype"}
  /\ Over(a)
  /\ IF q.id \in Ids /\ q.epic \in Ids \cup {NoOne}
     THEN LET i == Row(q.id)
              t == IF q.type = "same" THEN i.type ELSE q.type
              j == [i EXCEPT !.type = t, !.epic = IF q.pc = "patch" THEN q.epic ELSE @] IN
       /\ issue' = (issue \ {i}) \cup {j}
       /\ retyped' = IF Strays(i, t, q.pc = "patch") THEN retyped \cup {i.id} ELSE retyped
     ELSE UNCHANGED <<issue, retyped>>
  /\ UNCHANGED <<project, lastIssue, used, served, refused>>

\* POST /issues/bulk with delete or a type: buildBulkPreview judges the rows as
\* they were read, and each is written by id later on.
MayBecome(i, t) == t # i.type /\ "Sub-task" \notin {t, i.type} /\ (t = "Epic" => i.epic = NoOne)
Bulk(a) == \E T \in SUBSET issue, t \in {"delete"} \cup Types :
  /\ T # {} /\ t # "delete" => \A i \in T : MayBecome(i, t)
  /\ Take(a, [NoAsk EXCEPT !.pc = "bulk", !.type = t, !.todo = {i.id : i \in T}])
  /\ UNCHANGED <<project, issue, lastIssue>> /\ Drawn

\* Sub-tasks go with their parent; the issues of an epic only lose it.
Without(ids) ==
  LET gone == {i.id : i \in {j \in issue : j.id \in ids \/ j.parent \in ids}} IN
  {IF i.epic \in gone THEN [i EXCEPT !.epic = NoOne] ELSE i : i \in {j \in issue : j.id \notin gone}}

BulkNext(a) == \E id \in ask[a].todo : LET q == ask[a] IN
  /\ q.pc = "bulk"
  /\ IF q.todo = {id} THEN Over(a) ELSE Then(a, [q EXCEPT !.todo = @ \ {id}])
  /\ IF q.type = "delete" THEN issue' = Without({id}) /\ UNCHANGED retyped
     ELSE /\ issue' = {IF i.id = id THEN [i EXCEPT !.type = q.type] ELSE i : i \in issue}
          /\ retyped' = retyped \cup {i.id : i \in {j \in issue : j.id = id /\ j.type = "Epic"}}
  /\ UNCHANGED <<project, lastIssue, used, served, refused>>

\* DELETE /issues/:id
DeleteOne(a) == \E i \in issue :
  /\ Take(a, NoAsk)
  /\ issue' = Without({i.id})
  /\ UNCHANGED <<project, lastIssue>> /\ Drawn

(***************************************************************************)
(* Projects: made, given another key, and deleted in two statements.       *)
(***************************************************************************)
FreeName(n) == \A p \in Projects : Stands(p) => project[p].name # n
NewProject(a) == \E p \in Projects, n \in Names :
  /\ project[p].state = "none" /\ FreeName(n) /\ \A r \in 1..p - 1 : project[r].state # "none"
  /\ Take(a, NoAsk)
  /\ project' = [project EXCEPT ![p].state = "live", ![p].name = n]
  /\ UNCHANGED <<issue, lastIssue>> /\ Drawn
RenameProject(a) == \E p \in Projects, n \in Names :
  /\ Stands(p) /\ FreeName(n)
  /\ Take(a, NoAsk)
  /\ project' = [project EXCEPT ![p].name = n]
  /\ UNCHANGED <<issue, lastIssue>> /\ Drawn
Orphan(p) == {IF i.project = p THEN [i EXCEPT !.project = NoOne] ELSE i : i \in issue}
ClearProject(a) == \E p \in Projects :
  /\ Stands(p)
  /\ Take(a, [NoAsk EXCEPT !.pc = "drop", !.project = p])
  /\ issue' = Orphan(p)
  /\ UNCHANGED <<project, lastIssue>> /\ Drawn
DropProject(a) ==
  /\ ask[a].pc = "drop"
  /\ Over(a)
  /\ project' = [project EXCEPT ![ask[a].project].state = "gone"]
  /\ issue' = Orphan(ask[a].project)
  /\ UNCHANGED lastIssue /\ Drawn

\* Take's guard: nothing is read for a request that cannot begin.
MayAsk(a) == Resting(a) /\ asked < IF orderly /\ \A b \in Askers : Resting(b) THEN MaxAsks ELSE MaxAsksAtOnce

TreeNext == \E a \in Askers :
  \/ /\ MayAsk(a)
     /\ \/ AskIssue(a) \/ AskSubtask(a) \/ AskClone(a) \/ AskImport(a)
        \/ PatchIssue(a) \/ Bulk(a) \/ DeleteOne(a)
        \/ NewProject(a) \/ RenameProject(a) \/ ClearProject(a)
  \/ DrawNumber(a) \/ CheckEpic(a) \/ GiveUp(a) \/ Insert(a)
  \/ WritePatch(a) \/ BulkNext(a) \/ DropProject(a)

TreeSpec == TreeInit /\ [][TreeNext]_treeVars

-----------------------------------------------------------------------------
\* The type invariant; what an issue refers to is there.
TreeTypeOK ==
  /\ \A p \in Projects : project[p].state \in {"none", "live", "gone"} /\ project[p].name \in Names
                         /\ project[p].counter \in Nat
  /\ \A i \in issue :
       /\ i.id \in 1..lastIssue /\ i.key \in Names \X (Nat \ {0}) /\ i.type \in Types
       /\ i.project = NoOne \/ Stands(i.project)
       /\ {i.parent, i.epic} \subseteq Ids \cup {NoOne}
  /\ asked \in 0..MaxAsks \cup 0..MaxAsksAtOnce /\ orderly \in BOOLEAN

\* "never reuses numbers after a delete; concurrency-safe" (issues.js:180-185):
\* however creates, clones and imports overlap, a key is given out once, and no
\* INSERT finds it taken, unless its name serves two projects (one was renamed or
\* deleted), or issues without a project, which are counted.
Shared(n) == NoOne \in served[n] \/ Cardinality(served[n]) > 1
KeysHold ==
  /\ \A u, v \in used : u[1] = v[1] /\ u[2] # v[2] => Shared(u[1][1])
  /\ \A n \in refused : Shared(n)

\* "Cannot create a sub-task under another sub-task": parents have no parent,
\* and share their project with the sub-task until its deletion takes it.
Families ==
  \A i \in issue : i.parent # NoOne =>
    LET p == Row(i.parent) IN p.parent = NoOne /\ p.project \in {i.project, NoOne}

\* An epic is an Epic, and contains neither Epics nor sub-tasks, except by a
\* change of type that nothing checks (PATCH with a type alone; an Epic retyped
\* over the issues it has), while bulk changes come one at a time.
Epics ==
  orderly => \A i \in issue : i.epic # NoOne /\ {i.id, i.epic} \cap retyped = {} =>
    EpicFits(i.epic, i.type)

\* The hierarchy of issues, over any sequence of edits.
HierarchyHolds == Families /\ Epics

\* The names and the structure of issues, over any sequence of requests.
IssuesSound == KeysHold /\ HierarchyHolds
=============================================================================
