--------------------------- MODULE SprintLifecycle ---------------------------
(***************************************************************************)
(* Sprints and the issues in them: the handlers of server/routes/sprints.js*)
(* (create, start, assign to a project, complete, delete, the parallel     *)
(* setting), every writer of issues.sprint_id in routes/issues.js and      *)
(* routes/importExport.js, and the backfill of db.js at a restart.         *)
(*                                                                         *)
(* A handler is a program counter with one action per SQL statement that   *)
(* reads or writes a row another handler may change.  A handler that has   *)
(* answered may serve again.  Statuses are those the code tells apart.     *)
(***************************************************************************)
EXTENDS Integers, FiniteSets

CONSTANTS
  Projects,     \* project ids
  Null,         \* project_id NULL: a shared sprint, an issue of no project
  Sprints,      \* sprint ids, in the order they are handed out
  Legacy,       \* the shared sprints from before JL-165
  Issues,       \* issue ids
  ProjectOf,    \* issues.project_id (no handler here moves an issue)
  Born,         \* issues that exist at start-up
  Admins,       \* request slots for the sprint handlers
  Movers,       \* request slots for the handlers that place issues
  Statuses,     \* issue statuses
  MaxRows,      \* sprint_scope rows of an issue are counted up to here
  Opting,       \* projects whose parallel setting is ever changed
  Overlap       \* TRUE: handlers interleave; FALSE: one at a time

ASSUME SprintAssumption ==
  /\ Null \notin Projects
  /\ Sprints \subseteq Nat \ {0}
  /\ Legacy \subseteq Sprints
  /\ ProjectOf \in [Issues -> Projects \cup {Null}]
  /\ Born \subseteq Issues
  /\ Opting \subseteq Projects
  /\ {"Backlog", "Done"} \subseteq Statuses
  /\ MaxRows \in Nat
  /\ Overlap \in BOOLEAN

VARIABLES
  unused,      \* sprint ids the sequence has not handed out
  exists,      \* sprints: the ids whose row exists
  home,        \* sprints.project_id
  started,     \* sprints.is_started, as a set
  completed,   \* sprints with completed_at set
  committed,   \* sprint_scope: number of rows with added_at <= start_date
  added,       \* sprint_scope: number of rows with added_at > start_date
  parallel,    \* projects with allow_parallel_sprints
  fresh,       \* issue ids the sequence has not handed out
  live,        \* issues: the ids whose row exists
  status,      \* issues.status
  sprintOf,    \* issues.sprint_id
  apc, job,    \* where each sprint handler is, and what it has read
  mpc, move,   \* where each placing handler is, and what it will write
  steady       \* history variable: issues in the sprint ever since its start

sprintRows == <<unused, exists, home, started, completed>>
scopeRows == <<committed, added>>
issueRows == <<fresh, live, status, sprintOf>>
vars == <<sprintRows, scopeRows, parallel, issueRows, apc, job, mpc, move, steady>>

NoSprint == 0
NoIssue == 0
Keep == "Keep"              \* a write that leaves issues.status alone
AtMost(n) == IF n < MaxRows THEN n ELSE MaxRows
NoRows == [i \in Issues |-> 0]
NoJob == [sprint |-> NoSprint, home |-> Null, project |-> Null, allow |-> FALSE, todo |-> {}]
NoMove == [issue |-> NoIssue, new |-> FALSE, to |-> Keep, sprint |-> NoSprint]
Starting == {"snapshot", "scope", "respond"}
Running == {"setting", "count", "mark", "foreign", "assign", "sweep", "close",
            "empty", "delete"} \cup Starting

(***************************************************************************)
(* What the code asks of the tables.                                       *)
(***************************************************************************)
\* sprintFitsProject
Fit(h, p) == h = Null \/ p = Null \/ h = p

Inside(s) == {i \in live : sprintOf[i] = s}
Open(s) == {i \in Inside(s) : status[i] # "Done"}

\* The sprints counted against starting s: those of the project h it was read
\* to belong to, or all of them for a shared sprint.
OtherActive(s, h) ==
  {t \in started \ {s} : h = Null \/ home[t] = h}

\* mutated: the first unfinished sprint in the whole system, as before JL-165
DefaultSprintAnywhere(p) ==
  LET U == {s \in exists : s \notin completed}
  IN  IF U = {} THEN NoSprint ELSE CHOOSE s \in U : \A t \in U : s <= t

\* getDefaultSprintId: the project's first sprint that is not completed.
DefaultSprint(p) ==
  LET U == {s \in exists : home[s] = p /\ s \notin completed}
  IN  IF U = {} THEN NoSprint ELSE CHOOSE s \in U : \A t \in U : s <= t

-----------------------------------------------------------------------------
Init ==
  /\ unused = Sprints \ Legacy
  /\ exists = Legacy
  /\ home = [s \in Sprints |-> Null]
  /\ started = {} /\ completed = {}
  /\ committed = [s \in Sprints |-> NoRows]
  /\ added = [s \in Sprints |-> NoRows]
  /\ parallel = {}
  /\ fresh = Issues \ Born
  /\ live = Born
  /\ status = [i \in Issues |-> "Backlog"]
  /\ sprintOf = [i \in Issues |-> NoSprint]
  /\ apc = [a \in Admins |-> "idle"]
  /\ job = [a \in Admins |-> NoJob]
  /\ mpc = [m \in Movers |-> "idle"]
  /\ move = [m \in Movers |-> NoMove]
  /\ steady = [a \in Admins |-> {}]

\* A new request may be taken: always, or when no handler is running.
Quiet == Overlap \/ ((\A a \in Admins : apc[a] = "idle") /\ (\A m \in Movers : mpc[m] = "idle"))

\* Control of handler a moves to l with j remembered; an answer forgets it.
Go(a, l, j) ==
  /\ apc' = [apc EXCEPT ![a] = l]
  /\ job' = [job EXCEPT ![a] = IF l = "idle" THEN NoJob ELSE j]
  /\ UNCHANGED <<mpc, move>>
Answer(a) == Go(a, "idle", NoJob)
Plan(m, l, p) ==
  /\ mpc' = [mpc EXCEPT ![m] = l]
  /\ move' = [move EXCEPT ![m] = IF l = "idle" THEN NoMove ELSE p]
  /\ UNCHANGED <<apc, job>>
NoHandler == UNCHANGED <<apc, job, mpc, move>>

(***************************************************************************)
(* PATCH /api/sprints/:id/start                                            *)
(***************************************************************************)
\* SELECT the target; the caller's project governs a shared sprint only.
ReadTarget(a) == \E s \in exists, p \in Projects \cup {Null} :
  /\ apc[a] = "idle" /\ Quiet
  /\ Go(a, "setting", [NoJob EXCEPT !.sprint = s, !.home = home[s],
                                    !.project = IF home[s] # Null THEN home[s] ELSE p])
  /\ UNCHANGED <<sprintRows, scopeRows, parallel, issueRows>>

ReadSetting(a) ==
  /\ apc[a] = "setting"
  /\ Go(a, "count", [job[a] EXCEPT !.allow = job[a].project \in parallel, !.project = Null])
  /\ UNCHANGED <<sprintRows, scopeRows, parallel, issueRows>>

\* mutated: a sprint may start next to one other active sprint
CountActiveLeniently(a) ==
  /\ apc[a] = "count"
  /\ LET j == job[a]
     IN  IF j.allow \/ Cardinality(OtherActive(j.sprint, j.home)) <= 1
         THEN Go(a, "mark", [NoJob EXCEPT !.sprint = j.sprint]) ELSE Answer(a)
  /\ UNCHANGED <<sprintRows, scopeRows, parallel, issueRows>>

\* COUNT the other active sprints; canStartSprint, or 409.
CountActive(a) ==
  /\ apc[a] = "count"
  /\ LET j == job[a]
     IN  IF j.allow \/ OtherActive(j.sprint, j.home) = {}
         THEN Go(a, "mark", [NoJob EXCEPT !.sprint = j.sprint]) ELSE Answer(a)
  /\ UNCHANGED <<sprintRows, scopeRows, parallel, issueRows>>

\* UPDATE is_started and start_date, or 404: whatever rows an earlier start
\* left in sprint_scope now precede start_date.
MarkStarted(a) ==
  /\ apc[a] = "mark"
  /\ LET s == job[a].sprint
     IN  IF s \in exists
         THEN /\ started' = started \cup {s}
              /\ committed' = [committed EXCEPT ![s] =
                   [i \in Issues |-> AtMost(committed[s][i] + added[s][i])]]
              /\ added' = [added EXCEPT ![s] = NoRows]
              /\ Go(a, "snapshot", job[a])
         ELSE Answer(a) /\ UNCHANGED <<started, scopeRows>>
  /\ UNCHANGED <<unused, exists, home, completed, parallel, issueRows>>

\* mutated: only finished issues are put in the snapshot
ReadDoneIssues(a) ==
  /\ apc[a] = "snapshot"
  /\ LET todo == Inside(job[a].sprint) \ Open(job[a].sprint)
     IN  Go(a, IF todo = {} THEN "respond" ELSE "scope", [job[a] EXCEPT !.todo = todo])
  /\ UNCHANGED <<sprintRows, scopeRows, parallel, issueRows>>

\* SELECT the sprint's issues.
ReadIssues(a) ==
  /\ apc[a] = "snapshot"
  /\ LET todo == Inside(job[a].sprint)
     IN  Go(a, IF todo = {} THEN "respond" ELSE "scope", [job[a] EXCEPT !.todo = todo])
  /\ UNCHANGED <<sprintRows, scopeRows, parallel, issueRows>>

\* INSERT one row, in the millisecond of start_date or, like every row after
\* it, later; a foreign key whose row is gone fails the request and leaves the snapshot unfinished.
InsertScope(a) == \E i \in job[a].todo, late \in BOOLEAN :
  /\ apc[a] = "scope"
  /\ LET s == job[a].sprint
         rest == job[a].todo \ {i}
     IN  IF s \in exists /\ i \in live
         THEN /\ (\E k \in Issues : added[s][k] > 0) => late
              /\ added' = IF late THEN [added EXCEPT ![s][i] = AtMost(@ + 1)] ELSE added
              /\ committed' = IF late THEN committed ELSE [committed EXCEPT ![s][i] = AtMost(@ + 1)]
              /\ Go(a, IF rest = {} THEN "respond" ELSE "scope", [job[a] EXCEPT !.todo = rest])
         ELSE Answer(a) /\ UNCHANGED scopeRows
  /\ UNCHANGED <<sprintRows, parallel, issueRows>>

\* SELECT the row to answer with (a vanished one fails in mapSprint).
AnswerStarted(a) ==
  /\ apc[a] = "respond"
  /\ Answer(a)
  /\ UNCHANGED <<sprintRows, scopeRows, parallel, issueRows>>

(***************************************************************************)
(* POST /api/sprints, PATCH /api/sprints/:id with a projectId, and         *)
(* PUT /api/projects/:id/sprints/settings                                  *)
(***************************************************************************)
\* The INSERT takes the next id of the sequence.
CreateSprint == \E p \in Projects, s \in unused :
  /\ Quiet
  /\ \A t \in unused : s <= t
  /\ unused' = unused \ {s}
  /\ exists' = exists \cup {s}
  /\ home' = [home EXCEPT ![s] = p]
  /\ NoHandler
  /\ UNCHANGED <<started, completed, scopeRows, parallel, issueRows>>

\* SELECT the sprint's project; 409 when it has another.
ReadHome(a) == \E s \in exists, p \in Projects :
  /\ apc[a] = "idle" /\ Quiet
  /\ home[s] \in {Null, p}
  /\ Go(a, "foreign", [NoJob EXCEPT !.sprint = s, !.project = p])
  /\ UNCHANGED <<sprintRows, scopeRows, parallel, issueRows>>

\* COUNT the issues of other projects, or 409.
CountForeign(a) ==
  /\ apc[a] = "foreign"
  /\ IF \A i \in Inside(job[a].sprint) : ProjectOf[i] \in {Null, job[a].project}
     THEN Go(a, "assign", job[a]) ELSE Answer(a)
  /\ UNCHANGED <<sprintRows, scopeRows, parallel, issueRows>>

AssignProject(a) ==
  /\ apc[a] = "assign"
  /\ home' = IF job[a].sprint \in exists
             THEN [home EXCEPT ![job[a].sprint] = job[a].project] ELSE home
  /\ Answer(a)
  /\ UNCHANGED <<unused, exists, started, completed, scopeRows, parallel, issueRows>>

SetParallel == \E p \in Opting, allow \in BOOLEAN :
  /\ Quiet
  /\ parallel' = IF allow THEN parallel \cup {p} ELSE parallel \ {p}
  /\ NoHandler
  /\ UNCHANGED <<sprintRows, scopeRows, issueRows>>

(***************************************************************************)
(* PATCH /api/sprints/:id/complete and DELETE /api/sprints/:id             *)
(***************************************************************************)
\* SELECT the sprint to complete or to delete, or 404.
ReadSprint(a) == \E s \in exists, next \in {"sweep", "empty"} :
  /\ apc[a] = "idle" /\ Quiet
  /\ Go(a, next, [NoJob EXCEPT !.sprint = s])
  /\ UNCHANGED <<sprintRows, scopeRows, parallel, issueRows>>

\* UPDATE issues: those of I go to the Backlog and leave their sprint.
SendBack(I) ==
  /\ status' = [i \in Issues |-> IF i \in I THEN "Backlog" ELSE status[i]]
  /\ sprintOf' = [i \in Issues |-> IF i \in I THEN NoSprint ELSE sprintOf[i]]
  /\ UNCHANGED <<fresh, live>>

SweepOpen(a) ==
  /\ apc[a] = "sweep"
  /\ SendBack(Open(job[a].sprint))
  /\ Go(a, "close", job[a])
  /\ UNCHANGED <<sprintRows, scopeRows, parallel>>

\* UPDATE is_started and completed_at.
CloseSprint(a) ==
  /\ apc[a] = "close"
  /\ started' = started \ {job[a].sprint}
  /\ completed' = IF job[a].sprint \in exists THEN completed \cup {job[a].sprint} ELSE completed
  /\ Answer(a)
  /\ UNCHANGED <<unused, exists, home, scopeRows, parallel, issueRows>>

EmptySprint(a) ==
  /\ apc[a] = "empty"
  /\ SendBack(Inside(job[a].sprint))
  /\ Go(a, "delete", job[a])
  /\ UNCHANGED <<sprintRows, scopeRows, parallel>>

\* DELETE the sprint: sprint_scope cascades, issues.sprint_id is set NULL.
DeleteSprint(a) ==
  /\ apc[a] = "delete"
  /\ LET s == job[a].sprint
     IN  /\ exists' = exists \ {s}
         /\ started' = started \ {s}
         /\ completed' = completed \ {s}
         /\ committed' = [committed EXCEPT ![s] = NoRows]
         /\ added' = [added EXCEPT ![s] = NoRows]
         /\ sprintOf' = [i \in Issues |-> IF sprintOf[i] = s THEN NoSprint ELSE sprintOf[i]]
  /\ Answer(a)
  /\ UNCHANGED <<unused, home, parallel, fresh, live, status>>

(***************************************************************************)
(* The writers of issues.sprint_id.  A creation burns an id either way.    *)
(***************************************************************************)
Placed(i, new, to, s) == [issue |-> i, new |-> new, to |-> to, sprint |-> s]
Burn(i) == fresh' = fresh \ {i} /\ UNCHANGED <<live, status, sprintOf>>

\* transitionIssueStatus reads the issue: it keeps its sprint when it has one.
ReadIssue(m) == \E i \in live, to \in Statuses :
  /\ mpc[m] = "idle" /\ Quiet
  /\ LET kept == IF to = "Backlog" THEN NoSprint ELSE sprintOf[i]
     IN  Plan(m, IF to # "Backlog" /\ kept = NoSprint THEN "default" ELSE "write",
              Placed(i, FALSE, to, kept))
  /\ UNCHANGED <<sprintRows, scopeRows, parallel, issueRows>>

\* POST /api/issues without a sprintId looks for the default sprint unless the
\* issue starts in the Backlog; an import row without one stays in none.
NewIssue(m) == \E i \in fresh, to \in Statuses, next \in {"write", "default"} :
  /\ mpc[m] = "idle" /\ Quiet
  /\ next = "default" => to # "Backlog"
  /\ Burn(i)
  /\ Plan(m, next, Placed(i, TRUE, to, NoSprint))
  /\ UNCHANGED <<sprintRows, scopeRows, parallel>>

ReadDefault(m) ==
  /\ mpc[m] = "default"
  /\ Plan(m, "write", [move[m] EXCEPT !.sprint = DefaultSprint(ProjectOf[move[m].issue])])
  /\ UNCHANGED <<sprintRows, scopeRows, parallel, issueRows>>

\* mutated: any sprint that exists will do
NameAnySprint(m) == \E i \in live \cup fresh, s \in exists, to \in Statuses \cup {Keep} :
  /\ mpc[m] = "idle" /\ Quiet
  /\ to # IF i \in fresh THEN Keep ELSE "Backlog"
  /\ Burn(i)
  /\ Plan(m, "write", Placed(i, i \in fresh, to, s))
  /\ UNCHANGED <<sprintRows, scopeRows, parallel>>

\* A request that names a sprint: PATCH /api/issues/:id and the bulk wizard
\* keep the status, a status change, a creation and an import row bring one
\* (only an import row puts an issue of the Backlog in a sprint).
\* SELECT the sprint; a missing or another project's one is refused.
NameSprint(m) == \E i \in live \cup fresh, s \in exists, to \in Statuses \cup {Keep} :
  /\ mpc[m] = "idle" /\ Quiet
  /\ to # IF i \in fresh THEN Keep ELSE "Backlog"
  /\ Fit(home[s], ProjectOf[i])
  /\ Burn(i)
  /\ Plan(m, "write", Placed(i, i \in fresh, to, s))
  /\ UNCHANGED <<sprintRows, scopeRows, parallel>>

\* A sub-task takes its parent's sprint unless it starts in the Backlog; a
\* clone takes sprint and status of its source; both take the project.
CopyIssue(m) == \E i \in fresh, k \in live, to \in Statuses :
  /\ mpc[m] = "idle" /\ Quiet
  /\ ProjectOf[i] = ProjectOf[k]
  /\ Burn(i)
  /\ \/ Plan(m, "write", Placed(i, TRUE, to, IF to = "Backlog" THEN NoSprint ELSE sprintOf[k]))
     \/ Plan(m, "write", Placed(i, TRUE, status[k], sprintOf[k]))
  /\ UNCHANGED <<sprintRows, scopeRows, parallel>>

\* mutated: issues.sprint_id is no foreign key
WriteIssueAnyway(m) ==
  /\ mpc[m] = "write"
  /\ LET v == move[m]
     IN  IF v.new \/ v.issue \in live
         THEN /\ live' = live \cup {v.issue}
              /\ sprintOf' = [sprintOf EXCEPT ![v.issue] = v.sprint]
              /\ status' = IF v.to = Keep THEN status ELSE [status EXCEPT ![v.issue] = v.to]
         ELSE UNCHANGED <<live, sprintOf, status>>
  /\ Plan(m, "idle", NoMove)
  /\ UNCHANGED <<sprintRows, scopeRows, parallel, fresh>>

\* INSERT or UPDATE the issue; a sprint deleted meanwhile breaks the foreign
\* key and a deleted issue matches no row: nothing is written.
WriteIssue(m) ==
  /\ mpc[m] = "write"
  /\ LET v == move[m]
     IN  IF (v.new \/ v.issue \in live) /\ v.sprint \in exists \cup {NoSprint}
         THEN /\ live' = live \cup {v.issue}
              /\ sprintOf' = [sprintOf EXCEPT ![v.issue] = v.sprint]
              /\ status' = IF v.to = Keep THEN status ELSE [status EXCEPT ![v.issue] = v.to]
         ELSE UNCHANGED <<live, sprintOf, status>>
  /\ Plan(m, "idle", NoMove)
  /\ UNCHANGED <<sprintRows, scopeRows, parallel, fresh>>

\* PATCH /api/issues/:id with sprintId null.
LeaveSprint == \E i \in live :
  /\ Quiet
  /\ sprintOf' = [sprintOf EXCEPT ![i] = NoSprint]
  /\ NoHandler
  /\ UNCHANGED <<sprintRows, scopeRows, parallel, fresh, live, status>>

\* Automation and smart commits write issues.status and no sprint.
Restatus == \E i \in live, to \in Statuses :
  /\ Quiet
  /\ status' = [status EXCEPT ![i] = to]
  /\ NoHandler
  /\ UNCHANGED <<sprintRows, scopeRows, parallel, fresh, live, sprintOf>>

\* DELETE /api/issues/:id and bulk delete; sub-tasks and scope rows cascade.
DeleteIssues == \E D \in SUBSET live :
  /\ Quiet /\ D # {}
  /\ live' = live \ D
  /\ sprintOf' = [i \in Issues |-> IF i \in D THEN NoSprint ELSE sprintOf[i]]
  /\ committed' = [s \in Sprints |-> [i \in Issues |-> IF i \in D THEN 0 ELSE committed[s][i]]]
  /\ added' = [s \in Sprints |-> [i \in Issues |-> IF i \in D THEN 0 ELSE added[s][i]]]
  /\ NoHandler
  /\ UNCHANGED <<sprintRows, parallel, fresh, status>>

(***************************************************************************)
(* A restart: running handlers are lost and initializeDatabase() gives     *)
(* every shared sprint whose issues all belong to one project to it.       *)
(***************************************************************************)
Restart ==
  /\ apc' = [a \in Admins |-> "idle"]
  /\ job' = [a \in Admins |-> NoJob]
  /\ mpc' = [m \in Movers |-> "idle"]
  /\ move' = [m \in Movers |-> NoMove]
  /\ home' = [s \in Sprints |->
       LET of == {ProjectOf[i] : i \in Inside(s)}
       IN  IF s \in exists /\ home[s] = Null /\ \E p \in Projects : of = {p}
           THEN CHOOSE p \in Projects : of = {p} ELSE home[s]]
  /\ UNCHANGED <<unused, exists, started, completed, scopeRows, parallel, issueRows>>

-----------------------------------------------------------------------------
\* History variable: the issues that were in the sprint when it was marked
\* started and have been in it at every instant since.
Observe ==
  steady' = [a \in Admins |->
    IF apc'[a] \in Starting
    THEN {i \in (IF apc[a] = "mark" THEN Issues ELSE steady[a]) :
            i \in live' /\ sprintOf'[i] = job'[a].sprint}
    ELSE {}]

Start(a) == \/ ReadTarget(a) \/ ReadSetting(a) \/ CountActive(a) \/ MarkStarted(a)
            \/ ReadIssues(a) \/ InsertScope(a) \/ AnswerStarted(a)
Assign(a) == ReadHome(a) \/ CountForeign(a) \/ AssignProject(a)
Finish(a) == ReadSprint(a) \/ SweepOpen(a) \/ CloseSprint(a) \/ EmptySprint(a) \/ DeleteSprint(a)
Place(m) == \/ ReadIssue(m) \/ NewIssue(m) \/ ReadDefault(m) \/ NameSprint(m)
            \/ CopyIssue(m) \/ WriteIssue(m)
Others == CreateSprint \/ SetParallel \/ LeaveSprint \/ Restatus \/ DeleteIssues \/ Restart

Step == \/ \E a \in Admins : Start(a) \/ Assign(a) \/ Finish(a)
        \/ \E m \in Movers : Place(m)
        \/ Others

Next == Step /\ Observe

Spec == Init /\ [][Next]_vars

-----------------------------------------------------------------------------
SprintsOK ==
  /\ unused \subseteq Sprints
  /\ exists \subseteq Sprints \ unused
  /\ home \in [Sprints -> Projects \cup {Null}]
  /\ started \subseteq exists
  /\ completed \subseteq exists
  /\ parallel \subseteq Opting

ScopeOK ==
  /\ committed \in [Sprints -> [Issues -> 0 .. MaxRows]]
  /\ added \in [Sprints -> [Issues -> 0 .. MaxRows]]

IssuesOK ==
  /\ fresh \subseteq Issues
  /\ live \subseteq Issues
  /\ status \in [Issues -> Statuses]
  /\ sprintOf \in [Issues -> exists \cup {NoSprint}]

Jobs == [sprint : Sprints \cup {NoSprint}, home : Projects \cup {Null},
         project : Projects \cup {Null}, allow : BOOLEAN, todo : SUBSET Issues]
Moves == [issue : Issues \cup {NoIssue}, new : BOOLEAN, to : Statuses \cup {Keep},
          sprint : Sprints \cup {NoSprint}]

HandlersOK ==
  /\ apc \in [Admins -> Running \cup {"idle"}]
  /\ job \in [Admins -> Jobs]
  /\ \A a \in Admins : apc[a] \in Running => job[a].sprint \in Sprints \ unused
  /\ mpc \in [Movers -> {"idle", "default", "write"}]
  /\ move \in [Movers -> Moves]
  /\ \A m \in Movers : mpc[m] # "idle" =>
       move[m].issue \in Issues /\ move[m].sprint \notin unused

\* Every variable keeps its type, foreign keys included: sprint_id names a
\* sprint that exists, or none.
TypeOK == SprintsOK /\ ScopeOK /\ IssuesOK /\ HandlersOK /\ steady \in [Admins -> SUBSET live]

(***************************************************************************)
(* What holds under every interleaving.                                    *)
(***************************************************************************)
FitsOwn(i, s) == s \in Sprints \ Legacy => Fit(home[s], ProjectOf[i])

\* A sprint created with a project keeps it, and is only ever assigned to it.
OwnHome ==
  /\ \A s \in Sprints \ (Legacy \cup unused) : home[s] \in Projects
  /\ \A a \in Admins : apc[a] \in {"foreign", "assign"} /\ job[a].sprint \notin Legacy =>
       job[a].project = home[job[a].sprint]

\* No issue sits in, and no handler is about to put one in, a sprint that was
\* created for another project (JL-165), although the sprint is read well
\* before the issue is written and issues inherit sprints from one another.
OwnSprintsFit ==
  /\ OwnHome
  /\ \A i \in Issues : FitsOwn(i, sprintOf[i])
  /\ \A m \in Movers : mpc[m] = "write" => FitsOwn(move[m].issue, move[m].sprint)

Covered(s) == {i \in Issues : committed[s][i] + added[s][i] >= 1}

\* While a sprint is being started its snapshot misses no issue that was in it
\* all along: each has its sprint_scope row, or is on the list to get one.
BaselineCovers == \A a \in Admins :
  /\ apc[a] \in Starting => steady[a] \subseteq Inside(job[a].sprint)
  /\ apc[a] = "scope" => steady[a] \subseteq job[a].todo \cup Covered(job[a].sprint)
  /\ apc[a] = "respond" => steady[a] \subseteq Covered(job[a].sprint)

(***************************************************************************)
(* What holds when handlers run one at a time.                             *)
(***************************************************************************)
\* An issue's sprint belongs to the issue's project or is shared, whatever
\* sequence of assignments, restarts, moves and copies led there.
Fits == \A i \in live : sprintOf[i] # NoSprint => Fit(home[sprintOf[i]], ProjectOf[i])

\* "A sprint cannot be moved to another project".
HomeSticks == [][\A s \in exists : home[s] # Null => home'[s] = home[s]]_vars

\* A sprint becomes active next to another one of its project only when the
\* project allows parallel sprints, a shared one next to any other only when
\* some project does.
StartsAllowed ==
  [][\A s \in started' \ started :
       /\ home[s] \in Projects \ parallel => \A t \in started : home[t] # home[s]
       /\ home[s] = Null /\ parallel = {} => started = {}]_vars

\* When a sprint is closed no open issue is left in it, and when it is deleted
\* none at all is: unfinished work has returned to the backlog.
LeavesNothing ==
  [][/\ \A s \in (completed' \ completed) \cup (started \ started') : Open(s) = {}
     /\ \A s \in exists \ exists' : Inside(s) = {}]_vars

\* Whatever sequence of sprints, settings and assignments led there, a start, an
\* assignment or an end keeps all three.  That a project has one active sprint does
\* not follow: a shared sprint that is active may be assigned to a project that has
\* started one of its own.
SprintRules == HomeSticks /\ StartsAllowed /\ LeavesNothing

(***************************************************************************)
(* What the documents say and the code does not keep.                      *)
(***************************************************************************)
\* The snapshot is the committed baseline: when a start answers, the reports
\* count every issue that was in the sprint as committed.
CommittedBaseline == \A a \in Admins :
  apc[a] = "respond" => \A i \in steady[a] : committed[job[a].sprint][i] >= 1
=============================================================================
