----------------------- MODULE SprintLifecycle_proofs -----------------------
(***************************************************************************)
(* Theorems about SprintLifecycle, for every set of projects, sprints,     *)
(* issues and handlers.                                                    *)
(***************************************************************************)
EXTENDS SprintLifecycle, NumberLemmas

\* TypeOK without the history variable, which follows a step (Observe).
CoreOK == SprintsOK /\ ScopeOK /\ IssuesOK /\ HandlersOK

LEMMA NoSprintIsNone == NoSprint \notin Sprints
BY SprintAssumption DEF NoSprint

\* Moving one sprint handler keeps the handlers' types.
LEMMA GoTyped ==
  ASSUME HandlersOK, NEW a \in Admins, NEW l \in Running \cup {"idle"}, NEW j \in Jobs,
         l \in Running => j.sprint \in Sprints \ unused, unused' \subseteq unused, Go(a, l, j)
  PROVE  HandlersOK'
<1>j. NoJob \in Jobs
  BY DEF NoJob, Jobs
<1>i. "idle" \notin Running
  BY DEF Running, Starting
<1>1. job' \in [Admins -> Jobs] /\ apc' \in [Admins -> Running \cup {"idle"}]
  BY <1>j DEF Go, HandlersOK
<1>2. ASSUME NEW b \in Admins, apc'[b] \in Running PROVE job'[b].sprint \in Sprints \ unused'
  BY <1>2, <1>i DEF Go, HandlersOK
<1>3. /\ mpc' \in [Movers -> {"idle", "default", "write"}] /\ move' \in [Movers -> Moves]
      /\ \A m \in Movers : mpc'[m] # "idle" =>
           move'[m].issue \in Issues /\ move'[m].sprint \notin unused'
  BY DEF Go, HandlersOK
<1> QED BY <1>1, <1>2, <1>3 DEF HandlersOK, Jobs, Moves

LEMMA AnswerTyped ==
  ASSUME HandlersOK, NEW a \in Admins, unused' \subseteq unused, Answer(a)
  PROVE  HandlersOK'
<1>1. NoJob \in Jobs /\ "idle" \notin Running
  BY DEF NoJob, Jobs, Running, Starting
<1> QED BY <1>1, GoTyped DEF Answer

\* Moving one placing handler keeps the handlers' types.
LEMMA PlanTyped ==
  ASSUME HandlersOK, NEW m \in Movers, NEW l \in {"idle", "default", "write"}, NEW v \in Moves,
         l # "idle" => v.issue \in Issues /\ v.sprint \notin unused,
         unused' = unused, Plan(m, l, v)
  PROVE  HandlersOK'
<1>j. NoMove \in Moves
  BY DEF NoMove, Moves
<1>1. move' \in [Movers -> Moves] /\ mpc' \in [Movers -> {"idle", "default", "write"}]
  BY <1>j DEF Plan, HandlersOK
<1>2. ASSUME NEW n \in Movers, mpc'[n] # "idle"
      PROVE  move'[n].issue \in Issues /\ move'[n].sprint \notin unused'
  BY <1>2 DEF Plan, HandlersOK
<1>3. /\ apc' \in [Admins -> Running \cup {"idle"}] /\ job' \in [Admins -> Jobs]
      /\ \A a \in Admins : apc'[a] \in Running => job'[a].sprint \in Sprints \ unused'
  BY DEF Plan, HandlersOK
<1> QED BY <1>1, <1>2, <1>3 DEF HandlersOK, Jobs, Moves

-----------------------------------------------------------------------------
(***************************************************************************)
(* Types: one lemma per handler.                                           *)
(***************************************************************************)
LEMMA AtMostTyped == \A n \in Nat : AtMost(n) \in 0 .. MaxRows
BY SprintAssumption DEF AtMost

\* A step that leaves every table alone and moves a sprint handler on.
LEMMA ReadsTyped ==
  ASSUME CoreOK, NEW a \in Admins, NEW l \in Running \cup {"idle"}, NEW j \in Jobs,
         l \in Running => j.sprint \in Sprints \ unused, Go(a, l, j),
         UNCHANGED <<sprintRows, scopeRows, parallel, issueRows>>
  PROVE  CoreOK'
<1>1. HandlersOK'
  BY GoTyped DEF CoreOK, sprintRows
<1> QED BY <1>1 DEF CoreOK, SprintsOK, ScopeOK, IssuesOK, sprintRows, scopeRows, issueRows

LEMMA StartTyped ==
  ASSUME CoreOK, NEW a \in Admins, Start(a)
  PROVE  CoreOK'
<1> USE DEF CoreOK
<1>j. NoJob \in Jobs /\ job[a] \in Jobs /\ "idle" \notin Running /\ Starting \subseteq Running
      /\ {"setting", "count", "mark", "snapshot", "scope", "respond"} \subseteq Running
  BY DEF NoJob, Jobs, HandlersOK, Running, Starting
<1>s. apc[a] # "idle" => job[a].sprint \in Sprints \ unused
  BY DEF HandlersOK
<1>1. CASE ReadTarget(a)
  <2>1. PICK s \in exists, q \in Projects \cup {Null} :
          Go(a, "setting", [NoJob EXCEPT !.sprint = s, !.home = home[s],
                                    !.project = IF home[s] # Null THEN home[s] ELSE q])
    BY <1>1 DEF ReadTarget
  <2>2. s \in Sprints \ unused /\ home[s] \in Projects \cup {Null}
    BY DEF SprintsOK
  <2> DEFINE j == [NoJob EXCEPT !.sprint = s, !.home = home[s],
                                !.project = IF home[s] # Null THEN home[s] ELSE q]
  <2>3. j \in Jobs /\ j.sprint = s
    BY <2>2 DEF NoJob, Jobs
  <2> QED BY <1>1, <2>1, <2>2, <2>3, <1>j, ReadsTyped DEF ReadTarget
<1>2. CASE ReadSetting(a)
  <2> DEFINE j == [job[a] EXCEPT !.allow = job[a].project \in parallel, !.project = Null]
  <2>1. j \in Jobs /\ j.sprint = job[a].sprint
    <3>1. ASSUME NEW b \in BOOLEAN
          PROVE  LET k == [job[a] EXCEPT !.allow = b, !.project = Null]
                 IN  k \in Jobs /\ k.sprint = job[a].sprint
      BY <1>j DEF Jobs
    <3>2. (job[a].project \in parallel) \in BOOLEAN
      OBVIOUS
    <3> QED BY <3>1, <3>2, Zenon
  <2> QED BY <1>2, <1>s, <1>j, <2>1, ReadsTyped DEF ReadSetting
<1>3. CASE CountActive(a)
  <2> DEFINE j == [NoJob EXCEPT !.sprint = job[a].sprint]
  <2>1. j \in Jobs /\ j.sprint = job[a].sprint
    BY <1>j DEF Jobs, NoJob
  <2>2. Go(a, "mark", j) \/ Go(a, "idle", NoJob)
    BY <1>3 DEF CountActive, Answer
  <2> QED BY <1>3, <1>s, <1>j, <2>1, <2>2, ReadsTyped DEF CountActive
<1>4. CASE MarkStarted(a)
  <2>1. CASE job[a].sprint \in exists
    <3> DEFINE s == job[a].sprint
    <3>1. Go(a, "snapshot", job[a]) /\ unused' = unused
      BY <1>4, <2>1 DEF MarkStarted
    <3>2. HandlersOK'
      BY <3>1, <1>4, <1>s, <1>j, GoTyped DEF MarkStarted
    <3>3. committed' \in [Sprints -> [Issues -> 0 .. MaxRows]]
      <4>0. s \in Sprints
        BY <1>4, <1>s DEF MarkStarted
      <4>1. \A i \in Issues : committed[s][i] + added[s][i] \in Nat
        <5>1. committed[s] \in [Issues -> 0 .. MaxRows] /\ added[s] \in [Issues -> 0 .. MaxRows]
          BY <4>0 DEF ScopeOK
        <5> QED BY <5>1, SprintAssumption
      <4>2. [i \in Issues |-> AtMost(committed[s][i] + added[s][i])] \in [Issues -> 0 .. MaxRows]
        BY <4>1, AtMostTyped
      <4> QED BY <1>4, <2>1, <4>2 DEF MarkStarted, ScopeOK
    <3>4. added' \in [Sprints -> [Issues -> 0 .. MaxRows]]
      BY <1>4, <2>1, SprintAssumption DEF MarkStarted, ScopeOK, NoRows
    <3>5. SprintsOK' /\ IssuesOK'
      BY <1>4, <2>1 DEF MarkStarted, SprintsOK, IssuesOK, issueRows
    <3> QED BY <3>2, <3>3, <3>4, <3>5 DEF ScopeOK
  <2>2. CASE job[a].sprint \notin exists
    <3>1. Go(a, "idle", NoJob) /\ UNCHANGED <<sprintRows, scopeRows, parallel, issueRows>>
      BY <1>4, <2>2 DEF MarkStarted, Answer, sprintRows
    <3> QED BY <3>1, <1>j, ReadsTyped
  <2> QED BY <2>1, <2>2
<1>5. CASE ReadIssues(a)
  <2> DEFINE j == [job[a] EXCEPT !.todo = Inside(job[a].sprint)]
  <2>1. Inside(job[a].sprint) \subseteq Issues
    BY DEF Inside, IssuesOK
  <2>2. j \in Jobs /\ j.sprint = job[a].sprint
    BY <2>1, <1>j DEF Jobs
  <2>3. Go(a, "respond", j) \/ Go(a, "scope", j)
    BY <1>5 DEF ReadIssues
  <2> QED BY <1>5, <1>s, <1>j, <2>2, <2>3, ReadsTyped DEF ReadIssues
<1>6. CASE InsertScope(a)
  <2>1. PICK i \in job[a].todo, late \in BOOLEAN : InsertScope(a)!(i, late)
    BY <1>6 DEF InsertScope
  <2> DEFINE s == job[a].sprint
             j == [job[a] EXCEPT !.todo = job[a].todo \ {i}]
  <2>2. j \in Jobs /\ j.sprint = s /\ i \in Issues
    BY <1>j DEF Jobs
  <2>3. CASE s \in exists /\ i \in live
    <3>1. Go(a, "respond", j) \/ Go(a, "scope", j)
      BY <2>1, <2>3
    <3>2. HandlersOK'
      BY <2>1, <3>1, <2>2, <1>s, <1>j, GoTyped DEF sprintRows
    <3>3. \A n \in 0 .. MaxRows : AtMost(n + 1) \in 0 .. MaxRows
      BY AtMostTyped, SprintAssumption
    <3>4. s \in Sprints
      BY <2>1, <1>s
    <3>g. ASSUME NEW f \in [Sprints -> [Issues -> 0 .. MaxRows]]
          PROVE  [f EXCEPT ![s][i] = AtMost(@ + 1)] \in [Sprints -> [Issues -> 0 .. MaxRows]]
      <4>1. AtMost(f[s][i] + 1) \in 0 .. MaxRows
        BY <3>3, <3>4, <2>2
      <4>2. [f[s] EXCEPT ![i] = AtMost(@ + 1)] \in [Issues -> 0 .. MaxRows]
        BY <4>1, <3>4, <2>2
      <4> QED BY <4>2, <3>4
    <3>5. added' \in [Sprints -> [Issues -> 0 .. MaxRows]]
      <4>1. added' = added \/ added' = [added EXCEPT ![s][i] = AtMost(@ + 1)]
        BY <2>1, <2>3
      <4>2. added \in [Sprints -> [Issues -> 0 .. MaxRows]]
        BY DEF ScopeOK
      <4>3. [added EXCEPT ![s][i] = AtMost(@ + 1)] \in [Sprints -> [Issues -> 0 .. MaxRows]]
        BY <4>2, <3>g
      <4> QED BY <4>1, <4>2, <4>3
    <3>6. committed' \in [Sprints -> [Issues -> 0 .. MaxRows]]
      <4>1. committed' = committed \/ committed' = [committed EXCEPT ![s][i] = AtMost(@ + 1)]
        BY <2>1, <2>3
      <4>2. committed \in [Sprints -> [Issues -> 0 .. MaxRows]]
        BY DEF ScopeOK
      <4>3. [committed EXCEPT ![s][i] = AtMost(@ + 1)] \in [Sprints -> [Issues -> 0 .. MaxRows]]
        BY <4>2, <3>g
      <4> QED BY <4>1, <4>2, <4>3
    <3> QED BY <2>1, <3>2, <3>5, <3>6 DEF ScopeOK, SprintsOK, IssuesOK, sprintRows, issueRows
  <2>4. CASE ~(s \in exists /\ i \in live)
    <3>1. Go(a, "idle", NoJob) /\ UNCHANGED <<sprintRows, scopeRows, parallel, issueRows>>
      BY <2>1, <2>4 DEF Answer
    <3> QED BY <3>1, <1>j, ReadsTyped
  <2> QED BY <2>3, <2>4
<1>7. CASE AnswerStarted(a)
  BY <1>7, <1>j, ReadsTyped DEF AnswerStarted, Answer
<1> QED BY <1>1, <1>2, <1>3, <1>4, <1>5, <1>6, <1>7 DEF Start

LEMMA AssignTyped ==
  ASSUME CoreOK, NEW a \in Admins, Assign(a)
  PROVE  CoreOK'
<1> USE DEF CoreOK
<1>j. NoJob \in Jobs /\ job[a] \in Jobs /\ "idle" \notin Running
      /\ {"foreign", "assign"} \subseteq Running
  BY DEF NoJob, Jobs, HandlersOK, Running, Starting
<1>s. apc[a] # "idle" => job[a].sprint \in Sprints \ unused
  BY DEF HandlersOK
<1>1. CASE ReadHome(a)
  <2>1. PICK s \in exists, q \in Projects :
          Go(a, "foreign", [NoJob EXCEPT !.sprint = s, !.project = q])
    BY <1>1 DEF ReadHome
  <2> DEFINE j == [NoJob EXCEPT !.sprint = s, !.project = q]
  <2>2. s \in Sprints \ unused
    BY DEF SprintsOK
  <2>3. j \in Jobs /\ j.sprint = s
    BY <2>2 DEF NoJob, Jobs
  <2> QED BY <1>1, <2>1, <2>2, <2>3, <1>j, ReadsTyped DEF ReadHome
<1>2. CASE CountForeign(a)
  <2>1. Go(a, "assign", job[a]) \/ Go(a, "idle", NoJob)
    BY <1>2 DEF CountForeign, Answer
  <2> QED BY <1>2, <1>s, <1>j, <2>1, ReadsTyped DEF CountForeign
<1>3. CASE AssignProject(a)
  <2>1. HandlersOK'
    BY <1>3, AnswerTyped DEF AssignProject
  <2>2. job[a].sprint \in Sprints /\ job[a].project \in Projects \cup {Null}
    BY <1>3, <1>s, <1>j DEF AssignProject, Jobs
  <2>3. SprintsOK'
    BY <1>3, <2>2 DEF AssignProject, SprintsOK
  <2> QED BY <1>3, <2>1, <2>3 DEF AssignProject, ScopeOK, IssuesOK, scopeRows, issueRows
<1> QED BY <1>1, <1>2, <1>3 DEF Assign

LEMMA FinishTyped ==
  ASSUME CoreOK, NEW a \in Admins, Finish(a)
  PROVE  CoreOK'
<1> USE DEF CoreOK
<1>j. NoJob \in Jobs /\ job[a] \in Jobs /\ "idle" \notin Running
      /\ {"sweep", "close", "empty", "delete"} \subseteq Running
  BY DEF NoJob, Jobs, HandlersOK, Running, Starting
<1>s. apc[a] # "idle" => job[a].sprint \in Sprints \ unused
  BY DEF HandlersOK
<1>b. ASSUME NEW I, SendBack(I), UNCHANGED <<sprintRows, scopeRows, parallel>>
      PROVE  SprintsOK' /\ ScopeOK' /\ IssuesOK'
  BY <1>b, SprintAssumption DEF SendBack, SprintsOK, ScopeOK, IssuesOK, sprintRows, scopeRows
<1>1. CASE ReadSprint(a)
  <2>1. PICK s \in exists, next \in {"sweep", "empty"} : Go(a, next, [NoJob EXCEPT !.sprint = s])
    BY <1>1 DEF ReadSprint
  <2>2. s \in Sprints \ unused
    BY DEF SprintsOK
  <2>3. [NoJob EXCEPT !.sprint = s] \in Jobs /\ [NoJob EXCEPT !.sprint = s].sprint = s
    BY <2>2 DEF NoJob, Jobs
  <2> QED BY <1>1, <2>1, <2>2, <2>3, <1>j, ReadsTyped DEF ReadSprint
<1>2. CASE SweepOpen(a)
  <2>1. HandlersOK'
    BY <1>2, <1>s, <1>j, GoTyped DEF SweepOpen, sprintRows
  <2> QED BY <1>2, <1>b, <2>1 DEF SweepOpen
<1>3. CASE CloseSprint(a)
  <2>1. HandlersOK'
    BY <1>3, AnswerTyped DEF CloseSprint
  <2> QED BY <1>3, <2>1 DEF CloseSprint, SprintsOK, ScopeOK, IssuesOK, scopeRows, issueRows
<1>4. CASE EmptySprint(a)
  <2>1. HandlersOK'
    BY <1>4, <1>s, <1>j, GoTyped DEF EmptySprint, sprintRows
  <2> QED BY <1>4, <1>b, <2>1 DEF EmptySprint
<1>5. CASE DeleteSprint(a)
  <2> DEFINE s == job[a].sprint
  <2>1. HandlersOK'
    BY <1>5, AnswerTyped DEF DeleteSprint
  <2>2. NoRows \in [Issues -> 0 .. MaxRows] /\ s \in Sprints
    BY <1>5, <1>s, SprintAssumption DEF NoRows, DeleteSprint
  <2>3. ScopeOK'
    BY <1>5, <2>2 DEF DeleteSprint, ScopeOK
  <2>4. SprintsOK' /\ IssuesOK'
    BY <1>5 DEF DeleteSprint, SprintsOK, IssuesOK
  <2> QED BY <2>1, <2>3, <2>4
<1> QED BY <1>1, <1>2, <1>3, <1>4, <1>5 DEF Finish

LEMMA DefaultTyped ==
  ASSUME SprintsOK, NEW q
  PROVE  /\ DefaultSprint(q) \in exists \cup {NoSprint}
         /\ DefaultSprint(q) = NoSprint \/ home[DefaultSprint(q)] = q
<1> DEFINE U == {s \in exists : home[s] = q /\ s \notin completed}
<1>1. CASE U = {}
  BY <1>1 DEF DefaultSprint
<1>2. CASE U # {}
  <2>1. \E s \in U : \A t \in U : s <= t
    <3>1. U \subseteq Nat
      BY SprintAssumption DEF SprintsOK
    <3> HIDE DEF U
    <3> QED BY <3>1, <1>2, LeastOf
  <2> QED BY <1>2, <2>1 DEF DefaultSprint
<1> QED BY <1>1, <1>2

LEMMA PlaceTyped ==
  ASSUME CoreOK, NEW m \in Movers, Place(m)
  PROVE  CoreOK'
<1> USE DEF CoreOK
<1>m. /\ NoMove \in Moves /\ move[m] \in Moves /\ NoIssue \notin unused /\ NoSprint \notin unused
      /\ mpc[m] # "idle" => move[m].issue \in Issues /\ move[m].sprint \notin unused
  BY NoSprintIsNone DEF NoMove, Moves, HandlersOK, SprintsOK, NoIssue, NoSprint
<1>e. exists \subseteq Sprints \ unused /\ live \subseteq Issues /\ fresh \subseteq Issues
  BY DEF SprintsOK, IssuesOK
<1>o. \A i \in Issues : sprintOf[i] \in exists \cup {NoSprint}
  BY DEF IssuesOK
<1>p. \A i \in Issues, new \in BOOLEAN, to \in Statuses \cup {Keep}, s \in exists \cup {NoSprint} :
        /\ Placed(i, new, to, s) \in Moves /\ Placed(i, new, to, s).issue \in Issues
        /\ Placed(i, new, to, s).sprint \notin unused
  BY <1>e, <1>m DEF Placed, Moves
<1>b. ASSUME NEW i, Burn(i), UNCHANGED <<sprintRows, scopeRows, parallel>>
      PROVE  SprintsOK' /\ ScopeOK' /\ IssuesOK' /\ unused' = unused
  BY <1>b DEF Burn, SprintsOK, ScopeOK, IssuesOK, sprintRows, scopeRows
<1>u. ASSUME UNCHANGED <<sprintRows, scopeRows, parallel, issueRows>>
      PROVE  SprintsOK' /\ ScopeOK' /\ IssuesOK' /\ unused' = unused
  BY <1>u DEF SprintsOK, ScopeOK, IssuesOK, sprintRows, scopeRows, issueRows
<1>1. CASE ReadIssue(m)
  <2>1. PICK i \in live, to \in Statuses, l \in {"default", "write"}, s \in exists \cup {NoSprint} :
          Plan(m, l, Placed(i, FALSE, to, s))
    BY <1>1, <1>e, <1>o DEF ReadIssue
  <2>2. HandlersOK'
    BY <1>1, <2>1, <1>p, <1>e, <1>u, PlanTyped DEF ReadIssue
  <2> QED BY <1>1, <2>2, <1>u DEF ReadIssue
<1>2. CASE NewIssue(m)
  <2>1. PICK i \in fresh, to \in Statuses, l \in {"default", "write"} :
          Burn(i) /\ Plan(m, l, Placed(i, TRUE, to, NoSprint))
    BY <1>2 DEF NewIssue
  <2>2. HandlersOK'
    BY <1>2, <2>1, <1>p, <1>e, <1>b, PlanTyped DEF NewIssue
  <2> QED BY <1>2, <2>1, <2>2, <1>b DEF NewIssue
<1>3. CASE ReadDefault(m)
  <2> DEFINE s == DefaultSprint(ProjectOf[move[m].issue])
             v == [move[m] EXCEPT !.sprint = s]
  <2>1. s \in exists \cup {NoSprint}
    BY DefaultTyped
  <2>2. v \in Moves /\ v.issue \in Issues /\ v.sprint \notin unused
    <3> HIDE DEF s
    <3> QED BY <1>3, <2>1, <1>m, <1>e DEF Moves, ReadDefault
  <2>3. HandlersOK'
    BY <1>3, <2>2, <1>u, PlanTyped DEF ReadDefault
  <2> QED BY <1>3, <2>3, <1>u DEF ReadDefault
<1>4. CASE NameSprint(m)
  <2>1. PICK i \in live \cup fresh, s \in exists, to \in Statuses \cup {Keep} :
          Burn(i) /\ Plan(m, "write", Placed(i, i \in fresh, to, s))
    BY <1>4 DEF NameSprint
  <2>2. (i \in fresh) \in BOOLEAN
    OBVIOUS
  <2>3. PICK new \in BOOLEAN : Plan(m, "write", Placed(i, new, to, s))
    BY <2>1, <2>2, Zenon
  <2>4. HandlersOK'
    BY <1>4, <2>1, <2>3, <1>p, <1>e, <1>b, PlanTyped DEF NameSprint
  <2> QED BY <1>4, <2>1, <2>4, <1>b DEF NameSprint
<1>5. CASE CopyIssue(m)
  <2>1. PICK i \in fresh, to \in Statuses, s \in exists \cup {NoSprint} :
          Burn(i) /\ Plan(m, "write", Placed(i, TRUE, to, s))
    <3>1. \A k \in live : status[k] \in Statuses
      BY <1>e DEF IssuesOK
    <3> QED BY <1>5, <3>1, <1>e, <1>o DEF CopyIssue
  <2>2. HandlersOK'
    BY <1>5, <2>1, <1>p, <1>e, <1>b, PlanTyped DEF CopyIssue
  <2> QED BY <1>5, <2>1, <2>2, <1>b DEF CopyIssue
<1>6. CASE WriteIssue(m)
  <2>1. HandlersOK'
    BY <1>6, <1>m, PlanTyped DEF WriteIssue, sprintRows
  <2>2. SprintsOK' /\ ScopeOK'
    BY <1>6 DEF WriteIssue, SprintsOK, ScopeOK, sprintRows, scopeRows
  <2>3. CASE UNCHANGED <<live, sprintOf, status>>
    BY <1>6, <2>1, <2>2, <2>3 DEF WriteIssue, IssuesOK, sprintRows
  <2>4. CASE ~UNCHANGED <<live, sprintOf, status>>
    <3> DEFINE v == move[m]
    <3>1. /\ live' = live \cup {v.issue} /\ v.sprint \in exists \cup {NoSprint}
          /\ sprintOf' = [sprintOf EXCEPT ![v.issue] = v.sprint]
          /\ status' = IF v.to = Keep THEN status ELSE [status EXCEPT ![v.issue] = v.to]
          /\ fresh' = fresh /\ exists' = exists
      <4>1. (v.new \/ v.issue \in live) /\ v.sprint \in exists \cup {NoSprint}
        BY <1>6, <2>4 DEF WriteIssue
      <4> QED BY <1>6, <4>1 DEF WriteIssue, sprintRows
    <3>2. v.issue \in Issues /\ v.to \in Statuses \cup {Keep}
      BY <1>6, <1>m DEF WriteIssue, Moves
    <3> HIDE DEF v
    <3>3. IssuesOK'
      BY <3>1, <3>2 DEF IssuesOK
    <3> QED BY <2>1, <2>2, <3>3
  <2> QED BY <2>3, <2>4
<1> QED BY <1>1, <1>2, <1>3, <1>4, <1>5, <1>6 DEF Place

\* A step that moves no handler and hands out no sprint id but s.
LEMMA NoHandlerTyped ==
  ASSUME HandlersOK, NoHandler, unused' \subseteq unused
  PROVE  HandlersOK'
BY DEF HandlersOK, NoHandler, Jobs, Moves

LEMMA OthersTyped ==
  ASSUME CoreOK, Others
  PROVE  CoreOK'
<1> USE DEF CoreOK
<1>1. CASE CreateSprint
  <2>1. HandlersOK'
    BY <1>1, NoHandlerTyped DEF CreateSprint
  <2>2. PICK q \in Projects, s \in unused :
          /\ unused' = unused \ {s} /\ exists' = exists \cup {s}
          /\ home' = [home EXCEPT ![s] = q]
    BY <1>1 DEF CreateSprint
  <2>3. SprintsOK'
    BY <1>1, <2>2 DEF CreateSprint, SprintsOK
  <2>4. ScopeOK' /\ IssuesOK'
    BY <1>1, <2>2 DEF CreateSprint, ScopeOK, IssuesOK, scopeRows, issueRows
  <2> QED BY <2>1, <2>3, <2>4
<1>2. CASE SetParallel
  <2>1. HandlersOK'
    BY <1>2, NoHandlerTyped DEF SetParallel, sprintRows
  <2> QED BY <1>2, <2>1 DEF SetParallel, SprintsOK, ScopeOK, IssuesOK, sprintRows, scopeRows, issueRows
<1>3. CASE LeaveSprint
  <2>1. HandlersOK'
    BY <1>3, NoHandlerTyped DEF LeaveSprint, sprintRows
  <2> QED BY <1>3, <2>1 DEF LeaveSprint, SprintsOK, ScopeOK, IssuesOK, sprintRows, scopeRows
<1>4. CASE Restatus
  <2>1. HandlersOK'
    BY <1>4, NoHandlerTyped DEF Restatus, sprintRows
  <2> QED BY <1>4, <2>1 DEF Restatus, SprintsOK, ScopeOK, IssuesOK, sprintRows, scopeRows
<1>5. CASE DeleteIssues
  <2>1. HandlersOK'
    BY <1>5, NoHandlerTyped DEF DeleteIssues, sprintRows
  <2>2. ScopeOK'
    <3>1. 0 \in 0 .. MaxRows
      BY SprintAssumption
    <3> QED BY <1>5, <3>1 DEF DeleteIssues, ScopeOK
  <2> QED BY <1>5, <2>1, <2>2 DEF DeleteIssues, SprintsOK, IssuesOK, sprintRows
<1>6. CASE Restart
  <2>1. HandlersOK'
    BY <1>6 DEF Restart, HandlersOK, NoJob, NoMove, Jobs, Moves, Running, Starting
  <2>2. home' \in [Sprints -> Projects \cup {Null}]
    BY <1>6 DEF Restart, SprintsOK
  <2> QED BY <1>6, <2>1, <2>2 DEF Restart, SprintsOK, ScopeOK, IssuesOK, scopeRows, issueRows
<1> QED BY <1>1, <1>2, <1>3, <1>4, <1>5, <1>6 DEF Others

LEMMA StepTyped ==
  ASSUME CoreOK, Step
  PROVE  CoreOK'
BY StartTyped, AssignTyped, FinishTyped, PlaceTyped, OthersTyped DEF Step

\* Types hold throughout, and so do the foreign keys.
THEOREM SprintTypes == Spec => []TypeOK
<1>1. Init => TypeOK
  <2> SUFFICES ASSUME Init PROVE TypeOK
    OBVIOUS
  <2>1. SprintsOK /\ ScopeOK
    BY SprintAssumption DEF Init, SprintsOK, ScopeOK, NoRows
  <2>2. IssuesOK
    BY SprintAssumption DEF Init, IssuesOK
  <2>3. HandlersOK
    BY DEF Init, HandlersOK, NoJob, NoMove, Jobs, Moves, Running, Starting
  <2> QED BY <2>1, <2>2, <2>3 DEF Init, TypeOK
<1>2. TypeOK /\ [Next]_vars => TypeOK'
  <2> SUFFICES ASSUME TypeOK, [Next]_vars PROVE TypeOK'
    OBVIOUS
  <2>1. CASE Next
    <3>1. CoreOK'
      BY <2>1, StepTyped DEF Next, TypeOK, CoreOK
    <3>2. steady' \in [Admins -> SUBSET live']
      BY <2>1 DEF Next, Observe
    <3> QED BY <3>1, <3>2 DEF CoreOK, TypeOK
  <2>2. CASE UNCHANGED vars
    BY <2>2 DEF vars, sprintRows, scopeRows, issueRows, TypeOK, SprintsOK, ScopeOK, IssuesOK,
       HandlersOK, Jobs, Moves
  <2> QED BY <2>1, <2>2
<1> QED BY <1>1, <1>2, PTL DEF Spec

-----------------------------------------------------------------------------
(***************************************************************************)
(* What a step may do to one handler, one issue and one sprint.            *)
(***************************************************************************)
\* The handlers of a sprint move on.
LEMMA GoesOn ==
  ASSUME NEW a \in Admins, Start(a) \/ Assign(a) \/ Finish(a)
  PROVE  \E l, j : Go(a, l, j)
BY DEF Start, ReadTarget, ReadSetting, CountActive, MarkStarted, ReadIssues, InsertScope,
   AnswerStarted, Assign, ReadHome, CountForeign, AssignProject, Finish, ReadSprint, SweepOpen,
   CloseSprint, EmptySprint, DeleteSprint, Answer

\* Those that place issues leave the sprints alone.
LEMMA PlansOn ==
  ASSUME NEW m \in Movers, Place(m)
  PROVE  (\E l, v : Plan(m, l, v)) /\ home' = home /\ unused' = unused
BY DEF Place, ReadIssue, NewIssue, ReadDefault, NameSprint, CopyIssue, WriteIssue, sprintRows

\* The rest moves no handler, or loses them all.
LEMMA OthersStay ==
  ASSUME Others
  PROVE  NoHandler \/ Restart
BY DEF Others, CreateSprint, SetParallel, LeaveSprint, Restatus, DeleteIssues

\* Only an assignment, a creation and a restart write a sprint's project.
LEMMA HomeSteps ==
  ASSUME CoreOK, Step
  PROVE  \/ home' = home /\ unused' = unused
         \/ \E a \in Admins : AssignProject(a)
         \/ CreateSprint
         \/ Restart
<1>1. ASSUME NEW a \in Admins, Start(a) \/ Finish(a) PROVE home' = home /\ unused' = unused
  BY <1>1 DEF Start, ReadTarget, ReadSetting, CountActive, MarkStarted, ReadIssues, InsertScope,
     AnswerStarted, Finish, ReadSprint, SweepOpen, CloseSprint, EmptySprint, DeleteSprint, sprintRows
<1>2. ASSUME NEW a \in Admins, ReadHome(a) \/ CountForeign(a) PROVE home' = home /\ unused' = unused
  BY <1>2 DEF ReadHome, CountForeign, sprintRows
<1>3. ASSUME NEW m \in Movers, Place(m) PROVE home' = home /\ unused' = unused
  BY <1>3, PlansOn
<1>4. ASSUME SetParallel \/ LeaveSprint \/ Restatus \/ DeleteIssues
      PROVE  home' = home /\ unused' = unused
  BY <1>4 DEF SetParallel, LeaveSprint, Restatus, DeleteIssues, sprintRows
<1> QED BY <1>1, <1>2, <1>3, <1>4 DEF Step, Assign, Others

\* A sprint created with a project never leaves it.
LEMMA HomeKept ==
  ASSUME CoreOK, OwnHome, Step
  PROVE  /\ unused' \subseteq unused
         /\ \A s \in Sprints \ (Legacy \cup unused) : home'[s] = home[s]
<1>t. home \in [Sprints -> Projects \cup {Null}]
  BY DEF CoreOK, SprintsOK
<1>1. ASSUME NEW a \in Admins, AssignProject(a)
      PROVE  unused' = unused /\ \A s \in Sprints \ (Legacy \cup unused) : home'[s] = home[s]
  <2>1. job[a].sprint \notin Legacy => job[a].project = home[job[a].sprint]
    BY <1>1 DEF AssignProject, OwnHome
  <2> QED BY <1>1, <1>t, <2>1 DEF AssignProject
<1>2. ASSUME CreateSprint
      PROVE  unused' \subseteq unused /\ \A s \in Sprints \ (Legacy \cup unused) : home'[s] = home[s]
  BY <1>2, <1>t DEF CreateSprint
<1>3. ASSUME Restart
      PROVE  unused' = unused /\ \A s \in Sprints \ (Legacy \cup unused) : home'[s] = home[s]
  BY <1>3, SprintAssumption DEF Restart, OwnHome
<1> QED BY <1>1, <1>2, <1>3, HomeSteps

\* An issue stays in its sprint, leaves it, or goes where a handler planned.
LEMMA SprintSteps ==
  ASSUME CoreOK, Step, NEW i \in Issues
  PROVE  \/ sprintOf'[i] \in {sprintOf[i], NoSprint}
         \/ \E m \in Movers : /\ mpc[m] = "write" /\ move[m].issue = i
                             /\ sprintOf'[i] = move[m].sprint
<1>t. sprintOf \in [Issues -> exists \cup {NoSprint}]
  BY DEF CoreOK, IssuesOK
<1>1. ASSUME NEW a \in Admins, Start(a) \/ Assign(a) PROVE sprintOf' = sprintOf
  BY <1>1 DEF Start, ReadTarget, ReadSetting, CountActive, MarkStarted, ReadIssues, InsertScope,
     AnswerStarted, Assign, ReadHome, CountForeign, AssignProject, issueRows
<1>2. ASSUME NEW a \in Admins, Finish(a) PROVE sprintOf'[i] \in {sprintOf[i], NoSprint}
  BY <1>2 DEF Finish, ReadSprint, SweepOpen, CloseSprint, EmptySprint, DeleteSprint, SendBack, issueRows
<1>3. ASSUME NEW m \in Movers, Place(m)
      PROVE  \/ sprintOf' = sprintOf
             \/ mpc[m] = "write" /\ sprintOf' = [sprintOf EXCEPT ![move[m].issue] = move[m].sprint]
  <2>1. WriteIssue(m) \/ sprintOf' = sprintOf
    BY <1>3 DEF Place, ReadIssue, NewIssue, ReadDefault, NameSprint, CopyIssue, Burn, issueRows
  <2> QED BY <2>1 DEF WriteIssue
<1>4. ASSUME Others PROVE sprintOf'[i] \in {sprintOf[i], NoSprint}
  BY <1>4, <1>t DEF Others, CreateSprint, SetParallel, LeaveSprint, Restatus, DeleteIssues, Restart,
     issueRows
<1> QED BY <1>1, <1>2, <1>3, <1>4, <1>t DEF Step

\* What a handler is about to write: its plan of before, no sprint, a sprint
\* that fits, or the sprint of an issue of the same project.
LEMMA PlanSteps ==
  ASSUME CoreOK, Step, NEW m \in Movers, mpc'[m] = "write"
  PROVE  \/ mpc[m] = "write" /\ move'[m] = move[m]
         \/ /\ home' = home /\ unused' = unused /\ move'[m].issue \in Issues
            /\ \/ move'[m].sprint = NoSprint
               \/ Fit(home[move'[m].sprint], ProjectOf[move'[m].issue])
               \/ \E k \in Issues : /\ ProjectOf[k] = ProjectOf[move'[m].issue]
                                  /\ move'[m].sprint = sprintOf[k]
<1> USE DEF CoreOK
<1>t. /\ mpc \in [Movers -> {"idle", "default", "write"}] /\ move \in [Movers -> Moves]
      /\ live \subseteq Issues /\ fresh \subseteq Issues
      /\ mpc[m] # "idle" => move[m].issue \in Issues
  BY DEF HandlersOK, IssuesOK
<1>1. CASE Restart
  BY <1>1 DEF Restart
<1>2. CASE NoHandler \/ \E a \in Admins : \E l, j : Go(a, l, j)
  BY <1>2 DEF NoHandler, Go
<1>3. ASSUME NEW n \in Movers, Place(n)
      PROVE  \/ mpc[m] = "write" /\ move'[m] = move[m]
             \/ /\ home' = home /\ unused' = unused /\ move'[m].issue \in Issues
                /\ \/ move'[m].sprint = NoSprint
                   \/ Fit(home[move'[m].sprint], ProjectOf[move'[m].issue])
                   \/ \E k \in Issues : /\ ProjectOf[k] = ProjectOf[move'[m].issue]
                                      /\ move'[m].sprint = sprintOf[k]
  <2>h. home' = home /\ unused' = unused /\ \E l, v : Plan(n, l, v)
    BY <1>3, PlansOn
  <2>1. CASE n # m
    BY <2>h, <2>1, <1>t DEF Plan
  <2>2. CASE n = m
    <3>p. ASSUME NEW l, NEW v, Plan(m, l, v) PROVE l = "write" /\ move'[m] = v
      BY <3>p, <1>t DEF Plan
    <3>1. CASE ReadIssue(m)
      BY <3>1, <3>p, <2>h, <1>t DEF ReadIssue, Placed
    <3>2. CASE NewIssue(m)
      BY <3>2, <3>p, <2>h, <1>t DEF NewIssue, Placed
    <3>3. CASE ReadDefault(m)
      <4> DEFINE s == DefaultSprint(ProjectOf[move[m].issue])
                 v == [move[m] EXCEPT !.sprint = s]
      <4>1. move'[m] = v
        BY <3>3, <3>p DEF ReadDefault
      <4>2. v.sprint = s /\ v.issue = move[m].issue /\ move[m].issue \in Issues
        BY <3>3, <1>t DEF ReadDefault, Moves
      <4>3. s = NoSprint \/ home[s] = ProjectOf[move[m].issue]
        BY DefaultTyped
      <4> QED BY <4>1, <4>2, <4>3, <2>h DEF Fit
    <3>4. CASE NameSprint(m)
      BY <3>4, <3>p, <2>h, <1>t DEF NameSprint, Placed
    <3>5. CASE CopyIssue(m)
      BY <3>5, <3>p, <2>h, <1>t DEF CopyIssue, Placed
    <3>6. CASE WriteIssue(m)
      BY <3>6, <3>p DEF WriteIssue
    <3> QED BY <1>3, <2>2, <3>1, <3>2, <3>3, <3>4, <3>5, <3>6 DEF Place
  <2> QED BY <2>1, <2>2
<1>4. \/ (\E n \in Movers : Place(n)) \/ NoHandler \/ Restart
      \/ \E a \in Admins : \E l, j : Go(a, l, j)
  BY GoesOn, OthersStay DEF Step
<1> QED BY <1>1, <1>2, <1>3, <1>4

\* An assignment under way was there before, or has just read the sprint's
\* project.
LEMMA AssignSteps ==
  ASSUME CoreOK, Step, NEW a \in Admins, apc'[a] \in {"foreign", "assign"}
  PROVE  \/ apc[a] \in {"foreign", "assign"} /\ job'[a] = job[a]
         \/ /\ home' = home /\ job'[a].sprint \in exists
            /\ home[job'[a].sprint] \in {Null, job'[a].project}
<1>t. apc \in [Admins -> Running \cup {"idle"}] /\ job \in [Admins -> Jobs]
  BY DEF CoreOK, HandlersOK
<1>e. exists \subseteq Sprints
  BY DEF CoreOK, SprintsOK
<1>1. CASE Restart
  BY <1>1 DEF Restart
<1>2. CASE NoHandler \/ \E m \in Movers : \E l, v : Plan(m, l, v)
  BY <1>2 DEF NoHandler, Plan
<1>3. ASSUME NEW b \in Admins, b # a, NEW l, NEW j, Go(b, l, j)
      PROVE  apc'[a] = apc[a] /\ job'[a] = job[a]
  BY <1>3, <1>t DEF Go
<1>g. ASSUME NEW l, NEW j, Go(a, l, j) PROVE l \in {"foreign", "assign"} /\ job'[a] = j
  BY <1>g, <1>t DEF Go
<1>4. ASSUME Start(a) \/ Finish(a) PROVE FALSE
  <2>1. ASSUME Start(a) PROVE \E l \in {"idle", "setting", "count", "mark"} \cup Starting : \E j : Go(a, l, j)
    BY <2>1 DEF Start, ReadTarget, ReadSetting, CountActive, MarkStarted, ReadIssues, InsertScope,
       AnswerStarted, Answer, Starting
  <2>2. ASSUME Finish(a) PROVE \E l \in {"idle", "sweep", "close", "empty", "delete"} : \E j : Go(a, l, j)
    BY <2>2 DEF Finish, ReadSprint, SweepOpen, CloseSprint, EmptySprint, DeleteSprint, Answer
  <2> QED BY <1>4, <2>1, <2>2, <1>g DEF Starting
<1>5. CASE ReadHome(a)
  <2>1. PICK s \in exists, q \in Projects :
          home[s] \in {Null, q} /\ Go(a, "foreign", [NoJob EXCEPT !.sprint = s, !.project = q])
    BY <1>5 DEF ReadHome
  <2> DEFINE j == [NoJob EXCEPT !.sprint = s, !.project = q]
  <2>2. j.sprint = s /\ j.project = q
    BY DEF NoJob
  <2>3. job'[a] = j
    BY <2>1, <1>g
  <2> QED BY <1>5, <2>1, <2>2, <2>3 DEF ReadHome, sprintRows
<1>6. CASE CountForeign(a)
  BY <1>6, <1>g DEF CountForeign, Answer
<1>7. CASE AssignProject(a)
  BY <1>7, <1>g DEF AssignProject, Answer
<1>8. CASE \E b \in Admins : b # a /\ \E l, j : Go(b, l, j)
  BY <1>3, <1>8
<1>9. CASE \E b \in Admins : Start(b) \/ Assign(b) \/ Finish(b)
  <2>1. PICK b \in Admins : Start(b) \/ Assign(b) \/ Finish(b)
    BY <1>9
  <2>2. CASE b # a
    BY <2>1, <2>2, <1>8, GoesOn
  <2>3. CASE b = a
    BY <2>1, <2>3, <1>4, <1>5, <1>6, <1>7 DEF Assign
  <2> QED BY <2>2, <2>3
<1> QED BY <1>1, <1>2, <1>9, PlansOn, OthersStay DEF Step

LEMMA OwnKept ==
  ASSUME CoreOK, OwnSprintsFit, Step
  PROVE  OwnSprintsFit'
<1>h. /\ unused' \subseteq unused
      /\ \A s \in Sprints \ (Legacy \cup unused) : home'[s] = home[s]
  BY HomeKept DEF OwnSprintsFit
<1>t. /\ exists \subseteq Sprints \ unused /\ home \in [Sprints -> Projects \cup {Null}]
      /\ sprintOf \in [Issues -> exists \cup {NoSprint}]
      /\ \A m \in Movers : move[m] \in Moves
      /\ \A m \in Movers : mpc[m] # "idle" => move[m].issue \in Issues /\ move[m].sprint \notin unused
      /\ \A a \in Admins : apc[a] \in Running => job[a].sprint \in Sprints \ unused
  BY DEF CoreOK, SprintsOK, IssuesOK, HandlersOK
<1>n. NoSprint \notin Sprints
  BY NoSprintIsNone
\* What fitted a sprint that had been created fits it still.
<1>f. ASSUME NEW i, NEW s, s \notin unused, FitsOwn(i, s) PROVE FitsOwn(i, s)'
  BY <1>f, <1>h DEF FitsOwn, Fit
<1>1. ASSUME NEW s \in Sprints \ (Legacy \cup unused') PROVE home'[s] \in Projects
  <2>1. CASE s \notin unused
    BY <2>1, <1>1, <1>h DEF OwnSprintsFit, OwnHome
  <2>2. CASE s \in unused
    <3>1. unused' # unused
      BY <2>2, <1>1
    <3>2. CreateSprint
      BY <3>1, HomeSteps DEF AssignProject, Restart
    <3> QED BY <3>2, <2>2, <1>1, <1>t DEF CreateSprint
  <2> QED BY <2>1, <2>2
<1>2. ASSUME NEW a \in Admins, apc'[a] \in {"foreign", "assign"}, job'[a].sprint \notin Legacy
      PROVE  job'[a].project = home'[job'[a].sprint]
  <2>1. CASE apc[a] \in {"foreign", "assign"} /\ job'[a] = job[a]
    <3>1. job[a].sprint \in Sprints \ unused
      BY <2>1, <1>t DEF Running
    <3> QED BY <2>1, <3>1, <1>2, <1>h DEF OwnSprintsFit, OwnHome
  <2>2. CASE /\ home' = home /\ job'[a].sprint \in exists
             /\ home[job'[a].sprint] \in {Null, job'[a].project}
    <3>1. home[job'[a].sprint] \in Projects
      BY <2>2, <1>2, <1>t DEF OwnSprintsFit, OwnHome
    <3> QED BY <2>2, <3>1, SprintAssumption
  <2> QED BY <1>2, <2>1, <2>2, AssignSteps
<1>3. ASSUME NEW i \in Issues PROVE FitsOwn(i, sprintOf[i])'
  <2>1. CASE sprintOf'[i] = NoSprint
    BY <2>1, <1>n DEF FitsOwn
  <2>2. CASE sprintOf'[i] = sprintOf[i]
    <3>1. sprintOf[i] = NoSprint \/ sprintOf[i] \notin unused
      BY <1>t
    <3>2. FitsOwn(i, sprintOf[i])
      BY DEF OwnSprintsFit
    <3> QED BY <2>1, <2>2, <3>1, <3>2, <1>f, <1>h DEF FitsOwn, Fit
  <2>3. CASE \E m \in Movers : /\ mpc[m] = "write" /\ move[m].issue = i
                              /\ sprintOf'[i] = move[m].sprint
    <3>1. PICK m \in Movers : /\ mpc[m] = "write" /\ move[m].issue = i
                             /\ sprintOf'[i] = move[m].sprint
      BY <2>3
    <3>2. FitsOwn(i, move[m].sprint) /\ move[m].sprint \notin unused
      BY <3>1, <1>t DEF OwnSprintsFit
    <3> QED BY <3>1, <3>2, <1>h DEF FitsOwn, Fit
  <2> QED BY <2>1, <2>2, <2>3, SprintSteps
<1>4. ASSUME NEW m \in Movers, mpc'[m] = "write" PROVE FitsOwn(move[m].issue, move[m].sprint)'
  <2> DEFINE v == move'[m]
  <2>1. CASE mpc[m] = "write" /\ move'[m] = move[m]
    <3>1. FitsOwn(move[m].issue, move[m].sprint) /\ move[m].sprint \notin unused
      BY <2>1, <1>t DEF OwnSprintsFit
    <3> QED BY <2>1, <3>1, <1>h DEF FitsOwn, Fit
  <2>2. CASE home' = home /\ v.sprint = NoSprint
    BY <2>2, <1>n DEF FitsOwn
  <2>3. CASE home' = home /\ Fit(home[v.sprint], ProjectOf[v.issue])
    BY <2>3 DEF FitsOwn, Fit
  <2>4. CASE home' = home /\ \E k \in Issues : /\ ProjectOf[k] = ProjectOf[v.issue]
                                             /\ v.sprint = sprintOf[k]
    <3>1. PICK k \in Issues : ProjectOf[k] = ProjectOf[v.issue] /\ v.sprint = sprintOf[k]
      BY <2>4
    <3>2. FitsOwn(k, sprintOf[k])
      BY DEF OwnSprintsFit
    <3> QED BY <2>4, <3>1, <3>2 DEF FitsOwn
  <2> QED BY <1>4, <2>1, <2>2, <2>3, <2>4, PlanSteps
<1> QED BY <1>1, <1>2, <1>3, <1>4 DEF OwnSprintsFit, OwnHome

\* Under every interleaving a sprint created with a project holds only issues
\* of that project (or of none).
THEOREM OwnSprintsStayOwn == Spec => []OwnSprintsFit
<1>1. Init => OwnSprintsFit
  <2> SUFFICES ASSUME Init PROVE OwnSprintsFit
    OBVIOUS
  <2>1. OwnHome
    BY DEF Init, OwnHome
  <2> QED BY <2>1, NoSprintIsNone DEF Init, OwnSprintsFit, FitsOwn
<1>2. TypeOK /\ OwnSprintsFit /\ [Next]_vars => OwnSprintsFit'
  <2> SUFFICES ASSUME TypeOK, OwnSprintsFit, [Next]_vars PROVE OwnSprintsFit'
    OBVIOUS
  <2>1. CASE Next
    BY <2>1, OwnKept DEF Next, TypeOK, CoreOK
  <2>2. CASE UNCHANGED vars
    BY <2>2 DEF vars, sprintRows, issueRows, OwnSprintsFit, OwnHome, FitsOwn, Fit
  <2> QED BY <2>1, <2>2
<1> QED BY <1>1, <1>2, SprintTypes, PTL DEF Spec

-----------------------------------------------------------------------------
(***************************************************************************)
(* The snapshot.                                                           *)
(***************************************************************************)
\* A handler that is taking a snapshot was left alone or has moved on.
LEMMA StartSteps ==
  ASSUME CoreOK, Step, NEW a \in Admins, apc'[a] \in Starting
  PROVE  \/ apc'[a] = apc[a] /\ job'[a] = job[a]
         \/ apc[a] = "mark" /\ apc'[a] = "snapshot"
         \/ ReadIssues(a)
         \/ InsertScope(a)
<1>t. apc \in [Admins -> Running \cup {"idle"}] /\ job \in [Admins -> Jobs]
  BY DEF CoreOK, HandlersOK
<1>1. CASE Restart
  BY <1>1 DEF Restart, Starting
<1>2. CASE NoHandler \/ \E m \in Movers : \E l, v : Plan(m, l, v)
  BY <1>2 DEF NoHandler, Plan
<1>3. ASSUME NEW b \in Admins, b # a, NEW l, NEW j, Go(b, l, j)
      PROVE  apc'[a] = apc[a] /\ job'[a] = job[a]
  BY <1>3, <1>t DEF Go
<1>g. ASSUME NEW l, NEW j, Go(a, l, j) PROVE l \in Starting /\ l = apc'[a]
  BY <1>g, <1>t DEF Go
<1>4. ASSUME Assign(a) \/ Finish(a) PROVE FALSE
  <2>1. \E l \in {"idle", "foreign", "assign", "sweep", "close", "empty", "delete"} : \E j : Go(a, l, j)
    BY <1>4 DEF Assign, ReadHome, CountForeign, AssignProject, Finish, ReadSprint, SweepOpen,
       CloseSprint, EmptySprint, DeleteSprint, Answer
  <2> QED BY <2>1, <1>g DEF Starting
<1>5. ASSUME ReadTarget(a) \/ ReadSetting(a) \/ CountActive(a) \/ AnswerStarted(a) PROVE FALSE
  <2>1. \E l \in {"idle", "setting", "count", "mark"} : \E j : Go(a, l, j)
    BY <1>5 DEF ReadTarget, ReadSetting, CountActive, AnswerStarted, Answer
  <2> QED BY <2>1, <1>g DEF Starting
<1>6. ASSUME MarkStarted(a) PROVE apc[a] = "mark" /\ apc'[a] = "snapshot"
  BY <1>6, <1>g DEF MarkStarted, Answer, Starting
<1>7. CASE \E b \in Admins : Start(b) \/ Assign(b) \/ Finish(b)
  <2>1. PICK b \in Admins : Start(b) \/ Assign(b) \/ Finish(b)
    BY <1>7
  <2>2. CASE b # a
    BY <2>1, <2>2, <1>3, GoesOn
  <2>3. CASE b = a
    BY <2>1, <2>3, <1>4, <1>5, <1>6 DEF Start
  <2> QED BY <2>2, <2>3
<1> QED BY <1>1, <1>2, <1>7, PlansOn, OthersStay DEF Step

\* An issue keeps its row in the snapshot as long as it is in the sprint.
LEMMA CoveredKept ==
  ASSUME CoreOK, Step, MaxRows >= 1, NEW s \in Sprints, NEW i \in Covered(s),
         i \in live', sprintOf'[i] = s
  PROVE  i \in Covered(s)'
<1>i. i \in Issues /\ committed[s][i] + added[s][i] >= 1
  BY DEF Covered
<1>t. /\ committed \in [Sprints -> [Issues -> 0 .. MaxRows]]
      /\ added \in [Sprints -> [Issues -> 0 .. MaxRows]]
      /\ committed[s] \in [Issues -> 0 .. MaxRows] /\ added[s] \in [Issues -> 0 .. MaxRows]
      /\ MaxRows \in Nat
  BY SprintAssumption DEF CoreOK, ScopeOK
<1>n. committed[s][i] \in Nat /\ added[s][i] \in Nat
  BY <1>i, <1>t
<1>u. ASSUME UNCHANGED scopeRows PROVE i \in Covered(s)'
  BY <1>u, <1>i DEF Covered, scopeRows
<1>m. \A n \in Nat : AtMost(n) \in Nat /\ (n >= 1 => AtMost(n) >= 1)
  BY <1>t DEF AtMost
<1>p. \A n \in Nat : AtMost(n + 1) \in Nat /\ AtMost(n + 1) >= 1
  BY <1>t DEF AtMost
<1>1. ASSUME NEW a \in Admins, MarkStarted(a) PROVE i \in Covered(s)'
  <2>1. CASE UNCHANGED scopeRows
    BY <2>1, <1>u
  <2>2. CASE s # job[a].sprint
    <3>1. committed'[s] = committed[s] /\ added'[s] = added[s]
      BY <1>1, <2>2, <1>t DEF MarkStarted, scopeRows
    <3> QED BY <3>1, <1>i DEF Covered
  <2>3. CASE s = job[a].sprint /\ ~UNCHANGED scopeRows
    <3>1. /\ committed' = [committed EXCEPT ![s] =
                 [k \in Issues |-> AtMost(committed[s][k] + added[s][k])]]
          /\ added' = [added EXCEPT ![s] = NoRows]
      BY <1>1, <2>3 DEF MarkStarted
    <3>2. committed'[s][i] = AtMost(committed[s][i] + added[s][i]) /\ added'[s][i] = 0
      BY <3>1, <1>t, <1>i DEF NoRows
    <3>3. committed[s][i] + added[s][i] \in Nat
      BY <1>n
    <3>4. committed'[s][i] \in Nat /\ committed'[s][i] >= 1
      BY <3>2, <3>3, <1>i, <1>m
    <3>5. committed'[s][i] + added'[s][i] >= 1
      BY <3>2, <3>4
    <3> QED BY <3>5, <1>i DEF Covered
  <2> QED BY <2>1, <2>2, <2>3
<1>2. ASSUME NEW a \in Admins, InsertScope(a) PROVE i \in Covered(s)'
  <2>1. CASE UNCHANGED scopeRows
    BY <2>1, <1>u
  <2>2. CASE ~UNCHANGED scopeRows
    <3>1. \E k \in job[a].todo :
            \/ committed' = committed /\ added' = [added EXCEPT ![job[a].sprint][k] = AtMost(@ + 1)]
            \/ added' = added /\ committed' = [committed EXCEPT ![job[a].sprint][k] = AtMost(@ + 1)]
      BY <1>2, <2>2 DEF InsertScope
    <3>2. /\ committed'[s][i] \in {committed[s][i], AtMost(committed[s][i] + 1)}
          /\ added'[s][i] \in {added[s][i], AtMost(added[s][i] + 1)}
      <4>1. ASSUME NEW f \in [Sprints -> [Issues -> 0 .. MaxRows]], NEW x, NEW k
            PROVE  LET g == [f EXCEPT ![x][k] = AtMost(@ + 1)]
                   IN  g[s][i] \in {f[s][i], AtMost(f[s][i] + 1)}
        <5>1. f[s] \in [Issues -> 0 .. MaxRows]
          OBVIOUS
        <5>2. CASE x = s
          BY <5>1, <5>2, <1>i
        <5>3. CASE x # s
          BY <5>3, <1>i
        <5> QED BY <5>2, <5>3
      <4>2. PICK k \in job[a].todo :
              \/ committed' = committed /\ added' = [added EXCEPT ![job[a].sprint][k] = AtMost(@ + 1)]
              \/ added' = added /\ committed' = [committed EXCEPT ![job[a].sprint][k] = AtMost(@ + 1)]
        BY <3>1
      <4>3. CASE committed' = committed /\ added' = [added EXCEPT ![job[a].sprint][k] = AtMost(@ + 1)]
        <5>1. [added EXCEPT ![job[a].sprint][k] = AtMost(@ + 1)][s][i]
                \in {added[s][i], AtMost(added[s][i] + 1)}
          BY <4>1, <1>t
        <5> QED BY <4>3, <5>1
      <4>4. CASE added' = added /\ committed' = [committed EXCEPT ![job[a].sprint][k] = AtMost(@ + 1)]
        <5>1. [committed EXCEPT ![job[a].sprint][k] = AtMost(@ + 1)][s][i]
                \in {committed[s][i], AtMost(committed[s][i] + 1)}
          BY <4>1, <1>t
        <5> QED BY <4>4, <5>1
      <4> QED BY <4>2, <4>3, <4>4
    <3>3. /\ committed'[s][i] \in Nat /\ added'[s][i] \in Nat
          /\ committed[s][i] >= 1 => committed'[s][i] >= 1
          /\ added[s][i] >= 1 => added'[s][i] >= 1
      BY <3>2, <1>n, <1>p
    <3>4. committed'[s][i] + added'[s][i] >= 1
      BY <3>3, <1>n, <1>i
    <3> QED BY <3>4, <1>i DEF Covered
  <2> QED BY <2>1, <2>2
<1>3. ASSUME NEW a \in Admins, DeleteSprint(a) PROVE i \in Covered(s)'
  <2>1. s # NoSprint
    BY NoSprintIsNone
  <2>2. job[a].sprint # s
    BY <1>3, <1>i, <2>1 DEF DeleteSprint
  <2>3. committed'[s] = committed[s] /\ added'[s] = added[s]
    BY <1>3, <2>2, <1>t DEF DeleteSprint
  <2> QED BY <2>3, <1>i DEF Covered
<1>4. ASSUME DeleteIssues PROVE i \in Covered(s)'
  <2>1. committed'[s][i] = committed[s][i] /\ added'[s][i] = added[s][i]
    BY <1>4, <1>i DEF DeleteIssues
  <2> QED BY <2>1, <1>i DEF Covered
<1>5. ASSUME NEW a \in Admins, \/ ReadTarget(a) \/ ReadSetting(a) \/ CountActive(a) \/ ReadIssues(a)
             \/ AnswerStarted(a) \/ Assign(a) \/ ReadSprint(a) \/ SweepOpen(a) \/ CloseSprint(a)
             \/ EmptySprint(a)
      PROVE  UNCHANGED scopeRows
  BY <1>5 DEF ReadTarget, ReadSetting, CountActive, ReadIssues, AnswerStarted, Assign, ReadHome,
     CountForeign, AssignProject, ReadSprint, SweepOpen, CloseSprint, EmptySprint
<1>6. ASSUME NEW m \in Movers, Place(m) PROVE UNCHANGED scopeRows
  BY <1>6 DEF Place, ReadIssue, NewIssue, ReadDefault, NameSprint, CopyIssue, WriteIssue
<1>7. ASSUME CreateSprint \/ SetParallel \/ LeaveSprint \/ Restatus \/ Restart PROVE UNCHANGED scopeRows
  BY <1>7 DEF CreateSprint, SetParallel, LeaveSprint, Restatus, Restart
<1> QED BY <1>u, <1>1, <1>2, <1>3, <1>4, <1>5, <1>6, <1>7 DEF Step, Start, Finish, Others

\* An inserted row covers its issue.
LEMMA InsertCovers ==
  ASSUME CoreOK, CoreOK', MaxRows >= 1, NEW s \in Sprints, NEW k \in Issues,
         \/ added' = [added EXCEPT ![s][k] = AtMost(@ + 1)]
         \/ committed' = [committed EXCEPT ![s][k] = AtMost(@ + 1)]
  PROVE  k \in Covered(s)'
<1>t. /\ committed \in [Sprints -> [Issues -> 0 .. MaxRows]]
      /\ added \in [Sprints -> [Issues -> 0 .. MaxRows]]
      /\ committed' \in [Sprints -> [Issues -> 0 .. MaxRows]]
      /\ added' \in [Sprints -> [Issues -> 0 .. MaxRows]]
      /\ MaxRows \in Nat
  BY SprintAssumption DEF CoreOK, ScopeOK
<1>n. /\ committed[s][k] \in Nat /\ added[s][k] \in Nat
      /\ committed'[s][k] \in Nat /\ added'[s][k] \in Nat
  <2>1. /\ committed[s] \in [Issues -> 0 .. MaxRows] /\ added[s] \in [Issues -> 0 .. MaxRows]
        /\ committed'[s] \in [Issues -> 0 .. MaxRows] /\ added'[s] \in [Issues -> 0 .. MaxRows]
    BY <1>t
  <2> QED BY <2>1, <1>t
<1>p. \A n \in Nat : AtMost(n + 1) >= 1
  BY <1>t DEF AtMost
<1>1. added'[s][k] >= 1 \/ committed'[s][k] >= 1
  <2>1. CASE added' = [added EXCEPT ![s][k] = AtMost(@ + 1)]
    <3>1. added'[s][k] = AtMost(added[s][k] + 1)
      BY <2>1, <1>t
    <3> QED BY <3>1, <1>p, <1>n
  <2>2. CASE committed' = [committed EXCEPT ![s][k] = AtMost(@ + 1)]
    <3>1. committed'[s][k] = AtMost(committed[s][k] + 1)
      BY <2>2, <1>t
    <3> QED BY <3>1, <1>p, <1>n
  <2> QED BY <2>1, <2>2
<1>2. committed'[s][k] + added'[s][k] >= 1
  BY <1>1, <1>n
<1> QED BY <1>2 DEF Covered

LEMMA BaselineKept ==
  ASSUME TypeOK, BaselineCovers, Step, Observe, MaxRows >= 1
  PROVE  BaselineCovers'
<1>c. CoreOK /\ CoreOK'
  BY StepTyped DEF TypeOK, CoreOK
<1>t. apc \in [Admins -> Running \cup {"idle"}] /\ job \in [Admins -> Jobs]
  BY <1>c DEF CoreOK, HandlersOK
<1>1. ASSUME NEW a \in Admins, apc'[a] \in Starting, NEW i \in steady'[a],
             NEW s \in Sprints, s = job'[a].sprint
      PROVE  /\ i \in live' /\ sprintOf'[i] = s
             /\ apc'[a] = "scope" => i \in job'[a].todo \/ i \in Covered(s)'
             /\ apc'[a] = "respond" => i \in Covered(s)'
  <2>1. i \in live' /\ sprintOf'[i] = s /\ (apc[a] # "mark" => i \in steady[a])
    BY <1>1 DEF Observe
  <2>2. ASSUME i \in Covered(s) PROVE i \in Covered(s)'
    BY <2>1, <2>2, <1>c, CoveredKept
  <2>3. CASE apc'[a] = apc[a] /\ job'[a] = job[a]
    <3>1. i \in steady[a]
      BY <2>1, <2>3, <1>1 DEF Starting
    <3>2. /\ apc[a] = "scope" => i \in job[a].todo \cup Covered(s)
          /\ apc[a] = "respond" => i \in Covered(s)
      BY <3>1, <2>3, <1>1 DEF BaselineCovers
    <3> QED BY <2>1, <2>2, <2>3, <3>2
  <2>4. CASE apc[a] = "mark" /\ apc'[a] = "snapshot"
    BY <2>1, <2>4
  <2>5. CASE ReadIssues(a)
    <3>1. PICK todo \in SUBSET Issues : todo = Inside(job[a].sprint)
      BY <1>c DEF Inside, CoreOK, IssuesOK
    <3>2. apc[a] = "snapshot" /\ i \in steady[a]
      BY <2>1, <2>5 DEF ReadIssues
    <3>3. i \in todo
      BY <3>1, <3>2, <1>1 DEF BaselineCovers, Starting
    <3>4. Go(a, "scope", [job[a] EXCEPT !.todo = todo])
      BY <2>5, <3>1, <3>3 DEF ReadIssues
    <3>5. job[a] \in Jobs
      BY <1>t
    <3>6. apc'[a] = "scope" /\ job'[a].todo = todo
      BY <3>4, <3>5, <1>t DEF Go, Jobs
    <3> QED BY <2>1, <3>3, <3>6
  <2>6. CASE InsertScope(a)
    <3>1. PICK k \in job[a].todo, late \in BOOLEAN : InsertScope(a)!(k, late)
      BY <2>6 DEF InsertScope
    <3>2. PICK rest \in SUBSET Issues : rest = job[a].todo \ {k}
      BY <1>t DEF Jobs
    <3>3. job[a].sprint \in exists /\ k \in live
      <4> SUFFICES ASSUME ~(job[a].sprint \in exists /\ k \in live) PROVE FALSE
        OBVIOUS
      <4>1. Go(a, "idle", NoJob)
        BY <3>1 DEF Answer
      <4> QED BY <4>1, <1>1, <1>t DEF Go, Starting
    <3>4. Go(a, IF rest = {} THEN "respond" ELSE "scope", [job[a] EXCEPT !.todo = rest])
      BY <3>1, <3>2, <3>3
    <3>5. job[a] \in Jobs
      BY <1>t
    <3>6. /\ apc'[a] = IF rest = {} THEN "respond" ELSE "scope"
          /\ job'[a].todo = rest /\ job[a].sprint = s
      <4>1. (IF rest = {} THEN "respond" ELSE "scope") # "idle"
        OBVIOUS
      <4> QED BY <3>4, <3>5, <4>1, <1>1, <1>t DEF Go, Jobs
    <3>7. i \in job[a].todo \cup Covered(s)
      <4>1. apc[a] = "scope" /\ i \in steady[a]
        BY <2>1, <3>1
      <4> QED BY <4>1, <3>6 DEF BaselineCovers
    <3>8. k \in Covered(s)'
      <4>1. \/ added' = [added EXCEPT ![s][k] = AtMost(@ + 1)]
            \/ committed' = [committed EXCEPT ![s][k] = AtMost(@ + 1)]
        BY <3>1, <3>3, <3>6
      <4>2. k \in Issues
        BY <3>3, <1>c DEF CoreOK, IssuesOK
      <4> QED BY <4>1, <4>2, <1>c, InsertCovers
    <3> QED BY <2>1, <2>2, <3>2, <3>6, <3>7, <3>8
  <2> QED BY <1>1, <1>c, <2>3, <2>4, <2>5, <2>6, StartSteps
<1>2. ASSUME NEW a \in Admins, apc'[a] \in Starting
      PROVE  job'[a].sprint \in Sprints
  BY <1>2, <1>c DEF CoreOK, HandlersOK, Running
<1>3. \A a \in Admins, s \in Sprints : apc'[a] \in Starting /\ s = job'[a].sprint =>
         \A i \in steady'[a] :
           /\ i \in live' /\ sprintOf'[i] = s
           /\ apc'[a] = "scope" => i \in job'[a].todo \/ i \in Covered(s)'
           /\ apc'[a] = "respond" => i \in Covered(s)'
  BY <1>1
<1>4. \A a \in Admins : apc'[a] \in Starting => \E s \in Sprints : s = job'[a].sprint
  BY <1>2
<1> QED BY <1>3, <1>4 DEF BaselineCovers, Starting, Inside, Covered

\* Under every interleaving the snapshot of a starting sprint misses no issue
\* that is in the sprint throughout.
THEOREM SnapshotsComplete ==
  ASSUME MaxRows >= 1
  PROVE  Spec => []BaselineCovers
<1>1. Init => BaselineCovers
  BY DEF Init, BaselineCovers, Starting
<1>2. TypeOK /\ BaselineCovers /\ [Next]_vars => BaselineCovers'
  <2> SUFFICES ASSUME TypeOK, BaselineCovers, [Next]_vars PROVE BaselineCovers'
    OBVIOUS
  <2>1. CASE Next
    BY <2>1, BaselineKept DEF Next
  <2>2. CASE UNCHANGED vars
    BY <2>2 DEF vars, scopeRows, issueRows, BaselineCovers, Covered, Inside
  <2> QED BY <2>1, <2>2
<1> QED BY <1>1, <1>2, SprintTypes, PTL DEF Spec

-----------------------------------------------------------------------------
(***************************************************************************)
(* One handler at a time: whatever the running handler has read still      *)
(* stands, because nobody else has written since.                          *)
(***************************************************************************)
Solo ==
  /\ \A a, b \in Admins : apc[a] # "idle" /\ apc[b] # "idle" => a = b
  /\ \A m, n \in Movers : mpc[m] # "idle" /\ mpc[n] # "idle" => m = n
  /\ \A a \in Admins, m \in Movers : apc[a] = "idle" \/ mpc[m] = "idle"

MayStart(s) ==
  /\ home[s] \in Projects \ parallel => \A t \in started \ {s} : home[t] # home[s]
  /\ home[s] = Null /\ parallel = {} => started \ {s} = {}

\* What a sprint handler has found out.
Knows(a) ==
  /\ apc[a] = "setting" =>
       /\ job[a].home = home[job[a].sprint]
       /\ home[job[a].sprint] # Null => job[a].project = home[job[a].sprint]
  /\ apc[a] = "count" =>
       /\ job[a].home = home[job[a].sprint]
       /\ job[a].allow => \/ home[job[a].sprint] \in parallel
                          \/ home[job[a].sprint] = Null /\ parallel # {}
  /\ apc[a] = "mark" => MayStart(job[a].sprint)
  /\ apc[a] \in {"foreign", "assign"} => home[job[a].sprint] \in {Null, job[a].project}
  /\ apc[a] = "assign" => \A i \in Inside(job[a].sprint) : ProjectOf[i] \in {Null, job[a].project}
  /\ apc[a] = "close" => Open(job[a].sprint) = {}
  /\ apc[a] = "delete" => Inside(job[a].sprint) = {}

PlannedFits ==
  \A m \in Movers : mpc[m] = "write" /\ move[m].sprint # NoSprint =>
    Fit(home[move[m].sprint], ProjectOf[move[m].issue])

SoloInv == Solo /\ Fits /\ PlannedFits /\ \A a \in Admins : Knows(a)

LEMMA GoMoves ==
  ASSUME CoreOK, NEW a \in Admins, NEW l, NEW j, Go(a, l, j)
  PROVE  /\ apc'[a] = l /\ (l # "idle" => job'[a] = j)
         /\ \A b \in Admins \ {a} : apc'[b] = apc[b]
         /\ mpc' = mpc /\ move' = move
BY DEF Go, CoreOK, HandlersOK

LEMMA AnswerMoves ==
  ASSUME CoreOK, NEW a \in Admins, Answer(a)
  PROVE  apc'[a] = "idle" /\ mpc' = mpc /\ move' = move
BY DEF Answer, Go, CoreOK, HandlersOK

\* An idle handler knows nothing.
LEMMA IdleKnows == ASSUME NEW a \in Admins, apc[a] = "idle" PROVE Knows(a)
BY DEF Knows

\* While a sprint handler takes a step every other one is idle.
LEMMA AdminAlone ==
  ASSUME ~Overlap, CoreOK, Solo, NEW a \in Admins, Start(a) \/ Assign(a) \/ Finish(a)
  PROVE  /\ \A b \in Admins \ {a} : apc[b] = "idle" /\ apc'[b] = "idle"
         /\ \A m \in Movers : mpc[m] = "idle" /\ mpc'[m] = "idle"
<1>1. apc[a] # "idle" \/ Quiet
  BY DEF Start, ReadTarget, ReadSetting, CountActive, MarkStarted, ReadIssues, InsertScope,
     AnswerStarted, Assign, ReadHome, CountForeign, AssignProject, Finish, ReadSprint, SweepOpen,
     CloseSprint, EmptySprint, DeleteSprint
<1>2. (\A b \in Admins \ {a} : apc[b] = "idle") /\ (\A m \in Movers : mpc[m] = "idle")
  BY <1>1 DEF Quiet, Solo
<1> QED BY <1>2, GoesOn, GoMoves

LEMMA MoverAlone ==
  ASSUME ~Overlap, CoreOK, Solo, NEW m \in Movers, Place(m)
  PROVE  /\ \A n \in Movers \ {m} : mpc[n] = "idle" /\ mpc'[n] = "idle"
         /\ \A a \in Admins : apc[a] = "idle" /\ apc'[a] = "idle"
<1>1. mpc[m] # "idle" \/ Quiet
  BY DEF Place, ReadIssue, NewIssue, ReadDefault, NameSprint, CopyIssue, WriteIssue
<1>2. (\A n \in Movers \ {m} : mpc[n] = "idle") /\ (\A a \in Admins : apc[a] = "idle")
  BY <1>1 DEF Quiet, Solo
<1> QED BY <1>2, PlansOn DEF Plan, CoreOK, HandlersOK

\* What is left to show of a step of one handler.
LEMMA AdminSuffices ==
  ASSUME ~Overlap, CoreOK, SoloInv, NEW a \in Admins, Start(a) \/ Assign(a) \/ Finish(a),
         Knows(a)', Fits'
  PROVE  SoloInv'
<1>1. /\ \A b \in Admins \ {a} : apc[b] = "idle" /\ apc'[b] = "idle"
      /\ \A m \in Movers : mpc[m] = "idle" /\ mpc'[m] = "idle"
  BY AdminAlone DEF SoloInv
<1>2. \A b \in Admins : Knows(b)'
  BY <1>1 DEF Knows
<1> QED BY <1>1, <1>2 DEF SoloInv, Solo, PlannedFits

LEMMA MoverSuffices ==
  ASSUME ~Overlap, CoreOK, SoloInv, NEW m \in Movers, Place(m), PlannedFits', Fits'
  PROVE  SoloInv'
<1>1. /\ \A n \in Movers \ {m} : mpc[n] = "idle" /\ mpc'[n] = "idle"
      /\ \A a \in Admins : apc[a] = "idle" /\ apc'[a] = "idle"
  BY MoverAlone DEF SoloInv
<1>2. \A b \in Admins : Knows(b)'
  BY <1>1 DEF Knows
<1> QED BY <1>1, <1>2 DEF SoloInv, Solo

LEMMA StartSolo ==
  ASSUME ~Overlap, CoreOK, SoloInv, NEW a \in Admins, Start(a)
  PROVE  SoloInv'
<1>t. /\ job[a] \in Jobs /\ home \in [Sprints -> Projects \cup {Null}] /\ exists \subseteq Sprints
      /\ parallel \subseteq Projects /\ started \subseteq exists /\ Null \notin Projects
      /\ apc[a] \in Running => job[a].sprint \in Sprints
  BY SprintAssumption DEF CoreOK, HandlersOK, SprintsOK
<1>1. Fits'
  BY DEF SoloInv, Fits, Fit, Start, ReadTarget, ReadSetting, CountActive, MarkStarted, ReadIssues,
     InsertScope, AnswerStarted, sprintRows, issueRows
<1>2. Knows(a)'
  <2>1. CASE ReadTarget(a)
    <3>1. PICK s \in exists, p \in Projects \cup {Null} :
            Go(a, "setting", [NoJob EXCEPT !.sprint = s, !.home = home[s],
                                           !.project = IF home[s] # Null THEN home[s] ELSE p])
      BY <2>1 DEF ReadTarget
    <3> DEFINE j == [NoJob EXCEPT !.sprint = s, !.home = home[s],
                                  !.project = IF home[s] # Null THEN home[s] ELSE p]
    <3>2. j.sprint = s /\ j.home = home[s] /\ (home[s] # Null => j.project = home[s])
      BY DEF NoJob
    <3>3. apc'[a] = "setting" /\ job'[a] = j
      <4> HIDE DEF j
      <4> QED BY <3>1, GoMoves DEF j
    <3>4. home' = home
      BY <2>1 DEF ReadTarget, sprintRows
    <3> HIDE DEF j
    <3> QED BY <3>2, <3>3, <3>4 DEF Knows
  <2>2. CASE ReadSetting(a)
    <3> DEFINE j == [job[a] EXCEPT !.allow = job[a].project \in parallel, !.project = Null]
    <3>1. /\ apc[a] = "setting" /\ Go(a, "count", j) /\ UNCHANGED <<sprintRows, parallel>>
      BY <2>2 DEF ReadSetting
    <3>2. j.sprint = job[a].sprint /\ j.home = job[a].home /\ j.allow = (job[a].project \in parallel)
      BY <1>t DEF Jobs
    <3>3. apc'[a] = "count" /\ job'[a] = j
      <4> HIDE DEF j
      <4> QED BY <3>1, GoMoves
    <3>4. job[a].home = home[job[a].sprint]
          /\ (home[job[a].sprint] # Null => job[a].project = home[job[a].sprint])
      BY <3>1 DEF SoloInv, Knows
    <3> HIDE DEF j
    <3>5. j.allow => job[a].project \in parallel
      BY <3>2, Zenon
    <3> QED BY <3>1, <3>2, <3>3, <3>4, <3>5, <1>t DEF Knows, sprintRows
  <2>3. CASE CountActive(a)
    <3>1. CASE Answer(a)
      BY <3>1, AnswerMoves DEF Knows
    <3>2. CASE ~Answer(a)
      <4> DEFINE s == job[a].sprint
                 j == [NoJob EXCEPT !.sprint = s]
      <4>1. /\ apc[a] = "count" /\ Go(a, "mark", j) /\ UNCHANGED <<sprintRows, parallel>>
            /\ job[a].allow \/ OtherActive(s, job[a].home) = {}
        BY <2>3, <3>2 DEF CountActive
      <4>2. j.sprint = s
        BY DEF NoJob
      <4>3. apc'[a] = "mark" /\ job'[a] = j
        <5> HIDE DEF j
        <5> QED BY <4>1, GoMoves
      <4>4. /\ job[a].home = home[s]
            /\ job[a].allow => home[s] \in parallel \/ (home[s] = Null /\ parallel # {})
        BY <4>1 DEF SoloInv, Knows
      <4>5. MayStart(s)
        BY <4>1, <4>4, <1>t DEF MayStart, OtherActive
      <4>6. ASSUME NEW t, MayStart(t) PROVE MayStart(t)'
        BY <4>1, <4>6 DEF MayStart, sprintRows
      <4> HIDE DEF j
      <4> QED BY <4>1, <4>2, <4>3, <4>5, <4>6 DEF Knows
    <3> QED BY <3>1, <3>2
  <2>4. CASE MarkStarted(a) \/ ReadIssues(a) \/ InsertScope(a) \/ AnswerStarted(a)
    <3>1. \E l \in Starting \cup {"idle"} : \E j : Go(a, l, j)
      BY <2>4 DEF MarkStarted, ReadIssues, InsertScope, AnswerStarted, Answer, Starting
    <3>2. apc'[a] \in Starting \cup {"idle"}
      BY <3>1, GoMoves
    <3> QED BY <3>2 DEF Knows, Starting
  <2> QED BY <2>1, <2>2, <2>3, <2>4 DEF Start
<1> QED BY <1>1, <1>2, AdminSuffices

LEMMA AssignSolo ==
  ASSUME ~Overlap, CoreOK, SoloInv, NEW a \in Admins, Assign(a)
  PROVE  SoloInv'
<1>t. /\ job[a] \in Jobs /\ home \in [Sprints -> Projects \cup {Null}] /\ exists \subseteq Sprints
      /\ sprintOf \in [Issues -> exists \cup {NoSprint}] /\ live \subseteq Issues
      /\ apc[a] \in Running => job[a].sprint \in Sprints
  BY DEF CoreOK, HandlersOK, SprintsOK, IssuesOK
<1>1. CASE ReadHome(a)
  <2>1. PICK s \in exists, p \in Projects :
          home[s] \in {Null, p} /\ Go(a, "foreign", [NoJob EXCEPT !.sprint = s, !.project = p])
    BY <1>1 DEF ReadHome
  <2> DEFINE j == [NoJob EXCEPT !.sprint = s, !.project = p]
  <2>2. j.sprint = s /\ j.project = p
    BY DEF NoJob
  <2>3. apc'[a] = "foreign" /\ job'[a] = j
    <3> HIDE DEF j
    <3> QED BY <2>1, GoMoves DEF j
  <2>4. UNCHANGED <<sprintRows, issueRows>>
    BY <1>1 DEF ReadHome
  <2>5. Knows(a)'
    <3> HIDE DEF j
    <3> QED BY <2>1, <2>2, <2>3, <2>4 DEF Knows, sprintRows
  <2> QED BY <2>4, <2>5, AdminSuffices DEF Assign, SoloInv, Fits, Fit, sprintRows, issueRows
<1>2. CASE CountForeign(a)
  <2> DEFINE s == job[a].sprint
  <2>1. /\ apc[a] = "foreign" /\ UNCHANGED <<sprintRows, issueRows>>
        /\ home[s] \in {Null, job[a].project}
    BY <1>2 DEF CountForeign, SoloInv, Knows
  <2>2. CASE Answer(a)
    BY <1>2, <2>1, <2>2, AnswerMoves, AdminSuffices
       DEF Assign, SoloInv, Fits, Fit, Knows, sprintRows, issueRows
  <2>3. CASE ~Answer(a)
    <3>1. /\ \A i \in Inside(s) : ProjectOf[i] \in {Null, job[a].project}
          /\ Go(a, "assign", job[a])
      BY <1>2, <2>3 DEF CountForeign
    <3>2. apc'[a] = "assign" /\ job'[a] = job[a]
      BY <3>1, GoMoves
    <3>3. Inside(s)' = Inside(s)
      BY <2>1, <3>2 DEF Inside, issueRows
    <3>4. Knows(a)'
      BY <2>1, <3>1, <3>2, <3>3 DEF Knows, sprintRows
    <3> QED BY <1>2, <2>1, <3>4, AdminSuffices DEF Assign, SoloInv, Fits, Fit, sprintRows, issueRows
  <2> QED BY <2>2, <2>3
<1>3. CASE AssignProject(a)
  <2> DEFINE s == job[a].sprint
             p == job[a].project
  <2>1. /\ home' = (IF s \in exists THEN [home EXCEPT ![s] = p] ELSE home)
        /\ UNCHANGED issueRows /\ Answer(a)
        /\ \A i \in Inside(s) : ProjectOf[i] \in {Null, p}
    BY <1>3 DEF AssignProject, SoloInv, Knows
  <2>2. Knows(a)'
    BY <2>1, AnswerMoves DEF Knows
  <2>3. ASSUME NEW i \in live, sprintOf[i] # NoSprint PROVE Fit(home'[sprintOf[i]], ProjectOf[i])
    <3>1. Fit(home[sprintOf[i]], ProjectOf[i]) /\ sprintOf[i] \in Sprints
      BY <1>t, <2>3 DEF SoloInv, Fits
    <3>2. CASE sprintOf[i] = s
      BY <1>t, <2>1, <3>1, <3>2 DEF Inside, Fit
    <3>3. CASE sprintOf[i] # s
      BY <1>t, <2>1, <3>1, <3>3
    <3> QED BY <3>2, <3>3
  <2>4. Fits'
    BY <2>1, <2>3 DEF Fits, Fit, issueRows
  <2> QED BY <1>3, <2>2, <2>4, AdminSuffices DEF Assign
<1> QED BY <1>1, <1>2, <1>3 DEF Assign

LEMMA FinishSolo ==
  ASSUME ~Overlap, CoreOK, SoloInv, NEW a \in Admins, Finish(a)
  PROVE  SoloInv'
<1>t. /\ job[a] \in Jobs /\ sprintOf \in [Issues -> exists \cup {NoSprint}] /\ live \subseteq Issues
      /\ apc[a] \in Running => job[a].sprint \in Sprints
  BY DEF CoreOK, HandlersOK, IssuesOK
<1>n. job[a].sprint \in Sprints => job[a].sprint # NoSprint
  BY NoSprintIsNone
<1>1. Fits'
  BY <1>t DEF SoloInv, Fits, Fit, Finish, ReadSprint, SweepOpen, CloseSprint, EmptySprint, DeleteSprint, SendBack,
     sprintRows, issueRows
<1>2. Knows(a)'
  <2>1. CASE ReadSprint(a)
    <3>1. \E l \in {"sweep", "empty"} : \E j : Go(a, l, j)
      BY <2>1 DEF ReadSprint
    <3>2. apc'[a] \in {"sweep", "empty"}
      BY <3>1, GoMoves
    <3> QED BY <3>2 DEF Knows
  <2>2. CASE SweepOpen(a)
    <3>1. /\ apc[a] = "sweep" /\ SendBack(Open(job[a].sprint)) /\ apc'[a] = "close" /\ job'[a] = job[a]
      BY <2>2, GoMoves DEF SweepOpen
    <3>2. Open(job[a].sprint)' = {}
      BY <1>t, <1>n, <3>1 DEF SendBack, Open, Inside, Running
    <3> QED BY <3>1, <3>2 DEF Knows
  <2>3. CASE EmptySprint(a)
    <3>1. /\ apc[a] = "empty" /\ SendBack(Inside(job[a].sprint)) /\ apc'[a] = "delete" /\ job'[a] = job[a]
      BY <2>3, GoMoves DEF EmptySprint
    <3>2. Inside(job[a].sprint)' = {}
      BY <1>t, <1>n, <3>1 DEF SendBack, Inside, Running
    <3> QED BY <3>1, <3>2 DEF Knows
  <2>4. CASE CloseSprint(a) \/ DeleteSprint(a)
    BY <2>4, AnswerMoves DEF CloseSprint, DeleteSprint, Knows
  <2> QED BY <2>1, <2>2, <2>3, <2>4 DEF Finish
<1> QED BY <1>1, <1>2, AdminSuffices

\* Nothing a placing handler does touches sprints, and only its last step
\* touches an issue's sprint.
LEMMA PlaceSolo ==
  ASSUME ~Overlap, CoreOK, SoloInv, NEW m \in Movers, Place(m)
  PROVE  SoloInv'
<1>t. /\ sprintOf \in [Issues -> exists \cup {NoSprint}] /\ live \subseteq Issues /\ fresh \subseteq Issues
      /\ \A n \in Movers : mpc[n] # "idle" => move[n].issue \in Issues
  BY DEF CoreOK, HandlersOK, IssuesOK
<1>h. home' = home
  BY PlansOn
<1>1. PlannedFits'
  <2> SUFFICES ASSUME NEW n \in Movers, mpc'[n] = "write", move'[n].sprint # NoSprint
               PROVE  Fit(home[move'[n].sprint], ProjectOf[move'[n].issue])
    BY <1>h DEF PlannedFits, Fit
  <2>0. n = m
    BY MoverAlone DEF SoloInv
  <2>1. CASE mpc[n] = "write" /\ move'[n] = move[n]
    BY <2>1 DEF SoloInv, PlannedFits
  <2>2. CASE \E k \in live : ProjectOf[k] = ProjectOf[move'[n].issue] /\ move'[n].sprint = sprintOf[k]
    BY <2>2 DEF SoloInv, Fits
  <2>3. CASE Fit(home[move'[n].sprint], ProjectOf[move'[n].issue])
    BY <2>3
  <2>p. ASSUME NEW l, NEW v, Plan(m, l, v) PROVE l = "write" /\ move'[m] = v
    BY <2>p, <2>0 DEF Plan, CoreOK, HandlersOK
  <2>4. CASE ReadIssue(m)
    BY <2>4, <2>p, <2>0, <2>2 DEF ReadIssue, Placed
  <2>5. CASE NewIssue(m)
    BY <2>5, <2>p, <2>0 DEF NewIssue, Placed
  <2>6. CASE ReadDefault(m)
    <3> DEFINE s == DefaultSprint(ProjectOf[move[m].issue])
               v == [move[m] EXCEPT !.sprint = s]
    <3>1. move'[m] = v
      BY <2>6, <2>p DEF ReadDefault
    <3>2. v.sprint = s /\ v.issue = move[m].issue
      BY DEF CoreOK, HandlersOK, Moves
    <3>3. s = NoSprint \/ home[s] = ProjectOf[move[m].issue]
      BY DefaultTyped DEF CoreOK
    <3> QED BY <2>0, <3>1, <3>2, <3>3 DEF Fit
  <2>7. CASE NameSprint(m)
    BY <2>7, <2>p, <2>0 DEF NameSprint, Placed
  <2>8. CASE CopyIssue(m)
    BY <2>8, <2>p, <2>0, <2>2 DEF CopyIssue, Placed
  <2>9. CASE WriteIssue(m)
    BY <2>9, <2>p DEF WriteIssue
  <2> QED BY <2>4, <2>5, <2>6, <2>7, <2>8, <2>9 DEF Place
<1>2. Fits'
  <2>1. CASE WriteIssue(m)
    <3>1. PlannedFits /\ Fits /\ mpc[m] = "write" /\ move[m].issue \in Issues
      BY <2>1, <1>t DEF WriteIssue, SoloInv
    <3>2. \/ UNCHANGED <<live, sprintOf>>
          \/ /\ live' = live \cup {move[m].issue}
             /\ sprintOf' = [sprintOf EXCEPT ![move[m].issue] = move[m].sprint]
      BY <2>1 DEF WriteIssue
    <3> QED BY <1>h, <1>t, <3>1, <3>2 DEF Fits, PlannedFits, Fit
  <2>2. CASE ~WriteIssue(m)
    <3>1. UNCHANGED <<live, sprintOf>>
      BY <2>2 DEF Place, ReadIssue, NewIssue, ReadDefault, NameSprint, CopyIssue, Burn, issueRows
    <3> QED BY <1>h, <3>1 DEF SoloInv, Fits, Fit
  <2> QED BY <2>1, <2>2
<1> QED BY <1>1, <1>2, MoverSuffices

LEMMA OthersSolo ==
  ASSUME ~Overlap, CoreOK, SoloInv, Others
  PROVE  SoloInv'
<1>t. /\ home \in [Sprints -> Projects \cup {Null}] /\ exists \subseteq Sprints \ unused
      /\ sprintOf \in [Issues -> exists \cup {NoSprint}] /\ live \subseteq Issues
      /\ apc \in [Admins -> Running \cup {"idle"}] /\ mpc \in [Movers -> {"idle", "default", "write"}]
      /\ ProjectOf \in [Issues -> Projects \cup {Null}]
  BY SprintAssumption DEF CoreOK, HandlersOK, IssuesOK, SprintsOK
<1>1. (\A a \in Admins : apc'[a] = "idle") /\ (\A m \in Movers : mpc'[m] = "idle")
  BY DEF Others, CreateSprint, SetParallel, LeaveSprint, Restatus, DeleteIssues, Restart, NoHandler, Quiet
<1>2. Solo' /\ PlannedFits' /\ \A a \in Admins : Knows(a)'
  BY <1>1 DEF Solo, PlannedFits, Knows
<1>3. Fits'
  <2>1. CASE CreateSprint
    BY <2>1, <1>t, NoSprintIsNone DEF CreateSprint, SoloInv, Fits, Fit, issueRows
  <2>2. CASE SetParallel \/ LeaveSprint \/ Restatus \/ DeleteIssues
    BY <2>2, <1>t DEF SetParallel, LeaveSprint, Restatus, DeleteIssues, SoloInv, Fits, Fit, sprintRows, issueRows
  <2>3. CASE Restart
    <3> SUFFICES ASSUME NEW i \in live, sprintOf[i] # NoSprint
                 PROVE  Fit(home'[sprintOf[i]], ProjectOf[i])
      BY <2>3 DEF Restart, Fits, Fit, issueRows
    <3> DEFINE s == sprintOf[i]
               of == {ProjectOf[k] : k \in Inside(s)}
    <3>1. s \in Sprints /\ ProjectOf[i] \in of /\ Fit(home[s], ProjectOf[i])
      BY <1>t DEF Inside, SoloInv, Fits
    <3>2. CASE \E p \in Projects : of = {p}
      <4>1. (CHOOSE p \in Projects : of = {p}) = ProjectOf[i]
        <5>1. of = {CHOOSE p \in Projects : of = {p}}
          BY <3>2
        <5> HIDE DEF of
        <5> QED BY <3>1, <5>1
      <4>2. home'[s] \in {home[s], ProjectOf[i]}
        BY <2>3, <3>1, <4>1 DEF Restart
      <4> QED BY <3>1, <4>2 DEF Fit
    <3>3. CASE ~\E p \in Projects : of = {p}
      <4>1. home'[s] = home[s]
        BY <2>3, <3>1, <3>3 DEF Restart
      <4> QED BY <3>1, <4>1
    <3> QED BY <3>2, <3>3
  <2> QED BY <2>1, <2>2, <2>3 DEF Others
<1> QED BY <1>2, <1>3 DEF SoloInv

LEMMA SoloInvariant == ASSUME ~Overlap PROVE Spec => []SoloInv
<1>1. Init => SoloInv
  BY SprintAssumption DEF Init, SoloInv, Solo, Fits, PlannedFits, Knows
<1>2. TypeOK /\ SoloInv /\ [Next]_vars => SoloInv'
  <2> SUFFICES ASSUME TypeOK, SoloInv, [Next]_vars PROVE SoloInv'
    OBVIOUS
  <2>c. CoreOK
    BY DEF TypeOK, CoreOK
  <2>1. CASE Next
    BY <2>1, <2>c, StartSolo, AssignSolo, FinishSolo, PlaceSolo, OthersSolo DEF Next, Step
  <2>2. CASE UNCHANGED vars
    BY <2>2 DEF vars, sprintRows, issueRows, SoloInv, Solo, Fits, PlannedFits, Knows, MayStart, Fit, Inside, Open
  <2> QED BY <2>1, <2>2
<1> QED BY <1>1, <1>2, SprintTypes, PTL DEF Spec

\* An issue's sprint is shared or belongs to the issue's project, whatever
\* sequence of assignments, restarts, moves and copies led there, while the
\* handlers run one at a time (JL-165; sprintFitsProject).
THEOREM IssuesFitSprints == ASSUME ~Overlap PROVE Spec => []Fits
<1>1. SoloInv => Fits
  BY DEF SoloInv
<1> QED BY <1>1, SoloInvariant, PTL

-----------------------------------------------------------------------------
(***************************************************************************)
(* What a step does to a sprint, handlers running one at a time.           *)
(***************************************************************************)
LEMMA HomeStays ==
  ASSUME ~Overlap, CoreOK, SoloInv, Step, NEW s \in exists, home[s] # Null
  PROVE  home'[s] = home[s]
<1>t. home \in [Sprints -> Projects \cup {Null}] /\ exists \subseteq Sprints \ unused
  BY DEF CoreOK, SprintsOK
<1>1. ASSUME NEW a \in Admins, AssignProject(a) PROVE home'[s] = home[s]
  <2>1. home[job[a].sprint] \in {Null, job[a].project}
    BY <1>1 DEF AssignProject, SoloInv, Knows
  <2> QED BY <1>1, <1>t, <2>1 DEF AssignProject
<1>2. CASE CreateSprint
  BY <1>2, <1>t DEF CreateSprint
<1>3. CASE Restart
  BY <1>3, <1>t DEF Restart
<1> QED BY <1>1, <1>2, <1>3, HomeSteps

\* Only MarkStarted starts a sprint.
LEMMA StartsChecked ==
  ASSUME ~Overlap, CoreOK, SoloInv, Step, NEW s \in started' \ started
  PROVE  /\ home[s] \in Projects \ parallel => \A t \in started : home[t] # home[s]
         /\ home[s] = Null /\ parallel = {} => started = {}
<1>1. ASSUME NEW m \in Movers, Place(m) PROVE FALSE
  BY <1>1 DEF Place, ReadIssue, NewIssue, ReadDefault, NameSprint, CopyIssue, WriteIssue, sprintRows
<1>2. ASSUME Others PROVE FALSE
  BY <1>2 DEF Others, CreateSprint, SetParallel, LeaveSprint, Restatus, DeleteIssues, Restart, sprintRows
<1>3. ASSUME NEW a \in Admins, Start(a) \/ Assign(a) \/ Finish(a) PROVE MarkStarted(a)
  BY <1>3 DEF Start, ReadTarget, ReadSetting, CountActive, ReadIssues, InsertScope, AnswerStarted,
     Assign, ReadHome, CountForeign, AssignProject, Finish, ReadSprint, SweepOpen, CloseSprint,
     EmptySprint, DeleteSprint, sprintRows
<1>4. PICK a \in Admins : MarkStarted(a)
  BY <1>1, <1>2, <1>3 DEF Step
<1>5. s = job[a].sprint /\ apc[a] = "mark" /\ s \notin started
  BY <1>4 DEF MarkStarted
<1> QED BY <1>5 DEF SoloInv, Knows, MayStart

\* Only CloseSprint and DeleteSprint end one.
LEMMA EndsClean ==
  ASSUME ~Overlap, CoreOK, SoloInv, Step
  PROVE  /\ \A s \in (completed' \ completed) \cup (started \ started') : Open(s) = {}
         /\ \A s \in exists \ exists' : Inside(s) = {}
<1>1. CASE \E m \in Movers : Place(m)
  BY <1>1 DEF Place, ReadIssue, NewIssue, ReadDefault, NameSprint, CopyIssue, WriteIssue, sprintRows
<1>2. CASE Others
  BY <1>2 DEF Others, CreateSprint, SetParallel, LeaveSprint, Restatus, DeleteIssues, Restart, sprintRows
<1>3. ASSUME NEW a \in Admins, CloseSprint(a)
      PROVE  /\ \A s \in (completed' \ completed) \cup (started \ started') : Open(s) = {}
             /\ \A s \in exists \ exists' : Inside(s) = {}
  BY <1>3 DEF CloseSprint, SoloInv, Knows
<1>4. ASSUME NEW a \in Admins, DeleteSprint(a)
      PROVE  /\ \A s \in (completed' \ completed) \cup (started \ started') : Open(s) = {}
             /\ \A s \in exists \ exists' : Inside(s) = {}
  BY <1>4 DEF DeleteSprint, SoloInv, Knows, Open
<1>5. ASSUME NEW a \in Admins, Start(a) \/ Assign(a) \/ Finish(a), ~CloseSprint(a), ~DeleteSprint(a)
      PROVE  completed' = completed /\ started \subseteq started' /\ exists' = exists
  BY <1>5 DEF Start, ReadTarget, ReadSetting, CountActive, MarkStarted, ReadIssues, InsertScope, AnswerStarted,
     Assign, ReadHome, CountForeign, AssignProject, Finish, ReadSprint, SweepOpen, EmptySprint, sprintRows
<1>6. CASE \E a \in Admins : Start(a) \/ Assign(a) \/ Finish(a)
  BY <1>3, <1>4, <1>5, <1>6
<1> QED BY <1>1, <1>2, <1>6 DEF Step

\* A sprint keeps its project, becomes active next to another one only as the
\* settings allow, and leaves no work behind when it ends, for any number of
\* sprints, projects and requests that come one at a time.
THEOREM SprintsInOrder == ASSUME ~Overlap PROVE Spec => SprintRules
<1>c. TypeOK => CoreOK
  BY DEF TypeOK, CoreOK
<1>1. TypeOK /\ SoloInv /\ [Next]_vars => [\A s \in exists : home[s] # Null => home'[s] = home[s]]_vars
  BY <1>c, HomeStays DEF Next
<1>2. TypeOK /\ SoloInv /\ [Next]_vars =>
        [\A s \in started' \ started :
           /\ home[s] \in Projects \ parallel => \A t \in started : home[t] # home[s]
           /\ home[s] = Null /\ parallel = {} => started = {}]_vars
  BY <1>c, StartsChecked DEF Next
<1>3. TypeOK /\ SoloInv /\ [Next]_vars =>
        [/\ \A s \in (completed' \ completed) \cup (started \ started') : Open(s) = {}
         /\ \A s \in exists \ exists' : Inside(s) = {}]_vars
  BY <1>c, EndsClean DEF Next
<1>4. Spec => []SoloInv
  BY SoloInvariant
<1> QED BY <1>1, <1>2, <1>3, <1>4, SprintTypes, PTL
       DEF Spec, SprintRules, HomeSticks, StartsAllowed, LeavesNothing
=============================================================================
