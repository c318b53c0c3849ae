--------------------------- MODULE IssueTransition ---------------------------
(***************************************************************************)
(* The status-change path of an issue: PATCH /api/issues/:id/status and    *)
(* the status half of POST /api/issues/bulk, both of which run             *)
(* transitionIssueStatus() in server/routes/issues.js, with the approval   *)
(* gate of server/services/approvals.js, the workflow check of             *)
(* server/services/workflow.js and the rules of services/automation.js.    *)
(*                                                                         *)
(* Every `await get/all/run` is one autonomous SQL statement, so a handler *)
(* is a program counter with one action per statement that reads or writes *)
(* a table another handler may change.  The workflow configuration is read *)
(* only here and is a constant.  Values of other columns are left out.     *)
(***************************************************************************)
EXTENDS Integers, FiniteSets

CONSTANTS
  Requests,       \* status-change requests; each is served once
  Issues,         \* issue ids that may exist
  NoIssue,        \* parent_id NULL
  Parent,         \* parent_id of each issue
  Born,           \* issues that exist at start-up
  Statuses,       \* validStatuses
  Initial,        \* the status issues have at start-up
  Done,           \* the status 'Done'
  Edges,          \* rows of workflow_transitions, as <<from, to>>
  Terminal,       \* terminal_statuses of the default workflow
  CancelTo,       \* cancel_status when cancel_from_any is set, else no status
  Gates,          \* <<from, to>> pairs an approval rule may guard
  Required,       \* required_approvals of a rule
  Deletable,      \* the issues that may be deleted
  Reviewed,       \* the issues decisions are submitted on
  Approvers,      \* users who submit decisions
  Eligible,       \* those with the rule's role who did not report the issue
  AutoRules,      \* enabled status_changed 'transition' rules, <<when, to>>
  OutOfBand,      \* statuses written without a history row (see Bypass)
  Overlap,        \* TRUE: handlers interleave; FALSE: one at a time
  MaxNow          \* bound on stamped rows before a rule may still be created

ASSUME ConfigAssumption ==
  /\ Parent \in [Issues -> Issues \cup {NoIssue}]
  /\ NoIssue \notin Issues
  /\ \A i \in Issues : Parent[i] # NoIssue => Parent[Parent[i]] = NoIssue
  /\ Born \subseteq Issues
  /\ {Initial, Done} \subseteq Statuses
  /\ Edges \subseteq Statuses \X Statuses
  /\ Terminal \subseteq Statuses
  /\ Gates \subseteq Statuses \X Statuses
  /\ AutoRules \subseteq Statuses \X Statuses
  /\ OutOfBand \subseteq Statuses
  /\ Reviewed \subseteq Issues
  /\ Eligible \subseteq Approvers
  /\ IsFiniteSet(Approvers)
  /\ Required \in Nat \ {0}
  /\ Overlap \in BOOLEAN
  /\ MaxNow \in Nat

VARIABLES
  live,        \* issues: the ids whose row exists
  gone,        \* ids whose row was deleted (SERIAL ids are never reused)
  status,      \* issues.status
  lastChange,  \* issue_history: changed_at of the newest 'status' row, 0 = none
  lastTo,      \* issue_history: new_value of that row (first status if none)
  ruled,       \* approval_rules: the gates with a rule
  ruleAt,      \* approval_rules.created_at
  decision,    \* approvals: each approver's latest row, per issue and gate
  now,         \* database clock: ticks on rows whose time is a floor
  pc,          \* where each request is
  req,         \* what each request has read
  pending,     \* decisions whose role check is done and whose INSERT is not
  stillOpen,   \* history variable: sub-tasks open ever since the request read
  backers,     \* history variable: approvers whose approval stood meanwhile
  vetoes,      \* history variable: rejections standing ever since
  ungated,     \* history variable: the gate had no rule at some instant
  freshYes     \* history variable: <<gate, approver>> approvals since entry

rows == <<live, gone, status, lastChange, lastTo>>
gates == <<ruled, ruleAt, decision>>
ghosts == <<stillOpen, backers, vetoes, ungated>>
vars == <<rows, gates, now, pc, req, pending, ghosts, freshYes>>

NoDecision == [verdict |-> "none", at |-> 0]
Idle == {"idle", "end"}
Steps == {"rule", "since", "decisions", "subtasks", "write", "history",
          "reread", "automate"}

(***************************************************************************)
(* Workflow: isTransitionAllowed and findTransition.                       *)
(***************************************************************************)
IsTransitionAllowed(from, to) ==
  \/ from = to
  \/ /\ from \notin Terminal
     /\ to = CancelTo \/ Edges = {} \/ <<from, to>> \in Edges

OpenSubtasks(p) == {k \in live : Parent[k] = p /\ status[k] # Done}

(***************************************************************************)
(* Approvals: evaluateApproval with collectDecisions.  Only the latest     *)
(* row of an approver counts and rows carry ascending times, so keeping    *)
(* each approver's latest row loses nothing.                               *)
(***************************************************************************)
Verdicts == {"approved", "rejected"}
Later(a, b) == IF a >= b THEN a ELSE b

Standing(i, g, since, verdict) ==
  {a \in Approvers : /\ decision[i][g][a].verdict = verdict
                     /\ decision[i][g][a].at >= since}

\* mutated: every decision counts as an approval
SatisfiedByTurnout(i, g, since) ==
  Cardinality(UNION {Standing(i, g, since, v) : v \in Verdicts}) >= Required

\* mutated: approvals are never expired
SatisfiedForever(i, g, since) ==
  /\ Standing(i, g, since, "rejected") = {}
  /\ Cardinality(Standing(i, g, 0, "approved")) >= Required

Satisfied(i, g, since) ==
  /\ Standing(i, g, since, "rejected") = {}
  /\ Cardinality(Standing(i, g, since, "approved")) >= Required

-----------------------------------------------------------------------------
NoRead == [issue |-> NoIssue, to |-> Initial, from |-> Initial, gated |-> FALSE,
           since |-> 0, auto |-> {}]

Init ==
  /\ live = Born
  /\ gone = {}
  /\ status = [i \in Issues |-> Initial]
  /\ lastChange = [i \in Issues |-> 0]
  /\ lastTo = [i \in Issues |-> Initial]
  /\ ruled = Gates
  /\ ruleAt = [g \in Gates |-> 0]
  /\ decision = [i \in Issues |-> [g \in Gates |-> [a \in Approvers |-> NoDecision]]]
  /\ now = 0
  /\ pc = [r \in Requests |-> "idle"]
  /\ req = [r \in Requests |-> NoRead]
  /\ pending = {}
  /\ stillOpen = [r \in Requests |-> {}]
  /\ backers = [r \in Requests |-> {}]
  /\ vetoes = [r \in Requests |-> {}]
  /\ ungated = [r \in Requests |-> FALSE]
  /\ freshYes = [i \in Issues |-> {}]

\* The environment of a one-handler-at-a-time run.
Quiet == Overlap \/ (pending = {} /\ \A r \in Requests : pc[r] \in Idle)

Gate(r) == <<req[r].from, req[r].to>>
Gated(r) == req[r].from # req[r].to /\ Gate(r) \in ruled
\* Control moves to l with `read` remembered; an answered request forgets it.
Go(r, l, read) ==
  /\ pc' = [pc EXCEPT ![r] = l]
  /\ req' = [req EXCEPT ![r] = IF l = "end" THEN NoRead ELSE read]

\* A write of issues.status: approvals seen before it are no longer fresh.
SetStatus(i, s) ==
  /\ status' = [status EXCEPT ![i] = s]
  /\ freshYes' = IF status[i] = s THEN freshYes ELSE [freshYes EXCEPT ![i] = {}]

(***************************************************************************)
(* transitionIssueStatus, one statement at a time.                         *)
(***************************************************************************)
\* mutated: the workflow is not consulted
ReadIssueUnchecked(r) == \E i \in Issues, to \in Statuses :
  /\ pc[r] = "idle"
  /\ Quiet
  /\ Go(r, IF i \in live THEN "rule" ELSE "end",
        [NoRead EXCEPT !.issue = i, !.to = to, !.from = status[i]])
  /\ UNCHANGED <<rows, gates, now, pending, freshYes>>

\* SELECT the issue; 404, or the workflow's 409 or a validator's 400, ends it.
ReadIssue(r) == \E i \in Issues, to \in Statuses :
  /\ pc[r] = "idle"
  /\ Quiet
  /\ LET Then(l) == Go(r, l, [NoRead EXCEPT !.issue = i, !.to = to, !.from = status[i]])
     IN  \/ i \in live /\ IsTransitionAllowed(status[i], to) /\ Then("rule")
         \/ (i \notin live \/ ~IsTransitionAllowed(status[i], to)) /\ Then("end")
         \/ i \in live /\ <<status[i], to>> \in Edges /\ Then("end")
  /\ UNCHANGED <<rows, gates, now, pending, freshYes>>

\* findApprovalRule: a no-op move is never gated.
FindApprovalRule(r) ==
  /\ pc[r] = "rule"
  /\ IF Gated(r)
     THEN Go(r, "since", [req[r] EXCEPT !.gated = TRUE, !.since = ruleAt[Gate(r)]])
     ELSE Go(r, "subtasks", req[r])
  /\ UNCHANGED <<rows, gates, now, pending, freshYes>>

\* lastStatusChangeAt, and the later of it and the rule's created_at.
LastStatusChangeAt(r) ==
  /\ pc[r] = "since"
  /\ Go(r, "decisions", [req[r] EXCEPT !.since = Later(@, lastChange[req[r].issue])])
  /\ UNCHANGED <<rows, gates, now, pending, freshYes>>

\* SELECT the decisions; an unsatisfied gate answers 409.
ReadDecisions(r) ==
  /\ pc[r] = "decisions"
  /\ Go(r, IF Satisfied(req[r].issue, Gate(r), req[r].since) THEN "subtasks" ELSE "end", req[r])
  /\ UNCHANGED <<rows, gates, now, pending, freshYes>>

\* mutated: sub-tasks nobody has started are not looked at
CheckStartedSubtasks(r) ==
  /\ pc[r] = "subtasks"
  /\ LET started == {k \in OpenSubtasks(req[r].issue) : status[k] # Initial}
     IN  Go(r, IF req[r].to = Done /\ started # {} THEN "end" ELSE "write", req[r])
  /\ UNCHANGED <<rows, gates, now, pending, freshYes>>

\* Closing a parent with open sub-tasks answers 409.
CheckSubtasks(r) ==
  /\ pc[r] = "subtasks"
  /\ Go(r, IF req[r].to = Done /\ OpenSubtasks(req[r].issue) # {} THEN "end" ELSE "write", req[r])
  /\ UNCHANGED <<rows, gates, now, pending, freshYes>>

\* A sprint id the request may carry is refused (400) before anything is written.
RefuseSprint(r) ==
  /\ pc[r] = "write"
  /\ Go(r, "end", NoRead)
  /\ UNCHANGED <<rows, gates, now, pending, freshYes>>

\* UPDATE issues SET status: by id alone, whatever the status is by now.
WriteStatus(r) ==
  /\ pc[r] = "write"
  /\ IF req[r].issue \in live THEN SetStatus(req[r].issue, req[r].to)
                             ELSE UNCHANGED <<status, freshYes>>
  /\ Go(r, "history", req[r])
  /\ UNCHANGED <<live, gone, lastChange, lastTo, gates, now, pending>>

\* mutated: the row keeps the old value as its new value
HistoryOfOldValue(r) ==
  /\ pc[r] = "history"
  /\ LET i == req[r].issue
         writes == req[r].from # req[r].to /\ i \in live
     IN  /\ lastChange' = IF writes THEN [lastChange EXCEPT ![i] = now + 1] ELSE lastChange
         /\ lastTo' = IF writes THEN [lastTo EXCEPT ![i] = req[r].from] ELSE lastTo
         /\ now' = IF writes THEN now + 1 ELSE now
         /\ Go(r, IF req[r].from = req[r].to \/ i \in live THEN "reread" ELSE "end", req[r])
  /\ UNCHANGED <<live, gone, status, gates, pending, freshYes>>

\* mutated: the row is stamped with a time read before the previous one
HistoryStampedEarly(r) ==
  /\ pc[r] = "history"
  /\ LET i == req[r].issue
         writes == req[r].from # req[r].to /\ i \in live
     IN  /\ lastChange' = IF writes THEN [lastChange EXCEPT ![i] = now - 1] ELSE lastChange
         /\ lastTo' = IF writes THEN [lastTo EXCEPT ![i] = req[r].to] ELSE lastTo
         /\ now' = IF writes THEN now + 1 ELSE now
         /\ Go(r, IF req[r].from = req[r].to \/ i \in live THEN "reread" ELSE "end", req[r])
  /\ UNCHANGED <<live, gone, status, gates, pending, freshYes>>

\* recordHistory: a changed value gets a row; a deleted issue's row violates
\* the foreign key and the request fails with the status already written.
RecordHistory(r) ==
  /\ pc[r] = "history"
  /\ LET i == req[r].issue
         writes == req[r].from # req[r].to /\ i \in live
     IN  /\ lastChange' = IF writes THEN [lastChange EXCEPT ![i] = now + 1] ELSE lastChange
         /\ lastTo' = IF writes THEN [lastTo EXCEPT ![i] = req[r].to] ELSE lastTo
         /\ now' = IF writes THEN now + 1 ELSE now
         /\ Go(r, IF req[r].from = req[r].to \/ i \in live THEN "reread" ELSE "end", req[r])
  /\ UNCHANGED <<live, gone, status, gates, pending, freshYes>>

\* Re-read the row and insert the activity row (both fail if it is gone); the
\* automations are matched against the status read here.
RereadIssue(r) ==
  /\ pc[r] = "reread"
  /\ LET i == req[r].issue
     IN  Go(r, IF i \in live THEN "automate" ELSE "end",
            [req[r] EXCEPT !.auto = {a \in AutoRules : a[1] = status[i]}])
  /\ UNCHANGED <<rows, gates, now, pending, freshYes>>

\* mutated: the rules are matched against the new status after every action
RunAutomationLooping(r) == \E a \in AutoRules :
  /\ pc[r] = "automate"
  /\ a[1] = status[req[r].issue]
  /\ IF req[r].issue \in live THEN SetStatus(req[r].issue, a[2])
                             ELSE UNCHANGED <<status, freshYes>>
  /\ Go(r, "automate", [req[r] EXCEPT !.auto = AutoRules])
  /\ UNCHANGED <<live, gone, lastChange, lastTo, gates, now, pending>>

\* One matching rule's action: a bare UPDATE, no check and no history row.
RunAutomation(r) == \E a \in req[r].auto :
  /\ pc[r] = "automate"
  /\ IF req[r].issue \in live THEN SetStatus(req[r].issue, a[2])
                             ELSE UNCHANGED <<status, freshYes>>
  /\ Go(r, "automate", [req[r] EXCEPT !.auto = @ \ {a}])
  /\ UNCHANGED <<live, gone, lastChange, lastTo, gates, now, pending>>

\* The final re-read, the webhook and the realtime message change no row here.
Respond(r) ==
  /\ pc[r] = "automate"
  /\ req[r].auto = {}
  /\ Go(r, "end", NoRead)
  /\ UNCHANGED <<rows, gates, now, pending, freshYes>>

(***************************************************************************)
(* The other handlers that touch the same rows.                            *)
(***************************************************************************)

\* POST /approvals/issue/:id up to its INSERT: the role and the reporter are
\* checked only when the transition has a rule at this moment.
SubmitDecision(a) == \E i \in live \cap Reviewed, g \in Gates, v \in Verdicts :
  /\ Quiet
  /\ \A d \in pending : d.by # a
  /\ g \in ruled => a \in Eligible
  /\ pending' = pending \cup {[by |-> a, issue |-> i, gate |-> g, verdict |-> v]}
  /\ UNCHANGED <<rows, gates, now, pc, req, freshYes>>

\* Its INSERT; a deleted issue's row violates the foreign key.
InsertDecision(a) == \E d \in pending :
  /\ d.by = a
  /\ pending' = pending \ {d}
  /\ IF d.issue \in live
     THEN /\ decision' = [decision EXCEPT ![d.issue][d.gate][a] =
                            [verdict |-> d.verdict, at |-> now]]
          /\ freshYes' = IF d.verdict = "approved"
                         THEN [freshYes EXCEPT ![d.issue] = @ \cup {<<d.gate, a>>}]
                         ELSE freshYes
     ELSE UNCHANGED <<decision, freshYes>>
  /\ UNCHANGED <<rows, ruled, ruleAt, now, pc, req>>

\* POST /approvals/rules; the bound MaxNow caps the clock.
CreateRule(g) ==
  /\ Quiet
  /\ g \notin ruled
  /\ now < MaxNow
  /\ ruled' = ruled \cup {g}
  /\ ruleAt' = [ruleAt EXCEPT ![g] = now + 1]
  /\ now' = now + 1
  /\ UNCHANGED <<rows, decision, pc, req, pending, freshYes>>

\* DELETE /approvals/rules/:id.
DeleteRule(g) ==
  /\ Quiet
  /\ g \in ruled
  /\ ruled' = ruled \ {g}
  /\ UNCHANGED <<rows, ruleAt, decision, now, pc, req, pending, freshYes>>

\* POST /issues/:parentId/subtasks: the INSERT, with the status the caller
\* names, whatever the parent's status is.
CreateSubtask(i, s) ==
  /\ Quiet
  /\ i \notin live \cup gone
  /\ Parent[i] \in live
  /\ live' = live \cup {i}
  /\ status' = [status EXCEPT ![i] = s]
  /\ lastTo' = [lastTo EXCEPT ![i] = s]
  /\ UNCHANGED <<gone, lastChange, gates, now, pc, req, pending, freshYes>>

\* DELETE /issues/:id; sub-tasks go with it (parent_id ON DELETE CASCADE).
DeleteIssue(i) ==
  /\ Quiet
  /\ i \in live \cap Deletable
  /\ LET dead == {i} \cup {k \in live : Parent[k] = i}
     IN  live' = live \ dead /\ gone' = gone \cup dead
  /\ UNCHANGED <<status, lastChange, lastTo, gates, now, pc, req, pending, freshYes>>

\* A smart commit, a comment-triggered or scheduled rule, or a sprint completed or
\* deleted: issues.status is set with neither a check nor a history row.
Bypass(i, s) ==
  /\ Quiet
  /\ i \in live
  /\ s \in OutOfBand
  /\ SetStatus(i, s)
  /\ UNCHANGED <<live, gone, lastChange, lastTo, gates, now, pc, req, pending>>

\* The process dies: the requests it was serving and the decisions it had not
\* yet inserted are lost, the rows stay.
Crash ==
  /\ Overlap
  /\ \E r \in Requests : pc[r] \notin Idle
  /\ pc' = [r \in Requests |-> IF pc[r] = "idle" THEN "idle" ELSE "end"]
  /\ req' = [r \in Requests |-> NoRead]
  /\ pending' = {}
  /\ UNCHANGED <<rows, gates, now, freshYes>>

-----------------------------------------------------------------------------
(***************************************************************************)
(* History variables.  While a request runs they remember, over all the    *)
(* instants since it read the issue, what its checks could have seen.      *)
(***************************************************************************)
Floor(i, g) == Later(lastChange[i], IF g \in ruled THEN ruleAt[g] ELSE 0)
Kids(r) == OpenSubtasks(req[r].issue)
Yes(r) == IF Gated(r) THEN Standing(req[r].issue, Gate(r), Floor(req[r].issue, Gate(r)), "approved") ELSE {}
No(r) == IF Gated(r) THEN Standing(req[r].issue, Gate(r), Floor(req[r].issue, Gate(r)), "rejected") ELSE {}

\* Running(r) holds after the request's first read and until it has written.
Running(r) == pc[r] \in {"rule", "since", "decisions", "subtasks", "write"}

Observe ==
  /\ stillOpen' = [r \in Requests |->
       IF ~Running(r)' THEN {}
       ELSE IF pc[r] = "idle" THEN Kids(r)' ELSE stillOpen[r] \cap Kids(r)']
  /\ backers' = [r \in Requests |->
       IF ~Running(r)' THEN {}
       ELSE IF pc[r] = "idle" THEN Yes(r)' ELSE backers[r] \cup Yes(r)']
  /\ vetoes' = [r \in Requests |->
       IF ~Running(r)' THEN {}
       ELSE IF pc[r] = "idle" THEN No(r)' ELSE vetoes[r] \cap No(r)']
  /\ ungated' = [r \in Requests |->
       Running(r)' /\ (~Gated(r)' \/ (pc[r] # "idle" /\ ungated[r]))]

Serve(r) ==
  \/ ReadIssue(r) \/ FindApprovalRule(r) \/ LastStatusChangeAt(r)
  \/ ReadDecisions(r) \/ CheckSubtasks(r) \/ RefuseSprint(r) \/ WriteStatus(r)
  \/ RecordHistory(r) \/ RereadIssue(r) \/ RunAutomation(r) \/ Respond(r)

Others ==
  \/ \E a \in Approvers : SubmitDecision(a) \/ InsertDecision(a)
  \/ \E g \in Gates : CreateRule(g) \/ DeleteRule(g)
  \/ \E i \in Issues : DeleteIssue(i)
  \/ \E i \in Issues, s \in Statuses : CreateSubtask(i, s) \/ Bypass(i, s)
  \/ Crash

Next == ((\E r \in Requests : Serve(r)) \/ Others) /\ Observe

Spec == Init /\ [][Next]_vars
-----------------------------------------------------------------------------
Reads ==
  [issue : Issues \cup {NoIssue}, to : Statuses, from : Statuses, gated : BOOLEAN,
   since : Nat, auto : SUBSET AutoRules]

RowsOK ==
  /\ live \subseteq Issues
  /\ gone \subseteq Issues
  /\ status \in [Issues -> Statuses]
  /\ lastChange \in [Issues -> Nat]
  /\ lastTo \in [Issues -> Statuses]

GatesOK ==
  /\ ruled \subseteq Gates
  /\ ruleAt \in [Gates -> Nat]
  /\ decision \in [Issues -> [Gates -> [Approvers ->
                     [verdict : Verdicts \cup {"none"}, at : Nat]]]]
  /\ now \in Nat

HandlersOK ==
  /\ pc \in [Requests -> Idle \cup Steps]
  /\ req \in [Requests -> Reads]
  /\ \A r \in Requests : pc[r] \in Steps => req[r].issue \in Issues
  /\ pending \subseteq [by : Approvers, issue : Issues, gate : Gates, verdict : Verdicts]

GhostsOK ==
  /\ stillOpen \in [Requests -> SUBSET Issues]
  /\ backers \in [Requests -> SUBSET Approvers]
  /\ vetoes \in [Requests -> SUBSET Approvers]
  /\ ungated \in [Requests -> BOOLEAN]
  /\ freshYes \in [Issues -> SUBSET (Gates \X Approvers)]

\* Every variable keeps its type, and a request being served names an issue;
\* columns are kept for all ids, `live` says which rows exist.
TypeOK == RowsOK /\ GatesOK /\ HandlersOK /\ GhostsOK

\* The step in which request r updates the issue's status.
Writes(r) == pc[r] = "write" /\ pc'[r] = "history"

(***************************************************************************)
(* The inductive invariant behind the three properties that hold under     *)
(* every interleaving.                                                     *)
(***************************************************************************)
Stamps ==
  /\ \A i \in Issues : lastChange[i] <= now
  /\ \A g \in Gates : ruleAt[g] <= now

\* While a request runs, its history variables cover the present instant.
Covered(r) == Running(r) =>
  /\ Yes(r) \subseteq backers[r]
  /\ vetoes[r] \subseteq No(r)
  /\ ~Gated(r) => ungated[r]

\* What it has read is still a floor of the gate, as long as the rule stands.
Floors(r) ==
  /\ pc[r] \in {"since", "decisions"} /\ ~ungated[r] => Gated(r)
  /\ pc[r] = "since" /\ ~ungated[r] => req[r].since = ruleAt[Gate(r)]
  /\ pc[r] = "decisions" /\ ~ungated[r] =>
       /\ req[r].since <= Floor(req[r].issue, Gate(r))
       /\ Standing(req[r].issue, Gate(r), req[r].since, "approved") \subseteq backers[r]

Passed(r) ==
  /\ pc[r] \in {"subtasks", "write"} /\ ~ungated[r] =>
       Cardinality(backers[r]) >= Required /\ vetoes[r] = {}
  /\ pc[r] = "write" /\ req[r].to = Done => stillOpen[r] = {}

GateInv == Stamps /\ \A r \in Requests : Covered(r) /\ Floors(r) /\ Passed(r)

\* Whatever runs in between, a request never closes a parent with a sub-task
\* that was open at every instant since the request read the parent: the
\* sub-task check of checkStatusTransition cannot overlook it.
OpenSubtaskBlocks ==
  [][\A r \in Requests : Writes(r) /\ req[r].to = Done => stillOpen[r] = {}]_vars

\* A move whose rule was in force all along is backed by required_approvals
\* distinct people, each with a standing approval at some instant since the
\* request read the issue, although rule, last change and decisions are read
\* by three statements.
QuorumBacks ==
  [][\A r \in Requests :
       Writes(r) /\ ~ungated[r] => Cardinality(backers[r]) >= Required]_vars

\* A rejection that stood all along while the rule was in force blocks the
\* move, however many approvals there are.
RejectionBlocks ==
  [][\A r \in Requests :
       Writes(r) /\ ~ungated[r] => vetoes[r] = {}]_vars

\* A move that found a rule has required_approvals people who approved it after
\* the issue last entered the status it leaves (the claim of JL-360).
FreshQuorum ==
  [][\A r \in Requests : Writes(r) /\ req[r].gated =>
       Cardinality({a \in Approvers : <<Gate(r), a>> \in freshYes[req[r].issue]}) >= Required]_vars

\* Only people with the rule's approver role make up the quorum.
EligibleQuorum ==
  [][\A r \in Requests : Writes(r) /\ req[r].gated =>
       Cardinality(backers[r] \cap Eligible) >= Required]_vars

\* Every change of an existing issue's status, whoever makes it, is one the workflow allows from
\* the status the issue really has.
WorkflowRespected ==
  [][\A i \in live :
       status'[i] # status[i] => IsTransitionAllowed(status[i], status'[i])]_vars

\* An issue enters Done only when none of its sub-tasks is open.
ClosesClean ==
  [][\A i \in live :
       status'[i] = Done /\ status[i] # Done => OpenSubtasks(i) = {}]_vars

\* One at a time, no status change escapes the workflow, the approvals that are
\* due or the sub-tasks that are open, whatever came before it.
MovesSound == WorkflowRespected /\ FreshQuorum /\ EligibleQuorum /\ ClosesClean

\* Between requests the newest history row of an issue names its status.
HistoryTellsStatus ==
  \A i \in live :
    (\A r \in Requests : ~(pc[r] = "history" /\ req[r].issue = i)) => lastTo[i] = status[i]

\* Under fairness of the event loop and the database every request that
\* started is answered (or lost in a crash).
FairSpec == Spec /\ \A r \in Requests : WF_vars(Serve(r) /\ pc[r] # "idle" /\ Observe)
RequestsEnd == \A r \in Requests : pc[r] # "idle" ~> pc[r] = "end"
=============================================================================
