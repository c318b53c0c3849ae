----------------------- MODULE IssueTransition_proofs -----------------------
(***************************************************************************)
(* What holds of the status-change path for every set of issues, requests, *)
(* rules and approvers: types, the sub-task check and the approval gate    *)
(* under every interleaving, and, one handler at a time, that the history  *)
(* names the status and that no move escapes workflow, gate or sub-tasks.  *)
(***************************************************************************)
EXTENDS IssueTransition, FiniteSetTheorems, TLAPS

\* The history variables are typed after every step that keeps the rows typed.
LEMMA ObserveTyped ==
  ASSUME TypeOK, Observe, RowsOK'
  PROVE  /\ stillOpen' \in [Requests -> SUBSET Issues]
         /\ backers' \in [Requests -> SUBSET Approvers]
         /\ vetoes' \in [Requests -> SUBSET Approvers]
         /\ ungated' \in [Requests -> BOOLEAN]
<1>1. \A r \in Requests : Kids(r)' \subseteq Issues
  BY DEF Kids, OpenSubtasks, RowsOK
<1>2. \A r \in Requests : Yes(r)' \subseteq Approvers /\ No(r)' \subseteq Approvers
  BY DEF Yes, No, Standing
<1>3. stillOpen' \in [Requests -> SUBSET Issues]
  BY <1>1 DEF Observe, TypeOK, GhostsOK
<1>4. backers' \in [Requests -> SUBSET Approvers] /\ vetoes' \in [Requests -> SUBSET Approvers]
  BY <1>2 DEF Observe, TypeOK, GhostsOK
<1>5. ungated' \in [Requests -> BOOLEAN]
  BY DEF Observe, Running
<1> QED BY <1>3, <1>4, <1>5

\* The parts of TypeOK the history variables do not touch.
BaseOK == RowsOK /\ GatesOK /\ HandlersOK /\ freshYes \in [Issues -> SUBSET (Gates \X Approvers)]

\* Control moves as Go says, and stays typed.
LEMMA GoTyped ==
  ASSUME TypeOK, NEW r \in Requests, NEW l \in Idle \cup Steps, NEW read \in Reads,
         Go(r, l, read), l \in Steps => read.issue \in Issues
  PROVE  /\ pc' \in [Requests -> Idle \cup Steps]
         /\ req' \in [Requests -> Reads]
         /\ \A q \in Requests : pc'[q] \in Steps => req'[q].issue \in Issues
<1>1. NoRead \in Reads
  BY ConfigAssumption DEF NoRead, Reads
<1>2. pc' = [pc EXCEPT ![r] = l] /\ req' = [req EXCEPT ![r] = IF l = "end" THEN NoRead ELSE read]
  BY DEF Go
<1>3. pc' \in [Requests -> Idle \cup Steps] /\ req' \in [Requests -> Reads]
  BY <1>1, <1>2 DEF TypeOK, HandlersOK
<1>4. ASSUME NEW q \in Requests, pc'[q] \in Steps PROVE req'[q].issue \in Issues
  <2>1. CASE q = r
    BY <2>1, <1>2, <1>4 DEF TypeOK, HandlersOK, Steps, Idle
  <2>2. CASE q # r
    BY <2>2, <1>2, <1>4 DEF TypeOK, HandlersOK
  <2> QED BY <2>1, <2>2
<1> QED BY <1>3, <1>4

\* A write of a status keeps the columns typed.
LEMMA SetStatusTyped ==
  ASSUME TypeOK, NEW i \in Issues, NEW s \in Statuses, SetStatus(i, s)
  PROVE  /\ status' \in [Issues -> Statuses]
         /\ freshYes' \in [Issues -> SUBSET (Gates \X Approvers)]
BY DEF SetStatus, TypeOK, RowsOK, GhostsOK

\* Each statement of a status-change request keeps the tables typed.
LEMMA ServeTyped ==
  ASSUME TypeOK, NEW r \in Requests, Serve(r)
  PROVE  BaseOK'
<1> USE DEF rows, gates
<1>t. RowsOK /\ GatesOK /\ HandlersOK /\ GhostsOK
  BY DEF TypeOK
<1>n. NoRead \in Reads /\ req[r] \in Reads
  BY <1>t, ConfigAssumption DEF NoRead, Reads, HandlersOK
<1>l. {"end", "rule", "since", "decisions", "subtasks", "write", "history", "reread",
        "automate"} \subseteq Idle \cup Steps
  BY DEF Idle, Steps
<1>s. pc[r] \in Steps => req[r].issue \in Issues
  BY <1>t DEF HandlersOK
<1>1. CASE ReadIssue(r)
  <2>1. PICK i \in Issues, to \in Statuses, l \in {"rule", "end"} :
          Go(r, l, [NoRead EXCEPT !.issue = i, !.to = to, !.from = status[i]])
    BY <1>1 DEF ReadIssue
  <2>2. [NoRead EXCEPT !.issue = i, !.to = to, !.from = status[i]] \in Reads
    BY <1>n, <1>t DEF NoRead, Reads, RowsOK
  <2>3. [NoRead EXCEPT !.issue = i, !.to = to, !.from = status[i]].issue = i
    BY DEF NoRead
  <2>4. UNCHANGED <<rows, gates, now, pending, freshYes>>
    BY <1>1 DEF ReadIssue
  <2> QED BY <2>1, <2>2, <2>3, <2>4, <1>t, <1>l, GoTyped
          DEF BaseOK, RowsOK, GatesOK, HandlersOK, GhostsOK
<1>2. CASE FindApprovalRule(r)
  <2>1. [req[r] EXCEPT !.gated = TRUE, !.since = ruleAt[Gate(r)]] \in Reads \/ ~Gated(r)
    BY <1>n, <1>t DEF Reads, Gated, GatesOK
  <2>2. [req[r] EXCEPT !.gated = TRUE, !.since = ruleAt[Gate(r)]].issue = req[r].issue
    BY <1>n DEF Reads
  <2>3. pc[r] \in Steps
    BY <1>2 DEF FindApprovalRule, Steps
  <2>4. UNCHANGED <<rows, gates, now, pending, freshYes>>
    BY <1>2 DEF FindApprovalRule
  <2>5. CASE Gated(r)
    BY <2>5, <2>1, <2>2, <2>3, <2>4, <1>2, <1>t, <1>l, <1>s, GoTyped
    DEF FindApprovalRule, BaseOK, RowsOK, GatesOK, HandlersOK, GhostsOK
  <2>6. CASE ~Gated(r)
    BY <2>6, <2>3, <2>4, <1>2, <1>n, <1>t, <1>l, <1>s, GoTyped
    DEF FindApprovalRule, BaseOK, RowsOK, GatesOK, HandlersOK, GhostsOK
  <2> QED BY <2>5, <2>6
<1>3. CASE LastStatusChangeAt(r)
  <2>1. pc[r] \in Steps
    BY <1>3 DEF LastStatusChangeAt, Steps
  <2>2. lastChange[req[r].issue] \in Nat
    BY <2>1, <1>s, <1>t DEF RowsOK
  <2>3. [req[r] EXCEPT !.since = Later(@, lastChange[req[r].issue])] \in Reads
    BY <2>2, <1>n DEF Reads, Later
  <2>4. [req[r] EXCEPT !.since = Later(@, lastChange[req[r].issue])].issue = req[r].issue
    BY <1>n DEF Reads
  <2> QED BY <2>1, <2>3, <2>4, <1>3, <1>t, <1>l, <1>s, GoTyped
          DEF LastStatusChangeAt, BaseOK, RowsOK, GatesOK, HandlersOK, GhostsOK
<1>4. CASE ReadDecisions(r)
  <2>1. PICK l \in {"subtasks", "end"} : Go(r, l, req[r])
    BY <1>4 DEF ReadDecisions
  <2>2. pc[r] \in Steps
    BY <1>4 DEF ReadDecisions, Steps
  <2> QED BY <2>1, <2>2, <1>4, <1>t, <1>n, <1>l, <1>s, GoTyped
          DEF ReadDecisions, BaseOK, RowsOK, GatesOK, HandlersOK, GhostsOK
<1>5. CASE CheckSubtasks(r)
  <2>1. PICK l \in {"write", "end"} : Go(r, l, req[r])
    BY <1>5 DEF CheckSubtasks
  <2>2. pc[r] \in Steps
    BY <1>5 DEF CheckSubtasks, Steps
  <2> QED BY <2>1, <2>2, <1>5, <1>t, <1>n, <1>l, <1>s, GoTyped
          DEF CheckSubtasks, BaseOK, RowsOK, GatesOK, HandlersOK, GhostsOK
<1>6. CASE RefuseSprint(r) \/ Respond(r)
  <2>1. "end" \notin Steps
    BY DEF Steps
  <2> QED BY <2>1, <1>6, <1>t, <1>n, <1>l, GoTyped
          DEF RefuseSprint, Respond, BaseOK, RowsOK, GatesOK, HandlersOK, GhostsOK
<1>7. CASE WriteStatus(r)
  <2>1. pc[r] \in Steps
    BY <1>7 DEF WriteStatus, Steps
  <2>2. req[r].to \in Statuses
    BY <1>n DEF Reads
  <2>3. status' \in [Issues -> Statuses] /\ freshYes' \in [Issues -> SUBSET (Gates \X Approvers)]
    BY <2>1, <2>2, <1>7, <1>t, <1>s, SetStatusTyped DEF WriteStatus, RowsOK, GhostsOK
  <2> QED BY <2>1, <2>3, <1>7, <1>t, <1>n, <1>l, <1>s, GoTyped
          DEF WriteStatus, BaseOK, RowsOK, GatesOK, HandlersOK
<1>8. CASE RecordHistory(r)
  <2>1. PICK l \in {"reread", "end"} : Go(r, l, req[r])
    BY <1>8 DEF RecordHistory
  <2>2. pc[r] \in Steps
    BY <1>8 DEF RecordHistory, Steps
  <2>3. lastChange' \in [Issues -> Nat] /\ lastTo' \in [Issues -> Statuses] /\ now' \in Nat
    BY <1>8, <1>n, <1>t DEF RecordHistory, RowsOK, GatesOK, Reads
  <2> QED BY <2>1, <2>2, <2>3, <1>8, <1>t, <1>n, <1>l, <1>s, GoTyped
          DEF RecordHistory, BaseOK, RowsOK, GatesOK, HandlersOK, GhostsOK
<1>9. CASE RereadIssue(r)
  <2> DEFINE read == [req[r] EXCEPT !.auto = {a \in AutoRules : a[1] = status[req[r].issue]}]
  <2>1. PICK l \in {"automate", "end"} : Go(r, l, read)
    BY <1>9 DEF RereadIssue
  <2>2. pc[r] \in Steps
    BY <1>9 DEF RereadIssue, Steps
  <2>3. read \in Reads /\ read.issue = req[r].issue
    BY <1>n DEF Reads
  <2> HIDE DEF read
  <2> QED BY <2>1, <2>2, <2>3, <1>9, <1>t, <1>l, <1>s, GoTyped
          DEF RereadIssue, BaseOK, RowsOK, GatesOK, HandlersOK, GhostsOK
<1>10. CASE RunAutomation(r)
  <2>1. PICK a \in req[r].auto :
          /\ pc[r] = "automate"
          /\ IF req[r].issue \in live THEN SetStatus(req[r].issue, a[2])
                                      ELSE UNCHANGED <<status, freshYes>>
          /\ Go(r, "automate", [req[r] EXCEPT !.auto = @ \ {a}])
          /\ UNCHANGED <<live, gone, lastChange, lastTo, gates, now, pending>>
    BY <1>10 DEF RunAutomation
  <2>2. a \in AutoRules /\ a[2] \in Statuses
    BY <1>n, ConfigAssumption DEF Reads
  <2>3. [req[r] EXCEPT !.auto = @ \ {a}] \in Reads /\ [req[r] EXCEPT !.auto = @ \ {a}].issue = req[r].issue
    BY <1>n DEF Reads
  <2>4. pc[r] \in Steps
    BY <2>1 DEF Steps
  <2>5. status' \in [Issues -> Statuses] /\ freshYes' \in [Issues -> SUBSET (Gates \X Approvers)]
    BY <2>1, <2>2, <2>4, <1>t, <1>s, SetStatusTyped DEF RowsOK, GhostsOK
  <2> QED BY <2>1, <2>3, <2>4, <2>5, <1>t, <1>l, <1>s, GoTyped
          DEF BaseOK, RowsOK, GatesOK, HandlersOK
<1> QED BY <1>1, <1>2, <1>3, <1>4, <1>5, <1>6, <1>7, <1>8, <1>9, <1>10 DEF Serve

\* So does every other handler, and a crash.
LEMMA OthersTyped ==
  ASSUME TypeOK, Others
  PROVE  BaseOK'
<1> USE DEF rows, gates, BaseOK
<1>t. RowsOK /\ GatesOK /\ HandlersOK /\ GhostsOK
  BY DEF TypeOK
<1>1. ASSUME NEW a \in Approvers, SubmitDecision(a) PROVE BaseOK'
  BY <1>1, <1>t DEF SubmitDecision, RowsOK, GatesOK, HandlersOK, GhostsOK
<1>2. ASSUME NEW a \in Approvers, InsertDecision(a) PROVE BaseOK'
  <2>1. PICK d \in pending :
          /\ d.by = a
          /\ pending' = pending \ {d}
          /\ IF d.issue \in live
             THEN /\ decision' = [decision EXCEPT ![d.issue][d.gate][a] =
                                    [verdict |-> d.verdict, at |-> now]]
                  /\ freshYes' = IF d.verdict = "approved"
                                 THEN [freshYes EXCEPT ![d.issue] = @ \cup {<<d.gate, a>>}]
                                 ELSE freshYes
             ELSE UNCHANGED <<decision, freshYes>>
          /\ UNCHANGED <<rows, ruled, ruleAt, now, pc, req>>
    BY <1>2 DEF InsertDecision
  <2>2. d.issue \in Issues /\ d.gate \in Gates /\ d.verdict \in Verdicts
    BY <1>t DEF HandlersOK
  <2> DEFINE Row == [verdict : Verdicts \cup {"none"}, at : Nat]
             new == [verdict |-> d.verdict, at |-> now]
             perGate == [decision[d.issue] EXCEPT ![d.gate] = [@ EXCEPT ![a] = new]]
  <2>3. decision' \in [Issues -> [Gates -> [Approvers -> Row]]]
    <3>1. new \in Row
      BY <2>2, <1>t DEF GatesOK
    <3> HIDE DEF Row, new
    <3>2. decision \in [Issues -> [Gates -> [Approvers -> Row]]]
      BY <1>t DEF GatesOK, Row
    <3>3. [decision[d.issue][d.gate] EXCEPT ![a] = new] \in [Approvers -> Row]
      BY <2>2, <3>1, <3>2
    <3>4. perGate \in [Gates -> [Approvers -> Row]]
      BY <2>2, <3>2, <3>3
    <3>5. decision' = decision \/ decision' = [decision EXCEPT ![d.issue] = perGate]
      BY <2>1 DEF new
    <3> QED BY <2>2, <3>2, <3>4, <3>5
  <2>4. freshYes' \in [Issues -> SUBSET (Gates \X Approvers)]
    <3>1. freshYes[d.issue] \cup {<<d.gate, a>>} \in SUBSET (Gates \X Approvers)
      BY <2>2, <1>t DEF GhostsOK
    <3> QED BY <2>1, <2>2, <3>1, <1>t DEF GhostsOK
  <2>5. UNCHANGED <<rows, ruled, ruleAt, now, pc, req>> /\ pending' \subseteq pending
    BY <2>1
  <2>6. RowsOK' /\ HandlersOK'
    BY <2>5, <1>t DEF RowsOK, HandlersOK
  <2>7. GatesOK'
    BY <2>3, <2>5, <1>t DEF GatesOK
  <2> QED BY <2>4, <2>6, <2>7 DEF BaseOK
<1>3. ASSUME NEW g \in Gates, CreateRule(g) \/ DeleteRule(g) PROVE BaseOK'
  <2>1. UNCHANGED <<rows, decision, pc, req, pending, freshYes>>
    BY <1>3 DEF CreateRule, DeleteRule
  <2>2. ruled' \subseteq Gates /\ ruleAt' \in [Gates -> Nat] /\ now' \in Nat
    BY <1>3, <1>t DEF CreateRule, DeleteRule, GatesOK
  <2> QED BY <2>1, <2>2, <1>t DEF RowsOK, GatesOK, HandlersOK, GhostsOK
<1>4. ASSUME NEW i \in Issues, DeleteIssue(i) PROVE BaseOK'
  BY <1>4, <1>t DEF DeleteIssue, RowsOK, GatesOK, HandlersOK, GhostsOK
<1>7. ASSUME NEW i \in Issues, NEW s \in Statuses, CreateSubtask(i, s) PROVE BaseOK'
  BY <1>7, <1>t DEF CreateSubtask, RowsOK, GatesOK, HandlersOK, GhostsOK
<1>5. ASSUME NEW i \in Issues, NEW s \in Statuses, Bypass(i, s) PROVE BaseOK'
  <2>1. status' \in [Issues -> Statuses] /\ freshYes' \in [Issues -> SUBSET (Gates \X Approvers)]
    BY <1>5, SetStatusTyped DEF Bypass
  <2> QED BY <2>1, <1>5, <1>t DEF Bypass, RowsOK, GatesOK, HandlersOK
<1>6. ASSUME Crash PROVE BaseOK'
  <2>1. NoRead \in Reads
    BY ConfigAssumption DEF NoRead, Reads
  <2>2. \A r \in Requests : pc'[r] \in Idle /\ pc'[r] \notin Steps
    BY <1>6 DEF Crash, Idle, Steps
  <2> QED BY <2>1, <2>2, <1>6, <1>t DEF Crash, RowsOK, GatesOK, HandlersOK, GhostsOK
<1> QED BY <1>1, <1>2, <1>3, <1>4, <1>5, <1>6, <1>7 DEF Others

\* TypeOK holds in every state: the tables and the handlers' snapshots stay
\* what the schema and the code declare, whatever interleaves.
THEOREM TypeCorrect == Spec => []TypeOK
<1>1. Init => TypeOK
  BY ConfigAssumption DEF Init, TypeOK, RowsOK, GatesOK, HandlersOK, GhostsOK, NoDecision,
     NoRead, Reads, Idle, Steps
<1>2. TypeOK /\ [Next]_vars => TypeOK'
  <2> SUFFICES ASSUME TypeOK, [Next]_vars PROVE TypeOK'
    OBVIOUS
  <2>1. CASE Next
    <3>1. BaseOK'
      BY <2>1, ServeTyped, OthersTyped DEF Next
    <3>2. GhostsOK'
      BY <3>1, <2>1, ObserveTyped DEF Next, BaseOK, GhostsOK
    <3> QED BY <3>1, <3>2 DEF BaseOK, TypeOK
  <2>2. CASE UNCHANGED vars
    BY <2>2 DEF vars, rows, gates, ghosts, TypeOK, RowsOK, GatesOK, HandlersOK, GhostsOK,
       Reads
  <2> QED BY <2>1, <2>2
<1> QED BY <1>1, <1>2, PTL DEF Spec

-----------------------------------------------------------------------------
(***************************************************************************)
(* The gates.  A step moves one request at a time, stamps only grow, and a *)
(* new decision is stamped no earlier than any floor.                      *)
(***************************************************************************)
\* A step serves a request, leaves it where it was, or leaves it idle.
LEMMA Frame ==
  ASSUME TypeOK, NEW q \in Requests, (\E r \in Requests : Serve(r)) \/ Others
  PROVE  \/ Serve(q)
         \/ pc'[q] = pc[q] /\ req'[q] = req[q]
         \/ pc'[q] \in Idle
<1>t. pc \in [Requests -> Idle \cup Steps] /\ req \in [Requests -> Reads]
  BY DEF TypeOK, HandlersOK
<1>1. ASSUME NEW r \in Requests, r # q, Serve(r) PROVE pc'[q] = pc[q] /\ req'[q] = req[q]
  <2>1. \E l, read : Go(r, l, read)
    BY <1>1 DEF Serve, ReadIssue, FindApprovalRule, LastStatusChangeAt, ReadDecisions,
       CheckSubtasks, RefuseSprint, WriteStatus, RecordHistory, RereadIssue, RunAutomation, Respond
  <2> QED BY <2>1, <1>1, <1>t DEF Go
<1>2. ASSUME Crash PROVE pc'[q] \in Idle
  BY <1>2, <1>t DEF Crash, Idle
<1>3. ASSUME Others PROVE (pc'[q] = pc[q] /\ req'[q] = req[q]) \/ pc'[q] \in Idle
  BY <1>2, <1>3 DEF Others, SubmitDecision, InsertDecision, CreateRule, DeleteRule,
     CreateSubtask, DeleteIssue, Bypass
<1> QED BY <1>1, <1>3

\* Floors only rise, a rule that stays keeps its stamp, a new decision is
\* stamped with the present.
LEMMA Rising ==
  ASSUME TypeOK, Stamps, (\E r \in Requests : Serve(r)) \/ Others
  PROVE  /\ now <= now'
         /\ \A i \in Issues : lastChange[i] <= lastChange'[i] /\ lastChange'[i] <= now'
         /\ \A g \in Gates : ruleAt'[g] <= now'
         /\ \A g \in ruled : ruleAt'[g] = ruleAt[g]
         /\ \A i \in Issues, g \in Gates, a \in Approvers :
              decision'[i][g][a] = decision[i][g][a] \/ decision'[i][g][a].at = now'
<1> USE DEF rows, gates
<1>t. /\ lastChange \in [Issues -> Nat] /\ ruleAt \in [Gates -> Nat] /\ now \in Nat
      /\ ruled \subseteq Gates
      /\ decision \in [Issues -> [Gates -> [Approvers -> [verdict : Verdicts \cup {"none"}, at : Nat]]]]
  BY DEF TypeOK, RowsOK, GatesOK
<1>s. (\A i \in Issues : lastChange[i] <= now) /\ (\A g \in Gates : ruleAt[g] <= now)
  BY DEF Stamps
<1> DEFINE Goal ==
       /\ now <= now'
       /\ \A i \in Issues : lastChange[i] <= lastChange'[i] /\ lastChange'[i] <= now'
       /\ \A g \in Gates : ruleAt'[g] <= now'
       /\ \A g \in ruled : ruleAt'[g] = ruleAt[g]
       /\ \A i \in Issues, g \in Gates, a \in Approvers :
            decision'[i][g][a] = decision[i][g][a] \/ decision'[i][g][a].at = now'
<1>0. ASSUME UNCHANGED <<lastChange, ruleAt, decision, now>> PROVE Goal
  BY <1>0, <1>t, <1>s
<1>1. ASSUME NEW r \in Requests, Serve(r) PROVE Goal
  <2>1. CASE RecordHistory(r)
    <3>1. UNCHANGED <<ruleAt, decision>>
      BY <2>1 DEF RecordHistory
    <3>2. \/ UNCHANGED <<lastChange, now>>
          \/ /\ now' = now + 1
             /\ lastChange' = [lastChange EXCEPT ![req[r].issue] = now + 1]
      BY <2>1 DEF RecordHistory
    <3> QED BY <3>1, <3>2, <1>t, <1>s
  <2>2. CASE ~RecordHistory(r)
    BY <2>2, <1>1, <1>0 DEF Serve, ReadIssue, FindApprovalRule, LastStatusChangeAt, ReadDecisions,
       CheckSubtasks, RefuseSprint, WriteStatus, RereadIssue, RunAutomation, Respond
  <2> QED BY <2>1, <2>2
<1>2. ASSUME Others PROVE Goal
  <2>1. ASSUME NEW a \in Approvers, InsertDecision(a) PROVE Goal
    <3>1. UNCHANGED <<lastChange, ruleAt, now>>
      BY <2>1 DEF InsertDecision
    <3>2. \/ decision' = decision
          \/ \E d \in pending : decision' = [decision EXCEPT ![d.issue][d.gate][a] =
                                               [verdict |-> d.verdict, at |-> now]]
      BY <2>1 DEF InsertDecision
    <3>3. ASSUME NEW i \in Issues, NEW g \in Gates, NEW b \in Approvers
          PROVE  decision'[i][g][b] = decision[i][g][b] \/ decision'[i][g][b].at = now'
      <4>1. CASE decision' = decision
        BY <4>1
      <4>2. ASSUME NEW d \in pending,
                   decision' = [decision EXCEPT ![d.issue][d.gate][a] = [verdict |-> d.verdict, at |-> now]]
            PROVE  decision'[i][g][b] = decision[i][g][b] \/ decision'[i][g][b].at = now'
        <5>1. CASE i = d.issue /\ g = d.gate /\ b = a
          BY <5>1, <4>2, <3>1, <1>t
        <5>2. CASE ~(i = d.issue /\ g = d.gate /\ b = a)
          BY <5>2, <4>2, <1>t
        <5> QED BY <5>1, <5>2
      <4> QED BY <3>2, <4>1, <4>2
    <3> QED BY <3>1, <3>3, <1>t, <1>s
  <2>2. ASSUME NEW g \in Gates, CreateRule(g) PROVE Goal
    <3>1. UNCHANGED <<lastChange, decision>> /\ now' = now + 1 /\ g \notin ruled
          /\ ruleAt' = [ruleAt EXCEPT ![g] = now + 1]
      BY <2>2 DEF CreateRule
    <3> QED BY <3>1, <1>t, <1>s
  <2>3. ASSUME UNCHANGED <<lastChange, ruleAt, decision, now>> PROVE Goal
    BY <2>3, <1>0
  <2> HIDE DEF Goal
  <2> QED BY <2>1, <2>2, <2>3, <1>2 DEF Others, SubmitDecision, DeleteRule, CreateSubtask,
          DeleteIssue, Bypass, Crash
<1> QED BY <1>1, <1>2

\* The history variables cover the instant a step ends in.
LEMMA Watch ==
  ASSUME Observe, NEW q \in Requests
  PROVE  Covered(q)'
<1>1. ASSUME Running(q)' PROVE Yes(q)' \subseteq backers'[q]
  BY <1>1 DEF Observe
<1>2. ASSUME Running(q)' PROVE vetoes'[q] \subseteq No(q)'
  BY <1>2 DEF Observe
<1>3. ASSUME Running(q)', ~Gated(q)' PROVE ungated'[q]
  BY <1>3 DEF Observe
<1> QED BY <1>1, <1>2, <1>3 DEF Covered

\* While a request keeps running, backers only join and open sub-tasks and
\* vetoes only leave.
LEMMA WatchGrows ==
  ASSUME Observe, NEW q \in Requests, Running(q), Running(q)'
  PROVE  /\ backers[q] \subseteq backers'[q]
         /\ vetoes'[q] \subseteq vetoes[q]
         /\ stillOpen'[q] \subseteq stillOpen[q] /\ stillOpen'[q] \subseteq Kids(q)'
         /\ ~ungated'[q] => ~ungated[q] /\ Gated(q)'
<1>1. pc[q] # "idle"
  BY DEF Running
<1> QED BY <1>1 DEF Observe

\* A larger set of backers is still a quorum.
LEMMA QuorumGrows ==
  ASSUME NEW S \in SUBSET Approvers, NEW T \in SUBSET Approvers, S \subseteq T,
         Cardinality(S) >= Required
  PROVE  Cardinality(T) >= Required
<1>1. IsFiniteSet(T) /\ IsFiniteSet(S)
  BY ConfigAssumption, FS_Subset
<1>2. Cardinality(S) <= Cardinality(T) /\ Cardinality(S) \in Nat /\ Cardinality(T) \in Nat
  BY <1>1, FS_Subset, FS_CardinalityType
<1> QED BY <1>2, ConfigAssumption

\* A request that a step does not serve keeps what its checks established.
LEMMA Untouched ==
  ASSUME TypeOK, TypeOK', GateInv, (\E r \in Requests : Serve(r)) \/ Others, Observe,
         NEW q \in Requests, pc'[q] = pc[q], req'[q] = req[q]
  PROVE  Floors(q)' /\ Passed(q)'
<1> DEFINE i == req[q].issue
           g == Gate(q)
<1>t. /\ lastChange \in [Issues -> Nat] /\ lastChange' \in [Issues -> Nat]
      /\ ruleAt \in [Gates -> Nat] /\ ruleAt' \in [Gates -> Nat]
      /\ ruled \subseteq Gates /\ ruled' \subseteq Gates /\ now' \in Nat
      /\ decision' \in [Issues -> [Gates -> [Approvers -> [verdict : Verdicts \cup {"none"}, at : Nat]]]]
      /\ backers \in [Requests -> SUBSET Approvers] /\ backers' \in [Requests -> SUBSET Approvers]
      /\ req[q].since \in Nat
  BY DEF TypeOK, RowsOK, GatesOK, GhostsOK, HandlersOK, Reads
<1>g. Gate(q)' = g /\ (Gated(q)' <=> req[q].from # req[q].to /\ g \in ruled')
  BY DEF Gate, Gated
<1>c. Covered(q) /\ Floors(q) /\ Passed(q) /\ Stamps
  BY DEF GateInv
<1>r. /\ \A k \in Issues : lastChange[k] <= lastChange'[k] /\ lastChange'[k] <= now'
      /\ \A h \in Gates : ruleAt'[h] <= now'
      /\ \A h \in ruled : ruleAt'[h] = ruleAt[h]
      /\ \A k \in Issues, h \in Gates, a \in Approvers :
           decision'[k][h][a] = decision[k][h][a] \/ decision'[k][h][a].at = now'
  BY <1>c, Rising
<1>1. ASSUME pc[q] = "since", ~ungated'[q]
      PROVE  Gated(q)' /\ req'[q].since = ruleAt'[g]
  <2>1. ~ungated[q] /\ Gated(q)'
    BY <1>1, WatchGrows DEF Running
  <2>2. Gated(q) /\ req[q].since = ruleAt[g]
    BY <2>1, <1>1, <1>c DEF Floors
  <2> QED BY <2>1, <2>2, <1>r DEF Gated
<1>2. ASSUME pc[q] = "decisions", ~ungated'[q]
      PROVE  /\ Gated(q)' /\ req'[q].since <= Floor(req[q].issue, Gate(q))'
             /\ Standing(req[q].issue, Gate(q), req[q].since, "approved")' \subseteq backers'[q]
  <2>0. i \in Issues
    BY <1>2 DEF TypeOK, HandlersOK, Steps
  <2>1. ~ungated[q] /\ Gated(q)' /\ backers[q] \subseteq backers'[q]
    BY <1>2, WatchGrows DEF Running
  <2>2. /\ Gated(q) /\ req[q].since <= Floor(i, g)
        /\ Standing(i, g, req[q].since, "approved") \subseteq backers[q]
    BY <2>1, <1>2, <1>c DEF Floors
  <2>3. g \in ruled /\ g \in ruled' /\ g \in Gates
    BY <2>1, <2>2, <1>g, <1>t DEF Gated
  <2>4. Floor(i, g) <= Floor(i, g)' /\ Floor(i, g)' <= now' /\ Floor(i, g) \in Nat /\ Floor(i, g)' \in Nat
    BY <2>0, <2>3, <1>r, <1>t, <1>g DEF Floor, Later
  <2>5. ASSUME NEW a \in Approvers, decision'[i][g][a].verdict = "approved",
               decision'[i][g][a].at >= req[q].since
        PROVE  a \in backers'[q]
    <3>1. CASE decision'[i][g][a] = decision[i][g][a]
      BY <3>1, <2>5, <2>1, <2>2 DEF Standing
    <3>2. CASE decision'[i][g][a].at = now'
      <4>1. a \in Yes(q)'
        BY <3>2, <2>1, <2>4, <2>5, <1>g DEF Yes, Standing
      <4>2. Running(q)'
        BY <1>2 DEF Running
      <4> QED BY <4>1, <4>2, Watch DEF Covered
    <3> QED BY <3>1, <3>2, <2>0, <2>3, <1>r
  <2>6. req[q].since <= Floor(i, g)'
    BY <2>2, <2>4, <1>t
  <2> QED BY <2>1, <2>5, <2>6, <1>g DEF Standing
<1>3. ASSUME pc[q] \in {"subtasks", "write"}, ~ungated'[q]
      PROVE  Cardinality(backers'[q]) >= Required /\ vetoes'[q] = {}
  <2>1. /\ ~ungated[q] /\ backers[q] \subseteq backers'[q] /\ vetoes'[q] \subseteq vetoes[q]
    BY <1>3, WatchGrows DEF Running
  <2>2. Cardinality(backers[q]) >= Required /\ vetoes[q] = {}
    BY <2>1, <1>3, <1>c DEF Passed
  <2> QED BY <2>1, <2>2, <1>t, QuorumGrows
<1>4. ASSUME pc[q] = "write", req[q].to = Done PROVE stillOpen'[q] = {}
  BY <1>4, <1>c, WatchGrows DEF Passed, Running
<1>5. Floors(q)'
  BY <1>1, <1>2, <1>g DEF Floors
<1> QED BY <1>3, <1>4, <1>5 DEF Passed

\* The request a step serves establishes what its check promises.
LEMMA Served ==
  ASSUME TypeOK, TypeOK', GateInv, Observe, NEW q \in Requests, Serve(q)
  PROVE  Floors(q)' /\ Passed(q)'
<1> USE DEF rows, gates
<1> DEFINE i == req[q].issue
           g == Gate(q)
<1>t. /\ lastChange \in [Issues -> Nat] /\ ruleAt \in [Gates -> Nat] /\ ruled \subseteq Gates
      /\ backers \in [Requests -> SUBSET Approvers] /\ backers' \in [Requests -> SUBSET Approvers]
      /\ req \in [Requests -> Reads] /\ pc \in [Requests -> Idle \cup Steps]
      /\ pc[q] \in Steps => i \in Issues
  BY DEF TypeOK, RowsOK, GatesOK, GhostsOK, HandlersOK
<1>c. Covered(q) /\ Floors(q) /\ Passed(q)
  BY DEF GateInv
<1>v. ASSUME pc'[q] \notin {"since", "decisions", "subtasks", "write"} PROVE Floors(q)' /\ Passed(q)'
  BY <1>v DEF Floors, Passed
<1>1. CASE FindApprovalRule(q)
  <2>1. CASE Gated(q)
    <3>1. /\ pc'[q] = "since" /\ UNCHANGED <<ruled, ruleAt>>
          /\ req'[q] = [req[q] EXCEPT !.gated = TRUE, !.since = ruleAt[g]]
      BY <2>1, <1>1, <1>t DEF FindApprovalRule, Go
    <3>2. req'[q].since = ruleAt[g] /\ req'[q].from = req[q].from /\ req'[q].to = req[q].to
      BY <3>1, <1>t DEF Reads
    <3> QED BY <2>1, <3>1, <3>2 DEF Floors, Passed, Gated, Gate
  <2>2. CASE ~Gated(q)
    <3>1. pc'[q] = "subtasks" /\ req'[q] = req[q] /\ UNCHANGED ruled
      BY <2>2, <1>1, <1>t DEF FindApprovalRule, Go
    <3>2. ungated[q] /\ Running(q) /\ Running(q)'
      BY <2>2, <3>1, <1>1, <1>c DEF Covered, Running, FindApprovalRule
    <3>3. ungated'[q]
      BY <3>2, WatchGrows
    <3> QED BY <3>1, <3>3 DEF Floors, Passed
  <2> QED BY <2>1, <2>2
<1>2. CASE LastStatusChangeAt(q)
  <2>1. /\ pc[q] = "since" /\ pc'[q] = "decisions"
        /\ UNCHANGED <<ruled, ruleAt, lastChange, decision>>
        /\ req'[q] = [req[q] EXCEPT !.since = Later(@, lastChange[i])]
    BY <1>2, <1>t DEF LastStatusChangeAt, Go
  <2>2. /\ req'[q].since = Later(req[q].since, lastChange[i]) /\ req'[q].issue = i
        /\ req'[q].from = req[q].from /\ req'[q].to = req[q].to
    BY <2>1, <1>t DEF Reads
  <2>3. i \in Issues /\ Running(q) /\ Running(q)'
    BY <2>1, <1>t DEF Steps, Running
  <2>4. ASSUME ~ungated'[q]
        PROVE  /\ Gated(q)'
               /\ req'[q].since <= Floor(i, g)'
               /\ Standing(i, g, req[q].since, "approved")' \subseteq backers'[q]
    <3>1. ~ungated[q] /\ Gated(q)' /\ req[q].since = ruleAt[g]
      BY <2>1, <2>3, <2>4, <1>c, WatchGrows DEF Floors
    <3>2. Gate(q)' = g /\ g \in ruled'
      BY <2>2, <3>1 DEF Gate, Gated
    <3>3. req'[q].since = Floor(i, g)' /\ req'[q].since \in Nat
      BY <2>1, <2>2, <2>3, <3>1, <3>2, <1>t DEF Floor, Later
    <3>4. Yes(q)' = Standing(i, g, req[q].since, "approved")'
      BY <2>2, <3>1, <3>2, <3>3 DEF Yes, Standing
    <3> QED BY <2>3, <3>1, <3>2, <3>3, <3>4, Watch DEF Covered
  <2>5. Gate(q)' = g
    BY <2>2 DEF Gate
  <2> QED BY <2>1, <2>2, <2>4, <2>5 DEF Floors, Passed
<1>3. CASE ReadDecisions(q)
  <2>1. /\ pc[q] = "decisions" /\ pc'[q] \in {"subtasks", "end"}
        /\ pc'[q] = "subtasks" => Satisfied(i, g, req[q].since) /\ req'[q] = req[q]
        /\ UNCHANGED <<ruled, ruleAt, lastChange, decision>>
    BY <1>3, <1>t DEF ReadDecisions, Go
  <2>2. CASE pc'[q] = "end"
    BY <2>2, <1>v
  <2>3. ASSUME pc'[q] = "subtasks", ~ungated'[q]
        PROVE  Cardinality(backers'[q]) >= Required /\ vetoes'[q] = {}
    <3>1. Running(q) /\ Running(q)' /\ i \in Issues
      BY <2>1, <2>3, <1>t DEF Running, Steps
    <3>2. ~ungated[q] /\ Gated(q)' /\ backers[q] \subseteq backers'[q] /\ vetoes'[q] \subseteq No(q)'
      BY <2>3, <3>1, WatchGrows, Watch DEF Covered
    <3>3. /\ req[q].since <= Floor(i, g)
          /\ Standing(i, g, req[q].since, "approved") \subseteq backers[q]
      BY <2>1, <3>2, <1>c DEF Floors
    <3>4. Cardinality(backers'[q]) >= Required
      <4>1. Standing(i, g, req[q].since, "approved") \in SUBSET Approvers
        BY DEF Standing
      <4> QED BY <2>1, <2>3, <3>2, <3>3, <4>1, <1>t, QuorumGrows DEF Satisfied
    <3>5. No(q)' \subseteq Standing(i, g, req[q].since, "rejected")
      <4>1. g \in Gates /\ req'[q] = req[q] /\ Gate(q)' = g
        BY <2>1, <2>3, <3>2, <1>t DEF Gated, Gate
      <4>2. Floor(i, g)' = Floor(i, g) /\ Floor(i, g) \in Nat /\ req[q].since \in Nat
        BY <2>1, <3>1, <4>1, <1>t DEF Floor, Later, Reads
      <4>3. decision \in [Issues -> [Gates -> [Approvers -> [verdict : Verdicts \cup {"none"}, at : Nat]]]]
        BY DEF TypeOK, GatesOK
      <4>4. No(q)' = Standing(i, g, Floor(i, g), "rejected")
        BY <2>1, <3>2, <4>1, <4>2 DEF No, Standing
      <4> QED BY <3>1, <3>3, <4>1, <4>2, <4>3, <4>4 DEF Standing
    <3> QED BY <2>1, <2>3, <3>2, <3>4, <3>5 DEF Satisfied
  <2> QED BY <2>1, <2>2, <2>3 DEF Floors, Passed
<1>4. CASE CheckSubtasks(q)
  <2>1. /\ pc[q] = "subtasks" /\ pc'[q] \in {"write", "end"}
        /\ pc'[q] = "write" => req'[q] = req[q] /\ (req[q].to = Done => OpenSubtasks(i) = {})
        /\ UNCHANGED <<live, status>>
    BY <1>4, <1>t DEF CheckSubtasks, Go
  <2>2. CASE pc'[q] = "end"
    BY <2>2, <1>v
  <2>3. CASE pc'[q] = "write"
    <3>1. Running(q) /\ Running(q)'
      BY <2>1, <2>3 DEF Running
    <3>2. ASSUME ~ungated'[q] PROVE Cardinality(backers'[q]) >= Required /\ vetoes'[q] = {}
      BY <2>1, <3>1, <3>2, <1>c, <1>t, WatchGrows, QuorumGrows DEF Passed
    <3>3. ASSUME req[q].to = Done PROVE stillOpen'[q] = {}
      <4>1. Kids(q)' = {}
        BY <2>1, <2>3, <3>3 DEF Kids, OpenSubtasks
      <4> QED BY <3>1, <4>1, WatchGrows
    <3> QED BY <2>1, <2>3, <3>2, <3>3 DEF Floors, Passed
  <2> QED BY <2>1, <2>2, <2>3
<1>5. CASE ReadIssue(q) \/ RefuseSprint(q) \/ WriteStatus(q) \/ RecordHistory(q)
           \/ RereadIssue(q) \/ RunAutomation(q) \/ Respond(q)
  <2>1. pc'[q] \in {"rule", "end", "history", "reread", "automate"}
    BY <1>5, <1>t DEF ReadIssue, RefuseSprint, WriteStatus, RecordHistory, RereadIssue,
       RunAutomation, Respond, Go
  <2> QED BY <2>1, <1>v
<1> QED BY <1>1, <1>2, <1>3, <1>4, <1>5 DEF Serve

\* The gate invariant holds in every state.
THEOREM GateInvariant == Spec => []GateInv
<1>1. Init => GateInv
  <2> SUFFICES ASSUME Init PROVE GateInv
    OBVIOUS
  <2>1. Stamps
    BY DEF Init, Stamps
  <2>2. \A r \in Requests : pc[r] = "idle"
    BY DEF Init
  <2> QED BY <2>1, <2>2 DEF GateInv, Covered, Floors, Passed, Running
<1>2. TypeOK /\ TypeOK' /\ GateInv /\ [Next]_vars => GateInv'
  <2> SUFFICES ASSUME TypeOK, TypeOK', GateInv, [Next]_vars PROVE GateInv'
    OBVIOUS
  <2>1. CASE Next
    <3>1. Stamps'
      BY <2>1, Rising DEF Next, GateInv, Stamps
    <3>2. ASSUME NEW q \in Requests PROVE Covered(q)' /\ Floors(q)' /\ Passed(q)'
      <4>1. Covered(q)'
        BY <2>1, Watch DEF Next
      <4>2. CASE Serve(q)
        BY <4>1, <4>2, <2>1, Served DEF Next
      <4>3. CASE pc'[q] = pc[q] /\ req'[q] = req[q]
        BY <4>1, <4>3, <2>1, Untouched DEF Next
      <4>4. CASE pc'[q] \in Idle
        BY <4>1, <4>4 DEF Floors, Passed, Idle
      <4> QED BY <4>2, <4>3, <4>4, <2>1, Frame DEF Next
    <3> QED BY <3>1, <3>2 DEF GateInv
  <2>2. CASE UNCHANGED vars
    <3>1. /\ UNCHANGED <<lastChange, ruled, ruleAt, decision, now, pc, req>>
          /\ UNCHANGED <<stillOpen, backers, vetoes, ungated>>
      BY <2>2 DEF vars, rows, gates, ghosts
    <3>2. Stamps'
      BY <3>1 DEF GateInv, Stamps
    <3>3. ASSUME NEW q \in Requests PROVE Covered(q)'
      <4>1. Yes(q)' = Yes(q) /\ No(q)' = No(q) /\ Gated(q)' = Gated(q) /\ Running(q)' = Running(q)
        BY <3>1 DEF Yes, No, Gated, Gate, Floor, Standing, Later, Running
      <4> QED BY <3>1, <4>1 DEF GateInv, Covered
    <3>4. ASSUME NEW q \in Requests PROVE Floors(q)'
      <4>1. /\ Gated(q)' = Gated(q) /\ Gate(q)' = Gate(q)
            /\ Floor(req[q].issue, Gate(q))' = Floor(req[q].issue, Gate(q))
            /\ Standing(req[q].issue, Gate(q), req[q].since, "approved")'
                 = Standing(req[q].issue, Gate(q), req[q].since, "approved")
        BY <3>1 DEF Gated, Gate, Floor, Standing, Later
      <4> QED BY <3>1, <4>1 DEF GateInv, Floors
    <3>5. ASSUME NEW q \in Requests PROVE Passed(q)'
      BY <3>1 DEF GateInv, Passed
    <3> QED BY <3>2, <3>3, <3>4, <3>5 DEF GateInv
  <2> QED BY <2>1, <2>2
<1> QED BY <1>1, <1>2, TypeCorrect, PTL DEF Spec

\* No parent is closed over a sub-task that was open throughout, whatever runs
\* in between.
THEOREM SubtasksBlock == Spec => OpenSubtaskBlocks
<1>1. GateInv => [\A r \in Requests : Writes(r) /\ req[r].to = Done => stillOpen[r] = {}]_vars
  BY DEF GateInv, Passed, Writes
<1> QED BY <1>1, GateInvariant, PTL DEF OpenSubtaskBlocks

\* Every move over a standing rule has its quorum of approvers.
THEOREM QuorumBacksMoves == Spec => QuorumBacks
<1>1. GateInv => [\A r \in Requests :
                    Writes(r) /\ ~ungated[r] => Cardinality(backers[r]) >= Required]_vars
  BY DEF GateInv, Passed, Writes
<1> QED BY <1>1, GateInvariant, PTL DEF QuorumBacks

\* No move passes a rejection that stood throughout.
THEOREM RejectionsBlock == Spec => RejectionBlocks
<1>1. GateInv => [\A r \in Requests : Writes(r) /\ ~ungated[r] => vetoes[r] = {}]_vars
  BY DEF GateInv, Passed, Writes
<1> QED BY <1>1, GateInvariant, PTL DEF RejectionBlocks
-----------------------------------------------------------------------------
(***************************************************************************)
(* One handler at a time, with no writer that leaves out the history row   *)
(* (a matching automation, or Bypass): what the history, the approvals and *)
(* the request being served say of each other.                             *)
(***************************************************************************)
OneByOne == ~Overlap /\ AutoRules = {} /\ OutOfBand = {}

\* At most one request runs, and then no decision is half made.
OneRequest ==
  /\ \A r, s \in Requests : pc[r] \notin Idle /\ pc[s] \notin Idle => r = s
  /\ \A r \in Requests : pc[r] \notin Idle => pending = {}

\* What the request being served has read still stands.
Stands(r) ==
  /\ Running(r) =>
       /\ req[r].issue \in live /\ status[req[r].issue] = req[r].from
       /\ IsTransitionAllowed(req[r].from, req[r].to)
       /\ req[r].gated => Gated(r)
  /\ pc[r] = "rule" => ~req[r].gated
  /\ pc[r] = "since" => Gated(r) /\ req[r].since = ruleAt[Gate(r)]
  /\ pc[r] = "decisions" => Gated(r) /\ req[r].since = Floor(req[r].issue, Gate(r))
  /\ pc[r] \in {"subtasks", "write"} /\ req[r].gated => Cardinality(Yes(r)) >= Required
  /\ pc[r] = "write" /\ req[r].to = Done => Kids(r) = {}
  /\ pc[r] = "history" => req[r].issue \in live /\ status[req[r].issue] = req[r].to
  /\ pc[r] = "history" /\ req[r].from = req[r].to =>
       lastTo[req[r].issue] = status[req[r].issue]

\* The status is written and its history row is not.
Moving(i) ==
  \E r \in Requests : pc[r] = "history" /\ req[r].issue = i /\ req[r].from # req[r].to

\* An approval no older than the last change is one given since the issue
\* entered its status; one no older than the rule was given under the rule.
Decided ==
  \A i \in Issues, g \in Gates, a \in Approvers :
    /\ decision[i][g][a].at <= now
    /\ /\ decision[i][g][a].verdict = "approved"
       /\ decision[i][g][a].at >= lastChange[i]
       /\ ~Moving(i)
       => <<g, a>> \in freshYes[i]
    /\ /\ decision[i][g][a].verdict # "none"
       /\ g \in ruled
       /\ decision[i][g][a].at >= ruleAt[g]
       => a \in Eligible

Invited == \A d \in pending : d.gate \in ruled => d.by \in Eligible

SerialInv ==
  OneRequest /\ Decided /\ Invited /\ HistoryTellsStatus /\ \A r \in Requests : Stands(r)

\* While a request is served the other handlers rest.
LEMMA Alone ==
  ASSUME OneByOne, TypeOK, OneRequest, NEW r \in Requests, Serve(r)
  PROVE  /\ pending = {} /\ pending' = {}
         /\ \A q \in Requests \ {r} : pc[q] \in Idle /\ pc'[q] = pc[q] /\ req'[q] = req[q]
         /\ UNCHANGED <<live, gone, gates>>
<1>t. pc \in [Requests -> Idle \cup Steps] /\ req \in [Requests -> Reads]
  BY DEF TypeOK, HandlersOK
<1>1. pending = {} /\ \A q \in Requests \ {r} : pc[q] \in Idle
  <2>1. CASE pc[r] = "idle"
    BY <2>1 DEF Serve, OneByOne, Quiet, ReadIssue, FindApprovalRule, LastStatusChangeAt,
       ReadDecisions, CheckSubtasks, RefuseSprint, WriteStatus, RecordHistory, RereadIssue,
       RunAutomation, Respond
  <2>2. CASE pc[r] # "idle"
    <3>1. pc[r] \notin Idle
      BY <2>2 DEF Serve, ReadIssue, FindApprovalRule, LastStatusChangeAt, ReadDecisions, Idle,
         CheckSubtasks, RefuseSprint, WriteStatus, RecordHistory, RereadIssue, RunAutomation, Respond
    <3> QED BY <3>1 DEF OneRequest
  <2> QED BY <2>1, <2>2
<1>2. \E l, read : Go(r, l, read)
  BY DEF Serve, ReadIssue, FindApprovalRule, LastStatusChangeAt, ReadDecisions,
     CheckSubtasks, RefuseSprint, WriteStatus, RecordHistory, RereadIssue, RunAutomation, Respond
<1>3. \A q \in Requests \ {r} : pc'[q] = pc[q] /\ req'[q] = req[q]
  BY <1>2, <1>t DEF Go
<1>4. pending' = pending /\ UNCHANGED <<live, gone, gates>>
  BY DEF Serve, ReadIssue, FindApprovalRule, LastStatusChangeAt, ReadDecisions, rows, gates,
     CheckSubtasks, RefuseSprint, WriteStatus, RecordHistory, RereadIssue, RunAutomation, Respond
<1> QED BY <1>1, <1>3, <1>4

\* The other handlers run when no request does.
LEMMA OthersAlone ==
  ASSUME OneByOne, OneRequest, Others
  PROVE  /\ \A r \in Requests : pc[r] \in Idle
         /\ pc' = pc /\ req' = req
<1>1. CASE Crash \/ \E i \in Issues, s \in Statuses : Bypass(i, s)
  BY <1>1 DEF Crash, Bypass, OneByOne
<1>2. CASE \E a \in Approvers : InsertDecision(a)
  BY <1>2 DEF InsertDecision, OneRequest
<1>3. CASE Quiet /\ pc' = pc /\ req' = req
  BY <1>3 DEF Quiet, OneByOne
<1> QED BY <1>1, <1>2, <1>3 DEF Others, SubmitDecision, CreateRule, DeleteRule, CreateSubtask,
        DeleteIssue

\* The request a statement serves finds again what its earlier statements read.
LEMMA StandsServed ==
  ASSUME OneByOne, TypeOK, TypeOK', SerialInv, NEW r \in Requests, Serve(r)
  PROVE  Stands(r)'
<1> USE DEF rows, gates
<1> DEFINE i == req[r].issue
           g == Gate(r)
<1>t. /\ lastChange \in [Issues -> Nat] /\ ruleAt \in [Gates -> Nat] /\ ruled \subseteq Gates
      /\ status \in [Issues -> Statuses] /\ lastTo \in [Issues -> Statuses]
      /\ req \in [Requests -> Reads] /\ pc \in [Requests -> Idle \cup Steps]
      /\ pc[r] \in Steps => i \in Issues
      /\ live \subseteq Issues
  BY DEF TypeOK, RowsOK, GatesOK, HandlersOK
<1>s. Stands(r) /\ UNCHANGED <<live, gone, gates>>
  BY Alone DEF SerialInv
<1>v. ASSUME pc'[r] \in {"end", "reread", "automate"} PROVE Stands(r)'
  BY <1>v DEF Stands, Running
<1>k. ASSUME UNCHANGED <<status, lastChange>>, req'[r].issue = i, req'[r].from = req[r].from,
             req'[r].to = req[r].to
      PROVE  /\ Gate(r)' = g /\ Gated(r)' = Gated(r)
             /\ Floor(req[r].issue, Gate(r))' = Floor(req[r].issue, Gate(r))
             /\ Yes(r)' = Yes(r) /\ Kids(r)' = Kids(r)
  BY <1>k, <1>s DEF Gated, Gate, Floor, Later, Yes, Standing, Kids, OpenSubtasks
<1>1. CASE ReadIssue(r)
  <2>1. PICK j \in Issues, to \in Statuses :
          /\ pc[r] = "idle"
          /\ LET Then(l) == Go(r, l, [NoRead EXCEPT !.issue = j, !.to = to, !.from = status[j]])
             IN  \/ j \in live /\ IsTransitionAllowed(status[j], to) /\ Then("rule")
                 \/ Then("end")
          /\ UNCHANGED status
    BY <1>1 DEF ReadIssue
  <2>2. CASE pc'[r] = "end"
    BY <2>2, <1>v
  <2>3. CASE pc'[r] # "end"
    <3>1. /\ j \in live /\ IsTransitionAllowed(status[j], to) /\ pc'[r] = "rule"
          /\ req'[r] = [NoRead EXCEPT !.issue = j, !.to = to, !.from = status[j]]
      BY <2>1, <2>3, <1>t DEF Go
    <3>2. req'[r].issue = j /\ req'[r].to = to /\ req'[r].from = status[j] /\ req'[r].gated = FALSE
      BY <3>1 DEF NoRead
    <3> QED BY <2>1, <3>1, <3>2, <1>s DEF Stands, IsTransitionAllowed
  <2> QED BY <2>2, <2>3
<1>2. CASE FindApprovalRule(r)
  <2>0. pc[r] = "rule" /\ UNCHANGED <<status, lastChange>>
    BY <1>2 DEF FindApprovalRule
  <2>1. CASE Gated(r)
    <3>1. /\ pc'[r] = "since"
          /\ req'[r] = [req[r] EXCEPT !.gated = TRUE, !.since = ruleAt[g]]
      BY <2>1, <1>2, <1>t DEF FindApprovalRule, Go
    <3>2. /\ req'[r].since = ruleAt[g] /\ req'[r].from = req[r].from /\ req'[r].to = req[r].to
          /\ req'[r].issue = i
      BY <3>1, <1>t DEF Reads
    <3>3. Running(r)
      BY <2>0 DEF Running
    <3> QED BY <2>0, <2>1, <3>1, <3>2, <3>3, <1>k, <1>s DEF Stands, IsTransitionAllowed
  <2>2. CASE ~Gated(r)
    <3>1. pc'[r] = "subtasks" /\ req'[r] = req[r] /\ Running(r)
      BY <2>0, <2>2, <1>2, <1>t DEF FindApprovalRule, Go, Running
    <3> QED BY <2>0, <3>1, <1>k, <1>s DEF Stands, IsTransitionAllowed
  <2> QED BY <2>1, <2>2
<1>3. CASE LastStatusChangeAt(r)
  <2>1. /\ pc[r] = "since" /\ pc'[r] = "decisions" /\ UNCHANGED <<status, lastChange>>
        /\ req'[r] = [req[r] EXCEPT !.since = Later(@, lastChange[i])]
    BY <1>3, <1>t DEF LastStatusChangeAt, Go
  <2>2. /\ req'[r].since = Later(req[r].since, lastChange[i]) /\ req'[r].issue = i
        /\ req'[r].from = req[r].from /\ req'[r].to = req[r].to /\ req'[r].gated = req[r].gated
    BY <2>1, <1>t DEF Reads
  <2>3. Running(r) /\ i \in Issues /\ Gated(r) /\ req[r].since = ruleAt[g]
    BY <2>1, <1>s, <1>t DEF Running, Stands, Steps
  <2>4. Later(req[r].since, lastChange[i]) = Floor(i, g)
    BY <2>3, <1>t DEF Floor, Later, Gated
  <2> QED BY <2>1, <2>2, <2>3, <2>4, <1>k, <1>s DEF Stands, IsTransitionAllowed
<1>4. CASE ReadDecisions(r)
  <2>1. /\ pc[r] = "decisions" /\ pc'[r] \in {"subtasks", "end"} /\ UNCHANGED <<status, lastChange>>
        /\ pc'[r] = "subtasks" => Satisfied(i, g, req[r].since) /\ req'[r] = req[r]
    BY <1>4, <1>t DEF ReadDecisions, Go
  <2>2. Running(r) /\ Gated(r) /\ req[r].since = Floor(i, g)
    BY <2>1, <1>s DEF Running, Stands
  <2>3. pc'[r] = "subtasks" => Cardinality(Yes(r)) >= Required
    BY <2>1, <2>2 DEF Satisfied, Yes
  <2>4. CASE pc'[r] = "subtasks"
    BY <2>1, <2>2, <2>3, <2>4, <1>k, <1>s DEF Stands, IsTransitionAllowed
  <2> QED BY <2>1, <2>4, <1>v
<1>5. CASE CheckSubtasks(r)
  <2>1. /\ pc[r] = "subtasks" /\ pc'[r] \in {"write", "end"} /\ UNCHANGED <<status, lastChange>>
        /\ pc'[r] = "write" => req'[r] = req[r] /\ (req[r].to = Done => Kids(r) = {})
    BY <1>5, <1>t DEF CheckSubtasks, Go, Kids
  <2>2. Running(r)
    BY <2>1 DEF Running
  <2>3. CASE pc'[r] = "write"
    BY <2>1, <2>2, <2>3, <1>k, <1>s DEF Stands, IsTransitionAllowed
  <2> QED BY <2>1, <2>3, <1>v
<1>6. CASE WriteStatus(r)
  <2>1. pc[r] = "write" /\ pc'[r] = "history" /\ req'[r] = req[r] /\ lastTo' = lastTo
    BY <1>6, <1>t DEF WriteStatus, Go
  <2>2. Running(r) /\ i \in live /\ i \in Issues /\ status[i] = req[r].from
    BY <2>1, <1>s, <1>t DEF Running, Stands
  <2>3. status'[i] = req[r].to
    BY <2>2, <1>6, <1>t DEF WriteStatus, SetStatus
  <2>4. lastTo[i] = status[i]
    BY <2>1, <2>2 DEF SerialInv, HistoryTellsStatus, OneRequest, Idle
  <2> QED BY <2>1, <2>2, <2>3, <2>4, <1>s DEF Stands, Running
<1>7. CASE RefuseSprint(r) \/ RecordHistory(r) \/ RereadIssue(r) \/ RunAutomation(r) \/ Respond(r)
  <2>1. pc'[r] \in {"end", "reread", "automate"}
    BY <1>7, <1>t DEF RefuseSprint, RecordHistory, RereadIssue, RunAutomation, Respond, Go
  <2> QED BY <2>1, <1>v
<1> QED BY <1>1, <1>2, <1>3, <1>4, <1>5, <1>6, <1>7 DEF Serve

\* Outside a request's own UPDATE and history row, a request changes neither
\* statuses nor history.
LEMMA OnlyWrites ==
  ASSUME OneByOne, TypeOK, NEW r \in Requests, Serve(r), ~WriteStatus(r), ~RecordHistory(r)
  PROVE  UNCHANGED <<status, freshYes, lastChange, lastTo, now>> /\ pc'[r] # "history"
<1>1. CASE RunAutomation(r)
  BY <1>1 DEF RunAutomation, OneByOne, TypeOK, HandlersOK, Reads
<1>2. CASE ~RunAutomation(r)
  BY <1>2 DEF Serve, ReadIssue, FindApprovalRule, LastStatusChangeAt, ReadDecisions, rows,
     CheckSubtasks, RefuseSprint, RereadIssue, Respond, Go, TypeOK, HandlersOK
<1> QED BY <1>1, <1>2

\* A statement of the request keeps what history and approvals say.
LEMMA ServeKeeps ==
  ASSUME OneByOne, TypeOK, TypeOK', SerialInv, NEW r \in Requests, Serve(r)
  PROVE  HistoryTellsStatus' /\ Decided'
<1> DEFINE i == req[r].issue
<1>t. /\ lastChange \in [Issues -> Nat] /\ now \in Nat
      /\ status \in [Issues -> Statuses] /\ lastTo \in [Issues -> Statuses]
      /\ freshYes \in [Issues -> SUBSET (Gates \X Approvers)]
      /\ decision \in [Issues -> [Gates -> [Approvers -> [verdict : Verdicts \cup {"none"}, at : Nat]]]]
      /\ req \in [Requests -> Reads] /\ pc \in [Requests -> Idle \cup Steps]
      /\ pc[r] \in Steps => i \in Issues
      /\ live \subseteq Issues
  BY DEF TypeOK, RowsOK, GatesOK, HandlersOK, GhostsOK
<1>a. /\ \A q \in Requests \ {r} : pc[q] # "history" /\ pc'[q] # "history"
      /\ UNCHANGED <<live, ruled, ruleAt, decision>>
  BY Alone DEF SerialInv, Idle, gates
<1>s. Stands(r) /\ Decided /\ HistoryTellsStatus
  BY DEF SerialInv
<1>1. CASE WriteStatus(r)
  <2>1. /\ pc[r] = "write" /\ pc'[r] = "history" /\ req'[r] = req[r]
        /\ UNCHANGED <<lastTo, lastChange, now>>
    BY <1>1, <1>t DEF WriteStatus, Go
  <2>2. i \in live /\ i \in Issues /\ status[i] = req[r].from /\ SetStatus(i, req[r].to)
    BY <2>1, <1>1, <1>s, <1>t DEF Running, Stands, WriteStatus
  <2>3. HistoryTellsStatus'
    BY <2>1, <2>2, <1>a, <1>s, <1>t DEF HistoryTellsStatus, SetStatus
  <2>4. \A j \in Issues : ~Moving(j)
    BY <2>1, <1>a DEF Moving
  <2>5. ASSUME NEW j \in Issues, ~Moving(j)' PROVE freshYes'[j] = freshYes[j]
    BY <2>1, <2>2, <2>5, <1>t DEF Moving, SetStatus
  <2>6. Decided'
    BY <2>1, <2>4, <2>5, <1>a, <1>s DEF Decided
  <2> QED BY <2>3, <2>6
<1>2. CASE RecordHistory(r)
  <2>1. /\ pc[r] = "history" /\ pc'[r] \in {"reread", "end"} /\ i \in Issues /\ i \in live
        /\ UNCHANGED <<status, freshYes>> /\ status[i] = req[r].to
    BY <1>2, <1>t, <1>s DEF RecordHistory, Go, Steps, Stands
  <2>2. \A j \in Issues : ~Moving(j)'
    BY <2>1, <1>a DEF Moving
  <2>3. CASE req[r].from = req[r].to
    <3>1. UNCHANGED <<lastTo, lastChange, now>> /\ \A j \in Issues : ~Moving(j)
      BY <2>1, <2>3, <1>2, <1>a DEF RecordHistory, Moving
    <3>2. HistoryTellsStatus'
      BY <2>1, <2>3, <3>1, <1>a, <1>s DEF HistoryTellsStatus, Stands
    <3>3. Decided'
      BY <2>1, <3>1, <1>a, <1>s DEF Decided
    <3> QED BY <3>2, <3>3
  <2>4. CASE req[r].from # req[r].to
    <3>1. /\ lastTo' = [lastTo EXCEPT ![i] = req[r].to] /\ now' = now + 1
          /\ lastChange' = [lastChange EXCEPT ![i] = now + 1]
      BY <2>1, <2>4, <1>2 DEF RecordHistory
    <3>2. \A j \in Issues \ {i} : ~Moving(j) /\ lastChange'[j] = lastChange[j]
      BY <3>1, <1>a, <1>t DEF Moving
    <3>3. HistoryTellsStatus'
      BY <2>1, <3>1, <1>a, <1>s, <1>t DEF HistoryTellsStatus
    <3>4. ASSUME NEW j \in Issues, NEW g \in Gates, NEW a \in Approvers
          PROVE  decision[j][g][a].at <= now /\ decision[j][g][a].at \in Nat
      <4>1. decision[j][g][a].at \in Nat
        BY <1>t
      <4>2. decision[j][g][a].at <= now
        BY <1>s DEF Decided
      <4> QED BY <4>1, <4>2
    <3>5. lastChange'[i] = now + 1
      BY <2>1, <3>1, <1>t
    <3>6. \A g \in Gates, a \in Approvers : decision[i][g][a].at < lastChange'[i]
      BY <2>1, <3>4, <3>5, <1>t
    <3>7. \A j \in Issues, g \in Gates, a \in Approvers : decision[j][g][a].at <= now'
      BY <3>1, <3>4, <1>t
    <3>8. ASSUME NEW j \in Issues, NEW g \in Gates, NEW a \in Approvers,
                 decision[j][g][a].verdict = "approved", decision[j][g][a].at >= lastChange'[j]
          PROVE  <<g, a>> \in freshYes[j]
      <4>1. j # i
        BY <3>5, <3>4, <3>8, <1>t
      <4> QED BY <4>1, <3>2, <3>8, <1>s DEF Decided
    <3>9. Decided'
      BY <2>1, <3>7, <3>8, <1>a, <1>s DEF Decided
    <3> QED BY <3>3, <3>9
  <2> QED BY <2>3, <2>4
<1>3. CASE ~WriteStatus(r) /\ ~RecordHistory(r)
  <2>1. UNCHANGED <<status, freshYes, lastChange, lastTo, now>> /\ pc'[r] # "history"
    BY <1>3, OnlyWrites
  <2>2. pc[r] # "history"
    BY <1>3 DEF Serve, ReadIssue, FindApprovalRule, LastStatusChangeAt, ReadDecisions,
       CheckSubtasks, RefuseSprint, RereadIssue, RunAutomation, Respond
  <2>3. \A j \in Issues : ~Moving(j) /\ ~Moving(j)'
    BY <2>1, <2>2, <1>a DEF Moving
  <2>4. HistoryTellsStatus'
    BY <2>1, <2>2, <1>a, <1>s DEF HistoryTellsStatus
  <2>5. Decided'
    BY <2>1, <2>3, <1>a, <1>s DEF Decided
  <2> QED BY <2>4, <2>5
<1> QED BY <1>1, <1>2, <1>3

\* So do the other handlers.
LEMMA OthersKeep ==
  ASSUME OneByOne, TypeOK, TypeOK', Stamps, SerialInv, Others
  PROVE  HistoryTellsStatus' /\ Decided' /\ Invited' /\ OneRequest'
<1> USE DEF rows, gates
<1>t. /\ lastChange \in [Issues -> Nat] /\ now \in Nat /\ ruleAt \in [Gates -> Nat] /\ ruled \subseteq Gates
      /\ status \in [Issues -> Statuses] /\ lastTo \in [Issues -> Statuses]
      /\ freshYes \in [Issues -> SUBSET (Gates \X Approvers)]
      /\ decision \in [Issues -> [Gates -> [Approvers -> [verdict : Verdicts \cup {"none"}, at : Nat]]]]
      /\ pending \subseteq [by : Approvers, issue : Issues, gate : Gates, verdict : Verdicts]
      /\ live \subseteq Issues
  BY DEF TypeOK, RowsOK, GatesOK, HandlersOK, GhostsOK
<1>a. /\ \A r \in Requests : pc[r] \in Idle /\ pc[r] # "history"
      /\ pc' = pc /\ req' = req
  BY OthersAlone DEF SerialInv, Idle
<1>m. \A j \in Issues : ~Moving(j) /\ ~Moving(j)'
  BY <1>a DEF Moving
<1>o. OneRequest'
  BY <1>a DEF OneRequest
<1>s. Decided /\ Invited /\ \A j \in live : lastTo[j] = status[j]
  BY <1>a DEF SerialInv, HistoryTellsStatus
<1>h. ASSUME live' \subseteq live, UNCHANGED <<status, lastTo>> PROVE HistoryTellsStatus'
  BY <1>h, <1>s DEF HistoryTellsStatus
<1>d. ASSUME UNCHANGED <<lastChange, decision, now, freshYes, ruleAt>>, ruled' \subseteq ruled
      PROVE  Decided'
  BY <1>d, <1>m, <1>s DEF Decided
<1>1. ASSUME NEW a \in Approvers, SubmitDecision(a) PROVE Invited' /\ HistoryTellsStatus' /\ Decided'
  <2>1. UNCHANGED <<rows, gates, now, freshYes>> /\ pending = {}
    BY <1>1 DEF SubmitDecision, Quiet, OneByOne
  <2>2. Invited'
    BY <2>1, <1>1 DEF SubmitDecision, Invited
  <2> QED BY <2>1, <2>2, <1>h, <1>d
<1>2. ASSUME NEW a \in Approvers, InsertDecision(a) PROVE Invited' /\ HistoryTellsStatus' /\ Decided'
  <2>1. PICK d \in pending :
          /\ d.by = a
          /\ pending' = pending \ {d}
          /\ IF d.issue \in live
             THEN /\ decision' = [decision EXCEPT ![d.issue][d.gate][a] =
                                    [verdict |-> d.verdict, at |-> now]]
                  /\ freshYes' = IF d.verdict = "approved"
                                 THEN [freshYes EXCEPT ![d.issue] = @ \cup {<<d.gate, a>>}]
                                 ELSE freshYes
             ELSE UNCHANGED <<decision, freshYes>>
          /\ UNCHANGED <<rows, ruled, ruleAt, now, pc, req>>
    BY <1>2 DEF InsertDecision
  <2>2. Invited' /\ HistoryTellsStatus'
    BY <2>1, <1>s, <1>h DEF Invited
  <2>3. d.issue \in Issues /\ d.gate \in Gates /\ (d.gate \in ruled => a \in Eligible)
    BY <2>1, <1>t, <1>s DEF Invited
  <2>4. CASE d.issue \in live
    <3>1. decision' = [decision EXCEPT ![d.issue][d.gate][a] = [verdict |-> d.verdict, at |-> now]]
      BY <2>1, <2>4
    <3>2. decision'[d.issue][d.gate][a] = [verdict |-> d.verdict, at |-> now]
      BY <3>1, <2>3, <1>t
    <3>3. \A j \in Issues, g \in Gates, b \in Approvers :
            <<j, g, b>> # <<d.issue, d.gate, a>> => decision'[j][g][b] = decision[j][g][b]
      BY <3>1, <2>3, <1>t
    <3>4. ASSUME NEW j \in Issues PROVE freshYes[j] \subseteq freshYes'[j]
      <4>1. freshYes' = freshYes \/ freshYes' = [freshYes EXCEPT ![d.issue] = @ \cup {<<d.gate, a>>}]
        BY <2>1, <2>4
      <4>2. CASE freshYes' = freshYes
        BY <4>2
      <4>3. CASE freshYes' = [freshYes EXCEPT ![d.issue] = @ \cup {<<d.gate, a>>}]
        BY <4>3, <2>3, <1>t
      <4> QED BY <4>1, <4>2, <4>3
    <3>5. d.verdict = "approved" => <<d.gate, a>> \in freshYes'[d.issue]
      BY <2>1, <2>3, <2>4, <1>t
    <3>6. ASSUME NEW j \in Issues, NEW g \in Gates, NEW b \in Approvers
          PROVE  /\ decision'[j][g][b].at <= now'
                 /\ /\ decision'[j][g][b].verdict = "approved"
                    /\ decision'[j][g][b].at >= lastChange'[j]
                    => <<g, b>> \in freshYes'[j]
                 /\ /\ decision'[j][g][b].verdict # "none"
                    /\ g \in ruled'
                    /\ decision'[j][g][b].at >= ruleAt'[g]
                    => b \in Eligible
      <4>1. UNCHANGED <<now, lastChange, ruled, ruleAt>>
        BY <2>1
      <4>2. CASE <<j, g, b>> = <<d.issue, d.gate, a>>
        <5>1. j = d.issue /\ g = d.gate /\ b = a /\ decision'[j][g][b].verdict = d.verdict
              /\ decision'[j][g][b].at = now
          BY <4>2, <3>2
        <5> QED BY <5>1, <4>1, <3>5, <2>3, <1>t
      <4>3. CASE <<j, g, b>> # <<d.issue, d.gate, a>>
        <5>1. decision'[j][g][b] = decision[j][g][b]
          BY <4>3, <3>3
        <5> QED BY <5>1, <4>1, <3>4, <1>m, <1>s DEF Decided
      <4> QED BY <4>2, <4>3
    <3> QED BY <2>2, <3>6 DEF Decided
  <2>5. CASE d.issue \notin live
    BY <2>1, <2>2, <2>5, <1>d
  <2> QED BY <2>4, <2>5
<1>3. ASSUME NEW g \in Gates, CreateRule(g) PROVE Invited' /\ HistoryTellsStatus' /\ Decided'
  <2>1. /\ UNCHANGED <<rows, decision, pending, freshYes>> /\ pending = {}
        /\ ruled' = ruled \cup {g} /\ now' = now + 1 /\ ruleAt' = [ruleAt EXCEPT ![g] = now + 1]
    BY <1>3 DEF CreateRule, Quiet, OneByOne
  <2>2. Invited' /\ HistoryTellsStatus'
    BY <2>1, <1>h DEF Invited
  <2>3. ASSUME NEW j \in Issues, NEW h \in Gates, NEW b \in Approvers
        PROVE  /\ decision[j][h][b].at <= now'
               /\ /\ decision[j][h][b].verdict = "approved"
                  /\ decision[j][h][b].at >= lastChange[j]
                  => <<h, b>> \in freshYes[j]
               /\ /\ decision[j][h][b].verdict # "none"
                  /\ h \in ruled'
                  /\ decision[j][h][b].at >= ruleAt'[h]
                  => b \in Eligible
    <3>1. decision[j][h][b].at \in Nat
      BY <1>t
    <3>2. decision[j][h][b].at <= now
      BY <1>s DEF Decided
    <3>3. ruleAt'[g] = now + 1 /\ (h # g => ruleAt'[h] = ruleAt[h] /\ (h \in ruled' => h \in ruled))
      BY <2>1, <1>t
    <3>4. decision[j][h][b].at <= now' /\ (decision[j][h][b].at >= ruleAt'[h] => h # g)
      BY <2>1, <3>1, <3>2, <3>3, <1>t
    <3> QED BY <3>3, <3>4, <1>m, <1>s DEF Decided
  <2> QED BY <2>1, <2>2, <2>3 DEF Decided
<1>4. ASSUME NEW g \in Gates, DeleteRule(g) PROVE Invited' /\ HistoryTellsStatus' /\ Decided'
  <2>1. UNCHANGED <<rows, ruleAt, decision, now, pending, freshYes>> /\ ruled' \subseteq ruled
    BY <1>4 DEF DeleteRule
  <2> QED BY <2>1, <1>h, <1>d, <1>s DEF Invited
<1>5. ASSUME NEW i \in Issues, DeleteIssue(i) PROVE Invited' /\ HistoryTellsStatus' /\ Decided'
  <2>1. UNCHANGED <<status, lastChange, lastTo, gates, now, pending, freshYes>> /\ live' \subseteq live
    BY <1>5 DEF DeleteIssue
  <2> QED BY <2>1, <1>h, <1>d, <1>s DEF Invited
<1>6. ASSUME NEW i \in Issues, NEW s \in Statuses, CreateSubtask(i, s)
      PROVE  Invited' /\ HistoryTellsStatus' /\ Decided'
  <2>1. /\ UNCHANGED <<lastChange, gates, now, pending, freshYes>>
        /\ live' = live \cup {i} /\ status' = [status EXCEPT ![i] = s] /\ lastTo' = [lastTo EXCEPT ![i] = s]
    BY <1>6 DEF CreateSubtask
  <2>2. HistoryTellsStatus'
    BY <2>1, <1>s, <1>t DEF HistoryTellsStatus
  <2> QED BY <2>1, <2>2, <1>d, <1>s DEF Invited
<1>7. CASE Crash \/ \E i \in Issues, s \in Statuses : Bypass(i, s)
  BY <1>7 DEF Crash, Bypass, OneByOne
<1> QED BY <1>o, <1>1, <1>2, <1>3, <1>4, <1>5, <1>6, <1>7 DEF Others

\* One handler at a time, SerialInv holds in every state.
THEOREM SerialInvariant ==
  ASSUME OneByOne
  PROVE  Spec => []SerialInv
<1>1. Init => SerialInv
  <2> SUFFICES ASSUME Init PROVE SerialInv
    OBVIOUS
  <2>1. \A r \in Requests : pc[r] = "idle" /\ pc[r] \in Idle
    BY DEF Init, Idle
  <2>2. Decided
    <3>1. \A i \in Issues, g \in Gates, a \in Approvers : decision[i][g][a] = NoDecision
      BY DEF Init
    <3>2. \A i \in Issues, g \in Gates, a \in Approvers :
            decision[i][g][a].verdict = "none" /\ decision[i][g][a].at = 0
      BY <3>1 DEF NoDecision
    <3>3. now = 0
      BY DEF Init
    <3> QED BY <3>2, <3>3 DEF Decided
  <2>3. OneRequest /\ Invited /\ \A r \in Requests : Stands(r)
    BY <2>1 DEF Init, OneRequest, Invited, Stands, Running
  <2>4. HistoryTellsStatus
    BY ConfigAssumption DEF Init, HistoryTellsStatus
  <2> QED BY <2>2, <2>3, <2>4 DEF SerialInv
<1>2. TypeOK /\ TypeOK' /\ GateInv /\ SerialInv /\ [Next]_vars => SerialInv'
  <2> SUFFICES ASSUME TypeOK, TypeOK', GateInv, SerialInv, [Next]_vars PROVE SerialInv'
    OBVIOUS
  <2>1. ASSUME NEW r \in Requests, Serve(r) PROVE SerialInv'
    <3>1. Stands(r)' /\ HistoryTellsStatus' /\ Decided'
      BY <2>1, StandsServed, ServeKeeps
    <3>2. pending' = {} /\ \A q \in Requests \ {r} : pc'[q] \in Idle
      BY <2>1, Alone DEF SerialInv
    <3>3. OneRequest' /\ Invited' /\ \A q \in Requests \ {r} : Stands(q)'
      BY <3>2 DEF OneRequest, Invited, Stands, Running, Idle
    <3> QED BY <3>1, <3>3 DEF SerialInv
  <2>2. CASE Others
    <3>1. \A r \in Requests : pc'[r] \in Idle
      BY <2>2, OthersAlone DEF SerialInv
    <3>2. \A r \in Requests : Stands(r)'
      BY <3>1 DEF Stands, Running, Idle
    <3> QED BY <2>2, <3>2, OthersKeep DEF SerialInv, GateInv
  <2>3. CASE UNCHANGED vars
    <3>1. /\ UNCHANGED <<live, status, lastChange, lastTo, ruled, ruleAt, decision, now, pc, req>>
          /\ UNCHANGED <<pending, freshYes>>
      BY <2>3 DEF vars, rows, gates
    <3>2. ASSUME NEW r \in Requests PROVE Stands(r)'
      <4>1. /\ Yes(r)' = Yes(r) /\ Kids(r)' = Kids(r) /\ Gate(r)' = Gate(r) /\ Gated(r)' = Gated(r)
            /\ Floor(req[r].issue, Gate(r))' = Floor(req[r].issue, Gate(r))
            /\ Running(r)' = Running(r)
        BY <3>1 DEF Running, Gated, Gate, Floor, Later, Yes, Standing, Kids, OpenSubtasks
      <4> QED BY <3>1, <4>1 DEF SerialInv, Stands, IsTransitionAllowed
    <3>3. OneRequest' /\ Invited' /\ HistoryTellsStatus'
      BY <3>1 DEF SerialInv, OneRequest, Invited, HistoryTellsStatus
    <3>4. Decided'
      BY <3>1 DEF SerialInv, Decided, Moving
    <3> QED BY <3>2, <3>3, <3>4 DEF SerialInv
  <2> QED BY <2>1, <2>2, <2>3 DEF Next
<1> QED BY <1>1, <1>2, TypeCorrect, GateInvariant, PTL DEF Spec

\* Between requests the newest history row of an issue names its status.
THEOREM HistoryTold ==
  ASSUME OneByOne
  PROVE  Spec => []HistoryTellsStatus
<1>1. SerialInv => HistoryTellsStatus
  BY DEF SerialInv
<1> QED BY <1>1, SerialInvariant, PTL

\* What a move over a rule rests on at the instant it is written: the people whose
\* approvals stand are eligible, approved since the issue entered its status,
\* and were seen by the history variable.
LEMMA MoveBacked ==
  ASSUME OneByOne, TypeOK, GateInv, SerialInv, NEW r \in Requests, Writes(r), req[r].gated
  PROVE  /\ Cardinality({a \in Approvers : <<Gate(r), a>> \in freshYes[req[r].issue]}) >= Required
         /\ Cardinality(backers[r] \cap Eligible) >= Required
<1> DEFINE i == req[r].issue
           g == Gate(r)
<1>1. pc[r] = "write" /\ Running(r) /\ i \in Issues
  BY DEF Writes, Running, TypeOK, HandlersOK, Steps
<1>2. Gated(r) /\ Cardinality(Yes(r)) >= Required
  BY <1>1 DEF SerialInv, Stands
<1>3. g \in ruled /\ g \in Gates
  BY <1>2 DEF Gated, TypeOK, GatesOK
<1>4. Yes(r) = Standing(i, g, Floor(i, g), "approved")
  BY <1>2 DEF Yes
<1>5. ~Moving(i)
  BY <1>1 DEF SerialInv, OneRequest, Moving, Idle
<1>6. lastChange[i] <= Floor(i, g) /\ ruleAt[g] <= Floor(i, g) /\ Floor(i, g) \in Nat
      /\ lastChange[i] \in Nat /\ ruleAt[g] \in Nat
  BY <1>1, <1>3 DEF Floor, Later, TypeOK, RowsOK, GatesOK
<1>7. ASSUME NEW a \in Yes(r) PROVE <<g, a>> \in freshYes[i] /\ a \in Eligible
  <2>1. /\ a \in Approvers /\ decision[i][g][a].verdict = "approved"
        /\ decision[i][g][a].at >= Floor(i, g)
    BY <1>4 DEF Standing
  <2>2. decision \in [Issues -> [Gates -> [Approvers -> [verdict : Verdicts \cup {"none"}, at : Nat]]]]
    BY DEF TypeOK, GatesOK
  <2>3. decision[i][g][a].at \in Nat
    BY <2>1, <2>2, <1>1, <1>3
  <2>4. decision[i][g][a].at >= lastChange[i] /\ decision[i][g][a].at >= ruleAt[g]
    BY <2>1, <2>3, <1>6
  <2> QED BY <2>1, <2>4, <1>1, <1>3, <1>5 DEF SerialInv, Decided
<1>8. Yes(r) \subseteq backers[r] /\ Yes(r) \subseteq Approvers
  BY <1>1, <1>4 DEF GateInv, Covered, Standing
<1>9. Yes(r) \subseteq {a \in Approvers : <<g, a>> \in freshYes[i]} /\ Yes(r) \subseteq backers[r] \cap Eligible
  BY <1>7, <1>8
<1>10. backers[r] \cap Eligible \in SUBSET Approvers
  BY ConfigAssumption
<1> QED BY <1>2, <1>8, <1>9, <1>10, QuorumGrows

\* One at a time, every status change is a step of the workflow, backed by the
\* quorum its rule demands, and closes no parent with open sub-tasks.
THEOREM MovesStaySound ==
  ASSUME OneByOne
  PROVE  Spec => MovesSound
<1>1. TypeOK /\ SerialInv /\ [Next]_vars =>
        [\A i \in live :
           /\ status'[i] # status[i] => IsTransitionAllowed(status[i], status'[i])
           /\ status'[i] = Done /\ status[i] # Done => OpenSubtasks(i) = {}]_vars
  <2> SUFFICES ASSUME TypeOK, SerialInv, Next, NEW i \in live, status'[i] # status[i]
               PROVE  /\ IsTransitionAllowed(status[i], status'[i])
                      /\ status'[i] = Done => OpenSubtasks(i) = {}
    OBVIOUS
  <2>t. status \in [Issues -> Statuses] /\ live \subseteq Issues
    BY DEF TypeOK, RowsOK
  <2>1. PICK r \in Requests : Serve(r) /\ WriteStatus(r)
    <3>1. CASE Others
      <4>1. PICK k \in Issues, s \in Statuses : CreateSubtask(k, s)
        BY <3>1 DEF Others, SubmitDecision, InsertDecision, CreateRule, DeleteRule, rows,
           DeleteIssue, Bypass, Crash, OneByOne
      <4> QED BY <4>1, <2>t DEF CreateSubtask
    <3>2. CASE \E r \in Requests : Serve(r)
      <4>1. PICK r \in Requests : Serve(r)
        BY <3>2
      <4>2. ~RecordHistory(r)
        BY DEF RecordHistory
      <4> QED BY <4>1, <4>2, OnlyWrites
    <3> QED BY <3>1, <3>2 DEF Next
  <2>2. pc[r] = "write" /\ Running(r) /\ Stands(r)
    BY <2>1 DEF WriteStatus, Running, SerialInv
  <2>3. req[r].issue \in live /\ SetStatus(req[r].issue, req[r].to)
    BY <2>1, <2>2 DEF WriteStatus, Stands
  <2>4. i = req[r].issue /\ status'[i] = req[r].to
    BY <2>3, <2>t DEF SetStatus
  <2> QED BY <2>2, <2>4 DEF Stands, Kids
<1>2. TypeOK /\ GateInv /\ SerialInv =>
        [\A r \in Requests : Writes(r) /\ req[r].gated =>
           /\ Cardinality({a \in Approvers : <<Gate(r), a>> \in freshYes[req[r].issue]}) >= Required
           /\ Cardinality(backers[r] \cap Eligible) >= Required]_vars
  BY MoveBacked
<1>3. TypeOK /\ SerialInv /\ [Next]_vars =>
        [\A i \in live :
           status'[i] # status[i] => IsTransitionAllowed(status[i], status'[i])]_vars
  BY <1>1
<1>4. TypeOK /\ SerialInv /\ [Next]_vars =>
        [\A i \in live : status'[i] = Done /\ status[i] # Done => OpenSubtasks(i) = {}]_vars
  BY <1>1
<1>5. TypeOK /\ GateInv /\ SerialInv =>
        [\A r \in Requests : Writes(r) /\ req[r].gated =>
           Cardinality({a \in Approvers : <<Gate(r), a>> \in freshYes[req[r].issue]}) >= Required]_vars
  BY <1>2
<1>6. TypeOK /\ GateInv /\ SerialInv =>
        [\A r \in Requests : Writes(r) /\ req[r].gated =>
           Cardinality(backers[r] \cap Eligible) >= Required]_vars
  BY <1>2
<1> QED BY <1>3, <1>4, <1>5, <1>6, TypeCorrect, GateInvariant, SerialInvariant, PTL
        DEF Spec, MovesSound, WorkflowRespected, ClosesClean, FreshQuorum, EligibleQuorum
=============================================================================
