--------------------------- MODULE WorkflowConfig ---------------------------
(***************************************************************************)
(* The workflow of one project: its statuses, the transitions between them *)
(* and its named workflows, as routes/issueConfig.js,                      *)
(* workflowTransitions.js and workflowDefinitions.js edit them, as         *)
(* services/workflowSeed.js seeds them for a new project and at boot, and  *)
(* as initDb repairs them.  None of the tables has a unique index, and no  *)
(* handler a transaction: every statement is a step.                       *)
(*                                                                         *)
(* A project without statuses of its own shows the global ones.  Colours,  *)
(* positions, validators and initial statuses are left out.                *)
(***************************************************************************)
EXTENDS Integers, FiniteSets, Sequences, SequencesExt

CONSTANTS
  Operators,     \* slots for the requests in progress
  Changes,       \* requests of a behaviour whose requests come one at a time
  ChangesAtOnce  \* requests of one in which they overlap

ASSUME WorkflowConfigAssumption == Changes \in Nat /\ ChangesAtOnce \in Nat /\ Operators # {}

VARIABLES
  up,         \* "down", "boot" or "up"
  made,       \* the project is there
  own,        \* issue_statuses of the project: rows [id, name]
  lastOwn,    \* the id handed out last
  edge,       \* workflow_transitions: how many rows have these ends
  flow,       \* project_workflows: rows [id, name, default, cancel, want, patched]
  lastFlow,   \* the id handed out last
  at,         \* the status the issues of the project are in
  op,         \* the requests in progress
  changed,    \* requests begun so far
  kept,       \* history variable: what the project showed and nobody deleted in due form, or renamed
  loose,      \* history variable: ends of transitions that were never looked up, or renamed
  torn,       \* history variable: a crash cut the copying of the global statuses short
  tidy        \* history variable: no two requests overlapped, and no crash cut one short

configVars == <<up, made, own, lastOwn, edge, flow, lastFlow, at, op, changed, kept, loose, torn, tidy>>

\* One status stands for those of both lists (To Do, Done), one for those of the
\* global list only (Code Review), one for those of the template only (Cancelled).
Globals == <<"both", "global">>
Template == <<"both", "template">>
TemplateEdges == << <<"both", "template">> >>
Listed == {"both", "global", "template"}
Odd == {"global", "template"}     \* what a request may name
Links == {<<"both", "template">>, <<"global", "template">>}
Titles == {"QA", "Own"}
Unsaid == "unsaid"
NoOp == [pc |-> "idle", todo |-> <<>>, next |-> "idle", edges |-> <<>>, id |-> 0, name |-> "QA",
         default |-> Unsaid, cancel |-> Unsaid]
Calm(o) == op[o].pc = "idle"
AllCalm == \A o \in Operators : Calm(o)
OwnNames == {s.name : s \in own}
Effective == IF own = {} THEN ToSet(Globals) ELSE OwnNames
Resolves(e) == ToSet(e) \subseteq Effective
Unless(s, names) == IF s \in names THEN <<>> ELSE <<s>>
Missing(names) == Unless(Template[1], names) \o Unless(Template[2], names)   \* of the template
Yes(said) == said = "yes"
Said(said, was) == IF said = Unsaid THEN was ELSE Yes(said)

ConfigInit ==
  /\ up = "down" /\ made \in BOOLEAN
  /\ own = {} /\ lastOwn = 0
  /\ edge = [e \in Links |-> 0]
  /\ flow = {} /\ lastFlow = 0
  /\ at = "both"
  /\ op = [o \in Operators |-> NoOp] /\ changed = 0
  /\ kept = ToSet(Globals) /\ loose = {} /\ torn = FALSE /\ tidy = TRUE

Counts == changed < (IF tidy' THEN Changes ELSE ChangesAtOnce) /\ changed' = changed + 1
Begins(o, q) ==
  /\ up = "up" /\ made
  /\ o = CHOOSE p \in Operators : Calm(p) \/ \A r \in Operators : ~Calm(r)
  /\ Calm(o)
  /\ tidy' = (tidy /\ AllCalm)
  /\ Counts
  /\ op' = [op EXCEPT ![o] = q]
  /\ UNCHANGED <<up, torn>>
Goes(o, q) == op' = [op EXCEPT ![o] = q] /\ UNCHANGED <<up, made, at, changed, torn, tidy>>
In(o, pc) == op[o].pc = pc
To(o, pc) == Goes(o, [op[o] EXCEPT !.pc = pc])
Finish(o) == Goes(o, NoOp)
StatusesAsWere == UNCHANGED <<own, lastOwn, kept>>
EdgesAsWere == UNCHANGED <<edge, loose>>
FlowsAsWere == UNCHANGED <<flow, lastFlow>>

(***************************************************************************)
(* What adds: statuses first, transitions next, the named workflow last.   *)
(***************************************************************************)
\* POST /projects inserts the row and goes on to seedDefaultWorkflow.
MakeProject(o) ==
  /\ up = "up" /\ ~made /\ Calm(o)
  /\ made' = TRUE
  /\ op' = [op EXCEPT ![o] = [NoOp EXCEPT !.pc = "seed"]]
  /\ UNCHANGED tidy /\ Counts
  /\ UNCHANGED <<up, at, torn>>
  /\ StatusesAsWere /\ EdgesAsWere /\ FlowsAsWere

\* materializeProjectStatuses, read at the start of what it precedes: a project
\* without statuses of its own gets a copy of the global ones, row by row.
Copying(next) == [NoOp EXCEPT !.pc = "copy", !.todo = IF own = {} THEN Globals ELSE <<>>, !.next = next]

PostStatus(o) == \E s \in Odd :
  /\ Begins(o, [Copying("new") EXCEPT !.name = s])
  /\ UNCHANGED <<made, at>> /\ StatusesAsWere /\ EdgesAsWere /\ FlowsAsWere
\* ... a name that is taken by now ends it.
NewStatus(o) ==
  /\ In(o, "new")
  /\ IF op[o].name \in OwnNames THEN Finish(o)
     ELSE Goes(o, [op[o] EXCEPT !.pc = "copy", !.todo = <<op[o].name>>, !.next = "idle"])
  /\ StatusesAsWere /\ EdgesAsWere /\ FlowsAsWere

\* apply-template, and POST /workflow-definitions with what it says: its
\* statuses and transitions, or that it is the default, or that all may be cancelled.
ApplyTemplate(o) ==
  /\ Begins(o, [Copying("look") EXCEPT !.edges = TemplateEdges, !.default = "yes", !.cancel = "yes"])
  /\ UNCHANGED <<made, at>> /\ StatusesAsWere /\ EdgesAsWere /\ FlowsAsWere
PostWorkflow(o) == \E n \in Titles, E \in {<<>>, << <<"global", "template">> >>}, said \in {"default", "cancel"} :
  /\ Begins(o, [IF E = <<>> THEN [NoOp EXCEPT !.pc = "edge"] ELSE Copying("look")
                EXCEPT !.edges = E, !.name = n, !.default = IF said = "default" THEN "yes" ELSE Unsaid,
                       !.cancel = IF said = "cancel" THEN "yes" ELSE Unsaid])
  /\ loose' = loose \cup {e \in ToSet(E) : ~Resolves(e)}
  /\ UNCHANGED <<made, at, edge>> /\ StatusesAsWere /\ FlowsAsWere

\* seedDefaultWorkflow: nothing if there is a workflow; the statuses are read
\* once, before the copies.
Seed(o) ==
  /\ In(o, "seed")
  /\ IF flow # {} THEN Finish(o) ELSE To(o, "own")
  /\ StatusesAsWere /\ EdgesAsWere /\ FlowsAsWere
SeedStatuses(o) == LET copies == IF own = {} THEN Globals ELSE <<>> IN
  /\ In(o, "own")
  /\ Goes(o, [op[o] EXCEPT !.pc = "copy", !.next = "edge", !.edges = TemplateEdges,
                 !.default = "seeded", !.cancel = "yes",
                 !.todo = copies \o Missing(OwnNames \cup ToSet(copies))])
  /\ StatusesAsWere /\ EdgesAsWere /\ FlowsAsWere

Copy(o) == LET q == op[o] IN
  /\ In(o, "copy")
  /\ IF q.todo = <<>> THEN To(o, q.next) /\ StatusesAsWere
     ELSE /\ Goes(o, [q EXCEPT !.todo = Tail(@)])
          /\ lastOwn' = lastOwn + 1
          /\ own' = own \cup {[id |-> lastOwn', name |-> Head(q.todo)]}
          /\ kept' = kept \cup {Head(q.todo)}
  /\ EdgesAsWere /\ FlowsAsWere
\* ensureStatuses reads the statuses again after the copies.
Look(o) ==
  /\ In(o, "look")
  /\ Goes(o, [op[o] EXCEPT !.pc = "copy", !.todo = Missing(OwnNames), !.next = "edge"])
  /\ StatusesAsWere /\ EdgesAsWere /\ FlowsAsWere

\* ensureTransitions: each transition unless there is one.
LookAtEdge(o) == LET q == op[o] IN
  /\ In(o, "edge")
  /\ IF q.edges = <<>> THEN To(o, IF q.default = "seeded" THEN "insert" ELSE "meta")
     ELSE IF edge[Head(q.edges)] > 0 THEN Goes(o, [q EXCEPT !.edges = Tail(@)])
     ELSE To(o, "rule")
  /\ StatusesAsWere /\ EdgesAsWere /\ FlowsAsWere
AddEdge(o) == LET q == op[o] IN
  /\ q.pc \in {"rule", "add"}
  /\ IF q.pc = "add" THEN Finish(o) ELSE Goes(o, [q EXCEPT !.pc = "edge", !.edges = Tail(@)])
  /\ edge' = [edge EXCEPT ![Head(q.edges)] = @ + 1]
  /\ UNCHANGED loose /\ StatusesAsWere /\ FlowsAsWere

\* POST /workflow-transitions: both ends must be shown, and no row have them.
PostEdge(o) == \E e \in Links :
  /\ Resolves(e)
  /\ Begins(o, [NoOp EXCEPT !.pc = "dup", !.edges = <<e>>])
  /\ UNCHANGED <<made, at>> /\ StatusesAsWere /\ EdgesAsWere /\ FlowsAsWere
LookForDup(o) ==
  /\ In(o, "dup")
  /\ IF edge[Head(op[o].edges)] > 0 THEN Finish(o) ELSE To(o, "add")
  /\ StatusesAsWere /\ EdgesAsWere /\ FlowsAsWere

\* upsertWorkflowMeta: a new default first takes the flag from the others; then
\* the workflow of that name is written, or a new one inserted.
NoDefault == {[f EXCEPT !.default = FALSE] : f \in flow}
ClearDefaults(o) == LET q == op[o] IN
  /\ q.pc \in {"meta", "clear"}
  /\ To(o, IF q.pc = "clear" THEN "update" ELSE "find")
  /\ flow' = IF Yes(q.default) THEN NoDefault ELSE flow
  /\ UNCHANGED lastFlow /\ StatusesAsWere /\ EdgesAsWere
FindFlow(o) ==
  /\ In(o, "find")
  /\ IF \A f \in flow : f.name # op[o].name THEN To(o, "insert")
     ELSE \E f \in {g \in flow : g.name = op[o].name} : Goes(o, [op[o] EXCEPT !.pc = "update", !.id = f.id])
  /\ StatusesAsWere /\ EdgesAsWere /\ FlowsAsWere
\* What the request does not say stays as it is (JL-331).
WriteFlow(o) == LET q == op[o] IN
  /\ In(o, "update") /\ Finish(o)
  /\ flow' = {IF f.id # q.id THEN f
              ELSE [f EXCEPT !.default = Said(q.default, @), !.cancel = Said(q.cancel, @), !.want = Said(q.cancel, @),
                             !.patched = @ \/ q.name # f.name, !.name = q.name] : f \in flow}
  /\ UNCHANGED lastFlow /\ StatusesAsWere /\ EdgesAsWere
InsertFlow(o) == LET q == op[o] IN
  /\ In(o, "insert") /\ Finish(o)
  /\ lastFlow' = lastFlow + 1
  /\ flow' = flow \cup {[id |-> lastFlow', name |-> q.name, default |-> q.default \in {"yes", "seeded"},
                         cancel |-> Yes(q.cancel), want |-> Yes(q.cancel), patched |-> FALSE]}
  /\ StatusesAsWere /\ EdgesAsWere

(***************************************************************************)
(* What changes and deletes.                                               *)
(***************************************************************************)
\* PATCH /workflow-definitions/:id: the row is read, and written by id.
PatchFlow(o) == \E f \in flow, n \in Titles, d, c \in {Unsaid, "yes", "no"} :
  /\ Unsaid \in {d, c}
  /\ Begins(o, [NoOp EXCEPT !.pc = IF Yes(d) THEN "clear" ELSE "update", !.id = f.id, !.name = n,
                            !.default = d, !.cancel = c])
  /\ UNCHANGED <<made, at>> /\ StatusesAsWere /\ EdgesAsWere /\ FlowsAsWere
DeleteFlow(o) == \E f \in flow :
  /\ Begins(o, NoOp)
  /\ flow' = flow \ {f}
  /\ UNCHANGED <<made, at, lastFlow>> /\ StatusesAsWere /\ EdgesAsWere
DeleteEdge(o) == \E e \in Links :
  /\ edge[e] > 0
  /\ Begins(o, NoOp)
  /\ edge' = [edge EXCEPT ![e] = @ - 1]
  /\ UNCHANGED <<made, at, loose>> /\ StatusesAsWere /\ FlowsAsWere

\* PUT /statuses/:id looks neither for the new name nor for who uses the old one.
RenameStatus(o) == \E s \in own, n \in Odd :
  /\ s.name # n
  /\ Begins(o, NoOp)
  /\ own' = (own \ {s}) \cup {[s EXCEPT !.name = n]}
  /\ kept' = (kept \ {s.name}) \cup {n}
  /\ loose' = loose \cup {e \in Links : s.name \in ToSet(e)}
  /\ UNCHANGED <<made, at, lastOwn, edge>> /\ FlowsAsWere

\* DELETE /statuses/:id: refused while issues are in it; its transitions go first.
DeleteStatus(o) == \E s \in own :
  /\ Begins(o, [NoOp EXCEPT !.pc = "held", !.id = s.id, !.name = s.name])
  /\ UNCHANGED <<made, at>> /\ StatusesAsWere /\ EdgesAsWere /\ FlowsAsWere
LookForIssues(o) ==
  /\ In(o, "held")
  /\ IF at = op[o].name THEN Finish(o) ELSE To(o, "unlink")
  /\ StatusesAsWere /\ EdgesAsWere /\ FlowsAsWere
Unlink(o) ==
  /\ In(o, "unlink") /\ To(o, "remove")
  /\ edge' = [e \in Links |-> IF op[o].name \in ToSet(e) THEN 0 ELSE edge[e]]
  /\ UNCHANGED loose /\ StatusesAsWere /\ FlowsAsWere
RemoveStatus(o) ==
  /\ In(o, "remove") /\ Finish(o)
  /\ own' = {s \in own : s.id # op[o].id}
  /\ LET gone == {s.name : s \in {r \in own : r.id = op[o].id}} IN kept' = kept \ IF tidy THEN gone \ {at} ELSE gone
  /\ UNCHANGED lastOwn /\ EdgesAsWere /\ FlowsAsWere

\* The issues move on, to any status there is: IssueTransition has the rules.
MoveIssues == \E s \in {"both", "global"} \ {at} :
  /\ up = "up" /\ made /\ at' = s
  /\ tidy' = (tidy /\ AllCalm) /\ Counts
  /\ UNCHANGED <<up, made, op, torn>> /\ StatusesAsWere /\ EdgesAsWere /\ FlowsAsWere

(***************************************************************************)
(* The process stops at any point, and boots.                              *)
(***************************************************************************)
Stop ==
  /\ up # "down" /\ up' = "down"
  /\ op' = [o \in Operators |-> NoOp]
  /\ torn' = (torn \/ \E o \in Operators : In(o, "copy") /\ own # {} /\ ~(ToSet(Globals) \cap kept \subseteq OwnNames))
  /\ tidy' = (tidy /\ AllCalm) /\ Counts
  /\ UNCHANGED <<made, at>> /\ StatusesAsWere /\ EdgesAsWere /\ FlowsAsWere

\* initDb: cancelling is turned on again for the template's workflow, one row is
\* left of each name, the default or else the newest, and transitions to
\* statuses that neither the project nor the global list has are dropped; then
\* the backfill, before the server listens.
Newest(f) == \A g \in flow : g.name = f.name => (f.default /\ ~g.default) \/ (f.default = g.default /\ g.id <= f.id)
\* mutated: the backfill is left for later
BootUnseeded ==
  /\ up = "down" /\ up' = "boot"
  /\ flow' = {[f EXCEPT !.cancel = @ \/ (f.name = "QA" /\ "template" \in OwnNames)] : f \in {g \in flow : Newest(g)}}
  /\ edge' = [e \in Links |-> IF ToSet(e) \subseteq OwnNames \cup ToSet(Globals) THEN edge[e] ELSE 0]
  /\ UNCHANGED <<made, lastFlow, at, op, changed, loose, torn, tidy>> /\ StatusesAsWere
Boot ==
  /\ up = "down" /\ up' = "boot"
  /\ flow' = {[f EXCEPT !.cancel = @ \/ (f.name = "QA" /\ "template" \in OwnNames)] : f \in {g \in flow : Newest(g)}}
  /\ edge' = [e \in Links |-> IF ToSet(e) \subseteq OwnNames \cup ToSet(Globals) THEN edge[e] ELSE 0]
  /\ op' = IF made THEN [op EXCEPT ![CHOOSE o \in Operators : TRUE] = [NoOp EXCEPT !.pc = "seed"]] ELSE op
  /\ UNCHANGED <<made, lastFlow, at, changed, loose, torn, tidy>> /\ StatusesAsWere
Listen ==
  /\ up = "boot" /\ AllCalm /\ up' = "up"
  /\ UNCHANGED <<made, at, op, changed, torn, tidy>> /\ StatusesAsWere /\ EdgesAsWere /\ FlowsAsWere

ConfigNext ==
  \/ \E o \in Operators :
       \/ MakeProject(o) \/ Seed(o) \/ SeedStatuses(o) \/ PostStatus(o) \/ NewStatus(o) \/ Copy(o) \/ Look(o)
       \/ ApplyTemplate(o) \/ PostWorkflow(o) \/ LookAtEdge(o) \/ AddEdge(o) \/ PostEdge(o) \/ LookForDup(o)
       \/ ClearDefaults(o) \/ FindFlow(o) \/ WriteFlow(o) \/ InsertFlow(o) \/ PatchFlow(o) \/ DeleteFlow(o)
       \/ DeleteEdge(o) \/ RenameStatus(o) \/ DeleteStatus(o) \/ LookForIssues(o) \/ Unlink(o) \/ RemoveStatus(o)
  \/ MoveIssues \/ Stop \/ Boot \/ Listen

ConfigSpec == ConfigInit /\ [][ConfigNext]_configVars

-----------------------------------------------------------------------------
\* The type invariant.
ConfigTypeOK ==
  /\ up \in {"down", "boot", "up"} /\ made \in BOOLEAN /\ at \in Listed
  /\ \A s \in own : s.id \in 1..lastOwn /\ s.name \in Listed
  /\ edge \in [Links -> Nat]
  /\ \A f \in flow : f.id \in 1..lastFlow /\ f.name \in Titles /\ {f.default, f.cancel, f.want, f.patched} \subseteq BOOLEAN
  /\ kept \subseteq Listed /\ loose \subseteq Links /\ changed \in 0..Changes \cup 0..ChangesAtOnce

AtRest == up = "up" /\ AllCalm

\* "adding one status no longer hides every other status" (issueConfig.js:176):
\* what a project shows goes on being shown until somebody deletes or renames
\* it, however requests overlap, unless a crash cut the copying short.
NothingVanishes == AtRest /\ ~torn => kept \subseteq Effective

\* No transition outlives the statuses it leads between, but for those that a
\* rename or an unchecked list of transitions left behind.
EdgesResolve == AtRest /\ tidy => \A e \in Links : edge[e] > 0 => e \in loose \/ Resolves(e)

\* One request at a time leaves at most one default, and one workflow of a name
\* that no PATCH gave to two; a workflow that lets every status be cancelled
\* does so until a request says otherwise; and no project is without a workflow
\* when the server begins to listen.
FlowsHold ==
  /\ AtRest /\ tidy => /\ Cardinality({f \in flow : f.default}) <= 1
                       /\ \A f, g \in flow : f.name = g.name /\ f # g => f.patched \/ g.patched
  /\ \A f \in flow : f.want => f.cancel
  /\ up = "boot" /\ AllCalm /\ made => flow # {}

\* The configuration of a project's workflow, over any sequence of edits and boots.
ConfigSound == NothingVanishes /\ EdgesResolve /\ FlowsHold
=============================================================================
