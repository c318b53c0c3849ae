# Verification of ECM-JIRA (JIRA Lite)

TLA+ models of the parts of this repository where several requests, timers,
sockets or crashes meet on the same rows, model-checked with TLC, with the main
results proved for every instance with TLAPS. The code is a single Node process
(Express) over PostgreSQL, with a React single-page application.

The fact everything here rests on: `server/db.js` offers `run`, `get` and `all`,
each one autonomous SQL statement on a pool, and `withTransaction`, which few
handlers use. A handler is therefore a sequence of atomic statements with an
`await` between every two, and any other handler, timer or process may run in
between. PostgreSQL runs at READ COMMITTED, so one statement sees one
committed state.

A second fact shapes the properties. Most checks in this code are a read that
a later statement relies on. What they promise when requests come one at a
time, and what is left of it when they overlap, are two different claims. Every
module says both: history variables (`calm`, `tidy`, `orderly`, `apart`, `single`,
`smooth`, `steady`, `inTurn`, `oneByOne` ...) record that no two requests have
overlapped yet, a property conditioned on one of them holds up to the first
overlap, and a property without one holds through all of them. A step reads
such a variable at most in a guard that bounds the number of requests.

## 1. Inventory

| Component | State | Operations | Hard behaviour | Module |
|---|---|---|---|---|
| Issue status changes (`routes/issues.js`, `services/workflow.js`) | `issues.status`, `issue_history`, keys, parents, epics | `transitionIssueStatus` from `PATCH /:id/status` and bulk; create, clone, import, mail-in, bulk edit, delete | nine statements from read to answer; the write does not look at what the checks saw; key counters drawn in ranges | `IssueTransition`, `IssueTree` |
| Approvals (`services/approvals.js`, `routes/approvals.js`) | `approval_rules`, `approvals` | create and delete rules, decide, evaluate the gate | the gate is read by three statements; decisions expire by a time another table keeps | `IssueTransition` |
| Automation (`services/automation.js`) | `automation_rules` | rules on status change, comment, schedule | rules that trigger each other; writes without history; runs that overtake each other | `IssueTransition`, `ScheduledRules` |
| Audit log (`services/auditLog.js`, `routes/auditLog.js`) | `audit_log`, `audit_checkpoint` | append, verify, purge, export | handlers append without waiting for it; purge and checkpoint are two statements, and the process may die between them | `AuditChain` |
| Sprints (`routes/sprints.js`) | `sprints`, `sprint_scope`, `issues.sprint_id` | create, start, assign to a project, complete, delete | count, then update; completion in two statements | `SprintLifecycle` |
| Invitations and members (`services/invitations.js`, `routes/invitations.js`, `members.js`, `blockedSignups.js`) | `members`, `users.status`, `invitations`, `blocked_signups`, the policy | issue, resend, accept, revoke, sign up, change role, remove, reconcile at boot | revoke, then insert; checks before a transaction; the count of admins | `Membership` |
| Authentication (`routes/auth.js`, `sessions.js`, `middleware/authGuard.js`) | tokens, `user_sessions`, second factor, reset tokens | log in and out, revoke, enable and disable the factor, forget and reset | read, check, write in separate statements | `Sessions`, `PasswordReset` |
| Lockout and rate limit (`middleware/loginLockout.js`, `rateLimit.js`) | maps in memory | gate, record, reset, prune | window edges, a verdict that comes late | `Throttle` |
| Authorization (`middleware/authorize.js`, `routes/projects.js`, `hooks/usePermissions.js`) | `members.role`, `project_members`, `projects.lead_member_id` | gates, listing, roles told to the pages, changes of members and lead | three readers of one rule; a role read before the check that uses it | `Access` |
| Teams (`routes/teams.js`) | `teams`, `team_members`, `team_links` | create, join, leave, invite, change role, link, delete | last lead, cap on links | `Teams` |
| Search (`services/jqlSearch.js`, `routes/issues.js`, `filters.js`) | none | compile a query, scope it, run it | two parsers; placeholders counted by hand | `Search` |
| Workflow editor (`routes/issueConfig.js`, `workflowTransitions.js`, `workflowDefinitions.js`, `services/workflowSeed.js`) | statuses, transitions, named workflows | add, rename, delete, publish, apply a template, seed, repair at boot | copies row by row; no unique index | `WorkflowConfig` |
| Wiki (`routes/wiki.js`, `WikiPageEditor.jsx`) | `wiki_pages`, `wiki_page_versions` | create, save, autosave, publish, restore, trash | publish against edit and delete; a queue of flushes in the browser | `Wiki`, `PageEditor` |
| Documents (`routes/documents.js`, `spaces.js`) | folders, documents, versions, the object store | upload, replace, restore, move, archive, delete | bytes put before rows; two statements of a replacement; quota read before the write | `Documents` |
| Dependencies and roadmaps (`routes/issueLinks.js`, `dependencies.js`, `advancedRoadmap.js`) | `issue_links`, `roadmap_dependencies` | link, unlink, graph, order of epics | two reads of one report; cycles | `Dependencies` |
| Reports (`routes/reports.js`, `services/timeInStatusReport.js`) | read `issue_history` | cumulative flow, time in status, cycle time, created against resolved | two reads at once; a status and its history row are two statements, and changes of one issue overlap | `FlowReports` |
| Scheduler and digests (`services/scheduler.js`, `notificationDigest.js`) | `last_run_at`, `last_digest_sent_at` | a tick every minute | overlapping ticks, a crash between mail and watermark | `Digests`, `ScheduledRules` |
| Webhooks (`routes/webhooks.js`, `services/events.js`) | `webhooks`, `webhook_logs` | fire with retries, replay, test, edit, delete | hooks read once and served from memory; edits meanwhile; restart | `Webhooks`, `Delivery` |
| Realtime (`services/realtime.js`, `realtimeClient.js`, `IssueDetailPage.jsx`) | rooms in memory, sockets, fetches | connect, join, leave, publish, reconnect | what is lost with a connection; answers out of order; writes that nobody publishes | `Realtime` |
| Everything else | rows of their own | single-statement create, read, update, delete; I/O; rendering | | listed in `PROJECT.json` with the reason it is left out |

How they meet: status changes read approvals, sub-tasks and sprints and write
history, which reports read; automation, smart commits and sprint completion
write statuses past them. Projects own the keys of issues, the sprints and the
workflow. Handlers append to the audit log without waiting for it. Some emit an event,
which webhooks carry on; the PATCH of an issue, its status route and the bulk route
also publish to the issue's room on the realtime hub (`issues.js:881`, 1017, 1428).
The end of a sprint, scheduled rules, smart commits and releases write issues and tell
no room. Members decide who logs in and who may
call what. Where two components only meet in a row one of them writes, that
writer is an action of the other's module (`Bypass`, `Place`, `NameSprint`).

What makes each correct is said by the properties of section 3; the hazards they
are aimed at, each at its line, are in `PROJECT.json`.

## 2. Modules

One module per component, three MC modules that hold an instance of one module
each, three that compose several, seven modules of proofs and one of lemmas.

### IssueTransition

| Model | Code |
|---|---|
| `status`, `live`, `Parent` | `issues` rows, `parent_id` (fixed per id, cascading delete) |
| `lastChange`, `lastTo` | `changed_at` and `new_value` of the newest `status` row of `issue_history` |
| `ruled`, `ruleAt` | the gates with a row in `approval_rules` (one rule per gate), its `created_at` |
| `decision` | the latest row of each approver in `approvals`: `collectDecisions` looks at no other |
| `now` | the database clock, ticking on the rows whose time is used as a floor |
| `pc[r]`, `req[r]` | where request `r` is in `transitionIssueStatus` and the locals it carries |
| `pending` | decisions between their role check and their INSERT |

The actions of `Serve(r)` are the statements in their order: read and workflow
check, rule, last change, decisions, sub-tasks, sprint, UPDATE, history,
re-read with activity, rules, answer. `Others` are the decisions, the rules'
creation and deletion, sub-task creation, issue deletion, every status write
that passes by the gate (`Bypass`: smart commits, comment and scheduled rules,
sprint completion and deletion) and a crash of the process. The workflow is a
constant: it is read by one action. History variables
(`stillOpen`, `backers`, `vetoes`, `ungated`, `freshYes`) remember what stood
over the life of a request; no action reads them.

The honest statement of what the gate promises under interleaving is about
instants: a rule in force *throughout* the request, a rejection that stood
*throughout*, a sub-task open *throughout* cannot be overlooked. The stronger
claims in the code's comments hold only when handlers run one at a time
(`Overlap = FALSE`), which `it_serial` shows; section 4 says how they break.

### AuditChain

| Model | Code |
|---|---|
| `log` | rows of `audit_log`; a hash is the tuple of what is hashed, so hashes collide exactly when their inputs agree |
| `checkpoint` | the newest row of `audit_checkpoint` |
| `apc`, `entry` | an append between its statements, the seq and prev_hash it derived |
| `rpc`, `boundary` | a retention request, its cutoff and boundary row |
| `vpc`, `seen`, `verdict` | a verification, the rows it read, its answer |
| `high` | history: the highest seq given out since the numbering began, or began again |
| `torn` | history: a purge that left rows died between its DELETE and its checkpoint, and none has been recorded since |
| `clock` | the server's clock in units longer than an append takes: an append's seq, time and INSERT fall in one unit |

`Overlap` says whether retention and verification interleave with everything or
run with the log for themselves (appends always overlap one another). `Spares`
says whether cutoffs spare the newest row, as a retention of days does on a
log in use. The two switches separate what holds from what does not: with
either one the chain is kept, without both it is not (section 4). Neither keeps the
process from dying: `Crash` may come between any two statements, those of a purge
included. If rows are left by then, they hang on one that no checkpoint names
(`torn`); if none is, the next append starts again at the checkpoint before.
`Anchored`, `LinksVerify` and `SeqAdvances` say what is left of them in that case.
The cap on the rows verification reads is left out. Because of the date text
(`ac_dates`) the answer for a non-empty log is at best `"hash"`, of its first row;
so `LinksVerify` asks more than that answer tells: that every link of the rows read, from the
anchor to the newest, is intact.

### SprintLifecycle

| Model | Code |
|---|---|
| `unused`, `exists`, `home`, `started`, `completed` | `sprints`: ids not handed out, rows, `project_id`, `is_started`, `completed_at IS NOT NULL` |
| `committed`, `added` | rows of `sprint_scope` per sprint and issue, counted apart as the report counts them: `added_at` at or after `start_date` |
| `parallel` | `projects.allow_parallel_sprints` |
| `fresh`, `live`, `status`, `sprintOf`, `ProjectOf` | `issues`: ids not handed out, rows, `status`, `sprint_id`, `project_id` |
| `apc[a]`, `job[a]` | where sprint handler `a` is and the locals it carries |
| `mpc[m]`, `move[m]` | a handler that places an issue: what it read and will write |

`Start(a)`, `Assign(a)` and `Finish(a)` are the statements of start, of
`PATCH /:id` with a project, and of complete and delete. `Place(m)` is what the
seven writers of `sprint_id` have in common: pick a sprint (the issue's own, the
project's default, a named one that fits, a parent's or a source's), then write
it. The two are apart because the statements are. Statements that only
look at rows no handler of the model changes (projects, roles) are left out, and
so are the steps of a status change that do not touch the sprint:
`IssueTransition` has them. `Restart` is the loss of all running handlers and
the backfill. `steady` is a history variable: the issues in a sprint at every
instant since it was marked started.

What holds under every interleaving is about sprints created with a project
(`OwnSprintsFit`): no check can go stale because such a sprint never changes project.
For the shared ones of the time before JL-165, and for the rule that a start asks
about (no other active sprint, `StartsAllowed`), the checks are good only when handlers
run one at a time; section 4 says how they break when handlers overlap. That a project
has one active sprint at most is not even then the case: see there.

### The modules of one component each

| Module | State and code | Actions |
|---|---|---|
| `IssueTree` | `project` (key and issue counter), `issue` (id, key, type, project, parent, epic), `ask` (a handler and what it read) | number drawn (`UPDATE projects SET issue_counter ... RETURNING`), INSERT under the unique index, bulk import with a range of numbers, sub-task, clone, retype, epic, delete with its cascade, project created, renamed, deleted |
| `Membership` | `members`, `login` (`users.status`), `invites`, `blocked`, `policy`, `req` | `issueInvitation` in its two statements with its four callers, `POST /members`, accept (reads and transaction apart), sign-up (login, provision, join, mark), role, removal single and bulk with its three statements per row, suspension, policy, lapse, boot |
| `Sessions` | `status`, `token`, `row` (`user_sessions`), `mfa`, `client` | log in, log out, revoke, expire, set up, enable (read and two writes), disable, deactivate |
| `PasswordReset` | `reset` (tokens), `asks`, `password` | forgot (invalidate, insert), reset (look up, password, mark), lapse, crash |
| `Throttle` | `failures`, `lock`, `bucket`, `attempt` | limiter, gate, verdict, tick; past times are ages |
| `Access` | `wsRole`, `project`, `lead`, `seat`, `call` | load the sender's role, judge by a gate, write; the gates of `authorize.js`, `GET /auth/me` and `usePermissions` are operators |
| `Teams` | `rank`, `team`, `mode`, `roster`, `links`, `turn` | load, check, write of every route of `teams.js` |
| `Search` | a query typed clause by clause, a status, a text, an asker | the compiler, the scope, the filter of hidden issues and the second parser are operators; SQL is a list of fragments with placeholders |
| `WorkflowConfig` | `own`, `edge`, `flow`, `at`, `op`, `made`, `up` | seed, copy row by row, add, rename, delete, template, publish, default, boot with its repairs, crash |
| `Wiki` | `page`, `versions`, `edit`; a text is a title and a body, and a request may send one of them | reads and writes of each route apart, the half that was not sent filled from the row read (PATCH) or by the statement (autosave); publish in a transaction; crash |
| `PageEditor` | the refs and queues of `WikiPageEditor.jsx`, what the server answered | type, timer, flush, create, save, publish, trash, image, failure of any request before or after the server acted |
| `Documents` | `space`, `folder`, `doc`, `revision`, `object`, `paper` | reads of a request, put, each INSERT or UPDATE; archive, delete, halt |
| `Dependencies` | `node`, `links`, `deps`, `seen`, `linker` | link, unlink, dependency, the two reads of the graph; the graph, its cycles and the order of epics are operators |
| `FlowReports` | `lived`, `trail`, `moving` (a change of status per request), `first`, `instant`; `lapsed`: issues whose trail misses a change, tells it late, or had two crossing | make; move in a read, an UPDATE and a history row, of requests that overlap, fail or die in between; move without history; clock; two reads at once; reports are operators |
| `Digests` | `mode`, `age`, `mark`, `note`, `tick` | notify, read, prefer, day, fire, next user, mail, stamp, crash |
| `ScheduledRules` | `rule`, `since`, `run` | minute, fire, take a rule, act on an issue, stamp, edit, crash |
| `Webhooks` | `hook`, `fire`, `replay`, `log` | fire reads the hooks, request, answer, log row, replay, edit, delete, restart |
| `Delivery` | `queue`, `tries`: an abstract promise | start, try, leave |
| `Realtime` | per tab the page, its fetches, the socket; on the server the rooms; messages in both directions as sequences | visit, join, leave, write, publish, fail before that, write without publishing, break, notice, reconnect, ask, answer |

Time where it is compared (`Throttle`, `Digests`, `ScheduledRules`) is kept as ages
that stop counting at the longest length compared with, which makes the state
space finite without bounding the length of a behaviour. Ids are handed out in
order and bounded by constants (`MaxRows`, `MaxInvites`, `MaxProjects` ...);
requests of a behaviour are counted and bounded apart for behaviours that come
one at a time and those in which they overlap.

`MCIssueTransition`, `MCAuditChain` and `MCSprintLifecycle` hold instances and
symmetries of one module. `MCWorkspace`, `MCRecords` and `MCServices` compose
modules that share no state: a behaviour chooses one of them with `scene` or `part`
and the others rest, so that instances are explored one after the other and not
multiplied. Initial states that a resting part would only repeat are fixed.
Some definitions there cut what could make no difference: `LinksAlone` and
`DepsAlone` (links and roadmap dependencies read nothing of each other),
`SomethingToMiss` (a report read after the last change reads what is there),
`FirstVisit` (tabs and issues are alike: one of them comes first), `InTurn` (requests
that change a status are alike: the first that is free begins), `InLine` (so are events and
purges), `LongOnesScoped` (queries of two clauses for every asker, of three for the
member, the one asker whose scope takes a parameter) and `AlikeAtFirst` (a page
begins with one text as its title and its body, and who sends both sends one: two
texts suffice to tell old from new in each part).

## 3. Runs and properties

| Run | Instance | Properties |
|---|---|---|
| `it_approvals` | two requests, two approvers, quorum of two, rules created and deleted, crash | `QuorumBacks`, `RejectionBlocks` |
| `it_subtasks` | a parent and two sub-tasks, deletion, creation, crash, out-of-band writes, two automation rules that undo each other | `TypeOK`, `OpenSubtaskBlocks`, `RequestsEnd` |
| `it_serial` | three requests one at a time | `HistoryTellsStatus`, `MovesSound` |
| `ac_interleaved` | four appends, two purges, a verification and crashes; cutoffs spare the newest row | `OneChain` |
| `sp_interleaved` | a sprint of a project, two sprint handlers, a placing handler, restarts, all interleaving | `TypeOK`, `OwnSprintsFit`, `BaselineCovers` |
| `workspace` | the audit log with purges alone (they may empty it, and die anywhere); sprints one handler at a time, a shared one and one of its own in two projects, one of which allows parallel sprints; access, teams, search | `TypeOK`, `Anchored`, `LinksVerify`, `SeqAdvances`; `Fits`, `SprintRules`; `AccessAgrees`, `AccessHeld`; `TeamsSound`; `Searched`; `WorkspaceTypeOK` |
| `records` | ten parts: members, sessions, resets, wiki, tree, config, documents, links, deps, reports | one property each, `WikiSound` and `ReadersUndisturbed` for the wiki, and `RecordsTypeOK` |
| `services` | six parts: webhooks, digests, rules, throttle, editor, realtime | one property each, and `ServicesTypeOK` |
| `ac_dates`, `sp_late`, `digest_lost`, `bulk_gate` | the findings of section 4 | one each, violated |

What the properties of several parts say:

| Property | Parts |
|---|---|
| `MovesSound` | a move is one the workflow allows; a gated one has fresh approvals of a quorum of eligible people; a parent closes over closed sub-tasks |
| `SprintRules` | a sprint keeps its project, starts next to another active one of its project only as the settings allow (not: a project has one active sprint), leaves no open issue behind |
| `Anchored`, `LinksVerify`, `SeqAdvances` | between purges the oldest row links to the checkpoint, a verification finds every link intact, and a new row takes the next number; after a purge that died before its checkpoint a verification reports the break, until the next checkpoint, and an emptied log goes on from the checkpoint before |
| `AccessHeld` | a project changes only for somebody who had the right to at some instant of the request, however requests overlap; up to the first overlap its last manager stays |
| `AccessAgrees` | listing, roles told to the pages and gates agree |
| `TeamsSound` | a membership changes on grounds its sender had; the last lead stays; links exceed the cap by no more than the number of requests |
| `Searched` | a search returns exactly what was asked for and may be seen; the two parsers agree where both accept |
| `MembershipSound` | one live invitation, one row, one owner per address; logins have rows; owner and last admin stay; who is on the deny-list, or uninvited under `invite_only`, is not let in; an invitation is accepted once |
| `SessionsSound` | the second factor rests on a secret its owner proved; a signed-out session stays out |
| `OneReset` | up to the first overlap a token sets one password and only the newest works |
| `IssuesSound` | keys are given out once and no INSERT is refused, but under a name that serves two projects or project-less issues; families of two levels in one project; an epic is an Epic |
| `WikiSound`, `ReadersUndisturbed` | no page is missing from a tree; the history has no gap and misses no title and no body a save with a version wrote, under any overlap; while requests come one at a time its last version is what readers see, and an autosave does not touch it |
| `ConfigSound` | no status vanishes unasked; transitions lead to statuses that are there, but for those left loose; at most one default workflow, some workflow once the server listens, and cancelling stays allowed until a request says otherwise |
| `DocumentsSound` | the quota holds up to the first overlap, restored versions included; a document is the last of its versions and none of its bytes is lost to them; every folder is reached from the root; deleting a folder does not tip documents into the root |
| `DependenciesSound` | the cycles reported are exactly the sets of issues that block one another; the graph tells what the link lists tell; no link has a mirror; the order of epics respects dependencies and leaves out what hangs on a cycle |
| `ReportsSound` | each report tells what was lived, for issues whose trail is whole: every change recorded, at its instant, and none crossed by another |
| `WebhooksSound` | every hook of a fire that ended has the log row that says how it went, and every fire ends (`Delivers`: it implements `Delivery`) |
| `DigestsSound`, `RulesSound` | a notification is digested at most once while runs do not overlap, and eventually; a rule acts once per interval, and every due rule is served |
| `Throttled` | wrong passwords in a window are at most the maximum and one for each attempt that was past the gate; the limiter lets at most twice its allowance through in any stretch of its window |
| `EditorSound` | one page is made; the server is never set back to older text; an editor that says it is at rest has saved; what is typed reaches the server without another keystroke |
| `Converges` | once everybody stays put, each tab is in the room of its issue alone, names its viewers, and has fetched what was there when its issue was last published, unless it was out of the room then or an old answer came last |

Bounds, and why they are enough. Nearly every action counts, compares or
identifies at most two of a kind, so two of each (requests, approvers, people, projects,
sprints, pages, documents, hooks, ticks, tabs) give every pair of handlers in
every order; three statuses, nodes, tokens, attempts or clauses where one thing must lie
between two others. `IssueTransition` serves each request once, so three
give a move away, a move back and a third: the shortest history that reuses
an old approval. A quorum of two with two approvers makes distinctness matter.
Four events fill a log, empty it and start it again across two purges; three
units of time put rows before, at and after a cutoff. Members take four requests one at
a time (invite, sign up, remove, sign up again is the longest story a property tells) and
three that overlap. `MaxSaves`, `MaxAsks`, `Changes`, `MaxDocAsks`, `MaxCalls` and
`MaxTurns` likewise are one more than the requests it takes to violate the properties when a
check is dropped; each property has such a mutant in `PROJECT.json`. Reports have three changes of one issue by two requests over three instants, two
of them a day: enough for two to cross, with a third before or after.
`Quota = 2` with
files of size 1 is met, and exceeded by one. `MaxHops = 2` and `MaxLift = 3` are past what two
pages or folders can form. Thresholds of time are a few ticks apart, and ages count to the last
of them. Where the proofs of section 5 speak, bounds play no part.

Symmetry is used for sets no handler distinguishes (requests, approvers, people,
addresses, authors, texts, events), and never in a run with a liveness property.
Deadlock checking is off in every run: with all requests served or all ids used
the bounded model stops, as the system does when nobody asks for anything.

Fairness. Weak fairness of steps the process takes by itself:

* a request once begun goes on (`it_subtasks`), because the event loop runs every
  ready continuation and each awaited statement settles (`pg` rejects when a
  connection is lost); requests need not begin;
* a fire goes on (`FireStep`): each attempt ends by an answer, an error or its
  timeout of ten seconds. The timeout is cleared when the headers are in
  (`webhooks.js:516`), so the body is bounded only by the HTTP client's limit on silence:
  a receiver that keeps sending a body without end is assumed away;
* days and minutes pass, an interval fires (`setInterval`), a run goes on
  (`Digests`, `ScheduledRules`);
* the autosave timer fires and the answers of a page's requests, errors included, arrive
  (`PageEditor`);
* messages and fetches on their way arrive, and sockets reopen (`Realtime`, `Carry`).

`MCServices` conjoins them, each under the part it belongs to. No user action,
crash, failure or edit is ever fair.

## 4. Findings

Disagreements with what the repository says, each shown by a run:

1. `ac_dates` (`VerifiesOk`): the hash covers the ISO text of `created_at`,
   verification recomputes it over the text of a `Date`: an untouched log fails.
2. `sp_late` (`CommittedBaseline`): scope rows are younger than `start_date`, so
   the report counts the committed issues as added.
3. `digest_lost` (`WatermarkMailed`): `runDigests` does not look at the result of
   `sendMail` (`notificationDigest.js:94`, against `mailer.js:82-84`): what a rejected
   mail carried is behind the watermark for good.
4. `bulk_gate` (`BulkAsStrict`): the bulk route takes the better of two roles where
   the project role is said to be authoritative (`issues.js:1255`, against
   `authorize.js:134-138`).

The following were met while the modules were written and are allowed by them;
no run is spent on them.

What one-at-a-time properties rest on. With overlap allowed,

* `WorkflowRespected` and `ClosesClean` fail, because the UPDATE at `issues.js:981`
  writes by id whatever the status is by then, and `HistoryTellsStatus`, because
  its history row comes later. `EligibleQuorum` fails deeper: a decision that found
  no rule at `approvals.js:98` is inserted after the rule was created and passes
  the rule's floor. Approvals also go on counting after an out-of-band write
  (smart commit, comment rule, completed sprint), which leaves no history row.
* `LinksVerify` fails, because a verification may read between a purge's DELETE and
  its checkpoint, and `SeqAdvances`, because an append there finds neither row nor
  checkpoint and restarts the numbering. Overlapping purges may record their
  checkpoints out of order. A process that dies there does the same with no overlap at
  all: rows that are left fail verification until a later purge records a checkpoint, as if
  somebody had deleted the ones before (`services/auditLog.js:82-86` says the purged
  chain still verifies), and an emptied log uses its numbers again.
* `Fits` fails, because an issue of another project joins between the count at
  `sprints.js:245` and the assignment at 269; `LeavesNothing`, because one joins
  between the sweep at 292 and the close at 294; `StartsAllowed`, because two
  starts both count no active sprint. "One active sprint"
  (`e2e/catalogue/track-b.md:100`) fails even one at a time: a project starts a sprint
  of its own beside an active shared one, or a started shared sprint is assigned to a
  project that has an active one. No property claims it.
* Wiki: two edits of one page that overlap, one of the title and one of the body, each
  write a version with the other's part as it was before (`wiki.js:737`): the page
  shows a pair that no version holds. Each title and each body is there.
* Reports: two changes of one issue that overlap may be written in one order and
  recorded in the other, or name a status that was overwritten before: A to B, A to C, then the
  rows of C and of B leave an issue in C whose history is complete and ends in B.
  Cumulative flow and time in status follow the history. Nothing in the code keeps the
  two statements (`issues.js:981`, 984) together.
* Members: two first sign-ups may both own the workspace, and overlapping requests may leave
  two tokens or two rows of an address, or no admin. One at a time, an old
  invitation with a lower role still takes the last admin away (`members.js:30-31`),
  and a suspended address may come back by one (`reRegistration.js:126-127`).
* Access and teams: overlapping demotions may leave a project without a manager or a
  team without a lead; a concurrent rename writes a stale lead or mode back.
* Keys: none; counters are drawn in one statement. But deleting or renaming a
  project frees its key for a project that starts numbering again, and keys
  without a project reuse `COUNT + 1`.
* Links and workflow configuration: overlapping requests may leave a link and its mirror, two default
  workflows, two of a name, or none that is default (which no boot heals).
* Documents: overlapping uploads may exceed the quota and duplicate names; overlapping folder
  moves may close a cycle.

Sprints. The backfill of JL-165 (`db.js:2216`) runs at every start, so a restart gives
a shared sprint away as soon as all its issues belong to one project
(`Restart`). A sprint may be started again, active or completed, which adds a
second snapshot (`sprints.js:172`).

Sessions. Enabling the second factor races a new setup; a disable between its read and
its write leaves the factor on without a secret; overlapping resets may use a token twice.

Issues. `PATCH {issueType}` makes an Epic of an issue that has an epic
(`issues.js:269-270`), even two epics of each other.

Projects and access. A lead named by `lead_member_id` without a row of
`project_members` is Lead for the pages and for `resolveProjectAccess`, and refused by
`requireProjectRole('Admin')`, although comments say the mirror must not offer
what is rejected. `projectAccess.js:34-41` (lead by name) and
`wikiVisibility.js:128-137` (lead by e-mail) still use the rule JL-202 removed. Somebody
without a member row is listed projects whose lead text is their e-mail and refused
their detail. `usePermissions` has no rank for `Owner`.

Search. `X-Total-Count` counts issues that `canViewIssue` drops; saved filters are not
narrowed by project, and their parser swallows OR into a value; parentheses, NOT
and malformed fragments are dropped without a word; WAS misses a value the issue always
had; a custom ORDER BY has no tie-breaker under LIMIT and OFFSET, and deletions between pages skip issues.

Workflows. A crash while the global statuses are copied leaves part of them for
good; a rename leaves transitions (until boot) and issues with the old name;
the repair at boot turns cancelling back on for an admin who switched it off
(`db.js:2775`); publishing takes transitions to unknown statuses.

Wiki and editor. A published page may have no history (`wiki.js:600-602`). A failed
delete drops the keystrokes it cancelled; an image that arrives while a publish is
out is lost.

Documents. A crash between the two statements of a replacement leaves a version row
that every later replacement or restore collides with; one after the bytes were put leaves an
object nobody names, one after `InsertDoc` a document without a version. Renames and moves do not
look for duplicate names. Deleting a Space refuses while it has pages and destroys
its documents (`db.js:1007-1010`). A restore keeps the replaced file's extension,
does not ask about the quota, and counts its bytes twice. An archived Space still takes new versions.

Scheduler, webhooks. An interval below a minute is stored as 0 and never due.
Deleting a webhook while a fire is at it loses the hooks behind it.

Realtime. What is published while a tab is out of its room is never caught up with. An
issue changed by a sprint that ends (`sprints.js:292`, 317), a rule on a schedule
(`automation.js:20-23`), a commit (`gitIntegration.js:236`, 419) or a release
(`releases.js:145`) is published to nobody, and one whose handler fails or dies between
write and publish (`issues.js:840` to 881) is not either: an open page shows the old
state until it fetches for another reason. Fetches
may overtake each other, and one of the last page may replace the issue of this one
(`IssueDetailPage.jsx:289-294`); `{...fetchedIssue, ...existing}` hides remote changes of shared
fields. A refused token resets the count of retries, so the wait never grows.

Reports. Automation, post-functions, smart commits and sprints change statuses without
history, so that cumulative flow, time in status and burndown miss them; a crash or
midnight between the UPDATE and its history row does the same. `removed_at` is never
written; cycle days may be negative. Reading history before issues
can show an issue in its new status for all its past. The `cycle` of
`topoOrderEpics` also lists epics that only hang on one.

## 5. Proofs

The theorems hold for every value of the constants that satisfies the modules'
named assumptions (sizes are natural numbers, ids are positive, markers are not
ids, `"p"` and `"q"` are not `Null`: no more than the code's types give), and no
finiteness of the sets of people, issues, pages or requests is assumed unless a
cardinality is compared or, as of the statuses of a report (`Stages`), a sum is taken.
Each proof has the same outline: the property is not inductive, a stronger
invariant is; one lemma per action says that the action keeps it; the theorem
puts the lemmas together, and what the runs check follows from the invariant,
or from one step taken in a state that satisfies it. Hypotheses on constants
name the mode a theorem is about, and each mode is that of a passing run.

### `IssueTransition_proofs`

`TypeCorrect`, `GateInvariant`, `SubtasksBlock`, `QuorumBacksMoves`,
`RejectionsBlock` hold under every interleaving. `GateInv` says that while a
request runs its history variables cover the present instant, that the floor it
has read is at most the present floor as long as the rule stood (times only
grow: `Stamps`), so approvals it will see were approvals that stood at some
instant since, and that past the gate the quorum is recorded. The three
action properties are read off `GateInv` at the UPDATE.

`SerialInvariant`, `HistoryTold` and `MovesStaySound` assume `OneByOne`: requests
do not overlap, no rule fires on a status change and nothing writes statuses
past the gate. That is the instance of `it_serial`, and section 4 says how each
part is needed. `SerialInv` says that what the one request at work has read is
still so, and that the newest history row tells each issue's status unless
that request is between its two writes.

### `SprintLifecycle_proofs`

`SprintTypes`, `OwnSprintsStayOwn`, and, for `MaxRows >= 1`, `SnapshotsComplete`
hold under every interleaving. `TypeOK` is inductive and carries the foreign
key: `sprint_id` names a row, or nothing. `OwnSprintsFit` is inductive because
`OwnHome`, its first conjunct, says that a sprint created with a project keeps it
and that an assignment under way names no other: hence what a placing handler
has read of such a sprint stays true until it writes. `BaselineCovers` is proved
from one lemma that a covered issue stays covered while it stays in the
sprint (`CoveredKept`), one that an insert covers (`InsertCovers`) and one that
lists the steps of a start (`StartSteps`).

`IssuesFitSprints` and `SprintsInOrder` are about shared sprints too and assume
`~Overlap`: `SoloInv` says that one handler is at work and that the counts and
rows it has read are still what the table holds.

### `Workspace_proofs`

The audit log. Under `Mode` (cutoffs spare the newest row, or retention runs alone)
`ChainInvariant`, `ChainTypes`, `ChainNeverForks`, `NumbersNeverRestart`; with
retention alone also `OldestRowAnchored` and `VerificationFindsNoBreak`.
`OneChain` is not inductive: `Derived` says that a derived seq is the next one
or one a rival has taken, `Ascending` that times follow seqs (so a purge removes a
prefix), `Spared` and `Exclusive` what the two modes add. A verification
finds no break because while retention runs alone the rows it has read are still
the log, and the newest checkpoint is linked to the first of them (`ReadsStand`). A crash may come
at any point of all this. After one between a purge's DELETE and its checkpoint the
oldest row is more than one past the checkpoint (`Exclusive`, under `torn`), so its
link cannot be the anchor's and verification reports it (`TornShows`).

`ReadersAgree`: the listing, the roles told to the pages and the gates agree in
every state of the types; this one is a comparison of three operators, by
cases on the roles. `RightsAndTierHeld` needs `AccessInv`: what a sender could do since the request
began covers what the gates behind the request were told (`Remembered`), and up
to the first overlap one request is under way and the manager it counted besides its
target is still there (`Serial`). `TeamsStaySound` has the same shape (`TeamInv`:
`Granted`, `OneTurn`), and its bound on links counts those about to be:
links and requests past the check together exceed the cap by at most the
number of other `Hands` (`LinksPromised`).

`SearchStaysSound` is all of `SearchSound`, for a query of any length; its invariant
says no more than that the query has its types, the rest is about operators. Sequences of
parameters laid end to end keep each element at its own place, with sums in place of
the lengths of what comes before (`Lined`, `LaidOut`), so every condition of the WHERE
clause takes the parameters pushed for it. Conditions joined by AND and OR
hold as the groups between the ORs do (`Grouped`), a clause compiles to what it means, and the
second parser cuts the text into the same groups as the first (`Marked`, `RunIn`).

A behaviour of `MCWorkspace` is one of each of its parts (`PartsKeep`), so
`WorkspaceTypes`, `WorkspaceFits`, `WorkspaceKeepsSprintRules` and `WorkspaceSearched` carry
what is proved of the parts over to the composition; the sprints, which
`MCWorkspace` takes in as an instance of `SprintLifecycle`, through the same instance of
`SprintLifecycle_proofs`.

### `Administration_proofs`

`MembershipStaysSound` is all of `MembershipSound`. `MemberInv` has two parts.
`MemberShape` holds under any overlap: types, `members.id` a key, an owner
who is active, and no request about to delete the owner's row (`Spares`), which is
why the owner stays whatever else runs. The rest holds up to the first overlap
(`calm`): one request is under way (`MemberTurn`), what it has read still holds (`Knows`: the row
it did not find, the invitation it is redeeming, the admin who is left besides
its target, the count of admins a bulk removal goes by), and an open login
has a row unless the request that made it, or that is removing the row, has
yet to finish (`LoginsHeld`). `RowsWritten`, `LoginsWritten` and `InvitesWritten` say which
statements write a table, and the action properties follow statement by statement.

`ConfigStaysSound` is all of `ConfigSound`. `ConfigInv` also has two parts. Under any
overlap: types, what a request carries fits its place (`Formed`), a booting
server without a workflow is seeding one (`Quiet`), and a name the project showed
is its own, global and about to be copied (`Coming`), or global while the project has
nothing of its own and nobody adds to that (`KeptComes`). This last conjunct
makes `NothingVanishes` inductive: a single row added to an empty list hides every
global one, so each request about to add a row to it must hold
the rest in its hand. While requests come one at a time (`Tidy`): every transition leads to
what is shown or about to be copied, one workflow is the default, and the request
under way knows what its next statement needs (`KnowsEdges`, `KnowsStatuses`,
`KnowsFlows`: the ends it will write are there, the status it removes has no issue and
no transition, nobody else is the default). The ends of the transitions it
will publish may still be among the statuses it is about to copy or to find missing, which
is why `KnowsEdges` grows weaker at the earlier places.

`ReportsStaySound` is all of `ReportsSound`. `ReportInv` relates the trail of an issue to
the statuses it lived through: as long as no change went unrecorded, was recorded late or crossed another (`lapsed`) it
has a row for every status but the first (`Full`), or for all but the first and the last
while the one request that has written its change has yet to record it (`Half`, `MoveSound`),
and times only rise (`Rising`). Any number of requests are on their way: what sets
an issue aside is what `UpdateStage` finds, another status than the request read or another row
yet to come. Time in status is a sum over the rows, each
instant adds one to the status it passes in (`SpentTold`), and so it is the number of
instants spent in it; the latest row by an instant gives the status of that instant,
which is what cumulative flow and burndown count. The folds of the code are sums over
finite sets (`NumberLemmas`), taken apart one element at a time. Of two reads the first was
true of the issues it names (`FirstSound`).

`LinksStaySound` is two of the four parts of `DependenciesSound`. `DependencyInv`: the ends of
a link or dependency are there, because the insert asks for them and an issue
takes its rows along (`RowsKept`), and while requests come one at a time no row
has a mirror image and the one about to be inserted has none (`Unmirrored`). `RowsAt`
keeps the rows at some places in their order: each of them is found at its rank
(`RankTaken`, `RowsAtTells`), so the graph, which keeps the first row of an edge, has the edges
of all of them (`EdgesTell`), and an issue's blockers there are those of its link list.

### `Records_proofs`

* Password resets (`ResetInvariant`, `ResetTypes`, `ResetsOnce`). Tokens are
  handed out in order under any overlap; up to the first overlap a live token is
  the newest one, a request holds the newest one, and a token that set a
  password is used or its request is about to say so.
* Sessions (`SessionInvariant`, `EntriesSound`). As long as nothing touched the
  secret while a request to enable the factor held one (`alone`), what such a request has
  read is what is stored (`ReadStands`), so an enabled factor rests on a secret its
  owner proved; a revoked session never authenticates again, unless the account is removed.
* Issues (`IssueInvariant`, `TreeTypes`, `IssuesStaySound`). `TreeInv`: ids name
  one issue, a parent is in the same project and has no parent. `KeyInv`: the
  ranges of numbers that requests of a project have drawn are disjoint and at
  most its counter, and the keys given out lie outside every range in
  flight, while a name stands for one project (`Sole`). `EpicInv`: while requests
  come one at a time what one was judged on (`Fitted`) holds until it writes.
* Wiki (`WikiInvariant`, `WikiTypes`, `HistoriesSound`, `NoPageLost`, `WikiStaysSound`,
  `ReadersStayUndisturbed`). `Gapless` and `NextFits`: the numbers of a page's versions are
  1 to its current version, and a request about to insert one holds a number in that row or
  the next, which an overlap can make stale but never put beyond. `RewritesTold`:
  a restore writes the page only after its version. What is kept is kept per part
  (`ToldPart`, `LastPart`), as an edit of one part under overlap keeps that part only. `Lone`, `Exact`, `ReadHolds`,
  `Carried`, `Shown`: while requests come one at a time a version's place is
  its number, an autosave knows the status of the page and an edit the row it fills the
  other half from, and the last version has the title and the body
  of the page unless a request is between the two statements. The tree: no set of pages has
  all its parents inside (`Rooted`), which says without a depth that nothing points round in
  a ring, and of the pages cut off from a root one would have its parent outside, so
  `TreeShowsAll`. A page is hung below another only if the walk of `wouldCycle` did not meet
  it (`Fitting`); the walk takes `MaxHops` steps, and sees every ancestor when
  no way up is longer (`Shallow`). `NoPageLost` assumes that of every state,
  `WikiStaysSound` gets it from there being at most `MaxHops` pages. With more the
  code's walk may stop short of a ring.
* Documents (`DocumentInvariant`, `DocumentTypes`, `VersionsStand`,
  `FoldersTipNothing`, `PlacesStand`, `NoFolderLost`, `QuotaStays`, `DocumentsStaySound`).
  `Chronicle` follows a document while
  requests overlap: what one is about to insert is at most one past the number shown
  (`NextOnly`), so the unique index of `document_versions` lets at most one
  be ahead of the document (`OneEach`, `AheadTold`), and with it the numbers on record
  are those up to the one shown, save a first version still to be written (`NoGap`,
  `LastIsShown`, `NothingLost`). A crash between the two statements ends that, and
  `VersionsStand` says so. `DropsEmpty`: while requests come one at a time
  the folder about to go holds nothing, so `FoldersTipNothing`. `InPlace` holds under any
  overlap, and needs that the folders below one that goes are the least set closed
  downwards. Folders are reached as pages are (`FolderTree`, with fewer folders than
  `isDescendant` walks up). The quota (`QuotaKept`): the objects that live documents, their
  versions and the requests under way name (`Held`) weigh no more than the quota while
  requests come one at a time, and a request past the check leaves room for what it puts
  (`RoomFor`); the sum over rows that the code takes is at most the sum over those
  objects, as a version that is shown shares its object with the document (`SameShown`).
  `DocumentsStaySound` is all of `DocumentsSound`.

### `MCRecords_proofs`

A step of `MCRecords` is a step of one part while the others rest, so each of its
behaviours is a behaviour of every part (`RecordsAreParts`): a refinement by the identity.
`RecordsTypes` and `RecordsStaySound` follow by temporal logic from the theorems
of `Administration_proofs` and `Records_proofs`, and state at once what the run
`records` checks, but for the two parts of `DependenciesSound` named below.

### `Services_proofs`

`HookInvariant`, `HookTypes`, `FiresAccounted`: a fire that ended has for each
hook it read the log row that says how it went. `WebhooksDeliver`: `HookSpec`
implements the safety part of `Delivery` (`Promise!DSafe`) under the refinement mapping of
`Webhooks`; each step of the process starts, tries or ends one promised
delivery or leaves them all alone.

`WatermarksHold`, the safety half of `DigestsSound`: no `last_digest_sent_at`
passes an unread notification that no digest carried, whatever runs overlap or
are cut off; and nothing is digested twice while none does. The first needs what
a run holds in memory (`RunCovers`): what a watermark it read has passed, and
what its own `now` would pass without its batch, is digested. The second needs
that a digested notification is behind its recipient's watermark or in the
batch of the one run that is about to move that there (`HandedMarked`), and that
the watermarks a run has read still stand (`MarksStand`).

`RulesWait`, the safety half of `RulesSound`: an action property, so its
invariant says what the step that takes up a rule relies on. No act of a rule is
later than its stamp or, before the stamp, than the `now` of the run that is at it
(`ActsStamped`, `ActsBefore`), and a rule a run has yet to take up was stamped an
interval before that `now` (`Ripe`), as `last_run_at` is that `now` and not the
time of the stamp. It assumes that the intervals asked for have a longest.

`WindowsBound` is all of `Throttled`. `Buckets`: a window touches the open bucket
and at most one before it; what is as old as the open one (`Recent`) is within
its count, what is older within the allowance. `Guarded`: while no attempt outlasts a
tick and a lockout lasts a window, every wrong password of the window is counted before
a lock; under one no attempt enters, those past the gate and those counted add up
to the bound, and each guess ages with the lock, so that the window is
empty when the lock runs out. It assumes that finitely many logins are under way.

`EditorRests` and `NeverSetBack` are the safety half of `EditorSound`. `Carried`: what
a job or a creation carries was typed, a job waits for a creation that is no
newer than it, and a page being created is not known yet. `InOrder`: from Publish on
a flush beyond those it waits for comes of the image, so once such a flush runs the
image is in and the text is the one that will be published. `Owed`: text that is not dirty
is held or carried by the job in progress.

`RealtimeTypes`: no page and no answer on its way is newer than its issue (`PagesTyped`), and
no connection speaks, or sits in a room, that its tab has yet to open (`Dialled`,
`SpeechTyped`, `RoomsTyped`). `ServicesTypes` puts the invariants of the six
parts together for `MCServices`.

### `NumberLemmas`

Least and greatest elements of sets of numbers and smallest finite sets, from well-founded
induction; taking the least counterexample stands in
for induction in the other modules (take the least counterexample), and sums over finite
sets: of one element more or less, of equal and of smaller terms.

### What is model-checked only

* Liveness and what rests on fairness: `RequestsEnd`, `WebhooksSound` as far as fires
  end (`Delivers`), `DigestsSound` and `RulesSound` as far as something is served,
  `Autosaves` of `EditorSound`, `Converges`.
* What a recursion computes for every input: of `DependenciesSound`, that the cycles found
  are the rings (Tarjan's search, `CyclesFound`) and that the order of epics respects
  dependencies (`OrderSound`). Both are recursive functions over states of a search, whose
  value an induction over data would have to follow.

## 6. Plan

What remains is to follow the code further.

1. `CyclesFound` and `OrderSound` for graphs of a bounded size by unfolding, if provers
   with induction over data become available; until then TLC's three issues.
2. Rows of one statement that no module has (section 7), where they meet
   state that is modelled: comments and attachments with the deletion of an issue,
   worklogs with the burndown.
3. Pages of the browser that keep form fields over a reload or a concurrent change, as
   `PageEditor` and `Realtime` do for the two that keep most.

## 7. Not modelled

The HTTP server (routing, headers, body limits, static files), tests, scripts
and deployment have no state of their own that these properties could be about.
Of the components listed as partly modelled in `PROJECT.json` these parts are left out,
each with its reason there:

* sprints: renaming, goals, dates and retrospectives, and the deletion of a project
  with its sprints;
* authentication: cryptography, provider protocols, password rules;
* issue details: comments, worklogs, attachments, votes and watches, which are
  rows of their own written by one statement;
* projects and settings: custom fields, components, labels, schemes and layouts,
  rows the models take as constants;
* wiki and documents: comments, attachments, templates, members of a Space;
* service desk, integrations and plugins: what they share with the parts
  modelled (status writes, webhooks, inbound mail as a creator of issues) is an
  action there, the rest is forms and single rows;
* storage, mail and virus scanning: I/O, present as success, failure or delay;
* the database layer: migrations run once at boot; those that repair data on
  every boot are actions (`Restart`, `Boot`);
* the single-page application: the views; its permission hook, its editor and
  its issue page are modelled.
