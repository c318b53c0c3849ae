------------------------------ MODULE Webhooks ------------------------------
(***************************************************************************)
(* Outgoing webhooks: fireWebhooks with its retries, the delivery log, the *)
(* replay of a logged delivery, and what admins do to the hooks meanwhile  *)
(* (routes/webhooks.js, services/events.js).                               *)
(*                                                                         *)
(* A fire reads the hooks once and then serves them from memory, one after *)
(* the other; every request and every INSERT INTO webhook_logs is a point  *)
(* where the hook may be edited or deleted, or the process stopped.        *)
(***************************************************************************)
EXTENDS Integers, Sequences, FiniteSets, SequencesExt

CONSTANTS
  Hooks,        \* webhooks.id
  Fires,        \* events that happen
  Replays,      \* requests to replay, or to send a test event
  MAX_RETRIES,
  MaxEdits      \* PATCH and DELETE of hooks

ASSUME WebhooksAssumption ==
  /\ MAX_RETRIES \in Nat \ {0} /\ MaxEdits \in Nat
  /\ IsFiniteSet(Hooks) /\ "none" \notin Hooks
  /\ Fires \cap Replays = {}

VARIABLES
  hook,         \* webhooks: a row that is active and subscribed to the events
                \* listens, another is silent, and a deleted one is gone
  edits,        \* edits so far
  fire,         \* the fires in progress
  replay,       \* the replays in progress
  log,          \* webhook_logs; of a row, what names the fire or the replay
  lastLog,      \* webhook_logs.id: the newest SERIAL value
  sent          \* history: requests of a fire to a hook, and what the last was answered

hookVars == <<hook, edits, fire, replay, log, lastLog, sent>>

Outcomes == {"ok", "error", "none"}   \* 2xx, another status, no answer in 10 s
\* A fire that has nothing to do, and the hooks it found.
Rest(p, s) == [pc |-> p, left |-> <<>>, all |-> s, tries |-> 0, answer |-> "none"]
Unfired == Rest("new", <<>>)

HookInit ==
  /\ hook \in [Hooks -> {"listens", "silent"}]
  /\ edits = 0
  /\ fire = [f \in Fires |-> Unfired]
  /\ replay = [r \in Replays |-> [pc |-> "new", hook |-> 0, answer |-> "none"]]
  /\ log = {} /\ lastLog = 0
  /\ sent = [f \in Fires |-> [h \in Hooks |-> [n |-> 0, last |-> "none"]]]

There(h) == hook[h] # "gone"

\* emitEvent: SELECT the active hooks of the project, in an order the database
\* chooses; those not subscribed are passed over.
Fire(f) ==
  /\ fire[f].pc = "new"
  /\ \E s \in SetToSeqs({h \in Hooks : hook[h] = "listens"}) :
       fire' = [fire EXCEPT ![f] = [@ EXCEPT !.left = s, !.all = s,
                                      !.pc = IF s = <<>> THEN "over" ELSE "send"]]
  /\ UNCHANGED <<hook, edits, replay, log, lastLog, sent>>

\* mutated: one attempt too few
ExhaustedEarly(q) == q.tries = MAX_RETRIES - 1
\* After an attempt that failed for good or for now.
NextHook(q) ==
  [q EXCEPT !.left = Tail(@), !.tries = 0, !.pc = IF Len(q.left) = 1 THEN "over" ELSE "send"]
Exhausted(q) == q.tries = MAX_RETRIES

\* One attempt, the wait of 2^attempt seconds before it included.  No answer is
\* logged at the last attempt only.
Send(f) == \E a \in Outcomes : LET q == [fire[f] EXCEPT !.tries = @ + 1, !.answer = a] IN
  /\ fire[f].pc = "send"
  /\ sent' = [sent EXCEPT ![f][Head(q.left)] = [n |-> @.n + 1, last |-> a]]
  /\ fire' = [fire EXCEPT ![f] = IF a = "none" /\ ~Exhausted(q) THEN q ELSE [q EXCEPT !.pc = "log"]]
  /\ UNCHANGED <<hook, edits, replay, log, lastLog>>

\* logDelivery: one more row.
Insert(h, by, answer) ==
  /\ log' = log \cup {[id |-> lastLog + 1, hook |-> h, by |-> by, ok |-> answer = "ok"]}
  /\ lastLog' = lastLog + 1

\* logDelivery throws when the hook is gone (webhook_logs references webhooks):
\* the attempt then counts as one without an answer, and the INSERT of the last
\* such attempt throws out of the loop over the hooks.
Log(f) == LET q == fire[f] h == Head(q.left) IN
  /\ q.pc = "log"
  /\ IF There(h)
     THEN /\ Insert(h, f, q.answer)
          /\ fire' = [fire EXCEPT ![f] = IF q.answer = "ok" \/ Exhausted(q) THEN NextHook(q)
                                         ELSE [q EXCEPT !.pc = "send"]]
     ELSE /\ UNCHANGED <<log, lastLog>>
          /\ fire' = [fire EXCEPT ![f] = IF Exhausted(q) THEN Rest("lost", q.all)
                                         ELSE [q EXCEPT !.pc = "send"]]
  /\ UNCHANGED <<hook, edits, replay, sent>>

\* POST /:id/test and the two replay routes: one attempt, logged whatever came
\* of it; both INSERTs fail once the hook is gone.
Replay(r) == \E h \in Hooks, test \in BOOLEAN : \E a \in Outcomes :
  /\ replay[r].pc = "new" /\ There(h)
  /\ test \/ \E row \in log : row.hook = h
  /\ replay' = [replay EXCEPT ![r] = [pc |-> "log", hook |-> h, answer |-> a]]
  /\ UNCHANGED <<hook, edits, fire, log, lastLog, sent>>
LogReplay(r) ==
  /\ replay[r].pc = "log"
  /\ IF There(replay[r].hook) THEN Insert(replay[r].hook, r, replay[r].answer)
                              ELSE UNCHANGED <<log, lastLog>>
  /\ replay' = [replay EXCEPT ![r].pc = "over"]
  /\ UNCHANGED <<hook, edits, fire, sent>>

\* PATCH (is_active, events) and DELETE; the log rows of a hook go with it.
EditHook == \E h \in Hooks :
  /\ There(h) /\ edits < MaxEdits
  /\ edits' = edits + 1
  /\ hook' = [hook EXCEPT ![h] = IF @ = "silent" THEN "listens" ELSE "silent"]
  /\ UNCHANGED <<fire, replay, log, lastLog, sent>>
DeleteHook == \E h \in Hooks :
  /\ There(h) /\ edits < MaxEdits
  /\ edits' = edits + 1
  /\ hook' = [hook EXCEPT ![h] = "gone"]
  /\ log' = {row \in log : row.hook # h}
  /\ UNCHANGED <<fire, replay, lastLog, sent>>

\* mutated: a fire begins again after a restart
CrashAndResume ==
  /\ \E f \in Fires : fire[f].pc \in {"send", "log"}
  /\ fire' = [f \in Fires |-> IF fire[f].pc \in {"send", "log"}
                              THEN [Unfired EXCEPT !.pc = "send", !.left = fire[f].all, !.all = fire[f].all]
                              ELSE fire[f]]
  /\ UNCHANGED <<hook, edits, replay, log, lastLog, sent>>
\* The retries live in the process.
HookCrash ==
  /\ \E f \in Fires : fire[f].pc \in {"send", "log"}
  /\ fire' = [f \in Fires |-> IF fire[f].pc \in {"send", "log"}
                              THEN Rest("cut", fire[f].all) ELSE fire[f]]
  /\ replay' = [r \in Replays |-> [replay[r] EXCEPT !.pc = IF @ = "log" THEN "over" ELSE @]]
  /\ UNCHANGED <<hook, edits, log, lastLog, sent>>

FireStep(f) == Send(f) \/ Log(f)
HookNext ==
  \/ \E f \in Fires : Fire(f) \/ FireStep(f)
  \/ \E r \in Replays : Replay(r) \/ LogReplay(r)
  \/ EditHook \/ DeleteHook \/ HookCrash

\* fetch is aborted after 10 s and the waits are timers: a fire goes on.
HookFair == \A f \in Fires : WF_hookVars(FireStep(f))

HookSpec == HookInit /\ [][HookNext]_hookVars /\ HookFair

-----------------------------------------------------------------------------
\* The type invariant.
HookTypeOK ==
  /\ hook \in [Hooks -> {"listens", "silent", "gone"}]
  /\ edits \in 0..MaxEdits
  /\ fire \in [Fires -> [pc : {"new", "send", "log", "over", "lost", "cut"},
                          left : Seq(Hooks), all : Seq(Hooks),
                          tries : 0..MAX_RETRIES, answer : Outcomes]]
  /\ replay \in [Replays -> [pc : {"new", "log", "over"}, hook : Hooks \cup {0}, answer : Outcomes]]
  /\ \A r \in Replays : replay[r].pc = "log" => replay[r].hook \in Hooks
  /\ lastLog \in Nat
  /\ log \subseteq [id : 1..lastLog, hook : Hooks, by : Fires \cup Replays, ok : BOOLEAN]
  /\ sent \in [Fires -> [Hooks -> [n : Nat, last : Outcomes]]]

\* The console tells the truth about a fire that ran to its end: each hook that
\* it found, and that is still there, either answered well the last time it was
\* asked, and has the row to show for it, or was asked MAX_RETRIES times and the
\* last row of the fire says it failed (webhooks.js:503-524).  And a hook costs
\* the hooks after it their delivery only by being deleted, or by the process
\* stopping (the catch around the loop over the hooks).
Told(f, h) ==
  There(h) =>
    \E row \in log :
      /\ row.hook = h /\ row.by = f
      /\ \A other \in log : other.hook = h /\ other.by = f => other.id <= row.id
      /\ row.ok <=> sent[f][h].last = "ok"
      /\ row.ok \/ sent[f][h].n = MAX_RETRIES
      /\ sent[f][h].n > 0
Accounted ==
  \A f \in Fires :
    /\ fire[f].pc = "over" => \A i \in DOMAIN fire[f].all : Told(f, fire[f].all[i])
    /\ fire[f].pc = "lost" => \E i \in DOMAIN fire[f].all :
         LET h == fire[f].all[i] IN ~There(h) /\ sent[f][h].n = MAX_RETRIES

\* fireWebhooks is a Delivery: bounded attempts, in order, never back, and done.
Promise == INSTANCE Delivery WITH
  MaxTries <- MAX_RETRIES,
  queue <- [f \in Fires |-> IF fire[f].pc = "new" THEN << "none" >> ELSE fire[f].left],
  tries <- [f \in Fires |-> fire[f].tries]
Delivers == Promise!DSpec

\* What a fire did is what its log says, and it ends.
WebhooksSound == []Accounted /\ Delivers
=============================================================================
