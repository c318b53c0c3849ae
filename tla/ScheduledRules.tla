--------------------------- MODULE ScheduledRules ---------------------------
(***************************************************************************)
(* Automation rules that run by the clock: runScheduledRules, called every *)
(* minute by the interval of services/scheduler.js, and the edits of the   *)
(* rules (routes/automation.js, services/automation.js).                   *)
(*                                                                         *)
(* A run holds the rules and the issues it has read; one issue of a rule,  *)
(* the action and its log row, is a step.                                  *)
(***************************************************************************)
EXTENDS Integers, FiniteSets

CONSTANTS
  Rules,        \* automation_rules.id, all of trigger type scheduled
  Matching,     \* issues a rule's condition matches
  Runs,         \* runs of the scheduler that may be in progress at once
  Intervals,    \* schedule_interval_minutes that are asked for, in half minutes
  RuleUpsets    \* edits of rules and restarts of the process

ASSUME ScheduledRulesAssumption ==
  /\ Intervals \subseteq Nat \ {0} /\ \E longest \in Intervals : \A h \in Intervals : h <= longest
  /\ "none" \notin Rules /\ RuleUpsets \in Nat

VARIABLES
  rule,         \* the rules: enabled, disabled or gone, and the stored interval
  since,        \* minutes since last_run_at
  run,          \* the runs in progress
  acted,        \* history: minutes since the start of the run in which a rule last
                \* acted on an issue, up to Never; kept only while steady
  steady,       \* history: runs never overlapped, none was cut off, no rule edited
  ruleUpsets    \* edits and restarts so far

ruleVars == <<rule, since, run, acted, steady, ruleUpsets>>

Asleep == [pc |-> "asleep", age |-> 0, due |-> {}, rule |-> "none", todo |-> {}]

\* POST and PATCH take any positive number and round it down to whole minutes.
Stored(halves) == halves \div 2

\* Longer ago than any interval, or not at all.
Never == 1 + CHOOSE n \in {Stored(h) : h \in Intervals} : \A h \in Intervals : Stored(h) <= n
MinuteOlder(a) == IF a < Never THEN a + 1 ELSE a

RuleInit ==
  /\ rule \in [Rules -> [state : {"enabled"}, interval : {Stored(h) : h \in Intervals}]]
  /\ since = [r \in Rules |-> Never]          \* last_run_at is null
  /\ run = [k \in Runs |-> Asleep]
  /\ acted = [r \in Rules |-> [i \in Matching |-> Never]]
  /\ steady = TRUE /\ ruleUpsets = 0

\* dueRules, over the rules that are enabled.
\* mutated: when a rule last ran is not looked at
DueEnabled == {r \in Rules : rule[r].state = "enabled" /\ rule[r].interval > 0}
DueRules == {r \in Rules : /\ rule[r].state = "enabled" /\ rule[r].interval > 0
                           /\ since[r] = Never \/ since[r] >= rule[r].interval}

Minute ==
  /\ since' = [r \in Rules |-> MinuteOlder(since[r])]
  /\ acted' = [r \in Rules |-> [i \in Matching |-> MinuteOlder(acted[r][i])]]
  /\ run' = [k \in Runs |-> IF run[k] = Asleep THEN Asleep ELSE [run[k] EXCEPT !.age = MinuteOlder(@)]]
  /\ UNCHANGED <<rule, steady, ruleUpsets>>

Witness(undisturbed) ==
  /\ steady' = (steady /\ undisturbed)
  /\ acted' = IF steady' THEN acted ELSE [r \in Rules |-> [i \in Matching |-> Never]]

\* A run takes the first free place.
Place == CHOOSE k \in Runs : run[k] = Asleep \/ \A j \in Runs : run[j] # Asleep
FireRules(k) ==
  /\ k = Place /\ run[k] = Asleep /\ DueRules # {}
  /\ run' = [run EXCEPT ![k] = [Asleep EXCEPT !.pc = "next", !.due = DueRules]]
  /\ Witness(\A j \in Runs : run[j] = Asleep)
  /\ UNCHANGED <<rule, since, ruleUpsets>>

\* The issues of the rule's project that match, when its turn comes.
TakeRule(k) == \E r \in run[k].due, m \in SUBSET Matching :
  /\ run[k].pc = "next"
  /\ run' = [run EXCEPT ![k].pc = "act", ![k].due = @ \ {r}, ![k].rule = r, ![k].todo = m]
  /\ UNCHANGED <<rule, since, acted, steady, ruleUpsets>>

\* executeAction and logExecution.  An action that fails is logged like one that
\* does not; when the rule is gone no row can be written (automation_logs
\* references automation_rules) and the error ends the run, other rules and all.
ActOn(k) == \E i \in run[k].todo, done \in BOOLEAN : LET r == run[k].rule IN
  /\ run[k].pc = "act"
  /\ acted' = IF done /\ steady THEN [acted EXCEPT ![r][i] = run[k].age] ELSE acted
  /\ run' = IF rule[r].state = "gone" THEN [run EXCEPT ![k] = Asleep]
                                      ELSE [run EXCEPT ![k].todo = @ \ {i}]
  /\ UNCHANGED <<rule, since, steady, ruleUpsets>>
\* mutated: the run ends with its first rule
StampAndSleep(k) ==
  /\ run[k].pc = "act" /\ run[k].todo = {}
  /\ since' = [since EXCEPT ![run[k].rule] = run[k].age]
  /\ run' = [run EXCEPT ![k] = Asleep]
  /\ UNCHANGED <<rule, acted, steady, ruleUpsets>>
StampRule(k) ==
  /\ run[k].pc = "act" /\ run[k].todo = {}
  /\ since' = [since EXCEPT ![run[k].rule] = run[k].age]
  /\ run' = [run EXCEPT ![k] = IF @.due = {} THEN Asleep
                                ELSE [@ EXCEPT !.pc = "next", !.rule = "none"]]
  /\ UNCHANGED <<rule, acted, steady, ruleUpsets>>

\* PATCH and DELETE of a rule.
EditRule == \E r \in Rules :
  /\ rule[r].state # "gone" /\ ruleUpsets < RuleUpsets
  /\ \/ rule' = [rule EXCEPT ![r].state = IF @ = "enabled" THEN "disabled" ELSE "enabled"]
     \/ rule' = [rule EXCEPT ![r].state = "gone"]
     \/ \E h \in Intervals : rule' = [rule EXCEPT ![r].interval = Stored(h)]
  /\ ruleUpsets' = ruleUpsets + 1 /\ Witness(FALSE)
  /\ UNCHANGED <<since, run>>

RuleCrash ==
  /\ ruleUpsets < RuleUpsets /\ \E k \in Runs : run[k] # Asleep
  /\ run' = [k \in Runs |-> Asleep]
  /\ ruleUpsets' = ruleUpsets + 1 /\ Witness(FALSE)
  /\ UNCHANGED <<rule, since>>

RunRules(k) == TakeRule(k) \/ ActOn(k) \/ StampRule(k)
RuleNext ==
  \/ Minute \/ EditRule \/ RuleCrash
  \/ \E k \in Runs : FireRules(k) \/ RunRules(k)

\* Minutes pass, the interval fires, and a statement has an end.
RuleFair ==
  /\ WF_ruleVars(Minute) /\ WF_ruleVars(\E k \in Runs : FireRules(k))
  /\ \A k \in Runs : WF_ruleVars(RunRules(k))

RuleSpec == RuleInit /\ [][RuleNext]_ruleVars /\ RuleFair

-----------------------------------------------------------------------------
\* The type invariant; a run that looks for its next rule has one.
RuleTypeOK ==
  /\ rule \in [Rules -> [state : {"enabled", "disabled", "gone"}, interval : Nat]]
  /\ since \in [Rules -> 0..Never]
  /\ \A k \in Runs : /\ run[k].pc \in {"asleep", "next", "act"} /\ run[k].age \in 0..Never
                     /\ run[k].due \subseteq Rules /\ run[k].todo \subseteq Matching
                     /\ run[k].rule \in Rules \cup {"none"}
                     /\ run[k].pc = "next" => run[k].due # {}
  /\ acted \in [Rules -> [Matching -> 0..Never]] /\ steady \in BOOLEAN
  /\ ruleUpsets \in 0..RuleUpsets

\* A rule acts on an issue once an interval: when a run takes up a rule, the
\* `now` of the run that last acted on an issue is an interval before its own, as
\* long as runs neither overlap nor are cut off: last_run_at is written after the
\* actions (scheduler.js:50-66).
OncePerInterval ==
  [][\A k \in Runs, r \in Rules : steady' /\ run[k].rule # r /\ run'[k].rule = r =>
       \A i \in Matching :
         acted[r][i] = Never \/ acted[r][i] - run[k].age >= rule[r].interval]_ruleVars

\* A rule that is due has its turn, whatever runs overlap or are cut off and
\* whichever rule is deleted while a run is at it.
RulesServed ==
  \A r \in Rules : r \in DueRules ~> (\E k \in Runs : run[k].rule = r) \/ r \notin DueRules

\* The rules run in their time, neither too often nor never.
RulesSound == OncePerInterval /\ RulesServed
=============================================================================
