---------------------------- MODULE FlowReports -----------------------------
(***************************************************************************)
(* What the reports make of the recorded history of issues: cumulative     *)
(* flow, cycle time and created against resolved (routes/reports.js), time *)
(* in status and its cycle time (services/timeInStatusReport.js).          *)
(*                                                                         *)
(* `lived` is what issues went through, `trail` what issue_history tells.  *)
(* The cumulative flow reads the two tables at once: `first` is the answer *)
(* that came first, and the report is judged as if the other came now.     *)
(* Time is counted in instants, DayLength of them a day.                   *)
(*                                                                         *)
(* A recorded change is two statements of one request, and requests        *)
(* overlap: two changes of one issue may be written in one order and       *)
(* recorded in the other, and a row names the status the request read, not *)
(* the one it overwrote.  Such a trail has every change and is untrue all  *)
(* the same; nothing in the code prevents it.  `lapsed` sets aside the     *)
(* issues it happened to, and no report is claimed to be right about them. *)
(***************************************************************************)
EXTENDS Integers, FiniteSets, Sequences, SequencesExt, FiniteSetsExt

CONSTANTS
  Cases,        \* issues
  Stages,       \* statuses, "In Progress" and "Done" among them
  Shifters,     \* requests that change a status and record it
  DayLength,    \* instants of a day
  LastInstant,  \* bounds: the clock,
  MaxCaseMoves  \* and the changes of status

ASSUME FlowReportsAssumption ==
  /\ {"In Progress", "Done"} \subseteq Stages /\ IsFiniteSet(Stages)
  /\ DayLength \in Nat \ {0} /\ LastInstant \in Nat /\ MaxCaseMoves \in Nat

VARIABLES
  instant,  \* now
  lived,    \* history: per issue, the statuses it had and since when
  trail,    \* issue_history of field status: [from, to, at], by changed_at and id
  moving,   \* per request, the change of status on its way: its two statements
  lapsed,   \* history: issues whose trail misses a change, tells it late or amiss
  first,    \* the first answer to the two reads of the cumulative flow
  caseMoves

reportVars == <<instant, lived, trail, moving, lapsed, first, caseMoves>>

NoMove == [case |-> 0, from |-> "none", to |-> "none", left |-> <<>>]
NoRead == [of |-> "none", cases |-> <<>>, trail |-> <<>>]
Made == {i \in Cases : lived[i] # <<>>}
Stage(i) == Last(lived[i]).status
MadeAt(i) == lived[i][1].at

ReportInit ==
  /\ instant = 0 /\ lived = [i \in Cases |-> <<>>] /\ trail = [i \in Cases |-> <<>>]
  /\ moving = [m \in Shifters |-> NoMove] /\ lapsed = {} /\ first = NoRead /\ caseMoves = 0

Lives(i, s) == [lived EXCEPT ![i] = Append(@, [status |-> s, at |-> instant])]

CreateCase == \E i \in Cases, s \in Stages :
  /\ lived[i] = <<>> /\ \A j \in Cases : j < i => lived[j] # <<>>
  /\ lived' = Lives(i, s)
  /\ UNCHANGED <<instant, trail, moving, lapsed, first, caseMoves>>

\* transitionIssueStatus, of a bulk change too: it reads the issue, updates it
\* whatever became of it since, then records the change from what it read.
BeginMove == \E m \in Shifters, i \in Made, s \in Stages :
  /\ moving[m] = NoMove /\ s # Stage(i)
  /\ caseMoves < MaxCaseMoves /\ caseMoves' = caseMoves + 1
  /\ moving' = [moving EXCEPT ![m] =
       [case |-> i, from |-> Stage(i), to |-> s, left |-> <<"update", "record">>]]
  /\ UNCHANGED <<instant, lived, trail, lapsed, first>>
\* The issue is updated, and the row of that change is yet to be written.
Recording(m, i) == moving[m].case = i /\ moving[m].left = <<"record">>
InBetween == {i \in Made : \E m \in Shifters : Recording(m, i)}
\* Another change came in between: since this request read the issue, or one that
\* has its row still to write.
Crossed(m) ==
  LET i == moving[m].case IN moving[m].from # Stage(i) \/ \E n \in Shifters : Recording(n, i)
UpdateStage == \E m \in Shifters :
  /\ moving[m].left = <<"update", "record">>
  /\ lived' = Lives(moving[m].case, moving[m].to)
  /\ lapsed' = IF Crossed(m) THEN lapsed \cup {moving[m].case} ELSE lapsed
  /\ moving' = [moving EXCEPT ![m].left = <<"record">>]
  /\ UNCHANGED <<instant, trail, first, caseMoves>>
\* recordHistory
RecordMove == \E m \in Shifters :
  /\ moving[m].left = <<"record">>
  /\ trail' = [trail EXCEPT ![moving[m].case] =
       Append(@, [from |-> moving[m].from, to |-> moving[m].to, at |-> instant])]
  /\ moving' = [moving EXCEPT ![m] = NoMove]
  /\ UNCHANGED <<instant, lived, lapsed, first, caseMoves>>
\* A request ends between the two: it failed, or the process did.
CutMove == \E m \in Shifters :
  /\ moving[m] # NoMove /\ moving' = [moving EXCEPT ![m] = NoMove]
  /\ lapsed' = IF moving[m].left = <<"record">> THEN lapsed \cup {moving[m].case} ELSE lapsed
  /\ UNCHANGED <<instant, lived, trail, first, caseMoves>>

\* Rules, post-functions, commits, and the end of a sprint change statuses without
\* a word in issue_history; so does a request that finds a status changed which it
\* read as the one it is to set.
MoveUnrecorded == \E i \in Made, s \in Stages :
  /\ s # Stage(i)
  /\ caseMoves < MaxCaseMoves /\ caseMoves' = caseMoves + 1
  /\ lived' = Lives(i, s) /\ lapsed' = lapsed \cup {i}
  /\ UNCHANGED <<instant, trail, moving, first>>

\* The rows still to be written will be of a later instant than their changes.
Elapse ==
  /\ instant < LastInstant /\ instant' = instant + 1
  /\ lapsed' = lapsed \cup InBetween
  /\ UNCHANGED <<lived, trail, moving, first, caseMoves>>

\* SELECT id, status, created_at FROM issues
CasesNow == [i \in Made |-> [status |-> Stage(i), at |-> MadeAt(i)]]
\* GET /cfd: Promise.all of the two reads.
ReadFirst ==
  /\ first = NoRead
  /\ first' \in {[of |-> "cases", cases |-> CasesNow, trail |-> <<>>],
                 [of |-> "trail", cases |-> <<>>, trail |-> trail]}
  /\ UNCHANGED <<instant, lived, trail, moving, lapsed, caseMoves>>
ReadSecond ==
  /\ first # NoRead /\ first' = NoRead
  /\ UNCHANGED <<instant, lived, trail, moving, lapsed, caseMoves>>

ReportNext ==
  \/ CreateCase \/ BeginMove \/ UpdateStage \/ RecordMove \/ CutMove \/ MoveUnrecorded
  \/ Elapse \/ ReadFirst \/ ReadSecond
ReportSpec == ReportInit /\ [][ReportNext]_reportVars

-----------------------------------------------------------------------------
(***************************************************************************)
(* GET /cfd.                                                               *)
(***************************************************************************)
CasesRead == IF first.of = "cases" THEN first.cases ELSE CasesNow
TrailRead == IF first.of = "trail" THEN first.trail ELSE trail

\* mutated: the status an issue has now is the one it had at first
initialStatusNow(i) == CasesRead[i].status
initialStatus(i) == IF TrailRead[i] = <<>> THEN CasesRead[i].status ELSE TrailRead[i][1].from
\* The latest change at or before the cutoff wins, else the initial status.
statusOf(i, cutoff) ==
  LET by == {k \in DOMAIN TrailRead[i] : TrailRead[i][k].at <= cutoff}
  IN IF by = {} THEN initialStatus(i) ELSE TrailRead[i][Max(by)].to
EndOfDay(t) == (t \div DayLength) * DayLength + DayLength - 1
Counted(cutoff) == {i \in DOMAIN CasesRead : CasesRead[i].at <= cutoff}
counts(cutoff) == [s \in Stages |-> Cardinality({i \in Counted(cutoff) : statusOf(i, cutoff) = s})]
\* The moment an issue first was done, for the lead time; 0 - 1 if it never was.
Never == -1
entered(c, s) == {k \in DOMAIN c : c[k].to = s}
doneAt(i) ==
  LET done == entered(TrailRead[i], "Done")
  IN IF done # {} THEN TrailRead[i][Min(done)].at
     ELSE IF CasesRead[i].status = "Done" /\ TrailRead[i] = <<>> THEN CasesRead[i].at ELSE Never

(***************************************************************************)
(* computeTimeInStatus, firstTransitionTime, computeCycleTimeHours, and the *)
(* cycle time of GET /cycle-time.                                          *)
(***************************************************************************)
timeInStatus(i, s) ==
  LET c == trail[i]
      until(k) == IF k < Len(c) THEN c[k+1].at ELSE instant
  IN IF c = <<>> THEN 0
     ELSE (IF c[1].from = s THEN c[1].at - MadeAt(i) ELSE 0)
          + MapThenSumSet(LAMBDA k : until(k) - c[k].at, entered(c, s))
firstTransitionTime(i, s) ==
  LET to == entered(trail[i], s) IN IF to = {} THEN Never ELSE trail[i][Min(to)].at
Unknown == -1000
\* The cycle time of the control chart: nothing where it would be negative.
computeCycleTime(i) ==
  LET done == firstTransitionTime(i, "Done")
      begun == firstTransitionTime(i, "In Progress")
      from == IF begun # Never THEN begun ELSE MadeAt(i)
  IN IF done = Never \/ done < from THEN Unknown ELSE done - from
\* cycleDays of GET /cycle-time, of issues that are done now.
cycleDays(i) ==
  LET done == firstTransitionTime(i, "Done")
      begun == firstTransitionTime(i, "In Progress")
  IN IF Stage(i) # "Done" \/ done = Never \/ begun = Never THEN Unknown ELSE done - begun

(***************************************************************************)
(* GET /created-vs-resolved, up to the end of a day.                       *)
(***************************************************************************)
cumulativeResolved(cutoff) ==
  Cardinality({i \in Made : LET d == firstTransitionTime(i, "Done") IN d # Never /\ d <= cutoff})

-----------------------------------------------------------------------------
\* The type invariant.
ReportTypeOK ==
  /\ instant \in 0..LastInstant /\ caseMoves \in 0..MaxCaseMoves /\ lapsed \subseteq Made
  /\ \A i \in Cases : /\ \A k \in DOMAIN lived[i] : lived[i][k].status \in Stages /\ lived[i][k].at <= instant
                      /\ \A k \in DOMAIN trail[i] : {trail[i][k].from, trail[i][k].to} \subseteq Stages
  /\ first.of \in {"none", "cases", "trail"}

\* Whose trail is whole and true: the rest of this module is about them.
Whole == Made \ (lapsed \cup InBetween)
\* The status an issue really had at the end of instant t.
StageAt(i, t) == lived[i][Max({k \in DOMAIN lived[i] : lived[i][k].at <= t})].status
Days == {EndOfDay(t) : t \in 0..instant}

\* Each band of the cumulative flow holds the issues that were in the status at the
\* end of that day (reports.js:497-501), moved back and forth within a day or
\* not, provided the issues were read first or did not move between the reads.
FlowTold ==
  (first.of = "trail" => first.trail = trail) /\ DOMAIN CasesRead \subseteq Whole =>
    \A d \in Days : \A s \in Stages :
      counts(d)[s] = Cardinality({i \in DOMAIN CasesRead : MadeAt(i) <= d /\ StageAt(i, d) = s})

\* The time in each status is the time an issue spent there, and nothing of its
\* age is missing once it has moved, even where changes went unrecorded.
TimesTold ==
  /\ \A i \in Made : trail[i] # <<>> =>
       MapThenSumSet(LAMBDA s : timeInStatus(i, s), Stages) = instant - MadeAt(i)
  /\ \A i \in Whole : Len(lived[i]) > 1 => \A s \in Stages :
       timeInStatus(i, s) = Cardinality({t \in MadeAt(i)..(instant - 1) : StageAt(i, t) = s})

\* The two cycle times agree where an issue was in progress before it was done,
\* and the one of /cycle-time is negative only where it was not; an issue made in
\* a status counts as never having entered it.
CycleTold == \A i \in Made :
  cycleDays(i) # Unknown =>
    \/ cycleDays(i) >= 0 /\ computeCycleTime(i) = cycleDays(i)
    \/ cycleDays(i) < 0 /\ computeCycleTime(i) = Unknown

\* An issue is resolved once, on the day it first became done, however often it
\* is reopened: the line never falls and no issue counts twice.
ResolvedTold ==
  Made = Whole => \A d \in Days :
    cumulativeResolved(d) = Cardinality({i \in Made : \E k \in 2..Len(lived[i]) :
      lived[i][k].status = "Done" /\ lived[i][k].at <= d})

\* The lead time of the cumulative flow ends where an issue first was done, unless
\* it was made done and moved since.
LeadTold ==
  first.of # "trail" => \A i \in DOMAIN CasesRead \cap Whole :
    LET done == {k \in DOMAIN lived[i] : lived[i][k].status = "Done"}
    IN (done = {} => doneAt(i) = Never)
       /\ (done # {} /\ (1 \notin done \/ Len(lived[i]) = 1) => doneAt(i) = lived[i][Min(done)].at)

\* The reports tell what issues went through.
ReportsSound == FlowTold /\ TimesTold /\ CycleTold /\ ResolvedTold /\ LeadTold
=============================================================================
