------------------------------ MODULE AuditChain ------------------------------
(***************************************************************************)
(* The tamper-evident audit log: appendAudit, verifyChain and the          *)
(* checkpoints of server/services/auditLog.js, and the verify and          *)
(* retention handlers of server/routes/auditLog.js.                        *)
(*                                                                         *)
(* Callers do not await safeAppendAudit, so appends overlap; the UNIQUE    *)
(* index on seq decides between two that read the same last row, and the   *)
(* loser's error is swallowed.  A hash is the tuple of what is hashed.     *)
(* The clock counts in units longer than an append takes.                  *)
(***************************************************************************)
EXTENDS Integers, FiniteSets

CONSTANTS
  Events,      \* audit events, each handed to safeAppendAudit once
  Retentions,  \* retention requests, each served once
  Verifies,    \* verify requests, each served once
  Overlap,     \* TRUE: those requests interleave with everything; FALSE: alone
  Spares,      \* TRUE: no cutoff is later than the newest row
  MaxClock     \* bound on the clock

ASSUME AuditAssumption ==
  /\ Overlap \in BOOLEAN
  /\ Spares \in BOOLEAN
  /\ MaxClock \in Nat

VARIABLES
  log,         \* rows of audit_log
  checkpoint,  \* the newest row of audit_checkpoint
  clock,       \* the server's clock
  apc,         \* where each append is
  entry,       \* the seq and prev_hash each append has derived
  rpc,         \* where each retention request is
  boundary,    \* its cutoff, and the newest row older than it
  vpc,         \* where each verify request is
  seen,        \* the rows it has read
  verdict,     \* its answer
  high,        \* history variable: the highest seq inserted since the numbering began
  torn         \* history variable: a purge that left rows died before its checkpoint,
               \* and none has been recorded since

vars == <<log, checkpoint, clock, apc, entry, rpc, boundary, vpc, seen, verdict, high, torn>>

GenesisHash == <<>>
\* created_at as text: Date.toISOString() when appending; the driver returns a
\* timestamptz column as a Date, which verifyChain formats with its toString().
IsoText(t) == <<"iso", t>>
DateText(t) == <<"date", t>>
computeEntryHash(seq, event, prev, createdAt) == <<seq, event, prev, createdAt>>

InFlight(e) == apc[e] \in {"checkpoint", "insert"}
Retaining == \E q \in Retentions : rpc[q] \in {"delete", "record"}
Verifying == \E v \in Verifies : vpc[v] = "anchor"
\* Without overlap a retention or verify request has the log for itself.
LogFree == Overlap \/ (~Retaining /\ ~Verifying)
Alone == LogFree /\ (Overlap \/ \A e \in Events : ~InFlight(e))

\* The row with the highest seq of a non-empty set of rows.
Newest(rows) == CHOOSE r \in rows : \A s \in rows : s.seq <= r.seq

Init ==
  /\ log = {}
  /\ checkpoint = [seq |-> 0, hash |-> GenesisHash]
  /\ clock = 0
  /\ apc = [e \in Events |-> "new"]
  /\ entry = [e \in Events |-> [seq |-> 0, prev |-> GenesisHash]]
  /\ rpc = [q \in Retentions |-> "idle"]
  /\ boundary = [q \in Retentions |-> [cutoff |-> 0, found |-> FALSE, seq |-> 0, hash |-> GenesisHash]]
  /\ vpc = [v \in Verifies |-> "idle"]
  /\ seen = [v \in Verifies |-> {}]
  /\ verdict = [v \in Verifies |-> "none"]
  /\ high = 0
  /\ torn = FALSE

retention == <<rpc, boundary>>
verification == <<vpc, seen, verdict>>
-----------------------------------------------------------------------------
(***************************************************************************)
(* appendAudit.                                                            *)
(***************************************************************************)
\* SELECT the row with the highest seq; an empty table needs the checkpoint.
ReadLast(e) ==
  /\ apc[e] = "new"
  /\ LogFree
  /\ apc' = [apc EXCEPT ![e] = IF log = {} THEN "checkpoint" ELSE "insert"]
  /\ entry' = IF log = {} THEN entry
              ELSE [entry EXCEPT ![e] = [seq |-> Newest(log).seq + 1, prev |-> Newest(log).hash]]
  /\ UNCHANGED <<log, checkpoint, clock, retention, verification, high, torn>>

\* mutated: an empty table always starts at the genesis hash
AnchorAtGenesis(e) ==
  /\ apc[e] = "checkpoint"
  /\ LogFree
  /\ apc' = [apc EXCEPT ![e] = "insert"]
  /\ entry' = [entry EXCEPT ![e] = [seq |-> 1, prev |-> GenesisHash]]
  /\ UNCHANGED <<log, checkpoint, clock, retention, verification, high, torn>>

\* getCheckpoint.
ReadCheckpoint(e) ==
  /\ apc[e] = "checkpoint"
  /\ LogFree
  /\ apc' = [apc EXCEPT ![e] = "insert"]
  /\ entry' = [entry EXCEPT ![e] = [seq |-> checkpoint.seq + 1, prev |-> checkpoint.hash]]
  /\ UNCHANGED <<log, checkpoint, clock, retention, verification, high, torn>>

Row(e) ==
  [seq |-> entry[e].seq, event |-> e, at |-> clock, prev |-> entry[e].prev,
   hash |-> computeEntryHash(entry[e].seq, e, entry[e].prev, IsoText(clock))]

Greater(a, b) == IF a > b THEN a ELSE b

\* mutated: no unique index on seq
InsertEntryAnyway(e) ==
  /\ apc[e] = "insert"
  /\ LogFree
  /\ apc' = [apc EXCEPT ![e] = "done"]
  /\ log' = log \cup {Row(e)}
  /\ high' = Greater(high, entry[e].seq)
  /\ UNCHANGED <<checkpoint, clock, entry, retention, verification, torn>>

\* INSERT; if the seq is taken the unique index refuses it and the event is lost.
InsertEntry(e) ==
  /\ apc[e] = "insert"
  /\ LogFree
  /\ \/ /\ \A r \in log : r.seq # entry[e].seq
        /\ apc' = [apc EXCEPT ![e] = "done"]
        /\ log' = log \cup {Row(e)}
        /\ high' = Greater(high, entry[e].seq)
     \/ /\ \E r \in log : r.seq = entry[e].seq
        /\ apc' = [apc EXCEPT ![e] = "lost"]
        /\ UNCHANGED <<log, high>>
  /\ UNCHANGED <<checkpoint, clock, entry, retention, verification, torn>>

(***************************************************************************)
(* POST /audit-log/retention.                                              *)
(***************************************************************************)
Older(cutoff) == {r \in log : r.at < cutoff}

\* mutated: the window is added to now instead of subtracted
ReadBoundaryAhead(q) == \E cutoff \in clock .. clock + 1 :
  /\ rpc[q] = "idle"
  /\ Alone
  /\ rpc' = [rpc EXCEPT ![q] = "delete"]
  /\ boundary' = [boundary EXCEPT ![q] =
       IF Older(cutoff) = {} THEN [cutoff |-> cutoff, found |-> FALSE, seq |-> 0, hash |-> GenesisHash]
       ELSE [cutoff |-> cutoff, found |-> TRUE,
             seq |-> Newest(Older(cutoff)).seq, hash |-> Newest(Older(cutoff)).hash]]
  /\ UNCHANGED <<log, checkpoint, clock, apc, entry, verification, high, torn>>

\* The cutoff, and the newest row older than it.
ReadBoundary(q) == \E cutoff \in 0 .. clock :
  /\ rpc[q] = "idle"
  /\ Alone
  /\ Spares => \A r \in log : (\A s \in log : s.seq <= r.seq) => cutoff <= r.at
  /\ rpc' = [rpc EXCEPT ![q] = "delete"]
  /\ boundary' = [boundary EXCEPT ![q] =
       IF Older(cutoff) = {} THEN [cutoff |-> cutoff, found |-> FALSE, seq |-> 0, hash |-> GenesisHash]
       ELSE [cutoff |-> cutoff, found |-> TRUE,
             seq |-> Newest(Older(cutoff)).seq, hash |-> Newest(Older(cutoff)).hash]]
  /\ UNCHANGED <<log, checkpoint, clock, apc, entry, verification, high, torn>>

\* mutated: rows at the cutoff go too, although the boundary is older
DeleteAtCutoff(q) ==
  /\ rpc[q] = "delete"
  /\ rpc' = [rpc EXCEPT ![q] = IF boundary[q].found THEN "record" ELSE "end"]
  /\ log' = {r \in log : r.at > boundary[q].cutoff}
  /\ UNCHANGED <<checkpoint, clock, apc, entry, boundary, verification, high, torn>>

\* DELETE the rows older than the cutoff.
DeleteOld(q) ==
  /\ rpc[q] = "delete"
  /\ rpc' = [rpc EXCEPT ![q] = IF boundary[q].found THEN "record" ELSE "end"]
  /\ log' = log \ Older(boundary[q].cutoff)
  /\ UNCHANGED <<checkpoint, clock, apc, entry, boundary, verification, high, torn>>

\* recordCheckpoint.
RecordCheckpoint(q) ==
  /\ rpc[q] = "record"
  /\ rpc' = [rpc EXCEPT ![q] = "end"]
  /\ checkpoint' = [seq |-> boundary[q].seq, hash |-> boundary[q].hash]
  /\ torn' = FALSE
  /\ UNCHANGED <<log, clock, apc, entry, boundary, verification, high>>

(***************************************************************************)
(* GET /audit-log/verify.                                                  *)
(***************************************************************************)
ReadRows(v) ==
  /\ vpc[v] = "idle"
  /\ Alone
  /\ vpc' = [vpc EXCEPT ![v] = "anchor"]
  /\ seen' = [seen EXCEPT ![v] = log]
  /\ UNCHANGED <<log, checkpoint, clock, apc, entry, retention, verdict, high, torn>>

\* verifyChain: the first entry in seq order whose prev_hash is not the hash
\* before it ("link"), or whose hash is not the one recomputed ("hash").
Before(rows, r, start) ==
  LET earlier == {s \in rows : s.seq < r.seq}
  IN  IF earlier = {} THEN start ELSE Newest(earlier).hash
Unlinked(rows, start) == {r \in rows : r.prev # Before(rows, r, start)}
Altered(rows) ==
  {r \in rows : r.hash # computeEntryHash(r.seq, r.event, r.prev, DateText(r.at))}
verifyChain(rows, start) ==
  LET bad == Unlinked(rows, start) \cup Altered(rows)
      first == CHOOSE r \in bad : \A s \in bad : r.seq <= s.seq
  IN  IF bad = {} THEN "ok" ELSE IF first \in Unlinked(rows, start) THEN "link" ELSE "hash"

\* mutated: the chain is always checked from its genesis
CheckFromGenesis(v) ==
  /\ vpc[v] = "anchor"
  /\ vpc' = [vpc EXCEPT ![v] = "end"]
  /\ seen' = [seen EXCEPT ![v] = {}]
  /\ verdict' = [verdict EXCEPT ![v] = verifyChain(seen[v], GenesisHash)]
  /\ UNCHANGED <<log, checkpoint, clock, apc, entry, retention, high, torn>>

\* getCheckpoint, and the answer.
CheckChain(v) ==
  /\ vpc[v] = "anchor"
  /\ vpc' = [vpc EXCEPT ![v] = "end"]
  /\ seen' = [seen EXCEPT ![v] = {}]
  /\ verdict' = [verdict EXCEPT ![v] = verifyChain(seen[v], checkpoint.hash)]
  /\ UNCHANGED <<log, checkpoint, clock, apc, entry, retention, high, torn>>

-----------------------------------------------------------------------------
\* Time passes; an append takes less than a unit.
Tick ==
  /\ clock < MaxClock
  /\ \A e \in Events : ~InFlight(e)
  /\ clock' = clock + 1
  /\ UNCHANGED <<log, checkpoint, apc, entry, retention, verification, high, torn>>

\* The process dies at any moment: what it was doing is lost, the tables stay.
\* Between a purge's DELETE and its checkpoint the rows that survive hang on a row
\* no checkpoint names; if none survives, the next append starts at the old one.
Crash ==
  /\ Retaining \/ Verifying \/ \E e \in Events : InFlight(e)
  /\ apc' = [e \in Events |-> IF InFlight(e) THEN "lost" ELSE apc[e]]
  /\ rpc' = [q \in Retentions |-> IF rpc[q] \in {"delete", "record"} THEN "end" ELSE rpc[q]]
  /\ vpc' = [v \in Verifies |-> IF vpc[v] = "anchor" THEN "end" ELSE vpc[v]]
  /\ seen' = [v \in Verifies |-> {}]
  /\ IF \E q \in Retentions : rpc[q] = "record"
     THEN torn' = (log # {}) /\ high' = IF log = {} THEN checkpoint.seq ELSE high
     ELSE UNCHANGED <<torn, high>>
  /\ UNCHANGED <<log, checkpoint, clock, entry, boundary, verdict>>

Next ==
  \/ \E e \in Events : ReadLast(e) \/ ReadCheckpoint(e) \/ InsertEntry(e)
  \/ \E q \in Retentions : ReadBoundary(q) \/ DeleteOld(q) \/ RecordCheckpoint(q)
  \/ \E v \in Verifies : ReadRows(v) \/ CheckChain(v)
  \/ Tick
  \/ Crash

Spec == Init /\ [][Next]_vars
-----------------------------------------------------------------------------
\* The types; a hash may be any value.
TypeOK ==
  /\ \A r \in log : r.seq \in Nat \ {0} /\ r.event \in Events /\ r.at \in 0 .. clock
  /\ checkpoint.seq \in Nat
  /\ clock \in Nat
  /\ high \in Nat
  /\ torn \in BOOLEAN
  /\ apc \in [Events -> {"new", "checkpoint", "insert", "done", "lost"}]
  /\ DOMAIN entry = Events /\ \A e \in Events : entry[e].seq \in Nat
  /\ rpc \in [Retentions -> {"idle", "delete", "record", "end"}]
  /\ DOMAIN boundary = Retentions
  /\ \A q \in Retentions : boundary[q].cutoff \in 0 .. clock /\ boundary[q].seq \in Nat
  /\ vpc \in [Verifies -> {"idle", "anchor", "end"}]
  /\ verdict \in [Verifies -> {"none", "ok", "link", "hash"}]

\* The surviving rows are one chain without gap or fork up to the highest seq
\* used, however appends, purges, verifications and crashes interleave.
OneChain ==
  /\ \A r, s \in log : r.seq = s.seq => r = s
  /\ \A r \in log : r.seq <= high /\ \A n \in r.seq .. high : \E s \in log : s.seq = n
  /\ \A r, s \in log : r.seq + 1 = s.seq => s.prev = r.hash

LinkedTo(anchor) ==
  /\ \A r \in log : (\A s \in log : r.seq <= s.seq) =>
       r.prev = anchor.hash /\ r.seq = anchor.seq + 1
  /\ log = {} => anchor.seq = high

\* Between retention requests the oldest surviving row links to the checkpoint,
\* and an emptied log's checkpoint is the last entry of its numbering; but for a
\* purge that died before its checkpoint, until the next one is recorded.
Anchored == ~Retaining /\ ~torn => LinkedTo(checkpoint)

\* A new entry takes the number after every number used, even when retention has
\* emptied the table.  Numbers are used again only after a purge that emptied the
\* table died before its checkpoint: they go on from the one before.
SeqAdvances == [][\A r \in log' \ log : r.seq = high + 1]_vars

\* Verification of a log nobody edited finds no link broken, from the anchor to the
\* newest row; when a purge died before its checkpoint it does report one.
LinksVerify ==
  [][\A v \in Verifies : verdict'[v] # verdict[v] =>
       IF torn THEN verdict'[v] = "link"
       ELSE verdict'[v] # "link" /\ Unlinked(seen[v], checkpoint.hash) = {}]_vars

\* Verification of a log nobody edited succeeds.
VerifiesOk == \A v \in Verifies : verdict[v] \in {"none", "ok"}

(***************************************************************************)
(* The inductive invariant: what each append in flight has derived, and    *)
(* what the log owes to the way retention is used.                         *)
(***************************************************************************)
Ascending == \A r, s \in log : r.seq <= s.seq => r.at <= s.at

\* A derived seq is the next one, or one a rival has taken in the meantime.
Derived == \A e \in Events : apc[e] = "insert" =>
  /\ entry[e].seq \in 1 .. high + 1
  /\ entry[e].seq = high + 1 => \A r \in log : r.seq = high => entry[e].prev = r.hash
  /\ entry[e].seq <= high => \E r \in log : r.seq = entry[e].seq
  /\ \A r \in log : r.seq >= entry[e].seq => r.at = clock

\* When cutoffs spare the newest row the log is empty only before its first entry.
Spared ==
  /\ log = {} => high = 0
  /\ high = 0 => checkpoint.seq = 0 /\ \A q \in Retentions : ~boundary[q].found
  /\ \A q \in Retentions : rpc[q] = "record" => boundary[q].found
  /\ \A q \in Retentions : rpc[q] = "delete" =>
       \A r \in log : r.seq = high => boundary[q].cutoff <= r.at
  /\ \A e \in Events : apc[e] = "checkpoint" =>
       /\ checkpoint.seq = 0
       /\ \A q \in Retentions : ~boundary[q].found
       /\ \A r \in log : r.at = clock
       /\ high > 0 => \E r \in log : r.seq = 1

\* When retention runs alone its boundary is still the newest row it deletes.
Exclusive ==
  /\ Retaining => \A e \in Events : ~InFlight(e)
  /\ \A p, q \in Retentions :
       rpc[p] \in {"delete", "record"} /\ rpc[q] \in {"delete", "record"} => p = q
  /\ (\A q \in Retentions : rpc[q] # "record") =>
       IF torn THEN log # {} /\ \A r \in log : r.seq > checkpoint.seq + 1
       ELSE LinkedTo(checkpoint)
  /\ \A q \in Retentions : rpc[q] = "record" =>
       LinkedTo(boundary[q]) /\ boundary[q].seq > checkpoint.seq
  /\ \A q \in Retentions : rpc[q] = "delete" =>
       IF boundary[q].found
       THEN /\ \E r \in Older(boundary[q].cutoff) :
                 r.seq = boundary[q].seq /\ r.hash = boundary[q].hash
            /\ \A r \in Older(boundary[q].cutoff) : r.seq <= boundary[q].seq
       ELSE Older(boundary[q].cutoff) = {}
  /\ \A e \in Events :
       /\ apc[e] = "checkpoint" => ~torn /\ \A r \in log : r.at = clock
       /\ apc[e] = "insert" /\ log = {} =>
            entry[e].prev = checkpoint.hash /\ entry[e].seq = checkpoint.seq + 1

ChainInv ==
  TypeOK /\ OneChain /\ Ascending /\ Derived /\ (Spares => Spared) /\ (~Overlap => Exclusive)
=============================================================================
