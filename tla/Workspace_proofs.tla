--------------------------- MODULE Workspace_proofs ---------------------------
(***************************************************************************)
(* Theorems about the workspace: its audit log (AuditChain), for every set *)
(* of events and of requests for retention and verification; who may do    *)
(* what in a project (Access) and teams (Teams), for every set of people,  *)
(* roles and callers, every number of requests at once and every cap on    *)
(* links; the search (Search), for a query of any length; and the          *)
(* workspace composed of these and of the sprints (MCWorkspace).           *)
(***************************************************************************)
EXTENDS MCWorkspace, NumberLemmas, FiniteSetTheorems, SequenceTheorems, TLAPS

(***************************************************************************)
(* The audit log (AuditChain): the invariant ChainInv, the chain property  *)
(* OneChain, the anchor of the oldest row, and the numbering of new rows.  *)
(* First the newest and the oldest row.                                    *)
(***************************************************************************)
\* Newest picks a row with the highest seq.
LEMMA NewestIsHighest ==
  ASSUME NEW rows, rows # {}, NEW b \in Nat, \A r \in rows : r.seq \in Nat /\ r.seq <= b
  PROVE  Newest(rows) \in rows /\ \A r \in rows : r.seq <= Newest(rows).seq
<1> DEFINE S == {r.seq : r \in rows}
<1>1. S \subseteq Nat /\ S # {} /\ \A n \in S : n <= b
  OBVIOUS
<1>2. \E m \in S : \A n \in S : n <= m
  <2> HIDE DEF S
  <2> QED BY <1>1, GreatestOf
<1>3. \E r \in rows : \A s \in rows : s.seq <= r.seq
  BY <1>2
<1> QED BY <1>3 DEF Newest

\* A non-empty log has an oldest row.
LEMMA OldestExists ==
  ASSUME NEW rows, rows # {}, \A r \in rows : r.seq \in Nat
  PROVE  \E r \in rows : \A s \in rows : r.seq <= s.seq
<1> DEFINE S == {r.seq : r \in rows}
<1>1. S \subseteq Nat /\ S # {}
  OBVIOUS
<1>2. \E m \in S : \A n \in S : m <= n
  <2> HIDE DEF S
  <2> QED BY <1>1, LeastOf
<1> QED BY <1>2

\* The newest row of a chain carries the highest seq ever used.
LEMMA NewestIsHigh ==
  ASSUME TypeOK, OneChain, log # {}
  PROVE  Newest(log) \in log /\ Newest(log).seq = high
<1>1. high \in Nat /\ \A r \in log : r.seq \in Nat /\ r.seq <= high
  BY DEF TypeOK, OneChain
<1>2. Newest(log) \in log /\ \A r \in log : r.seq <= Newest(log).seq
  BY <1>1, NewestIsHighest
<1>3. PICK s \in log : s.seq = high
  BY <1>1 DEF OneChain
<1> QED BY <1>1, <1>2, <1>3

(***************************************************************************)
(* ChainInv is inductive when cutoffs spare the newest row or retention    *)
(* runs alone: one lemma per action, one step per conjunct it can disturb. *)
(***************************************************************************)
Mode == Spares \/ ~Overlap

LEMMA InitChainInv == Init => ChainInv
<1> SUFFICES ASSUME Init PROVE ChainInv
  OBVIOUS
<1>1. TypeOK
  <2>1. torn \in BOOLEAN
    BY DEF Init
  <2> QED BY <2>1, AuditAssumption DEF Init, TypeOK
<1>4. OneChain /\ Ascending /\ Derived
  BY DEF Init, OneChain, Ascending, Derived
<1>5. Spared
  BY DEF Init, Spared
<1>2. LinkedTo(checkpoint)
  BY DEF Init, LinkedTo
<1>3. Exclusive
  BY <1>2 DEF Init, Exclusive, InFlight, Retaining
<1> QED BY <1>1, <1>3, <1>4, <1>5 DEF ChainInv

LEMMA ReadLastKeeps ==
  ASSUME ChainInv, NEW e \in Events, ReadLast(e)
  PROVE  ChainInv'
<1> USE DEF ReadLast, retention, verification
<1>1. log # {} => Newest(log) \in log /\ Newest(log).seq = high
  BY NewestIsHigh DEF ChainInv
<1>2. TypeOK'
  BY <1>1 DEF ChainInv, TypeOK
<1>3. OneChain' /\ Ascending'
  BY DEF ChainInv, OneChain, Ascending
<1>4. Derived'
  <2> SUFFICES ASSUME NEW f \in Events, apc'[f] = "insert"
               PROVE  /\ entry'[f].seq \in 1 .. high + 1
                      /\ entry'[f].seq = high + 1 => \A r \in log : r.seq = high => entry'[f].prev = r.hash
                      /\ entry'[f].seq <= high => \E r \in log : r.seq = entry'[f].seq
                      /\ \A r \in log : r.seq >= entry'[f].seq => r.at = clock
    BY DEF Derived
  <2>1. CASE f # e
    BY <2>1 DEF ChainInv, Derived, TypeOK
  <2>2. CASE f = e
    <3>1. log # {}
      BY <2>2 DEF ChainInv, TypeOK
    <3>2. entry'[f] = [seq |-> high + 1, prev |-> Newest(log).hash]
      BY <1>1, <2>2, <3>1 DEF ChainInv, TypeOK
    <3>3. \A r \in log : r.seq = high => r = Newest(log)
      BY <1>1, <3>1 DEF ChainInv, OneChain
    <3>4. high \in Nat /\ \A r \in log : r.seq \in Nat /\ r.seq <= high
      BY DEF ChainInv, TypeOK, OneChain
    <3> QED BY <3>2, <3>3, <3>4
  <2> QED BY <2>1, <2>2
<1>5. Spares => Spared'
  <2> HAVE Spares
  <2>1. log = {} => high = 0
    BY DEF ChainInv, Spared
  <2> QED BY <2>1 DEF ChainInv, Spared, TypeOK
<1>6. ~Overlap => Exclusive'
  <2> HAVE ~Overlap
  <2>1. ~Retaining /\ Retaining' = Retaining
    BY DEF LogFree, Retaining
  <2>2. log = {} => ~torn
    BY <2>1 DEF ChainInv, Exclusive, Retaining
  <2> QED BY <2>1, <2>2 DEF ChainInv, Exclusive, LinkedTo, Older, InFlight, Retaining, TypeOK
<1> QED BY <1>2, <1>3, <1>4, <1>5, <1>6 DEF ChainInv

LEMMA ReadCheckpointKeeps ==
  ASSUME ChainInv, Mode, NEW e \in Events, ReadCheckpoint(e)
  PROVE  ChainInv'
<1> USE DEF ReadCheckpoint, retention, verification
<1>1. TypeOK'
  BY DEF ChainInv, TypeOK
<1>2. OneChain' /\ Ascending'
  BY DEF ChainInv, OneChain, Ascending
<1>3. entry'[e] = [seq |-> checkpoint.seq + 1, prev |-> checkpoint.hash]
  BY DEF ChainInv, TypeOK
<1>4. checkpoint.seq \in Nat /\ high \in Nat /\ \A r \in log : r.seq \in Nat \ {0} /\ r.seq <= high
  BY DEF ChainInv, TypeOK, OneChain
<1>5. /\ entry'[e].seq \in 1 .. high + 1
      /\ entry'[e].seq = high + 1 => \A r \in log : r.seq = high => entry'[e].prev = r.hash
      /\ entry'[e].seq <= high => \E r \in log : r.seq = entry'[e].seq
      /\ \A r \in log : r.seq >= entry'[e].seq => r.at = clock
  <2>1. CASE Spares
    <3>1. /\ checkpoint.seq = 0
          /\ \A r \in log : r.at = clock
          /\ high > 0 => \E r \in log : r.seq = 1
      BY <2>1 DEF ChainInv, Spared
    <3> QED BY <1>3, <1>4, <3>1
  <2>2. CASE ~Overlap
    <3>1. LinkedTo(checkpoint)
      BY <2>2 DEF ChainInv, Exclusive, LogFree, Retaining
    <3>2. \A r \in log : r.at = clock
      BY <2>2 DEF ChainInv, Exclusive
    <3>3. CASE log = {}
      BY <1>3, <1>4, <3>1, <3>3 DEF LinkedTo
    <3>4. CASE log # {}
      <4>1. PICK r \in log : \A s \in log : r.seq <= s.seq
        BY <1>4, <3>4, OldestExists
      <4>2. r.seq = checkpoint.seq + 1
        BY <3>1, <4>1 DEF LinkedTo
      <4> QED BY <1>3, <1>4, <3>2, <4>2
    <3> QED BY <3>3, <3>4
  <2> QED BY <2>1, <2>2 DEF Mode
<1>6. Derived'
  <2> SUFFICES ASSUME NEW f \in Events, apc'[f] = "insert"
               PROVE  /\ entry'[f].seq \in 1 .. high + 1
                      /\ entry'[f].seq = high + 1 => \A r \in log : r.seq = high => entry'[f].prev = r.hash
                      /\ entry'[f].seq <= high => \E r \in log : r.seq = entry'[f].seq
                      /\ \A r \in log : r.seq >= entry'[f].seq => r.at = clock
    BY DEF Derived
  <2>1. CASE f # e
    BY <2>1 DEF ChainInv, Derived, TypeOK
  <2> QED BY <1>5, <2>1
<1>7. Spares => Spared'
  BY DEF ChainInv, Spared, TypeOK
<1>8. ~Overlap => Exclusive'
  <2> HAVE ~Overlap
  <2>1. ~Retaining /\ Retaining' = Retaining
    BY DEF LogFree, Retaining
  <2> QED BY <1>3, <2>1 DEF ChainInv, Exclusive, LinkedTo, Older, InFlight, Retaining, TypeOK
<1> QED BY <1>1, <1>2, <1>6, <1>7, <1>8 DEF ChainInv

LEMMA InsertEntryKeeps ==
  ASSUME ChainInv, NEW e \in Events, InsertEntry(e)
  PROVE  ChainInv'
<1> USE DEF InsertEntry, retention, verification
<1>1. /\ high \in Nat /\ clock \in Nat
      /\ entry[e].seq \in 1 .. high + 1
      /\ \A r \in log : r.seq \in Nat \ {0} /\ r.seq <= high /\ r.at \in 0 .. clock
  BY DEF ChainInv, TypeOK, OneChain, Derived
<1>2. CASE log' = log /\ high' = high
  <2>1. apc'[e] # "insert" /\ apc'[e] # "checkpoint" /\ apc' = [apc EXCEPT ![e] = apc'[e]]
    BY DEF ChainInv, TypeOK
  <2>2. TypeOK'
    BY <1>2 DEF ChainInv, TypeOK
  <2>3. OneChain' /\ Ascending' /\ Derived'
    BY <1>2, <2>1 DEF ChainInv, TypeOK, OneChain, Ascending, Derived
  <2>4. Spares => Spared'
    BY <1>2, <2>1 DEF ChainInv, TypeOK, Spared
  <2>5. ~Overlap => Exclusive'
    BY <1>2, <2>1 DEF ChainInv, TypeOK, Exclusive, LinkedTo, Older, InFlight, Retaining
  <2> QED BY <2>2, <2>3, <2>4, <2>5 DEF ChainInv
<1>3. CASE /\ \A r \in log : r.seq # entry[e].seq
           /\ apc' = [apc EXCEPT ![e] = "done"]
           /\ log' = log \cup {Row(e)}
           /\ high' = Greater(high, entry[e].seq)
  <2> DEFINE new == Row(e)
  <2>1. entry[e].seq = high + 1 /\ high' = high + 1
    BY <1>1, <1>3 DEF ChainInv, Derived, Greater
  <2>2. /\ new.seq = high + 1
        /\ new.event = e
        /\ new.at = clock
        /\ new.prev = entry[e].prev
    BY <2>1 DEF Row
  <2>3. log' = log \cup {new}
    BY <1>3
  <2> HIDE DEF new
  <2>4. TypeOK'
    BY <1>1, <1>3, <2>1, <2>2, <2>3 DEF ChainInv, TypeOK
  <2>5. OneChain'
    <3>1. \A r, s \in log' : r.seq = s.seq => r = s
      BY <1>1, <2>2, <2>3 DEF ChainInv, OneChain
    <3>2. ASSUME NEW r \in log', NEW n \in r.seq .. high + 1
          PROVE  \E s \in log' : s.seq = n
      <4>1. r.seq \in Nat /\ n \in Nat
        BY <1>1, <2>2, <2>3
      <4>2. CASE n = high + 1
        BY <2>2, <2>3, <4>2
      <4>3. CASE n # high + 1
        BY <1>1, <2>2, <2>3, <4>1, <4>3 DEF ChainInv, OneChain
      <4> QED BY <4>2, <4>3
    <3>3. \A r \in log' : r.seq <= high + 1
      BY <1>1, <2>2, <2>3
    <3>4. ASSUME NEW r \in log', NEW s \in log', r.seq + 1 = s.seq
          PROVE  s.prev = r.hash
      <4>1. CASE s \in log
        BY <1>1, <2>2, <2>3, <3>4, <4>1 DEF ChainInv, OneChain
      <4>2. CASE s = new
        BY <1>1, <2>1, <2>2, <2>3, <3>4, <4>2 DEF ChainInv, Derived
      <4> QED BY <2>3, <4>1, <4>2
    <3> QED BY <2>1, <3>1, <3>2, <3>3, <3>4 DEF OneChain
  <2>6. Ascending'
    BY <1>1, <2>2, <2>3 DEF ChainInv, Ascending
  <2>7. Derived'
    <3> SUFFICES ASSUME NEW f \in Events, apc'[f] = "insert"
                 PROVE  /\ entry[f].seq \in 1 .. high + 2
                        /\ entry[f].seq # high + 2
                        /\ entry[f].seq <= high + 1 => \E r \in log' : r.seq = entry[f].seq
                        /\ \A r \in log' : r.seq >= entry[f].seq => r.at = clock
      BY <1>1, <2>1 DEF Derived
    <3>1. apc[f] = "insert"
      BY <1>3 DEF ChainInv, TypeOK
    <3>2. entry[f].seq \in 1 .. high + 1
      BY <3>1 DEF ChainInv, Derived
    <3>3. entry[f].seq <= high + 1 => \E r \in log' : r.seq = entry[f].seq
      BY <1>1, <2>2, <2>3, <3>1, <3>2 DEF ChainInv, Derived
    <3> QED BY <1>1, <2>2, <2>3, <3>1, <3>2, <3>3 DEF ChainInv, Derived
  <2>8. Spares => Spared'
    <3> HAVE Spares
    <3>1. log' # {} /\ high' # 0
      BY <1>1, <2>1, <2>3
    <3>2. \A z \in Retentions : rpc[z] = "delete" =>
            \A r \in log' : r.seq = high + 1 => boundary[z].cutoff <= r.at
      BY <1>1, <2>2, <2>3 DEF ChainInv, TypeOK
    <3>3. ASSUME NEW f \in Events, apc'[f] = "checkpoint"
          PROVE  /\ checkpoint.seq = 0
                 /\ \A z \in Retentions : ~boundary[z].found
                 /\ \A r \in log' : r.at = clock
                 /\ \E r \in log' : r.seq = 1
      <4>1. apc[f] = "checkpoint"
        BY <1>3, <3>3 DEF ChainInv, TypeOK
      <4>2. high = 0 => new.seq = 1
        BY <2>2
      <4> QED BY <1>1, <2>2, <2>3, <4>1, <4>2 DEF ChainInv, Spared
    <3> QED BY <2>1, <3>1, <3>2, <3>3 DEF ChainInv, Spared
  <2>9. ~Overlap => Exclusive'
    <3> HAVE ~Overlap
    <3>1. ~Retaining /\ ~Retaining'
      BY DEF LogFree, Retaining
    <3>2. IF torn THEN log # {} /\ \A r \in log : r.seq > checkpoint.seq + 1 ELSE LinkedTo(checkpoint)
      BY <3>1 DEF ChainInv, Exclusive, Retaining
    <3>6. checkpoint.seq \in Nat
      BY DEF ChainInv, TypeOK
    <3>7. ASSUME torn PROVE log' # {} /\ \A s \in log' : s.seq > checkpoint.seq + 1
      <4>1. PICK r \in log : r.seq > checkpoint.seq + 1
        BY <3>2, <3>7
      <4> QED BY <1>1, <2>2, <2>3, <3>2, <3>6, <3>7, <4>1
    <3>3. ASSUME ~torn PROVE LinkedTo(checkpoint)'
      <4>1. CASE log = {}
        <5>1. new.prev = checkpoint.hash /\ new.seq = checkpoint.seq + 1
          BY <2>1, <2>2, <4>1 DEF ChainInv, Exclusive
        <5> QED BY <2>3, <4>1, <5>1 DEF LinkedTo
      <4>2. CASE log # {}
        <5>1. \A r \in log' : (\A s \in log' : r.seq <= s.seq) => r \in log
          BY <1>1, <2>2, <2>3, <4>2
        <5> QED BY <2>3, <3>2, <3>3, <4>2, <5>1 DEF LinkedTo
      <4> QED BY <4>1, <4>2
    <3>4. \A f \in Events : apc'[f] = "checkpoint" => apc[f] = "checkpoint"
      BY <1>3 DEF ChainInv, TypeOK
    <3>5. \A f \in Events : apc'[f] = "checkpoint" => ~torn /\ \A r \in log' : r.at = clock
      BY <2>2, <2>3, <3>4 DEF ChainInv, Exclusive
    <3> QED BY <2>3, <3>1, <3>3, <3>5, <3>7 DEF Exclusive, Retaining
  <2> QED BY <2>4, <2>5, <2>6, <2>7, <2>8, <2>9 DEF ChainInv
<1> QED BY <1>2, <1>3

LEMMA ReadBoundaryKeeps ==
  ASSUME ChainInv, NEW z \in Retentions, ReadBoundary(z)
  PROVE  ChainInv'
<1>1. PICK cutoff \in 0 .. clock :
        /\ rpc[z] = "idle"
        /\ Alone
        /\ Spares => \A r \in log : (\A s \in log : s.seq <= r.seq) => cutoff <= r.at
        /\ rpc' = [rpc EXCEPT ![z] = "delete"]
        /\ boundary' = [boundary EXCEPT ![z] =
             IF Older(cutoff) = {}
             THEN [cutoff |-> cutoff, found |-> FALSE, seq |-> 0, hash |-> GenesisHash]
             ELSE [cutoff |-> cutoff, found |-> TRUE,
                   seq |-> Newest(Older(cutoff)).seq, hash |-> Newest(Older(cutoff)).hash]]
        /\ UNCHANGED <<log, checkpoint, clock, apc, entry, verification, high, torn>>
  BY DEF ReadBoundary
<1> USE DEF verification
<1>2. /\ high \in Nat /\ clock \in Nat /\ cutoff \in 0 .. clock
      /\ \A r \in log : r.seq \in Nat \ {0} /\ r.seq <= high /\ r.at \in 0 .. clock
  BY DEF ChainInv, TypeOK, OneChain
<1>3. Older(cutoff) # {} =>
        /\ Newest(Older(cutoff)) \in Older(cutoff)
        /\ \A r \in Older(cutoff) : r.seq <= Newest(Older(cutoff)).seq
  <2>1. Older(cutoff) \subseteq log
    BY DEF Older
  <2> QED BY <1>2, <2>1, NewestIsHighest
<1>4. Older(cutoff) \subseteq log /\ \A r \in Older(cutoff) : r.at < cutoff
  BY DEF Older
<1>5. /\ boundary'[z].cutoff = cutoff
      /\ Older(cutoff) = {} => boundary'[z].found = FALSE /\ boundary'[z].seq = 0
      /\ Older(cutoff) # {} => /\ boundary'[z].found = TRUE
                               /\ boundary'[z].seq = Newest(Older(cutoff)).seq
                               /\ boundary'[z].hash = Newest(Older(cutoff)).hash
  BY <1>1 DEF ChainInv, TypeOK
<1>6. TypeOK'
  <2>1. boundary'[z].seq \in Nat
    BY <1>2, <1>3, <1>4, <1>5
  <2> QED BY <1>1, <1>5, <2>1 DEF ChainInv, TypeOK
<1>7. OneChain' /\ Ascending' /\ Derived'
  BY <1>1 DEF ChainInv, OneChain, Ascending, Derived
<1>8. Spares => Spared'
  <2> HAVE Spares
  <2>1. high = 0 => ~boundary'[z].found
    BY <1>2, <1>4, <1>5
  <2>2. \A r \in log : r.seq = high => cutoff <= r.at
    BY <1>1, <1>2
  <2>3. ASSUME NEW e \in Events, apc[e] = "checkpoint" PROVE ~boundary'[z].found
    <3>1. \A r \in log : r.at = clock
      BY <2>3 DEF ChainInv, Spared
    <3> QED BY <1>2, <1>4, <1>5, <3>1
  <2>4. \A p \in Retentions : p # z => rpc'[p] = rpc[p] /\ boundary'[p] = boundary[p]
    BY <1>1 DEF ChainInv, TypeOK
  <2>5. rpc'[z] = "delete"
    BY <1>1 DEF ChainInv, TypeOK
  <2>6. log = {} => high = 0
    BY DEF ChainInv, Spared
  <2>7. high = 0 => checkpoint.seq = 0 /\ \A p \in Retentions : ~boundary'[p].found
    BY <2>1, <2>4 DEF ChainInv, Spared
  <2>8. \A p \in Retentions : rpc'[p] = "record" => boundary'[p].found
    BY <2>4, <2>5 DEF ChainInv, Spared
  <2>9. \A p \in Retentions : rpc'[p] = "delete" =>
          \A r \in log : r.seq = high => boundary'[p].cutoff <= r.at
    BY <1>5, <2>2, <2>4 DEF ChainInv, Spared
  <2>10. \A e \in Events : apc[e] = "checkpoint" =>
           /\ checkpoint.seq = 0
           /\ \A p \in Retentions : ~boundary'[p].found
           /\ \A r \in log : r.at = clock
           /\ high > 0 => \E r \in log : r.seq = 1
    BY <2>3, <2>4 DEF ChainInv, Spared
  <2> QED BY <1>1, <2>6, <2>7, <2>8, <2>9, <2>10 DEF Spared
<1>9. ~Overlap => Exclusive'
  <2> HAVE ~Overlap
  <2>1. ~Retaining /\ \A e \in Events : ~InFlight(e)
    BY <1>1 DEF Alone, LogFree
  <2>2. \A p \in Retentions : rpc'[p] \in {"delete", "record"} => p = z /\ rpc'[p] = "delete"
    BY <1>1, <2>1 DEF ChainInv, TypeOK, Retaining
  <2>3. IF torn THEN log # {} /\ \A r \in log : r.seq > checkpoint.seq + 1 ELSE LinkedTo(checkpoint)
    BY <2>1 DEF ChainInv, Exclusive, Retaining
  <2>4. IF boundary'[z].found
        THEN /\ \E r \in Older(cutoff) : r.seq = boundary'[z].seq /\ r.hash = boundary'[z].hash
             /\ \A r \in Older(cutoff) : r.seq <= boundary'[z].seq
        ELSE Older(cutoff) = {}
    BY <1>3, <1>5
  <2> QED BY <1>1, <1>5, <2>1, <2>2, <2>3, <2>4 DEF Exclusive, LinkedTo, Older, InFlight
<1> QED BY <1>6, <1>7, <1>8, <1>9 DEF ChainInv

LEMMA DeleteOldKeeps ==
  ASSUME ChainInv, Mode, NEW z \in Retentions, DeleteOld(z)
  PROVE  ChainInv'
<1> DEFINE cutoff == boundary[z].cutoff
<1> USE DEF DeleteOld, verification
<1>1. /\ high \in Nat /\ clock \in Nat /\ cutoff \in 0 .. clock
      /\ \A r \in log : r.seq \in Nat \ {0} /\ r.seq <= high /\ r.at \in 0 .. clock
  BY DEF ChainInv, TypeOK, OneChain
<1>2. log' = {r \in log : ~(r.at < cutoff)}
  BY DEF Older
<1>3. \A p \in Retentions : p # z => rpc'[p] = rpc[p]
  BY DEF ChainInv, TypeOK
<1>4. rpc'[z] = IF boundary[z].found THEN "record" ELSE "end"
  BY DEF ChainInv, TypeOK
<1> HIDE DEF cutoff
<1>5. TypeOK'
  BY <1>2 DEF ChainInv, TypeOK
<1>6. OneChain'
  <2>1. ASSUME NEW r \in log', NEW n \in r.seq .. high
        PROVE  \E s \in log' : s.seq = n
    <3>1. PICK s \in log : s.seq = n
      BY <1>2 DEF ChainInv, OneChain
    <3>2. r \in log /\ r.at <= s.at
      BY <1>1, <1>2, <3>1 DEF ChainInv, Ascending
    <3> QED BY <1>1, <1>2, <3>1, <3>2
  <2> QED BY <1>2, <2>1 DEF ChainInv, OneChain
<1>7. Ascending'
  BY <1>2 DEF ChainInv, Ascending
<1>8. Derived'
  <2>1. \A r \in log : r.at = clock => r \in log'
    BY <1>1, <1>2
  <2>2. \A e \in Events : entry[e].seq \in Nat
    BY DEF ChainInv, TypeOK
  <2> QED BY <1>2, <2>1, <2>2 DEF ChainInv, Derived
<1>9. Spares => Spared'
  <2> HAVE Spares
  <2>1. log' = {} => high = 0
    <3> SUFFICES ASSUME high # 0 PROVE log' # {}
      OBVIOUS
    <3>1. PICK r \in log : r.seq = high
      BY <1>1 DEF ChainInv, OneChain, Spared
    <3>2. cutoff <= r.at
      BY <3>1 DEF ChainInv, Spared, cutoff
    <3> QED BY <1>1, <1>2, <3>1, <3>2
  <2>2. \A e \in Events : apc[e] = "checkpoint" => log' = log
    BY <1>1, <1>2 DEF ChainInv, Spared
  <2> QED BY <1>2, <1>3, <1>4, <2>1, <2>2 DEF ChainInv, Spared
<1>10. ~Overlap => Exclusive'
  <2> HAVE ~Overlap
  <2>1. /\ \A e \in Events : ~InFlight(e)
        /\ \A p \in Retentions : rpc[p] \in {"delete", "record"} => p = z
    BY DEF ChainInv, Exclusive, Retaining
  <2>2. IF torn THEN log # {} /\ \A r \in log : r.seq > checkpoint.seq + 1 ELSE LinkedTo(checkpoint)
    BY <2>1 DEF ChainInv, Exclusive
  <2>3. CASE ~boundary[z].found
    <3>1. log' = log
      BY <2>3 DEF ChainInv, Exclusive
    <3>2. \A p \in Retentions : rpc'[p] \notin {"delete", "record"}
      BY <1>3, <1>4, <2>1, <2>3
    <3> QED BY <2>1, <2>2, <3>1, <3>2 DEF Exclusive, LinkedTo, InFlight
  <2>4. CASE boundary[z].found
    <3>1. PICK b \in Older(cutoff) : b.seq = boundary[z].seq /\ b.hash = boundary[z].hash
      BY <2>4 DEF ChainInv, Exclusive, cutoff
    <3>2. \A r \in Older(cutoff) : r.seq <= b.seq
      BY <2>4, <3>1 DEF ChainInv, Exclusive, cutoff
    <3>3. b \in log /\ b.at < cutoff
      BY DEF Older
    <3>4. ASSUME NEW r \in log' PROVE r \in log /\ b.seq < r.seq
      <4>1. r \in log /\ ~(r.at < cutoff)
        BY <1>2
      <4>2. ~(r.seq <= b.seq)
        <5>1. r.seq <= b.seq => r.at <= b.at
          BY <3>3, <4>1 DEF ChainInv, Ascending
        <5> QED BY <1>1, <3>3, <4>1, <5>1
      <4> QED BY <1>1, <3>3, <4>1, <4>2
    <3>5. \A s \in log : s.seq = b.seq + 1 => s \in log'
      BY <1>1, <1>2, <3>2, <3>3 DEF Older
    <3>6. ASSUME NEW r \in log', \A s \in log' : r.seq <= s.seq
          PROVE  r.prev = b.hash /\ r.seq = b.seq + 1
      <4>1. r \in log /\ b.seq < r.seq /\ r.seq <= high
        BY <1>1, <3>4
      <4>2. PICK s \in log : s.seq = b.seq + 1
        BY <1>1, <3>3, <4>1 DEF ChainInv, OneChain
      <4>3. r.seq = b.seq + 1
        BY <1>1, <3>3, <3>5, <3>6, <4>1, <4>2
      <4> QED BY <3>3, <4>1, <4>3 DEF ChainInv, OneChain
    <3>7. log' = {} => b.seq = high
      <4>1. PICK t \in log : t.seq = high
        BY <1>1, <3>3 DEF ChainInv, OneChain
      <4>2. log' = {} => t.seq <= b.seq
        BY <1>2, <3>2 DEF Older
      <4> QED BY <1>1, <3>3, <4>1, <4>2
    <3>8. LinkedTo(boundary[z])'
      BY <3>1, <3>6, <3>7 DEF LinkedTo
    <3>11. b.seq > checkpoint.seq
      <4>1. checkpoint.seq \in Nat
        BY DEF ChainInv, TypeOK
      <4>2. PICK r \in log : \A s \in log : r.seq <= s.seq
        BY <1>1, <3>3, OldestExists
      <4>3. ~torn => r.seq = checkpoint.seq + 1
        BY <2>2, <4>2 DEF LinkedTo
      <4>4. r.seq >= checkpoint.seq + 1
        BY <1>1, <2>2, <4>1, <4>3
      <4> QED BY <1>1, <3>3, <4>1, <4>2, <4>4
    <3>9. \A p \in Retentions : rpc'[p] \in {"delete", "record"} => p = z /\ rpc'[p] = "record"
      BY <1>3, <1>4, <2>1, <2>4
    <3>10. rpc'[z] = "record"
      BY <1>4, <2>4
    <3> QED BY <2>1, <3>1, <3>8, <3>9, <3>10, <3>11 DEF Exclusive, InFlight
  <2> QED BY <2>3, <2>4
<1> QED BY <1>5, <1>6, <1>7, <1>8, <1>9, <1>10 DEF ChainInv

LEMMA RecordCheckpointKeeps ==
  ASSUME ChainInv, NEW z \in Retentions, RecordCheckpoint(z)
  PROVE  ChainInv'
<1> USE DEF RecordCheckpoint, verification
<1>1. /\ \A p \in Retentions : p # z => rpc'[p] = rpc[p]
      /\ rpc'[z] = "end"
      /\ checkpoint'.seq = boundary[z].seq /\ checkpoint'.hash = boundary[z].hash
  BY DEF ChainInv, TypeOK
<1>2. TypeOK'
  BY <1>1 DEF ChainInv, TypeOK
<1>3. OneChain' /\ Ascending' /\ Derived'
  BY DEF ChainInv, OneChain, Ascending, Derived
<1>4. Spares => Spared'
  <2> HAVE Spares
  <2>1. boundary[z].found
    BY DEF ChainInv, Spared
  <2> QED BY <1>1, <2>1 DEF ChainInv, Spared
<1>5. ~Overlap => Exclusive'
  <2> HAVE ~Overlap
  <2>1. /\ \A e \in Events : ~InFlight(e)
        /\ \A p \in Retentions : rpc[p] \in {"delete", "record"} => p = z
        /\ LinkedTo(boundary[z])
    BY DEF ChainInv, Exclusive, Retaining
  <2>2. LinkedTo(checkpoint)'
    BY <1>1, <2>1 DEF LinkedTo
  <2>3. \A p \in Retentions : rpc'[p] \notin {"delete", "record"}
    BY <1>1, <2>1
  <2> QED BY <2>1, <2>2, <2>3 DEF Exclusive, InFlight, Retaining
<1> QED BY <1>2, <1>3, <1>4, <1>5 DEF ChainInv

LEMMA VerificationKeeps ==
  ASSUME ChainInv, NEW v \in Verifies, ReadRows(v) \/ CheckChain(v)
  PROVE  ChainInv'
<1> USE DEF ReadRows, CheckChain, retention
<1>1. \A rows, start : verifyChain(rows, start) \in {"none", "ok", "link", "hash"}
  BY DEF verifyChain
<1>2. TypeOK'
  BY <1>1 DEF ChainInv, TypeOK
<1>3. OneChain' /\ Ascending' /\ Derived'
  BY DEF ChainInv, OneChain, Ascending, Derived
<1>4. (Spares => Spared') /\ (~Overlap => Exclusive')
  BY DEF ChainInv, Spared, Exclusive, LinkedTo, Older, InFlight, Retaining
<1> QED BY <1>2, <1>3, <1>4 DEF ChainInv

LEMMA TickKeeps ==
  ASSUME ChainInv, Tick
  PROVE  ChainInv'
<1> USE DEF Tick, retention, verification
<1>1. clock \in Nat /\ clock' = clock + 1
  BY DEF ChainInv, TypeOK
<1>2. \A e \in Events : apc[e] # "checkpoint" /\ apc[e] # "insert"
  BY DEF InFlight
<1>3. TypeOK'
  BY <1>1 DEF ChainInv, TypeOK
<1>4. OneChain' /\ Ascending' /\ Derived'
  BY <1>2 DEF ChainInv, OneChain, Ascending, Derived
<1>5. (Spares => Spared') /\ (~Overlap => Exclusive')
  BY <1>2 DEF ChainInv, Spared, Exclusive, LinkedTo, Older, InFlight, Retaining
<1> QED BY <1>3, <1>4, <1>5 DEF ChainInv

LEMMA CrashKeeps ==
  ASSUME ChainInv, Crash
  PROVE  ChainInv'
<1> USE DEF Crash
<1>1. TypeOK'
  BY DEF ChainInv, TypeOK
<1>2. \A e \in Events : apc'[e] # "checkpoint" /\ apc'[e] # "insert"
  BY DEF InFlight
<1>3. \A z \in Retentions : rpc'[z] # "delete" /\ rpc'[z] # "record"
  OBVIOUS
<1>4. log # {} => high' = high
  OBVIOUS
<1>5. OneChain' /\ Ascending' /\ Derived'
  BY <1>2, <1>4 DEF ChainInv, OneChain, Ascending, Derived
<1>6. Spares => Spared'
  <2> HAVE Spares
  <2>1. high' = high
    BY DEF ChainInv, Spared
  <2> QED BY <1>2, <1>3, <2>1 DEF ChainInv, Spared
<1>7. ~Overlap => Exclusive'
  <2> HAVE ~Overlap
  <2>1. IF torn' THEN log # {} /\ \A r \in log : r.seq > checkpoint.seq + 1 ELSE LinkedTo(checkpoint)'
    <3>1. CASE \A z \in Retentions : rpc[z] # "record"
      BY <3>1 DEF ChainInv, Exclusive, LinkedTo
    <3>2. ASSUME NEW z \in Retentions, rpc[z] = "record", log = {}
          PROVE  LinkedTo(checkpoint)' /\ ~torn'
      BY <3>2 DEF LinkedTo
    <3>3. ASSUME NEW z \in Retentions, rpc[z] = "record", log # {}, NEW r \in log
          PROVE  r.seq > checkpoint.seq + 1
      <4>1. /\ checkpoint.seq \in Nat /\ boundary[z].seq \in Nat
            /\ \A s \in log : s.seq \in Nat
        BY DEF ChainInv, TypeOK
      <4>2. LinkedTo(boundary[z]) /\ boundary[z].seq > checkpoint.seq
        BY <3>3 DEF ChainInv, Exclusive
      <4>3. PICK o \in log : \A s \in log : o.seq <= s.seq
        BY <3>3, <4>1, OldestExists
      <4>4. o.seq = boundary[z].seq + 1
        BY <4>2, <4>3 DEF LinkedTo
      <4> QED BY <4>1, <4>2, <4>3, <4>4
    <3> QED BY <3>1, <3>2, <3>3
  <2> QED BY <1>2, <1>3, <2>1 DEF Exclusive, InFlight, Retaining
<1> QED BY <1>1, <1>5, <1>6, <1>7 DEF ChainInv

LEMMA StutterKeeps ==
  ASSUME ChainInv, UNCHANGED vars
  PROVE  ChainInv'
BY DEF vars, ChainInv, TypeOK, OneChain, Ascending, Derived, Spared, Exclusive, LinkedTo, Older,
   InFlight, Retaining

\* The log stays in the states ChainInv describes: what each append in flight
\* has derived is still the next number or one a rival has taken, and a purge
\* under way still knows the row its checkpoint must name.
THEOREM ChainInvariant ==
  ASSUME Mode
  PROVE  Spec => []ChainInv
<1>1. Init => ChainInv
  BY InitChainInv
<1>2. ChainInv /\ [Next]_vars => ChainInv'
  <2> SUFFICES ASSUME ChainInv, [Next]_vars PROVE ChainInv'
    OBVIOUS
  <2>1. ASSUME NEW e \in Events, ReadLast(e) \/ ReadCheckpoint(e) \/ InsertEntry(e)
        PROVE  ChainInv'
    BY <2>1, ReadLastKeeps, ReadCheckpointKeeps, InsertEntryKeeps
  <2>2. ASSUME NEW z \in Retentions, ReadBoundary(z) \/ DeleteOld(z) \/ RecordCheckpoint(z)
        PROVE  ChainInv'
    BY <2>2, ReadBoundaryKeeps, DeleteOldKeeps, RecordCheckpointKeeps
  <2>3. ASSUME NEW v \in Verifies, ReadRows(v) \/ CheckChain(v)
        PROVE  ChainInv'
    BY <2>3, VerificationKeeps
  <2> QED BY <2>1, <2>2, <2>3, TickKeeps, CrashKeeps, StutterKeeps DEF Next
<1> QED BY <1>1, <1>2, PTL DEF Spec

\* Every variable keeps its type.
THEOREM ChainTypes == ASSUME Mode PROVE Spec => []TypeOK
<1>1. ChainInv => TypeOK
  BY DEF ChainInv
<1> QED BY <1>1, ChainInvariant, PTL

\* The surviving rows are one chain up to the highest seq ever used, for any
\* number of overlapping appends, purges and crashes.
THEOREM ChainNeverForks == ASSUME Mode PROVE Spec => []OneChain
<1>1. ChainInv => OneChain
  BY DEF ChainInv
<1> QED BY <1>1, ChainInvariant, PTL

\* When retention runs alone the oldest surviving row hangs on the checkpoint
\* between purges, whenever the process dies, except after a purge that died before
\* its checkpoint.
THEOREM OldestRowAnchored == ASSUME ~Overlap PROVE Spec => []Anchored
<1>1. Mode
  BY DEF Mode
<1>2. ChainInv => Anchored
  BY DEF ChainInv, Exclusive, Anchored, Retaining
<1> QED BY <1>1, <1>2, ChainInvariant, PTL

\* A row that enters the log takes the number after every number used since the
\* numbering began, which only a purge that dies can begin again.
THEOREM NumbersNeverRestart == ASSUME Mode PROVE Spec => SeqAdvances
<1>1. ChainInv /\ [Next]_vars => [\A r \in log' \ log : r.seq = high + 1]_vars
  <2> SUFFICES ASSUME ChainInv, [Next]_vars, NEW r \in log' \ log
               PROVE  r.seq = high + 1
    OBVIOUS
  <2>1. PICK e \in Events : InsertEntry(e)
    BY DEF Next, vars, ReadLast, ReadCheckpoint, ReadBoundary, DeleteOld, RecordCheckpoint,
       ReadRows, CheckChain, Tick, Crash
  <2>2. r = Row(e) /\ (\A s \in log : s.seq # entry[e].seq) /\ apc[e] = "insert"
    BY <2>1 DEF InsertEntry
  <2>3. entry[e].seq = high + 1
    BY <2>2 DEF ChainInv, Derived, TypeOK
  <2> QED BY <2>2, <2>3 DEF Row
<1> QED BY <1>1, ChainInvariant, PTL DEF Spec, SeqAdvances

-----------------------------------------------------------------------------
(***************************************************************************)
(* Verification.  When the requests run alone, a verification in progress  *)
(* has read the log as it still is, with no purge between the two reads.   *)
(***************************************************************************)
ReadsStand ==
  /\ Verifying => ~Retaining
  /\ DOMAIN seen = Verifies
  /\ \A v \in Verifies : vpc[v] = "anchor" => seen[v] = log

\* In one chain that hangs on its anchor every row names the hash before it.
LEMMA ChainLinks ==
  ASSUME TypeOK, OneChain, NEW anchor, anchor.seq \in Nat, LinkedTo(anchor)
  PROVE  Unlinked(log, anchor.hash) = {}
<1> SUFFICES ASSUME NEW r \in log PROVE r.prev = Before(log, r, anchor.hash)
  BY DEF Unlinked
<1> DEFINE earlier == {s \in log : s.seq < r.seq}
<1>t. high \in Nat /\ \A s \in log : s.seq \in Nat /\ s.seq <= high
  BY DEF TypeOK, OneChain
<1>1. CASE earlier = {}
  <2>1. \A s \in log : r.seq <= s.seq
    BY <1>t, <1>1
  <2> QED BY <1>1, <2>1 DEF LinkedTo, Before
<1>2. CASE earlier # {}
  <2>1. PICK s \in log : s.seq < r.seq
    BY <1>2
  <2>2. r.seq - 1 \in s.seq .. high
    BY <1>t, <2>1
  <2>3. PICK t \in log : t.seq = r.seq - 1
    BY <2>2 DEF OneChain
  <2>4. t \in earlier /\ \A u \in earlier : u.seq <= t.seq
    BY <1>t, <2>3
  <2>5. Newest(earlier) \in earlier /\ \A u \in earlier : u.seq <= Newest(earlier).seq
    BY <2>4 DEF Newest
  <2>6. Newest(earlier).seq = t.seq
    BY <1>t, <2>3, <2>4, <2>5
  <2>7. Newest(earlier) = t
    BY <2>4, <2>5, <2>6 DEF OneChain
  <2>8. r.prev = t.hash
    BY <1>t, <2>3 DEF OneChain
  <2> QED BY <1>2, <2>7, <2>8 DEF Before
<1> QED BY <1>1, <1>2

LEMMA VerdictLinked ==
  ASSUME NEW rows, NEW start, Unlinked(rows, start) = {}
  PROVE  verifyChain(rows, start) # "link"
BY DEF verifyChain

\* A hash is of the row with one number and no other; the genesis hash stands for 0.
NamesSeq(hash, n) == IF n = 0 THEN hash = GenesisHash ELSE hash # GenesisHash /\ hash[1] = n

\* Every hash kept or in flight is of the row whose number goes with it.
HashesNamed ==
  /\ \A r \in log : NamesSeq(r.hash, r.seq) /\ NamesSeq(r.prev, r.seq - 1)
  /\ NamesSeq(checkpoint.hash, checkpoint.seq)
  /\ \A e \in Events : apc[e] = "insert" => NamesSeq(entry[e].prev, entry[e].seq - 1)
  /\ \A z \in Retentions : boundary[z].found => NamesSeq(boundary[z].hash, boundary[z].seq)
  /\ \A z \in Retentions : rpc[z] = "record" => boundary[z].found

LEMMA HashesNamedStep ==
  ASSUME ChainInv, HashesNamed, [Next]_vars
  PROVE  HashesNamed'
<1>t. /\ \A r \in log : r.seq \in Nat \ {0} /\ r.seq <= high
      /\ high \in Nat /\ checkpoint.seq \in Nat /\ clock \in Nat
      /\ \A e \in Events : apc[e] = "insert" => entry[e].seq \in 1 .. high + 1
  BY DEF ChainInv, TypeOK, OneChain, Derived
<1>1. ASSUME NEW e \in Events, ReadLast(e) PROVE HashesNamed'
  <2>1. log # {} => Newest(log) \in log
    BY NewestIsHigh DEF ChainInv
  <2>2. log # {} => NamesSeq(Newest(log).hash, Newest(log).seq) /\ Newest(log).seq \in Nat
    BY <1>t, <2>1 DEF HashesNamed
  <2>3. ASSUME NEW f \in Events, apc'[f] = "insert" PROVE NamesSeq(entry'[f].prev, entry'[f].seq - 1)
    <3>1. CASE f # e
      BY <1>1, <2>3, <3>1 DEF ReadLast, HashesNamed, ChainInv, TypeOK
    <3>2. CASE f = e
      <4>1. log # {} /\ entry'[e] = [seq |-> Newest(log).seq + 1, prev |-> Newest(log).hash]
        BY <1>1, <2>3, <3>2 DEF ReadLast, ChainInv, TypeOK
      <4>2. entry'[e].seq - 1 = Newest(log).seq
        BY <2>2, <4>1
      <4> QED BY <2>2, <3>2, <4>1, <4>2
    <3> QED BY <3>1, <3>2
  <2> QED BY <1>1, <2>3 DEF ReadLast, HashesNamed, retention
<1>2. ASSUME NEW e \in Events, ReadCheckpoint(e) PROVE HashesNamed'
  <2>3. ASSUME NEW f \in Events, apc'[f] = "insert" PROVE NamesSeq(entry'[f].prev, entry'[f].seq - 1)
    <3>1. CASE f # e
      BY <1>2, <2>3, <3>1 DEF ReadCheckpoint, HashesNamed, ChainInv, TypeOK
    <3>2. CASE f = e
      <4>1. entry'[e] = [seq |-> checkpoint.seq + 1, prev |-> checkpoint.hash]
        BY <1>2 DEF ReadCheckpoint, ChainInv, TypeOK
      <4>2. entry'[e].seq - 1 = checkpoint.seq
        BY <1>t, <4>1
      <4> QED BY <3>2, <4>1, <4>2 DEF HashesNamed
    <3> QED BY <3>1, <3>2
  <2> QED BY <1>2, <2>3 DEF ReadCheckpoint, HashesNamed, retention
<1>3. ASSUME NEW e \in Events, InsertEntry(e) PROVE HashesNamed'
  <2>1. /\ Row(e).seq = entry[e].seq /\ Row(e).prev = entry[e].prev
        /\ Row(e).hash = <<entry[e].seq, e, entry[e].prev, IsoText(clock)>>
    BY DEF Row, computeEntryHash
  <2>2. NamesSeq(Row(e).prev, Row(e).seq - 1) /\ entry[e].seq \in 1 .. high + 1
    BY <1>3, <1>t, <2>1 DEF InsertEntry, HashesNamed
  <2>3. NamesSeq(Row(e).hash, Row(e).seq)
    BY <1>t, <2>1, <2>2 DEF NamesSeq, GenesisHash
  <2>4. log' \subseteq log \cup {Row(e)} /\ \A f \in Events : apc'[f] = "insert" => apc[f] = "insert"
    BY <1>3 DEF InsertEntry, ChainInv, TypeOK
  <2> QED BY <1>3, <2>2, <2>3, <2>4 DEF InsertEntry, HashesNamed, retention
<1>4. ASSUME NEW z \in Retentions, ReadBoundary(z) PROVE HashesNamed'
  <2>1. PICK cutoff \in 0 .. clock :
          /\ rpc' = [rpc EXCEPT ![z] = "delete"]
          /\ boundary' = [boundary EXCEPT ![z] =
               IF Older(cutoff) = {}
               THEN [cutoff |-> cutoff, found |-> FALSE, seq |-> 0, hash |-> GenesisHash]
               ELSE [cutoff |-> cutoff, found |-> TRUE,
                     seq |-> Newest(Older(cutoff)).seq, hash |-> Newest(Older(cutoff)).hash]]
          /\ UNCHANGED <<log, checkpoint, apc, entry>>
    BY <1>4 DEF ReadBoundary
  <2>2. Older(cutoff) \subseteq log
    BY DEF Older
  <2>3. Older(cutoff) # {} => Newest(Older(cutoff)) \in log
    BY <1>t, <2>2, NewestIsHighest
  <2>4. boundary'[z].found => NamesSeq(boundary'[z].hash, boundary'[z].seq)
    BY <2>1, <2>3 DEF HashesNamed, ChainInv, TypeOK
  <2>5. \A p \in Retentions : p # z => boundary'[p] = boundary[p] /\ rpc'[p] = rpc[p]
    BY <2>1 DEF ChainInv, TypeOK
  <2>6. rpc'[z] # "record"
    BY <2>1 DEF ChainInv, TypeOK
  <2> QED BY <2>1, <2>4, <2>5, <2>6 DEF HashesNamed
<1>5. ASSUME NEW z \in Retentions, DeleteOld(z) PROVE HashesNamed'
  <2>1. log' \subseteq log
    BY <1>5 DEF DeleteOld
  <2>2. \A p \in Retentions : rpc'[p] = "record" => boundary[p].found
    BY <1>5 DEF DeleteOld, HashesNamed, ChainInv, TypeOK
  <2> QED BY <1>5, <2>1, <2>2 DEF DeleteOld, HashesNamed
<1>6. ASSUME NEW z \in Retentions, RecordCheckpoint(z) PROVE HashesNamed'
  <2>1. checkpoint'.hash = boundary[z].hash /\ checkpoint'.seq = boundary[z].seq /\ boundary[z].found
    BY <1>6 DEF RecordCheckpoint, HashesNamed
  <2>2. \A p \in Retentions : rpc'[p] = "record" => boundary[p].found
    BY <1>6 DEF RecordCheckpoint, HashesNamed, ChainInv, TypeOK
  <2> QED BY <1>6, <2>1, <2>2 DEF RecordCheckpoint, HashesNamed
<1>7. CASE Tick \/ (\E v \in Verifies : ReadRows(v) \/ CheckChain(v)) \/ UNCHANGED vars
  BY <1>7 DEF Tick, ReadRows, CheckChain, vars, HashesNamed, retention
<1>8. CASE Crash
  BY <1>8 DEF Crash, InFlight, HashesNamed
<1> QED BY <1>1, <1>2, <1>3, <1>4, <1>5, <1>6, <1>7, <1>8 DEF Next

\* After a purge that died before its checkpoint the oldest row hangs on a row that
\* is gone, and not on the checkpoint.
LEMMA TornShows ==
  ASSUME ChainInv, HashesNamed, log # {}, \A r \in log : r.seq > checkpoint.seq + 1
  PROVE  verifyChain(log, checkpoint.hash) = "link"
<1> DEFINE bad == Unlinked(log, checkpoint.hash) \cup Altered(log)
           first == CHOOSE r \in bad : \A s \in bad : r.seq <= s.seq
<1>t. checkpoint.seq \in Nat /\ \A r \in log : r.seq \in Nat
  BY DEF ChainInv, TypeOK
<1>1. PICK o \in log : \A s \in log : o.seq <= s.seq
  BY <1>t, OldestExists
<1>2. Before(log, o, checkpoint.hash) = checkpoint.hash
  <2>1. {s \in log : s.seq < o.seq} = {}
    BY <1>t, <1>1
  <2> QED BY <2>1 DEF Before
<1>3. o.prev # checkpoint.hash
  <2>1. NamesSeq(o.prev, o.seq - 1) /\ NamesSeq(checkpoint.hash, checkpoint.seq)
    BY DEF HashesNamed
  <2>2. o.seq - 1 > checkpoint.seq /\ o.seq - 1 # 0
    BY <1>t
  <2>3. o.prev # GenesisHash /\ o.prev[1] = o.seq - 1
    BY <2>1, <2>2 DEF NamesSeq
  <2>4. checkpoint.seq # 0 => checkpoint.hash[1] = checkpoint.seq
    BY <2>1 DEF NamesSeq
  <2>5. checkpoint.seq = 0 => checkpoint.hash = GenesisHash
    BY <2>1 DEF NamesSeq
  <2> QED BY <1>t, <2>2, <2>3, <2>4, <2>5
<1>4. o \in Unlinked(log, checkpoint.hash) /\ bad \subseteq log
  BY <1>2, <1>3 DEF Unlinked, Altered
<1>5. o \in bad /\ \A s \in bad : o.seq <= s.seq
  BY <1>1, <1>4
<1>6. first \in bad /\ \A s \in bad : first.seq <= s.seq
  BY <1>5
<1>7. first = o
  <2>1. first.seq = o.seq
    BY <1>t, <1>4, <1>5, <1>6
  <2> QED BY <1>4, <1>6, <2>1 DEF ChainInv, OneChain
<1>8. bad # {} /\ first \in Unlinked(log, checkpoint.hash)
  BY <1>4, <1>5, <1>7
<1> QED BY <1>8 DEF verifyChain

LEMMA ReadsStandStep ==
  ASSUME ~Overlap, ChainInv, ReadsStand, [Next]_vars
  PROVE  ReadsStand'
<1>1. ASSUME NEW e \in Events, ReadLast(e) \/ ReadCheckpoint(e) \/ InsertEntry(e)
      PROVE  ReadsStand'
  <2>1. ~Verifying /\ UNCHANGED verification
    BY <1>1 DEF ReadLast, ReadCheckpoint, InsertEntry, LogFree
  <2> QED BY <2>1 DEF ReadsStand, Verifying, verification
<1>2. ASSUME NEW z \in Retentions, ReadBoundary(z) \/ DeleteOld(z) \/ RecordCheckpoint(z)
      PROVE  ReadsStand'
  <2>1. ~Verifying
    <3>1. CASE ReadBoundary(z)
      BY <3>1 DEF ReadBoundary, Alone, LogFree
    <3>2. CASE DeleteOld(z) \/ RecordCheckpoint(z)
      BY <3>2 DEF DeleteOld, RecordCheckpoint, Retaining, ReadsStand
    <3> QED BY <1>2, <3>1, <3>2
  <2>2. UNCHANGED verification
    BY <1>2 DEF ReadBoundary, DeleteOld, RecordCheckpoint
  <2> QED BY <2>1, <2>2 DEF ReadsStand, Verifying, verification
<1>3. ASSUME NEW v \in Verifies, ReadRows(v) PROVE ReadsStand'
  <2>1. ~Verifying /\ ~Retaining /\ UNCHANGED <<log, retention>>
    BY <1>3 DEF ReadRows, Alone, LogFree
  <2>2. vpc' = [vpc EXCEPT ![v] = "anchor"] /\ seen' = [seen EXCEPT ![v] = log]
    BY <1>3 DEF ReadRows
  <2>3. vpc'[v] = "anchor" /\ \A w \in Verifies \ {v} : vpc'[w] # "anchor"
    BY <2>1, <2>2 DEF ChainInv, TypeOK, Verifying
  <2> QED BY <2>1, <2>2, <2>3 DEF ReadsStand, Verifying, Retaining, retention
<1>4. ASSUME NEW v \in Verifies, CheckChain(v) PROVE ReadsStand'
  BY <1>4 DEF CheckChain, ReadsStand, Verifying, Retaining, retention, ChainInv, TypeOK
<1>5. CASE Tick
  BY <1>5 DEF Tick, ReadsStand, Verifying, Retaining, retention, verification
<1>6. CASE Crash
  BY <1>6 DEF Crash, ReadsStand, Verifying, Retaining
<1>7. CASE UNCHANGED vars
  BY <1>7 DEF vars, ReadsStand, Verifying, Retaining, retention, verification
<1> QED BY <1>1, <1>2, <1>3, <1>4, <1>5, <1>6, <1>7 DEF Next

\* The only step that gives a verdict is the answer of a verification.
LEMMA VerdictSound ==
  ASSUME ~Overlap, ChainInv, HashesNamed, ReadsStand, [Next]_vars,
         NEW v \in Verifies, verdict'[v] # verdict[v]
  PROVE  IF torn THEN verdict'[v] = "link"
         ELSE verdict'[v] # "link" /\ Unlinked(seen[v], checkpoint.hash) = {}
<1>1. CheckChain(v)
  <2>1. PICK w \in Verifies : CheckChain(w)
    BY DEF Next, vars, ReadLast, ReadCheckpoint, InsertEntry, ReadBoundary, DeleteOld, RecordCheckpoint,
       ReadRows, Tick, Crash, verification
  <2>2. w = v
    BY <2>1 DEF CheckChain, ChainInv, TypeOK
  <2> QED BY <2>1, <2>2
<1>2. verdict'[v] = verifyChain(log, checkpoint.hash) /\ seen[v] = log /\ ~Retaining
  BY <1>1 DEF CheckChain, ReadsStand, Verifying, ChainInv, TypeOK
<1>3. IF torn THEN log # {} /\ \A r \in log : r.seq > checkpoint.seq + 1 ELSE LinkedTo(checkpoint)
  BY <1>2 DEF ChainInv, Exclusive, Retaining
<1>4. CASE torn
  BY <1>2, <1>3, <1>4, TornShows
<1>5. CASE ~torn
  <2>1. Unlinked(log, checkpoint.hash) = {}
    BY <1>3, <1>5, ChainLinks DEF ChainInv, TypeOK
  <2> QED BY <1>2, <1>5, <2>1, VerdictLinked
<1> QED BY <1>4, <1>5

\* Verification of a log nobody edited finds no link broken, from the anchor to the
\* newest row, for any number of events and purges, while purges and verifications
\* run alone; when a purge died between its DELETE and its checkpoint it reports one
\* (routes/auditLog.js:93-100).
THEOREM VerificationFindsNoBreak == ASSUME ~Overlap PROVE Spec => LinksVerify
<1>1. Mode
  BY DEF Mode
<1>2. Init => ReadsStand /\ HashesNamed
  BY DEF Init, ReadsStand, Verifying, HashesNamed, NamesSeq
<1>3. ChainInv /\ ReadsStand /\ HashesNamed /\ [Next]_vars => ReadsStand' /\ HashesNamed'
  BY ReadsStandStep, HashesNamedStep
<1>4. ChainInv /\ ReadsStand /\ HashesNamed /\ [Next]_vars =>
        [\A v \in Verifies : verdict'[v] # verdict[v] =>
           IF torn THEN verdict'[v] = "link"
           ELSE verdict'[v] # "link" /\ Unlinked(seen[v], checkpoint.hash) = {}]_vars
  BY VerdictSound
<1>5. Spec => []ChainInv
  BY <1>1, ChainInvariant
<1> QED BY <1>2, <1>3, <1>4, <1>5, PTL DEF Spec, LinksVerify

-----------------------------------------------------------------------------
Managing == {"read", "put", "empty", "drop", "count", "set"}
Pcs == {"idle", "resolve", "edit", "insert", "found", "gate", "strip", "delete"} \cup Managing
Ops == {"none", "edit", "make", "lead", "rename", "drop", "seat", "role", "unseat", "remove"}
CallSet ==
  [pc : Pcs, op : Ops, who : People \cup {Nobody}, known : BOOLEAN, ws : WsRoles \cup {"Viewer"},
   target : People \cup {Nobody}, role : ProjectRoles \cup {"none"}, lead : People \cup {Nobody}]

\* The requests' own types.
CallsTyped ==
  /\ call \in [Callers -> CallSet]
  /\ could \in [Callers -> SUBSET {"edit", "manage"}]
  /\ apart \in BOOLEAN /\ calls \in Nat
  /\ \A r \in Callers : call[r].pc \in {"strip", "delete"} => call[r].target \in People
  /\ \A r \in Callers : call[r].known => call[r].who \in People

\* The project is made once, before anybody edits or manages it, and never again.
Stages ==
  /\ \A r \in Callers : call[r].pc = "insert" => project = "unborn"
  /\ \A r \in Callers : call[r].pc \in {"resolve", "edit", "gate"} \cup Managing => project # "unborn"
  /\ \A r \in Callers : call[r].pc \in {"insert", "found"} => call[r].op = "make"
  /\ \A r, s \in Callers : call[r].op = "make" /\ call[s].op = "make" => r = s

\* What a request's sender has had the right to do covers what the gates behind it
\* were told: the workspace role it began with, and the gate it has passed.
Remembered ==
  \A r \in Callers :
    /\ call[r].pc # "idle" /\ call[r].ws = "Admin" => {"edit", "manage"} \subseteq could[r]
    /\ call[r].pc = "edit" => "edit" \in could[r] \/ project = "gone"
    /\ call[r].pc \in Managing => "manage" \in could[r]

\* While no two requests have overlapped one is under way at most, and what it
\* read of project_members still holds.
Serial ==
  apart =>
    /\ \A r, s \in Callers : ~Free(r) /\ ~Free(s) => r = s
    /\ \A r \in Callers :
         /\ call[r].pc = "drop" => \A m \in People : seat[m] = "none"
         /\ call[r].pc = "delete" => seat[call[r].target] = "none"
         /\ call[r].pc = "set" /\ call[r].op # "seat" /\ Leaves(r) =>
              \E m \in People \ {call[r].target} : seat[m] \in Tier

AccessInv == AccessTypeOK /\ CallsTyped /\ Stages /\ Remembered /\ Serial

-----------------------------------------------------------------------------
(***************************************************************************)
(* How a step moves a request.                                             *)
(***************************************************************************)
LEMMA RolesRanked ==
  /\ WsRoles \subseteq {"Viewer", "Member", "Admin"}
  /\ ProjectRoles \subseteq {"Viewer", "Member", "Admin", "Lead"}
  /\ "none" \notin WsRoles /\ "none" \notin ProjectRoles
  /\ "Admin" \in WsRoles /\ "Lead" \in ProjectRoles /\ Nobody \notin People
BY AccessAssumption

LEMMA NoCallTyped == NoCall \in CallSet /\ NoCall.pc = "idle" /\ NoCall.op = "none" /\ ~NoCall.known
BY DEF NoCall, CallSet, Pcs, Ops

\* What is left of a request after Goto.
LEMMA GotoMoves ==
  ASSUME CallsTyped, NEW r \in Callers, NEW p \in Pcs, Goto(r, p)
  PROVE  /\ call' \in [Callers -> CallSet]
         /\ \A s \in Callers \ {r} : call'[s] = call[s]
         /\ call'[r].pc = p
         /\ p = "idle" => call'[r].op = "none" /\ ~call'[r].known
         /\ p # "idle" => /\ call'[r].op = call[r].op /\ call'[r].who = call[r].who
                         /\ call'[r].ws = call[r].ws /\ call'[r].target = call[r].target
                         /\ call'[r].role = call[r].role /\ call'[r].known = call[r].known
         /\ calls' = calls /\ (apart' <=> apart)
<1>1. call[r] \in CallSet
  BY DEF CallsTyped
<1>2. [call[r] EXCEPT !.pc = p] \in CallSet
  BY <1>1 DEF CallSet
<1>3. call'[r] = IF p = "idle" THEN NoCall ELSE [call[r] EXCEPT !.pc = p]
  BY DEF Goto, CallsTyped
<1>4. call' \in [Callers -> CallSet] /\ \A s \in Callers \ {r} : call'[s] = call[s]
  BY <1>2, NoCallTyped DEF Goto, CallsTyped
<1>5. calls' = calls /\ (apart' <=> apart)
  BY DEF Goto
<1> QED BY <1>1, <1>3, <1>4, <1>5, NoCallTyped DEF CallSet

\* What a request looks like when it begins, and what overlaps it.
LEMMA BeginMoves ==
  ASSUME AccessTypeOK, CallsTyped, NEW r \in Callers, NEW m \in People \cup {Nobody}, NEW o \in Ops, NEW p \in Pcs,
         NEW t \in People \cup {Nobody}, NEW g \in ProjectRoles \cup {"none"}, Begin(r, m, o, p, t, g)
  PROVE  /\ call' \in [Callers -> CallSet]
         /\ \A s \in Callers \ {r} : call'[s] = call[s]
         /\ call'[r].pc = p /\ call'[r].op = o /\ call'[r].who = m
         /\ call'[r].target = t /\ call'[r].role = g
         /\ call'[r].ws = "Admin" => m \in People /\ wsRole[m] = "Admin"
         /\ call'[r].known => m \in People
         /\ call[r].pc = "idle" /\ UNCHANGED <<wsRole, project, lead, seat>>
         /\ calls' \in Nat /\ apart' \in BOOLEAN
         /\ apart' => apart /\ \A s \in Callers : call[s].pc = "idle"
<1> DEFINE w == IF m \in Members THEN wsRole[m] ELSE "Viewer"
           k == m \in Members
           c == [NoCall EXCEPT !.pc = p, !.op = o, !.who = m, !.known = k, !.target = t,
                               !.role = g, !.ws = w]
<1>1. w \in WsRoles \cup {"Viewer"} /\ (w = "Admin" => m \in People /\ wsRole[m] = "Admin")
  BY DEF AccessTypeOK, Members
<1>2. k \in BOOLEAN
  OBVIOUS
<1>k. k => m \in People
  BY DEF Members
<1>3. ASSUME NEW b \in BOOLEAN, NEW v \in WsRoles \cup {"Viewer"},
             NEW d, d = [NoCall EXCEPT !.pc = p, !.op = o, !.who = m, !.known = b, !.target = t,
                               !.role = g, !.ws = v]
      PROVE  d \in CallSet /\ d.pc = p /\ d.op = o /\ d.who = m /\ d.target = t /\ d.role = g /\ d.ws = v
  BY <1>3 DEF CallSet, NoCall
<1>4. c \in CallSet /\ c.pc = p /\ c.op = o /\ c.who = m /\ c.target = t /\ c.role = g /\ c.ws = w
  <2> HIDE DEF w, k
  <2> QED BY <1>1, <1>2, <1>3, Zenon
<1>5. call' = [call EXCEPT ![r] = c]
  BY DEF Begin
<1>6. call' \in [Callers -> CallSet] /\ call'[r] = c /\ \A s \in Callers \ {r} : call'[s] = call[s]
  <2> HIDE DEF c
  <2> QED BY <1>4, <1>5 DEF CallsTyped
<1>7. call[r].pc = "idle" /\ UNCHANGED <<wsRole, project, lead, seat>>
  BY DEF Begin, Free
<1>8. calls' \in Nat
  BY DEF Begin, Count, CallsTyped
<1>9. apart' \in BOOLEAN /\ (apart' => apart /\ \A s \in Callers : call[s].pc = "idle")
  BY Zenon DEF Begin, Count, CallsTyped, Free
<1>10. call'[r].known => m \in People
  <2>1. c.known = k
    <3> HIDE DEF w, k
    <3> QED BY DEF NoCall
  <2> HIDE DEF c, k
  <2> QED BY <2>1, <1>6, <1>k, Zenon
<1> HIDE DEF c, w, k
<1> QED BY <1>1, <1>4, <1>6, <1>7, <1>8, <1>9, <1>10

\* What Remember adds.
LEMMA RemembersMore ==
  ASSUME CallsTyped, call' \in [Callers -> CallSet], Remember
  PROVE  /\ could' \in [Callers -> SUBSET {"edit", "manage"}]
         /\ \A r \in Callers : call'[r].pc # "idle" => could[r] \cup Rights(call[r].who)' \subseteq could'[r]
<1>1. \A m : Rights(m)' \subseteq {"edit", "manage"}
  BY DEF Rights
<1>2. \A r \in Callers : could'[r] = IF call'[r].pc = "idle" THEN {} ELSE could[r] \cup Rights(call[r].who)'
  BY DEF Remember
<1>3. could' = [r \in Callers |-> could'[r]]
  BY DEF Remember
<1> QED BY <1>1, <1>2, <1>3 DEF CallsTyped

-----------------------------------------------------------------------------
(***************************************************************************)
(* The invariant, action by action.                                        *)
(***************************************************************************)
\* The tables' share of AccessTypeOK.
TablesOK ==
  /\ wsRole \in [People -> WsRoles \cup {"none"}]
  /\ project \in {"unborn", "stands", "gone"}
  /\ lead \in Members \cup {Nobody}
  /\ seat \in [People -> ProjectRoles \cup {"none"}]
  /\ \A m \in People : seat[m] # "none" => m \in Members /\ project = "stands"

LEMMA TypesSplit == CallsTyped => (AccessTypeOK <=> TablesOK)
BY DEF AccessTypeOK, TablesOK, CallsTyped, CallSet

LEMMA BeginKeeps ==
  ASSUME AccessInv, NEW r \in Callers, NEW m \in People \cup {Nobody}, NEW o \in Ops,
         NEW p \in {"resolve", "insert", "gate", "strip"},
         NEW t \in People \cup {Nobody}, NEW g \in ProjectRoles \cup {"none"}, Begin(r, m, o, p, t, g),
         p = "insert" <=> o = "make",
         p = "insert" => project = "unborn" /\ \A s \in Callers : call[s].op # "make",
         p \in {"resolve", "gate"} => project # "unborn",
         p = "strip" => t \in People,
         Remember
  PROVE  AccessInv'
<1>1. /\ call' \in [Callers -> CallSet]
      /\ \A s \in Callers \ {r} : call'[s] = call[s]
      /\ call'[r].pc = p /\ call'[r].op = o /\ call'[r].who = m
      /\ call'[r].target = t /\ call'[r].role = g
      /\ call'[r].ws = "Admin" => m \in People /\ wsRole[m] = "Admin"
      /\ call'[r].known => m \in People
      /\ call[r].pc = "idle" /\ UNCHANGED <<wsRole, project, lead, seat>>
      /\ calls' \in Nat /\ apart' \in BOOLEAN
      /\ apart' => apart /\ \A s \in Callers : call[s].pc = "idle"
  BY BeginMoves DEF AccessInv, Pcs
<1>2. /\ could' \in [Callers -> SUBSET {"edit", "manage"}]
      /\ \A s \in Callers : call'[s].pc # "idle" => could[s] \cup Rights(call[s].who)' \subseteq could'[s]
  BY <1>1, RemembersMore DEF AccessInv
<1>3. CallsTyped'
  <2>1. /\ \A s \in Callers : call'[s].pc \in {"strip", "delete"} => call'[s].target \in People
        /\ \A s \in Callers : call'[s].known => call'[s].who \in People
    BY <1>1 DEF AccessInv, CallsTyped
  <2> QED BY <1>1, <1>2, <2>1 DEF CallsTyped
<1>4. AccessTypeOK'
  <2>1. TablesOK'
    BY <1>1, TypesSplit DEF AccessInv, TablesOK, Members
  <2> QED BY <2>1, <1>3 DEF AccessTypeOK, TablesOK, CallsTyped, CallSet
<1>5. Stages'
  BY <1>1 DEF AccessInv, Stages, Managing
<1>6. Remembered'
  <2> SUFFICES ASSUME NEW s \in Callers
               PROVE  /\ call'[s].pc # "idle" /\ call'[s].ws = "Admin" => {"edit", "manage"} \subseteq could'[s]
                      /\ call'[s].pc = "edit" => "edit" \in could'[s] \/ project' = "gone"
                      /\ call'[s].pc \in Managing => "manage" \in could'[s]
    BY DEF Remembered
  <2>1. CASE s = r
    <3>1. call'[s].ws = "Admin" => Rights(call[s].who)' = {"edit", "manage"}
      BY <1>1, <2>1, RolesRanked DEF Rights, MayEdit, MayManage
    <3> QED BY <1>1, <1>2, <2>1, <3>1 DEF Managing
  <2>2. CASE s # r
    BY <1>1, <1>2, <2>2 DEF AccessInv, Remembered, Managing
  <2> QED BY <2>1, <2>2
<1>7. Serial'
  BY <1>1 DEF AccessInv, Serial, Free, Leaves
<1> QED BY <1>3, <1>4, <1>5, <1>6, <1>7 DEF AccessInv

\* A step that reads, and leaves the tables alone.
LEMMA ReadKeeps ==
  ASSUME AccessInv, NEW r \in Callers, NEW p \in {"idle", "edit"} \cup (Managing \ {"drop"}), Goto(r, p),
         call[r].pc \in {"resolve", "edit", "gate"} \cup Managing,
         UNCHANGED <<wsRole, project, lead, seat>>, Remember,
         p = "edit" => "edit" \in Rights(call[r].who)' \cup could[r] \/ project = "gone",
         p \in Managing => "manage" \in Rights(call[r].who)' \cup could[r],
         p = "set" /\ call[r].op # "seat" /\ Leaves(r) =>
           \E m \in People \ {call[r].target} : seat[m] \in Tier
  PROVE  AccessInv'
<1>1. /\ call' \in [Callers -> CallSet]
      /\ \A s \in Callers \ {r} : call'[s] = call[s]
      /\ call'[r].pc = p
      /\ p = "idle" => call'[r].op = "none" /\ ~call'[r].known
      /\ p # "idle" => /\ call'[r].op = call[r].op /\ call'[r].who = call[r].who
                      /\ call'[r].ws = call[r].ws /\ call'[r].target = call[r].target
                      /\ call'[r].role = call[r].role /\ call'[r].known = call[r].known
      /\ calls' = calls /\ (apart' <=> apart)
  BY GotoMoves DEF AccessInv, Pcs
<1>2. /\ could' \in [Callers -> SUBSET {"edit", "manage"}]
      /\ \A s \in Callers : call'[s].pc # "idle" => could[s] \cup Rights(call[s].who)' \subseteq could'[s]
  BY <1>1, RemembersMore DEF AccessInv
<1>3. CallsTyped'
  <2>1. /\ \A s \in Callers : call'[s].pc \in {"strip", "delete"} => call'[s].target \in People
        /\ \A s \in Callers : call'[s].known => call'[s].who \in People
    BY <1>1 DEF AccessInv, CallsTyped, Managing
  <2>2. apart' \in BOOLEAN /\ calls' \in Nat
    BY DEF AccessInv, CallsTyped, Goto
  <2> QED BY <1>1, <1>2, <2>1, <2>2 DEF CallsTyped
<1>4. AccessTypeOK'
  <2>1. TablesOK'
    BY TypesSplit DEF AccessInv, TablesOK, Members
  <2> QED BY <2>1, <1>3 DEF AccessTypeOK, TablesOK, CallsTyped, CallSet
<1>5. Stages'
  BY <1>1 DEF AccessInv, Stages, Managing
<1>6. Remembered'
  <2> SUFFICES ASSUME NEW s \in Callers
               PROVE  /\ call'[s].pc # "idle" /\ call'[s].ws = "Admin" => {"edit", "manage"} \subseteq could'[s]
                      /\ call'[s].pc = "edit" => "edit" \in could'[s] \/ project' = "gone"
                      /\ call'[s].pc \in Managing => "manage" \in could'[s]
    BY DEF Remembered
  <2>1. CASE s = r
    BY <1>1, <1>2, <2>1 DEF AccessInv, Remembered, Managing
  <2>2. CASE s # r
    BY <1>1, <1>2, <2>2 DEF AccessInv, Remembered, Managing
  <2> QED BY <2>1, <2>2
<1>7. Serial'
  BY <1>1 DEF AccessInv, Serial, Free, Leaves, Managing
<1> QED BY <1>3, <1>4, <1>5, <1>6, <1>7 DEF AccessInv

\* A step that writes a table, by what it does to the tables.
LEMMA WriteKeeps ==
  ASSUME AccessInv, NEW r \in Callers, NEW p \in {"idle", "found", "drop", "delete"}, Goto(r, p),
         ~Free(r), Remember, TablesOK',
         project = "gone" => project' = "gone",
         project # "unborn" => project' # "unborn",
         \A s \in Callers \ {r} : call[s].pc = "insert" => project' = "unborn",
         p = "found" => call[r].op = "make",
         p = "drop" => call[r].pc \in Managing /\ \A m \in People : seat'[m] = "none",
         p = "delete" => call[r].target \in People /\ seat'[call[r].target] = "none"
  PROVE  AccessInv'
<1>1. /\ call' \in [Callers -> CallSet]
      /\ \A s \in Callers \ {r} : call'[s] = call[s]
      /\ call'[r].pc = p
      /\ p = "idle" => call'[r].op = "none" /\ ~call'[r].known
      /\ p # "idle" => /\ call'[r].op = call[r].op /\ call'[r].who = call[r].who
                      /\ call'[r].ws = call[r].ws /\ call'[r].target = call[r].target
                      /\ call'[r].role = call[r].role /\ call'[r].known = call[r].known
      /\ calls' = calls /\ (apart' <=> apart)
  BY GotoMoves DEF AccessInv, Pcs, Managing
<1>2. /\ could' \in [Callers -> SUBSET {"edit", "manage"}]
      /\ \A s \in Callers : call'[s].pc # "idle" => could[s] \cup Rights(call[s].who)' \subseteq could'[s]
  BY <1>1, RemembersMore DEF AccessInv
<1>3. CallsTyped'
  <2>1. /\ \A s \in Callers : call'[s].pc \in {"strip", "delete"} => call'[s].target \in People
        /\ \A s \in Callers : call'[s].known => call'[s].who \in People
    BY <1>1 DEF AccessInv, CallsTyped
  <2>2. apart' \in BOOLEAN /\ calls' \in Nat
    BY DEF AccessInv, CallsTyped, Goto
  <2> QED BY <1>1, <1>2, <2>1, <2>2 DEF CallsTyped
<1>4. AccessTypeOK'
  BY <1>3 DEF AccessTypeOK, TablesOK, CallsTyped, CallSet
<1>5. Stages'
  <2>1. \A s \in Callers : call'[s].pc = "insert" => project' = "unborn"
    BY <1>1
  <2>2. \A s \in Callers : call'[s].pc \in {"resolve", "edit", "gate"} \cup Managing => project' # "unborn"
    BY <1>1 DEF AccessInv, Stages, Managing
  <2>3. \A s \in Callers : call'[s].pc \in {"insert", "found"} => call'[s].op = "make"
    BY <1>1 DEF AccessInv, Stages
  <2>4. \A s, u \in Callers : call'[s].op = "make" /\ call'[u].op = "make" => s = u
    BY <1>1 DEF AccessInv, Stages
  <2> QED BY <2>1, <2>2, <2>3, <2>4 DEF Stages
<1>6. Remembered'
  BY <1>1, <1>2 DEF AccessInv, Remembered, Managing, Free
<1>7. Serial'
  BY <1>1 DEF AccessInv, Serial, Free, Leaves
<1> QED BY <1>3, <1>4, <1>5, <1>6, <1>7 DEF AccessInv

\* Editing an issue.
LEMMA EditKeeps ==
  ASSUME AccessInv, NEW r \in Callers, Remember, AskEdit(r) \/ Resolve(r) \/ Edit(r)
  PROVE  AccessInv'
<1>1. CASE AskEdit(r)
  <2>1. PICK m \in People : project = "stands" /\ Begin(r, m, "edit", "resolve", Nobody, "none")
    BY <1>1 DEF AskEdit
  <2> QED BY <2>1, BeginKeeps DEF Ops
<1>2. CASE Resolve(r)
  <2>1. call[r] \in CallSet /\ wsRole \in [People -> WsRoles \cup {"none"}]
        /\ seat \in [People -> ProjectRoles \cup {"none"}]
    BY DEF AccessInv, CallsTyped, AccessTypeOK
  <2>2. CASE WriteGate(call[r].ws, RoleOf(r))
    <3>1. CASE call[r].ws = "Admin"
      <4>1. "edit" \in could[r]
        BY <1>2, <3>1 DEF AccessInv, Remembered, Resolve
      <4> QED BY <1>2, <2>2, <4>1, ReadKeeps DEF Resolve, Managing
    <3>2. CASE project # "stands"
      <4>1. project = "gone"
        BY <1>2, <3>2 DEF AccessInv, AccessTypeOK, Stages, Resolve
      <4> QED BY <1>2, <2>2, <4>1, ReadKeeps DEF Resolve, Managing
    <3>3. CASE call[r].ws # "Admin" /\ project = "stands"
      <4> DEFINE m == call[r].who
      <4>1. /\ RoleOf(r) # "none"
            /\ EffectiveRank(call[r].ws, RoleOf(r)) >= 2
        BY <2>2, <3>3 DEF WriteGate, ROLE_RANK
      <4>2. RoleOf(r) = ProjectRole(m)
        BY <4>1 DEF RoleOf
      <4>3. m \in People
        BY <4>1 DEF RoleOf, AccessInv, CallsTyped
      <4>4. ProjectRole(m) \in {"Viewer", "Member", "Admin", "Lead"}
        BY <4>1, <4>2, <4>3, <2>1, RolesRanked DEF ProjectRole
      <4>5. ROLE_RANK[ProjectRole(m)] >= 2
        BY <4>1, <4>2 DEF EffectiveRank
      <4>6. ProjectRole(m) \in {"Member"} \cup Tier
        BY <4>4, <4>5 DEF ROLE_RANK, Tier
      <4>7. call'[r].who = m /\ UNCHANGED <<wsRole, lead, seat>>
        BY <1>2, <2>2, GotoMoves DEF Resolve, AccessInv, Pcs
      <4>8. "edit" \in Rights(call[r].who)'
        BY <4>3, <4>6, <4>7, AccessAssumption DEF Rights, MayEdit, ProjectRole
      <4> QED BY <1>2, <2>2, <4>8, ReadKeeps DEF Resolve, Managing
    <3> QED BY <3>1, <3>2, <3>3
  <2>3. CASE ~WriteGate(call[r].ws, RoleOf(r))
    BY <1>2, <2>3, ReadKeeps DEF Resolve, Managing
  <2> QED BY <2>2, <2>3
<1>3. CASE Edit(r)
  BY <1>3, ReadKeeps DEF Edit, Managing
<1> QED BY <1>1, <1>2, <1>3

\* Making the project.
LEMMA MakeKeeps ==
  ASSUME AccessInv, NEW r \in Callers, Remember, AskProject(r) \/ InsertProject(r) \/ Found(r)
  PROVE  AccessInv'
<1>t. TablesOK
  BY TypesSplit DEF AccessInv
<1>1. CASE AskProject(r)
  <2>1. PICK m \in People, l \in Members \cup {Nobody} :
          /\ project = "unborn" /\ \A s \in Callers : call[s].op # "make"
          /\ Begin(r, m, "make", "insert", l, "none")
    BY <1>1 DEF AskProject
  <2> QED BY <2>1, BeginKeeps DEF Ops, Members
<1>2. CASE InsertProject(r)
  <2> DEFINE there == call[r].target \in Members \cup {Nobody}
             p == IF there THEN "found" ELSE "idle"
  <2>1. /\ call[r].pc = "insert" /\ Goto(r, p) /\ UNCHANGED <<wsRole, seat>>
        /\ project' = IF there THEN "stands" ELSE project
        /\ lead' = IF there THEN call[r].target ELSE lead
    BY <1>2 DEF InsertProject
  <2>2. call[r].op = "make" /\ project = "unborn" /\ \A s \in Callers \ {r} : call[s].pc # "insert"
    BY <2>1 DEF AccessInv, Stages
  <2>3. TablesOK'
    BY <1>t, <2>1, <2>2 DEF TablesOK, Members
  <2>4. p \in {"idle", "found", "drop", "delete"} /\ p # "drop" /\ p # "delete"
    OBVIOUS
  <2> HIDE DEF p
  <2> QED BY <2>1, <2>2, <2>3, <2>4, WriteKeeps DEF Free
<1>3. CASE Found(r)
  <2>1. call[r].pc = "found" /\ Goto(r, "idle") /\ UNCHANGED <<wsRole, project, lead>>
    BY <1>3 DEF Found
  <2>2. TablesOK'
    BY <1>t, <1>3, RolesRanked DEF TablesOK, Members, Found
  <2> QED BY <2>1, <2>2, WriteKeeps DEF Free, AccessInv, Stages
<1> QED BY <1>1, <1>2, <1>3

LEMMA ManageBegins ==
  ASSUME AccessInv, NEW r \in Callers, Remember, AskManage(r)
  PROVE  AccessInv'
<1>1. PICK m \in People, o \in {"lead", "rename", "drop", "seat", "role", "unseat"},
           t \in People \cup {Nobody}, g \in ProjectRoles \cup {"none"} :
        project # "unborn" /\ Begin(r, m, o, "gate", t, g)
  BY DEF AskManage, AskLead, AskRename, AskDrop, AskSeat, AskRole, AskUnseat
<1> QED BY <1>1, BeginKeeps DEF Ops

\* The settings gate, which clears whoever may manage the project.
LEMMA GateKeeps ==
  ASSUME AccessInv, NEW r \in Callers, Remember, Gate(r)
  PROVE  AccessInv'
<1> DEFINE m == call[r].who
           p == IF ~SettingsGate(call[r].ws, RowOf(r)) THEN "idle"
                ELSE IF call[r].op = "seat" THEN "set" ELSE "read"
<1>1. call[r].pc = "gate" /\ Goto(r, p) /\ UNCHANGED <<wsRole, project, lead, seat>>
  BY DEF Gate
<1>2. p \in {"idle", "set", "read"} /\ (p = "set" => call[r].op = "seat")
      /\ (p # "idle" => SettingsGate(call[r].ws, RowOf(r)))
  OBVIOUS
<1>3. call[r] \in CallSet /\ seat \in [People -> ProjectRoles \cup {"none"}]
  BY DEF AccessInv, CallsTyped, AccessTypeOK
<1>4. ASSUME p # "idle" PROVE "manage" \in Rights(call[r].who)' \cup could[r]
  <2>1. CASE call[r].ws = "Admin"
    BY <1>1, <2>1 DEF AccessInv, Remembered
  <2>2. CASE call[r].ws # "Admin"
    <3>1. ROLE_RANK[RowOf(r)] >= 3
      BY <1>2, <1>4, <2>2 DEF SettingsGate, ROLE_RANK
    <3>2. call[r].known
      BY <3>1 DEF RowOf, ROLE_RANK
    <3>3. m \in People /\ RowOf(r) = seat[m]
      BY <3>2 DEF RowOf, AccessInv, CallsTyped
    <3>4. seat[m] \in Tier
      <4>1. seat[m] \in {"none", "Viewer", "Member", "Admin", "Lead"}
        BY <1>3, <3>3, RolesRanked
      <4> QED BY <4>1, <3>1, <3>3 DEF ROLE_RANK, Tier
    <3>5. call'[r].who = m
      <4> HIDE DEF p
      <4> QED BY <1>1, <1>2, <1>4, GotoMoves DEF AccessInv, Pcs, Managing
    <3> QED BY <1>1, <3>3, <3>4, <3>5, AccessAssumption DEF Rights, MayManage, ProjectRole, Tier
  <2> QED BY <2>1, <2>2
<1> HIDE DEF p
<1> QED BY <1>1, <1>2, <1>4, ReadKeeps DEF Managing

\* PUT /projects/:id.
LEMMA PutKeeps ==
  ASSUME AccessInv, NEW r \in Callers, Remember, ReadProject(r) \/ PutProject(r)
  PROVE  AccessInv'
<1>t. TablesOK /\ call[r] \in CallSet
  BY TypesSplit DEF AccessInv, CallsTyped
<1>1. CASE ReadProject(r)
  <2>0. call[r].pc = "read" /\ UNCHANGED <<wsRole, project, lead, seat>>
    BY <1>1 DEF ReadProject
  <2>1. CASE Goto(r, "idle")
    BY <2>0, <2>1, ReadKeeps DEF Managing
  <2>2. CASE ~Goto(r, "idle")
    <3> DEFINE l == IF call[r].op = "lead" THEN call[r].target ELSE lead
               c == [call[r] EXCEPT !.pc = "put", !.lead = l]
    <3>1. call' = [call EXCEPT ![r].pc = "put", ![r].lead = l] /\ UNCHANGED <<calls, apart>>
      BY <1>1, <2>2 DEF ReadProject
    <3>2. l \in People \cup {Nobody}
      BY <1>t DEF TablesOK, CallSet, Members
    <3> HIDE DEF l
    <3>3. c \in CallSet /\ c.pc = "put" /\ c.op = call[r].op /\ c.who = call[r].who /\ c.ws = call[r].ws
          /\ c.known = call[r].known
      BY <1>t, <3>2 DEF CallSet, Pcs, Managing
    <3>4. call'[r] = c /\ \A s \in Callers \ {r} : call'[s] = call[s]
      BY <3>1 DEF AccessInv, CallsTyped
    <3>5. call' \in [Callers -> CallSet]
      <4> HIDE DEF c
      <4>1. call' = [s \in Callers |-> call'[s]]
        BY <3>1 DEF AccessInv, CallsTyped
      <4> QED BY <3>3, <3>4, <4>1 DEF AccessInv, CallsTyped
    <3> HIDE DEF c
    <3>6. /\ could' \in [Callers -> SUBSET {"edit", "manage"}]
          /\ \A s \in Callers : call'[s].pc # "idle" => could[s] \cup Rights(call[s].who)' \subseteq could'[s]
      BY <3>5, RemembersMore DEF AccessInv
    <3>7. CallsTyped'
      <4>1. /\ \A s \in Callers : call'[s].pc \in {"strip", "delete"} => call'[s].target \in People
            /\ \A s \in Callers : call'[s].known => call'[s].who \in People
        BY <3>3, <3>4 DEF AccessInv, CallsTyped
      <4>2. apart' \in BOOLEAN /\ calls' \in Nat
        BY <3>1 DEF AccessInv, CallsTyped
      <4> QED BY <3>5, <3>6, <4>1, <4>2 DEF CallsTyped
    <3>8. AccessTypeOK'
      BY <1>t, <2>0, <3>7 DEF TablesOK, Members, AccessTypeOK, CallsTyped, CallSet
    <3>9. Stages'
      BY <2>0, <3>3, <3>4 DEF AccessInv, Stages, Managing
    <3>10. Remembered'
      BY <2>0, <3>3, <3>4, <3>6 DEF AccessInv, Remembered, Managing
    <3>11. Serial'
      <4>1. apart' <=> apart
        BY <3>1
      <4>2. apart => \A s \in Callers \ {r} : call[s].pc = "idle"
        BY <2>0 DEF AccessInv, Serial, Free
      <4> QED BY <3>3, <3>4, <4>1, <4>2 DEF Serial, Free
    <3> QED BY <3>7, <3>8, <3>9, <3>10, <3>11 DEF AccessInv
  <2> QED BY <2>1, <2>2
<1>2. CASE PutProject(r)
  <2>1. TablesOK'
    BY <1>t, <1>2 DEF TablesOK, PutProject, Members
  <2> QED BY <1>2, <2>1, WriteKeeps DEF PutProject, Free, AccessInv, Stages
<1> QED BY <1>1, <1>2

\* DELETE /projects/:id.
LEMMA DropKeeps ==
  ASSUME AccessInv, NEW r \in Callers, Remember, ReadToDrop(r) \/ EmptyProject(r) \/ DropProject(r)
  PROVE  AccessInv'
<1>t. TablesOK
  BY TypesSplit DEF AccessInv
<1>1. CASE ReadToDrop(r)
  <2>1. Goto(r, "empty") \/ Goto(r, "idle")
    BY <1>1 DEF ReadToDrop
  <2>2. "manage" \in could[r]
    BY <1>1 DEF ReadToDrop, AccessInv, Remembered, Managing
  <2> QED BY <1>1, <2>1, <2>2, ReadKeeps DEF ReadToDrop, Managing
<1>2. CASE EmptyProject(r)
  <2>1. TablesOK' /\ \A m \in People : seat'[m] = "none"
    BY <1>t, <1>2 DEF TablesOK, EmptyProject, Members
  <2> QED BY <1>2, <2>1, WriteKeeps DEF EmptyProject, Free, Managing, AccessInv, Stages
<1>3. CASE DropProject(r)
  <2>1. TablesOK'
    BY <1>t, <1>3 DEF TablesOK, DropProject, Members
  <2>2. \A s \in Callers \ {r} : call[s].pc # "insert"
    BY <1>3 DEF DropProject, AccessInv, Stages, Managing
  <2> QED BY <1>3, <2>1, <2>2, WriteKeeps DEF DropProject, Free
<1> QED BY <1>1, <1>2, <1>3

\* The members of the project.
LEMMA SeatKeeps ==
  ASSUME AccessInv, NEW r \in Callers, Remember, ReadSeat(r) \/ CountTier(r) \/ SetSeat(r)
  PROVE  AccessInv'
<1>t. TablesOK /\ call[r] \in CallSet
  BY TypesSplit DEF AccessInv, CallsTyped
<1>m. call[r].pc \in Managing => "manage" \in could[r]
  BY DEF AccessInv, Remembered
<1>1. CASE ReadSeat(r)
  <2>1. Goto(r, "idle") \/ Goto(r, "count") \/ (Goto(r, "set") /\ ~Leaves(r))
    BY <1>1 DEF ReadSeat
  <2> QED BY <1>1, <1>m, <2>1, ReadKeeps DEF ReadSeat, Managing
<1>2. CASE CountTier(r)
  <2> DEFINE T == {m \in People : seat[m] \in Tier}
  <2>1. Goto(r, "idle") \/ (Goto(r, "set") /\ ~(Cardinality(T) <= 1))
    BY <1>2 DEF CountTier
  <2>2. CASE Goto(r, "idle")
    BY <1>2, <2>2, ReadKeeps DEF CountTier, Managing
  <2>3. CASE Goto(r, "set") /\ ~(Cardinality(T) <= 1)
    <3>1. \E m \in T : m # call[r].target
      <4> SUFFICES ASSUME \A m \in T : m = call[r].target PROVE FALSE
        OBVIOUS
      <4>1. T = {} \/ T = {call[r].target}
        OBVIOUS
      <4>2. Cardinality(T) = 0 \/ Cardinality(T) = 1
        BY <4>1, FS_EmptySet, FS_Singleton
      <4> QED BY <2>3, <4>2
    <3> QED BY <1>2, <1>m, <2>3, <3>1, ReadKeeps DEF CountTier, Managing
  <2> QED BY <2>1, <2>2, <2>3
<1>3. CASE SetSeat(r)
  <2> DEFINE t == call[r].target
             writes == IF call[r].op = "seat" THEN project = "stands" /\ t \in Members /\ seat[t] = "none"
                       ELSE seat[t] # "none"
  <2>0. /\ call[r].pc = "set" /\ Goto(r, "idle") /\ UNCHANGED <<wsRole, project, lead>>
        /\ seat' = IF writes THEN [seat EXCEPT ![t] = call[r].role] ELSE seat
    BY <1>3 DEF SetSeat
  <2>1. TablesOK'
    <3>1. CASE ~writes
      <4> HIDE DEF writes
      <4> QED BY <1>t, <2>0, <3>1 DEF TablesOK, Members
    <3>2. CASE writes
      <4>1. seat' = [seat EXCEPT ![t] = call[r].role] /\ call[r].role \in ProjectRoles \cup {"none"}
        BY <1>t, <2>0, <3>2 DEF CallSet
      <4>2. t \in People => t \in Members /\ project = "stands"
        BY <1>t, <3>2 DEF TablesOK
      <4> QED BY <1>t, <2>0, <4>1, <4>2 DEF TablesOK, Members
    <3> QED BY <3>1, <3>2
  <2> HIDE DEF t, writes
  <2> QED BY <2>0, <2>1, WriteKeeps DEF Free, AccessInv, Stages
<1> QED BY <1>1, <1>2, <1>3

\* The workspace's own handlers.
LEMMA WorkspaceKeeps ==
  ASSUME AccessInv, NEW r \in Callers, Remember, SetRole(r) \/ AskRemove(r) \/ Strip(r) \/ Delete(r)
  PROVE  AccessInv'
<1>t. TablesOK /\ call[r] \in CallSet
  BY TypesSplit DEF AccessInv, CallsTyped
<1>1. CASE SetRole(r)
  <2>1. PICK m \in People, g \in WsRoles : wsRole' = [wsRole EXCEPT ![m] = g]
    BY <1>1 DEF SetRole
  <2>2. UNCHANGED <<project, lead, seat, call>> /\ calls' \in Nat /\ apart' \in BOOLEAN
    BY <1>1 DEF SetRole, Count, AccessInv, CallsTyped
  <2>3. apart' => \A s \in Callers : Free(s)
    BY <1>1, Zenon DEF SetRole, Count
  <2>4. call' \in [Callers -> CallSet]
    BY <2>2 DEF AccessInv, CallsTyped
  <2>5. /\ could' \in [Callers -> SUBSET {"edit", "manage"}]
        /\ \A s \in Callers : call'[s].pc # "idle" => could[s] \cup Rights(call[s].who)' \subseteq could'[s]
    BY <2>4, RemembersMore DEF AccessInv
  <2>6. CallsTyped'
    BY <2>2, <2>4, <2>5 DEF AccessInv, CallsTyped
  <2>7. AccessTypeOK'
    <3>1. TablesOK'
      BY <1>t, <2>1, <2>2, RolesRanked DEF TablesOK, Members
    <3> QED BY <2>6, <3>1 DEF AccessTypeOK, TablesOK, CallsTyped, CallSet
  <2>8. Stages'
    BY <2>2 DEF AccessInv, Stages
  <2>9. Remembered'
    BY <2>2, <2>5 DEF AccessInv, Remembered, Managing
  <2>10. Serial'
    BY <2>2, <2>3 DEF Serial, Free
  <2> QED BY <2>6, <2>7, <2>8, <2>9, <2>10 DEF AccessInv
<1>2. CASE AskRemove(r)
  <2>1. PICK m \in Members : Begin(r, Nobody, "remove", "strip", m, "none")
    BY <1>2 DEF AskRemove
  <2> QED BY <2>1, BeginKeeps DEF Ops, Members
<1>3. CASE Strip(r)
  <2>0. call[r].target \in People
    BY <1>3 DEF Strip, AccessInv, CallsTyped
  <2>1. TablesOK' /\ seat'[call[r].target] = "none"
    BY <1>t, <1>3, <2>0 DEF TablesOK, Members, Strip
  <2> QED BY <1>3, <2>0, <2>1, WriteKeeps DEF Strip, Free, AccessInv, Stages
<1>4. CASE Delete(r)
  <2>0. call[r].target \in People
    BY <1>4 DEF Delete, AccessInv, CallsTyped
  <2>1. TablesOK'
    BY <1>t, <1>4, <2>0, AccessAssumption DEF TablesOK, Members, Delete
  <2> QED BY <1>4, <2>1, WriteKeeps DEF Delete, Free, AccessInv, Stages
<1> QED BY <1>1, <1>2, <1>3, <1>4

-----------------------------------------------------------------------------
(***************************************************************************)
(* The theorems.                                                           *)
(***************************************************************************)
LEMMA AccessInvInit == AccessInit => AccessInv
<1> SUFFICES ASSUME AccessInit PROVE AccessInv
  OBVIOUS
<1>1. CallsTyped
  BY NoCallTyped DEF AccessInit, CallsTyped
<1>2. AccessTypeOK
  BY <1>1 DEF AccessInit, AccessTypeOK, CallsTyped, CallSet
<1>3. \A r \in Callers : call[r].pc = "idle" /\ call[r].op = "none"
  BY NoCallTyped DEF AccessInit
<1>4. Stages /\ Remembered /\ Serial
  BY <1>3 DEF Stages, Remembered, Serial, Managing, Free
<1> QED BY <1>1, <1>2, <1>4 DEF AccessInv

LEMMA AccessInvNext == AccessInv /\ [AccessNext]_accessVars => AccessInv'
<1> SUFFICES ASSUME AccessInv, [AccessNext]_accessVars PROVE AccessInv'
  OBVIOUS
<1>1. CASE AccessNext
  <2>1. PICK r \in Callers :
          \/ AskEdit(r) \/ Resolve(r) \/ Edit(r)
          \/ AskProject(r) \/ InsertProject(r) \/ Found(r)
          \/ AskManage(r) \/ Gate(r)
          \/ ReadProject(r) \/ PutProject(r) \/ ReadToDrop(r) \/ EmptyProject(r) \/ DropProject(r)
          \/ ReadSeat(r) \/ CountTier(r) \/ SetSeat(r)
          \/ SetRole(r) \/ AskRemove(r) \/ Strip(r) \/ Delete(r)
    BY <1>1 DEF AccessNext
  <2>2. Remember
    BY <1>1 DEF AccessNext
  <2> QED BY <2>1, <2>2, EditKeeps, MakeKeeps, ManageBegins, GateKeeps, PutKeeps, DropKeeps, SeatKeeps,
             WorkspaceKeeps
<1>2. CASE UNCHANGED accessVars
  BY <1>2 DEF accessVars, AccessInv, AccessTypeOK, Members, CallsTyped, Stages, Remembered, Serial, Free, Leaves
<1> QED BY <1>1, <1>2

\* The inductive invariant behind the others.
THEOREM AccessInvariant == AccessSpec => []AccessInv
BY AccessInvInit, AccessInvNext, PTL DEF AccessSpec

\* The tables and the requests keep their types; in particular nobody holds a role
\* in a project that is not there, and only members do.
THEOREM AccessTypes == AccessSpec => []AccessTypeOK
<1>1. AccessInv => AccessTypeOK
  BY DEF AccessInv
<1> QED BY <1>1, AccessInvariant, PTL

\* The listing, the roles told to the pages and the gates agree, in every state,
\* on who sees, edits and manages the project.
THEOREM ReadersAgree == AccessSpec => []AccessAgrees
<1>1. AccessTypeOK => AccessAgrees
  <2> SUFFICES ASSUME AccessTypeOK, project = "stands", NEW m \in Members
               PROVE  LET sees == ReadGate(wsRole[m], ProjectRole(m)) IN
                      /\ sees <=> InScope(m)
                      /\ sees <=> wsRole[m] = "Admin" \/ Told(m) # "none"
                      /\ sees => (UiEdits(m) <=> WriteGate(wsRole[m], ProjectRole(m)))
                      /\ seat[m] # "none" => (UiManages(m) <=> SettingsGate(wsRole[m], seat[m]))
    BY DEF AccessAgrees
  <2> DEFINE role == ProjectRole(m)
  <2>1. wsRole[m] \in {"Viewer", "Member", "Admin"} /\ wsRole[m] # "none" /\ m \in People
    BY RolesRanked DEF AccessTypeOK, Members
  <2>2. seat[m] \in {"none", "Viewer", "Member", "Admin", "Lead"}
    BY <2>1, RolesRanked DEF AccessTypeOK
  <2>3. Told(m) = role /\ role \in {"none", "Viewer", "Member", "Admin", "Lead"}
    BY <2>1, <2>2 DEF Told, ProjectRole
  <2>4. ReadGate(wsRole[m], role) <=> wsRole[m] = "Admin" \/ role # "none"
    BY DEF ReadGate
  <2>5. InScope(m) <=> wsRole[m] = "Admin" \/ role # "none"
    BY <2>2 DEF InScope, ProjectRole
  <2>6. role # "none" => (UiEdits(m) <=> WriteGate(wsRole[m], role))
    BY <2>1, <2>3 DEF UiEdits, WriteGate, EffectiveRank, ROLE_RANK
  <2>7. wsRole[m] = "Admin" => UiEdits(m) /\ WriteGate(wsRole[m], role)
    BY DEF UiEdits, WriteGate
  <2>8. seat[m] # "none" => (UiManages(m) <=> SettingsGate(wsRole[m], seat[m]))
    BY <2>1, <2>2, <2>3 DEF ProjectRole, UiManages, SettingsGate
  <2> HIDE DEF role
  <2>9. /\ ReadGate(wsRole[m], role) <=> InScope(m)
        /\ ReadGate(wsRole[m], role) <=> wsRole[m] = "Admin" \/ Told(m) # "none"
        /\ ReadGate(wsRole[m], role) => (UiEdits(m) <=> WriteGate(wsRole[m], role))
        /\ seat[m] # "none" => (UiManages(m) <=> SettingsGate(wsRole[m], seat[m]))
    BY <2>3, <2>4, <2>5, <2>6, <2>7, <2>8
  <2> QED BY <2>9 DEF role
<1> QED BY <1>1, AccessTypes, PTL

\* A request that has ended without writing leaves its place to another; one that is
\* at its last write has passed a gate.
LEMMA WritesWarranted ==
  AccessInv /\ [AccessNext]_accessVars =>
    \A r \in Callers : call[r].pc # "idle" /\ call'[r].pc = "idle" =>
       /\ call[r].pc = "edit" => "edit" \in could[r] \/ project # "stands"
       /\ call[r].pc \in {"put", "drop", "set"} => "manage" \in could[r] \/ project # "stands"
BY DEF AccessInv, Remembered, Managing

\* The last of the admin tier leaves a project only with the project, or with a
\* member who is removed.
LEMMA TierStays ==
  ASSUME AccessInv, AccessNext, apart', Tended, ~Tended'
  PROVE  \E r \in Callers : call[r].pc \in {"empty", "strip"}
<1>t. TablesOK
  BY TypesSplit DEF AccessInv
<1>0. PICK r \in Callers :
          \/ AskEdit(r) \/ Resolve(r) \/ Edit(r)
          \/ AskProject(r) \/ InsertProject(r) \/ Found(r)
          \/ AskManage(r) \/ Gate(r)
          \/ ReadProject(r) \/ PutProject(r) \/ ReadToDrop(r) \/ EmptyProject(r) \/ DropProject(r)
          \/ ReadSeat(r) \/ CountTier(r) \/ SetSeat(r)
          \/ SetRole(r) \/ AskRemove(r) \/ Strip(r) \/ Delete(r)
  BY DEF AccessNext
<1>1. PICK m \in People : seat[m] \in Tier
  BY DEF Tended
<1>2. seat' # seat /\ \A n \in People : seat'[n] \notin Tier
  BY DEF Tended
<1>3. EmptyProject(r) \/ Strip(r) \/ Found(r) \/ DropProject(r) \/ SetSeat(r) \/ Delete(r)
  BY <1>0, <1>2 DEF AskEdit, Resolve, Edit, AskProject, InsertProject, AskManage, Gate, ReadProject, PutProject,
     ReadToDrop, ReadSeat, CountTier, SetRole, AskRemove, Begin, AskLead, AskRename, AskDrop, AskSeat, AskRole,
     AskUnseat
<1>4. apart
  <2>1. \E p \in Pcs : Goto(r, p)
    BY <1>3 DEF EmptyProject, Strip, Found, DropProject, SetSeat, Delete, Pcs, Managing
  <2> QED BY <2>1, Zenon DEF Goto
<1>5. ~Found(r)
  BY <1>1, <1>2, <1>t DEF Found, TablesOK, Tier
<1>6. ~DropProject(r)
  BY <1>1, <1>4 DEF DropProject, AccessInv, Serial, Tier
<1>7. ~Delete(r)
  <2> SUFFICES ASSUME Delete(r) PROVE FALSE
    OBVIOUS
  <2>1. seat[call[r].target] = "none" /\ call[r].target \in People
    BY <1>4 DEF Delete, AccessInv, Serial, CallsTyped
  <2> QED BY <1>2, <1>t, <2>1 DEF Delete, TablesOK
<1>8. ~SetSeat(r)
  <2> SUFFICES ASSUME SetSeat(r) PROVE FALSE
    OBVIOUS
  <2> DEFINE t == call[r].target
  <2>1. /\ call[r].pc = "set" /\ seat' = [seat EXCEPT ![t] = call[r].role]
        /\ call[r].op = "seat" => seat[t] = "none"
    BY <1>2 DEF SetSeat
  <2>2. seat'[m] = IF m = t THEN call[r].role ELSE seat[m]
    BY <1>1, <1>t, <2>1 DEF TablesOK
  <2>3. m = t /\ call[r].role \notin Tier
    BY <1>1, <1>2, <2>2
  <2>4. call[r].op # "seat"
    BY <1>1, <2>1, <2>3 DEF Tier
  <2>5. Leaves(r)
    BY <1>1, <2>3 DEF Leaves
  <2>6. PICK n \in People \ {t} : seat[n] \in Tier
    BY <1>4, <2>1, <2>4, <2>5 DEF AccessInv, Serial
  <2>7. seat'[n] = seat[n]
    BY <1>t, <2>1 DEF TablesOK
  <2> QED BY <1>2, <2>6, <2>7
<1>9. EmptyProject(r) \/ Strip(r)
  BY <1>3, <1>5, <1>6, <1>7, <1>8
<1> QED BY <1>9 DEF EmptyProject, Strip

\* An issue is edited and the project managed only for somebody who had the right
\* to at some instant of the request, however requests overlap; and while they
\* come one at a time a project keeps somebody of the admin tier.
THEOREM RightsAndTierHeld == AccessSpec => AccessHeld
<1>1. AccessInv /\ [AccessNext]_accessVars =>
        [\A r \in Callers : call[r].pc # "idle" /\ call'[r].pc = "idle" =>
           /\ call[r].pc = "edit" => "edit" \in could[r] \/ project # "stands"
           /\ call[r].pc \in {"put", "drop", "set"} => "manage" \in could[r] \/ project # "stands"]_accessVars
  BY WritesWarranted
<1>2. AccessInv /\ [AccessNext]_accessVars =>
        [apart' /\ Tended /\ ~Tended' => \E r \in Callers : call[r].pc \in {"empty", "strip"}]_accessVars
  BY TierStays
<1> QED BY <1>1, <1>2, AccessInvariant, PTL DEF AccessSpec, AccessHeld, RightsHeld, TierKept

-----------------------------------------------------------------------------
Changing == {"existing", "leads", "change"}
TurnPcs ==
  {"idle", "create", "load", "manage", "update", "drop", "insert", "link", "addlink", "unlink"} \cup Changing
TurnOps == {"none", "create", "mode", "rename", "drop", "add", "role", "remove", "link", "unlink"}
TurnSet ==
  [pc : TurnPcs, op : TurnOps, who : Folk \cup {"nobody"}, admin : BOOLEAN, target : Folk \cup {"nobody"},
   role : TEAM_ROLES \cup {"none"}, mode : MEMBERSHIP_MODES]

\* The requests' own types, and which of them are at which step.
TurnsTyped ==
  /\ turn \in [Hands -> TurnSet]
  /\ grounds \in [Hands -> SUBSET {"manager", "open"}]
  /\ single \in BOOLEAN /\ turns \in Nat
  /\ \A r \in Hands : turn[r].pc = "create" => turn[r].op = "create"
  /\ \A r \in Hands : turn[r].pc \in {"load", "manage"} => turn[r].op \notin {"none", "create"}
  /\ \A r \in Hands : turn[r].pc = "drop" => turn[r].op = "drop"
  /\ \A r \in Hands : turn[r].pc = "insert" => turn[r].op \in {"create", "add"}
  /\ \A r \in Hands : turn[r].pc \in Changing => turn[r].op \in {"role", "remove"}
  /\ \A r \in Hands : turn[r].op = "remove" => turn[r].role = "none"

\* What spoke for a request that teams.js let through.
Cleared(r) ==
  \/ "manager" \in grounds[r]
  \/ turn[r].op = "add" /\ Itself(r) /\ turn[r].role = "Member" /\ "open" \in grounds[r]
  \/ turn[r].op = "remove" /\ Itself(r)

Granted ==
  \A r \in Hands :
    /\ ~Resting(r) /\ turn[r].admin => "manager" \in grounds[r]
    /\ turn[r].pc = "manage" /\ turn[r].op = "add" /\ turn[r].mode = "OPEN" => "open" \in grounds[r]
    /\ turn[r].pc \in {"insert"} \cup Changing /\ turn[r].op # "create" => Cleared(r)

\* While no two requests have overlapped one is under way at most, and the Leads
\* it counted are still there.
OneTurn ==
  single =>
    /\ \A r, s \in Hands : ~Resting(r) /\ ~Resting(s) => r = s
    /\ \A r \in Hands : turn[r].pc = "change" /\ turn[r].target \in Leads /\ turn[r].role # "Lead" =>
         \E m \in Folk \ {turn[r].target} : roster[m] = "Lead"

\* The links there are and those that are about to be.
Adding == {r \in Hands : turn[r].pc = "addlink"}
LinksPromised ==
  links + Cardinality(Adding) <= MAX_TEAM_LINKS + (IF single THEN 0 ELSE Cardinality(Hands) - 1)

TeamInv == TeamTypeOK /\ TurnsTyped /\ Granted /\ OneTurn /\ LinksPromised

-----------------------------------------------------------------------------
(***************************************************************************)
(* How a step moves a request.                                             *)
(***************************************************************************)
LEMMA NoTurnTyped ==
  /\ NoTurn \in TurnSet /\ NoTurn.pc = "idle" /\ NoTurn.op = "none" /\ ~NoTurn.admin
BY DEF NoTurn, TurnSet, TurnPcs, TurnOps, TEAM_ROLES, MEMBERSHIP_MODES

LEMMA ThenMoves ==
  ASSUME TurnsTyped, NEW r \in Hands, NEW p \in TurnPcs, Then(r, p)
  PROVE  /\ turn' \in [Hands -> TurnSet]
         /\ \A s \in Hands \ {r} : turn'[s] = turn[s]
         /\ turn'[r].pc = p
         /\ p = "idle" => turn'[r].op = "none" /\ ~turn'[r].admin
         /\ p # "idle" => /\ turn'[r].op = turn[r].op /\ turn'[r].who = turn[r].who
                         /\ turn'[r].admin = turn[r].admin /\ turn'[r].target = turn[r].target
                         /\ turn'[r].role = turn[r].role /\ turn'[r].mode = turn[r].mode
         /\ turns' = turns /\ (single' <=> single)
<1>1. turn[r] \in TurnSet
  BY DEF TurnsTyped
<1>2. [turn[r] EXCEPT !.pc = p] \in TurnSet
  BY <1>1 DEF TurnSet
<1>3. turn'[r] = IF p = "idle" THEN NoTurn ELSE [turn[r] EXCEPT !.pc = p]
  BY DEF Then, TurnsTyped
<1>4. turn' \in [Hands -> TurnSet] /\ \A s \in Hands \ {r} : turn'[s] = turn[s]
  BY <1>2, NoTurnTyped DEF Then, TurnsTyped
<1>5. turns' = turns /\ (single' <=> single)
  BY DEF Then
<1> QED BY <1>1, <1>3, <1>4, <1>5, NoTurnTyped DEF TurnSet

LEMMA TakeMoves ==
  ASSUME TurnsTyped, NEW r \in Hands, NEW m \in Folk, NEW o \in TurnOps, NEW p \in TurnPcs,
         NEW t \in Folk \cup {"nobody"}, NEW g \in TEAM_ROLES \cup {"none"}, NEW md \in MEMBERSHIP_MODES,
         Take(r, m, o, p, t, g, md)
  PROVE  /\ turn' \in [Hands -> TurnSet]
         /\ \A s \in Hands \ {r} : turn'[s] = turn[s]
         /\ turn'[r].pc = p /\ turn'[r].op = o /\ turn'[r].who = m
         /\ turn'[r].target = t /\ turn'[r].role = g
         /\ turn'[r].admin => rank[m] = "Admin"
         /\ turn[r].pc = "idle" /\ UNCHANGED <<rank, team, mode, roster, links>>
         /\ turns' \in Nat /\ single' \in BOOLEAN
         /\ single' => single /\ \A s \in Hands : turn[s].pc = "idle"
<1> DEFINE k == rank[m] = "Admin"
           c == [pc |-> p, op |-> o, who |-> m, admin |-> k, target |-> t, role |-> g, mode |-> md]
<1>1. k \in BOOLEAN
  OBVIOUS
<1>2. ASSUME NEW b \in BOOLEAN,
             NEW d, d = [pc |-> p, op |-> o, who |-> m, admin |-> b, target |-> t, role |-> g, mode |-> md]
      PROVE  d \in TurnSet /\ d.pc = p /\ d.op = o /\ d.who = m /\ d.target = t /\ d.role = g
  BY <1>2 DEF TurnSet
<1>3. c \in TurnSet /\ c.pc = p /\ c.op = o /\ c.who = m /\ c.target = t /\ c.role = g
  <2> HIDE DEF k
  <2> QED BY <1>1, <1>2, Zenon
<1>4. turn' = [turn EXCEPT ![r] = c]
  BY DEF Take
<1>5. turn' \in [Hands -> TurnSet] /\ turn'[r] = c /\ \A s \in Hands \ {r} : turn'[s] = turn[s]
  <2> HIDE DEF c
  <2> QED BY <1>3, <1>4 DEF TurnsTyped
<1>6. turn[r].pc = "idle" /\ UNCHANGED <<rank, team, mode, roster, links>>
  BY DEF Take, Resting
<1>7. turns' \in Nat
  BY DEF Take, Admit, TurnsTyped
<1>8. single' \in BOOLEAN /\ (single' => single /\ \A s \in Hands : turn[s].pc = "idle")
  BY Zenon DEF Take, Admit, TurnsTyped, Resting
<1>9. turn'[r].admin => rank[m] = "Admin"
  <2>1. c.admin = k
    <3> HIDE DEF k
    <3> QED OBVIOUS
  <2>2. k => rank[m] = "Admin"
    OBVIOUS
  <2> HIDE DEF c, k
  <2> QED BY <1>5, <2>1, <2>2, Zenon
<1> HIDE DEF c, k
<1> QED BY <1>3, <1>5, <1>6, <1>7, <1>8, <1>9

LEMMA NotesMore ==
  ASSUME TurnsTyped, turn' \in [Hands -> TurnSet], Note
  PROVE  /\ grounds' \in [Hands -> SUBSET {"manager", "open"}]
         /\ \A r \in Hands : turn'[r].pc # "idle" => grounds[r] \cup Speaks(turn[r].who)' \subseteq grounds'[r]
<1>1. \A m : Speaks(m)' \subseteq {"manager", "open"}
  BY DEF Speaks
<1>2. \A r \in Hands : grounds'[r] = IF turn'[r].pc = "idle" THEN {} ELSE grounds[r] \cup Speaks(turn[r].who)'
  BY DEF Note
<1>3. grounds' = [r \in Hands |-> grounds'[r]]
  BY DEF Note
<1> QED BY <1>1, <1>2, <1>3 DEF TurnsTyped

-----------------------------------------------------------------------------
(***************************************************************************)
(* The cap on links.                                                       *)
(***************************************************************************)
LEMMA AddingFinite ==
  /\ IsFiniteSet(Adding) /\ Cardinality(Adding) \in Nat /\ Cardinality(Hands) \in Nat
  /\ Cardinality(Adding) <= Cardinality(Hands)
  /\ \A r \in Hands : Cardinality(Hands) >= 1
  /\ \A r \in Hands : r \notin Adding => Cardinality(Adding) <= Cardinality(Hands) - 1
<1>1. Adding \subseteq Hands /\ IsFiniteSet(Hands)
  BY TeamsAssumption DEF Adding
<1>2. IsFiniteSet(Adding) /\ Cardinality(Adding) \in Nat /\ Cardinality(Hands) \in Nat
      /\ Cardinality(Adding) <= Cardinality(Hands)
  BY <1>1, FS_Subset, FS_CardinalityType
<1>3. ASSUME NEW r \in Hands PROVE Cardinality(Hands) >= 1
  BY <1>1, <1>2, FS_EmptySet
<1>4. ASSUME NEW r \in Hands, r \notin Adding PROVE Cardinality(Adding) <= Cardinality(Hands) - 1
  <2>1. IsFiniteSet(Hands \ {r}) /\ Cardinality(Hands \ {r}) = Cardinality(Hands) - 1
    BY <1>1, FS_RemoveElement
  <2>2. Adding \subseteq Hands \ {r}
    BY <1>1, <1>4
  <2> QED BY <2>1, <2>2, FS_Subset
<1> QED BY <1>2, <1>3, <1>4

\* A step after which no more links are promised, and no more there, than before.
LEMMA LinksStay ==
  ASSUME LinksPromised, links \in Nat, links' \in Nat, links' <= links, Adding' \subseteq Adding,
         single \in BOOLEAN, single' \in BOOLEAN, single' => single, Hands # {}
  PROVE  LinksPromised'
<1>1. Cardinality(Adding') <= Cardinality(Adding) /\ Cardinality(Adding') \in Nat
  <2>1. IsFiniteSet(Adding)
    BY AddingFinite
  <2> QED BY <2>1, FS_Subset, FS_CardinalityType
<1>2. Cardinality(Hands) >= 1 /\ Cardinality(Adding) \in Nat /\ Cardinality(Hands) \in Nat
  BY AddingFinite
<1>3. links' + Cardinality(Adding') <= MAX_TEAM_LINKS + (IF single' THEN 0 ELSE Cardinality(Hands) - 1)
  BY <1>1, <1>2, TeamsAssumption DEF LinksPromised
<1> QED BY <1>3 DEF LinksPromised

-----------------------------------------------------------------------------
(***************************************************************************)
(* The invariant, action by action.                                        *)
(***************************************************************************)
\* The tables' share of TeamTypeOK.
RowsOK ==
  /\ rank \in [Folk -> {"Admin", "Member", "none"}]
  /\ team \in {"unborn", "stands", "gone"} /\ mode \in MEMBERSHIP_MODES
  /\ roster \in [Folk -> TEAM_ROLES \cup {"none"}]
  /\ \A m \in Folk : roster[m] # "none" => rank[m] # "none" /\ team = "stands"
  /\ links \in Nat

LEMMA RowsSplit == TurnsTyped => (TeamTypeOK <=> RowsOK)
BY DEF TurnsTyped, TeamTypeOK, RowsOK

\* A request begins.
LEMMA TakeKeeps ==
  ASSUME TeamInv, NEW r \in Hands, NEW m \in Folk, NEW o \in TurnOps \ {"none"}, NEW p \in {"create", "load"},
         NEW t \in Folk \cup {"nobody"}, NEW g \in TEAM_ROLES \cup {"none"}, NEW md \in MEMBERSHIP_MODES,
         Take(r, m, o, p, t, g, md), o = "remove" => g = "none", p = "create" <=> o = "create", Note
  PROVE  TeamInv'
<1>1. /\ turn' \in [Hands -> TurnSet]
      /\ \A s \in Hands \ {r} : turn'[s] = turn[s]
      /\ turn'[r].pc = p /\ turn'[r].op = o /\ turn'[r].who = m
      /\ turn'[r].target = t /\ turn'[r].role = g
      /\ turn'[r].admin => rank[m] = "Admin"
      /\ turn[r].pc = "idle" /\ UNCHANGED <<rank, team, mode, roster, links>>
      /\ turns' \in Nat /\ single' \in BOOLEAN
      /\ single' => single /\ \A s \in Hands : turn[s].pc = "idle"
  BY TakeMoves DEF TeamInv, TurnPcs
<1>2. /\ grounds' \in [Hands -> SUBSET {"manager", "open"}]
      /\ \A s \in Hands : turn'[s].pc # "idle" => grounds[s] \cup Speaks(turn[s].who)' \subseteq grounds'[s]
  BY <1>1, NotesMore DEF TeamInv
<1>3. TurnsTyped'
  <2>1. /\ \A s \in Hands : turn'[s].pc = "create" => turn'[s].op = "create"
        /\ \A s \in Hands : turn'[s].pc \in {"load", "manage"} => turn'[s].op \notin {"none", "create"}
        /\ \A s \in Hands : turn'[s].pc = "drop" => turn'[s].op = "drop"
        /\ \A s \in Hands : turn'[s].pc = "insert" => turn'[s].op \in {"create", "add"}
        /\ \A s \in Hands : turn'[s].pc \in Changing => turn'[s].op \in {"role", "remove"}
        /\ \A s \in Hands : turn'[s].op = "remove" => turn'[s].role = "none"
    BY <1>1 DEF TeamInv, TurnsTyped, Changing
  <2> QED BY <1>1, <1>2, <2>1 DEF TurnsTyped
<1>4. TeamTypeOK'
  BY <1>1, <1>3 DEF TeamInv, TeamTypeOK, TurnsTyped
<1>5. Granted'
  <2> SUFFICES ASSUME NEW s \in Hands
               PROVE  /\ turn'[s].pc # "idle" /\ turn'[s].admin => "manager" \in grounds'[s]
                      /\ turn'[s].pc = "manage" /\ turn'[s].op = "add" /\ turn'[s].mode = "OPEN" => "open" \in grounds'[s]
                      /\ turn'[s].pc \in {"insert"} \cup Changing /\ turn'[s].op # "create" => Cleared(s)'
    BY DEF Granted, Resting
  <2>1. CASE s = r
    <3>1. turn'[s].admin => "manager" \in Speaks(turn[s].who)'
      BY <1>1, <2>1 DEF Speaks
    <3> QED BY <1>1, <1>2, <2>1, <3>1 DEF Changing
  <2>2. CASE s # r
    <3>1. turn'[s] = turn[s] /\ (turn[s].pc # "idle" => grounds[s] \subseteq grounds'[s])
      BY <1>1, <1>2, <2>2
    <3> QED BY <3>1 DEF TeamInv, Granted, Cleared, Itself, Resting, Changing
  <2> QED BY <2>1, <2>2
<1>6. OneTurn'
  BY <1>1 DEF TeamInv, OneTurn, Resting
<1>7. LinksPromised'
  <2>1. Adding' \subseteq Adding
    BY <1>1 DEF Adding
  <2> QED BY <1>1, <2>1, LinksStay DEF TeamInv, TeamTypeOK, TurnsTyped
<1> QED BY <1>3, <1>4, <1>5, <1>6, <1>7 DEF TeamInv

\* A request goes on, by what it does to the tables and what spoke for it.
LEMMA ThenKeeps ==
  ASSUME TeamInv, NEW r \in Hands, NEW p \in TurnPcs \ {"create", "load", "manage"}, Then(r, p), ~Resting(r), Note,
         RowsOK', LinksPromised',
         p = "drop" => turn[r].op = "drop",
         p = "insert" => turn[r].op \in {"create", "add"},
         p \in Changing => turn[r].op \in {"role", "remove"},
         p \in {"insert"} \cup Changing /\ turn[r].op # "create" =>
           Cleared(r) \/ "manager" \in Speaks(turn[r].who)',
         p = "change" /\ turn[r].target \in Leads' /\ turn[r].role # "Lead" =>
           \E m \in Folk \ {turn[r].target} : roster'[m] = "Lead"
  PROVE  TeamInv'
<1>1. /\ turn' \in [Hands -> TurnSet]
      /\ \A s \in Hands \ {r} : turn'[s] = turn[s]
      /\ turn'[r].pc = p
      /\ p = "idle" => turn'[r].op = "none" /\ ~turn'[r].admin
      /\ p # "idle" => /\ turn'[r].op = turn[r].op /\ turn'[r].who = turn[r].who
                      /\ turn'[r].admin = turn[r].admin /\ turn'[r].target = turn[r].target
                      /\ turn'[r].role = turn[r].role /\ turn'[r].mode = turn[r].mode
      /\ turns' = turns /\ (single' <=> single)
  BY ThenMoves DEF TeamInv
<1>2. /\ grounds' \in [Hands -> SUBSET {"manager", "open"}]
      /\ \A s \in Hands : turn'[s].pc # "idle" => grounds[s] \cup Speaks(turn[s].who)' \subseteq grounds'[s]
  BY <1>1, NotesMore DEF TeamInv
<1>3. TurnsTyped'
  <2>1. /\ \A s \in Hands : turn'[s].pc = "create" => turn'[s].op = "create"
        /\ \A s \in Hands : turn'[s].pc \in {"load", "manage"} => turn'[s].op \notin {"none", "create"}
        /\ \A s \in Hands : turn'[s].pc = "drop" => turn'[s].op = "drop"
        /\ \A s \in Hands : turn'[s].pc = "insert" => turn'[s].op \in {"create", "add"}
        /\ \A s \in Hands : turn'[s].pc \in Changing => turn'[s].op \in {"role", "remove"}
        /\ \A s \in Hands : turn'[s].op = "remove" => turn'[s].role = "none"
    BY <1>1 DEF TeamInv, TurnsTyped, Changing
  <2>2. turns' \in Nat /\ single' \in BOOLEAN
    BY DEF TeamInv, TurnsTyped, Then
  <2> QED BY <1>1, <1>2, <2>1, <2>2 DEF TurnsTyped
<1>4. TeamTypeOK'
  BY <1>3 DEF RowsOK, TeamTypeOK, TurnsTyped
<1>5. Granted'
  <2> SUFFICES ASSUME NEW s \in Hands
               PROVE  /\ turn'[s].pc # "idle" /\ turn'[s].admin => "manager" \in grounds'[s]
                      /\ turn'[s].pc = "manage" /\ turn'[s].op = "add" /\ turn'[s].mode = "OPEN" => "open" \in grounds'[s]
                      /\ turn'[s].pc \in {"insert"} \cup Changing /\ turn'[s].op # "create" => Cleared(s)'
    BY DEF Granted, Resting
  <2>1. CASE s = r
    <3>1. p # "idle" => grounds[r] \cup Speaks(turn[r].who)' \subseteq grounds'[r]
      BY <1>1, <1>2
    <3>2. p # "idle" /\ Cleared(r) => Cleared(r)'
      BY <1>1, <3>1 DEF Cleared, Itself
    <3>3. p # "idle" /\ turn'[r].admin => "manager" \in grounds'[r]
      BY <1>1, <3>1 DEF TeamInv, Granted
    <3>4. p \in {"insert"} \cup Changing /\ turn[r].op # "create" => Cleared(r)'
      BY <3>1, <3>2 DEF Cleared, Changing
    <3> QED BY <1>1, <2>1, <3>3, <3>4 DEF Changing
  <2>2. CASE s # r
    <3>1. turn'[s] = turn[s] /\ (turn[s].pc # "idle" => grounds[s] \subseteq grounds'[s])
      BY <1>1, <1>2, <2>2
    <3> QED BY <3>1 DEF TeamInv, Granted, Cleared, Itself, Resting, Changing
  <2> QED BY <2>1, <2>2
<1>6. OneTurn'
  <2>1. single => \A s \in Hands \ {r} : turn[s].pc = "idle"
    BY DEF TeamInv, OneTurn, Resting
  <2>2. \A m \in Leads' : m \in Folk /\ roster'[m] = "Lead"
    BY DEF Leads
  <2> QED BY <1>1, <2>1 DEF OneTurn, Resting, Changing
<1> QED BY <1>3, <1>4, <1>5, <1>6 DEF TeamInv

\* Asking, creating the team and reading it.
LEMMA AskKeeps ==
  ASSUME TeamInv, NEW r \in Hands, Note, AskTeam(r) \/ AskOf(r)
  PROVE  TeamInv'
<1>1. PICK m \in Folk, o \in TurnOps \ {"none"}, p \in {"create", "load"}, t \in Folk \cup {"nobody"},
           g \in TEAM_ROLES \cup {"none"}, md \in MEMBERSHIP_MODES :
        Take(r, m, o, p, t, g, md) /\ (o = "remove" => g = "none") /\ (p = "create" <=> o = "create")
  <2>1. CASE AskTeam(r)
    BY <2>1 DEF AskTeam, TurnOps, TEAM_ROLES
  <2>2. CASE AskOf(r)
    BY <2>2 DEF AskOf, TurnOps, TEAM_ROLES, MEMBERSHIP_MODES
  <2> QED BY <2>1, <2>2
<1> QED BY <1>1, TakeKeeps

\* Promised links when a request goes on and no link is made.
LEMMA ThenLinks ==
  ASSUME TeamInv, NEW r \in Hands, NEW p \in TurnPcs \ {"addlink"}, Then(r, p), links' \in Nat, links' <= links
  PROVE  LinksPromised'
<1>1. /\ \A s \in Hands \ {r} : turn'[s] = turn[s]
      /\ turn'[r].pc = p /\ (single' <=> single)
  BY ThenMoves DEF TeamInv
<1>2. Adding' \subseteq Adding
  BY <1>1 DEF Adding
<1>3. single' \in BOOLEAN
  BY DEF Then, TeamInv, TurnsTyped
<1> QED BY <1>1, <1>2, <1>3, LinksStay DEF TeamInv, TeamTypeOK, TurnsTyped

LEMMA CreateKeeps ==
  ASSUME TeamInv, NEW r \in Hands, Note, CreateTeam(r)
  PROVE  TeamInv'
<1>1. turn[r].op = "create" /\ turn[r].mode \in MEMBERSHIP_MODES
  BY DEF CreateTeam, TeamInv, TurnsTyped, TurnSet
<1>2. Then(r, "insert") /\ "insert" \in TurnPcs \ {"create", "load", "manage", "addlink"} /\ ~Resting(r)
  BY DEF CreateTeam, TurnPcs, Resting
<1>3. RowsOK'
  BY <1>1, RowsSplit DEF CreateTeam, RowsOK, TeamInv
<1>4. LinksPromised'
  BY <1>2, ThenLinks DEF CreateTeam, TeamInv, TeamTypeOK
<1> QED BY <1>1, <1>2, <1>3, <1>4, ThenKeeps DEF Changing

\* loadTeam, which is where a request to join learns that the team is open.
LEMMA LoadKeeps ==
  ASSUME TeamInv, NEW r \in Hands, Note, Load(r)
  PROVE  TeamInv'
<1>0. turn[r].pc = "load" /\ UNCHANGED <<rank, team, mode, roster, links>> /\ RowsOK' /\ turn[r] \in TurnSet
  BY RowsSplit DEF Load, RowsOK, TeamInv, TurnsTyped
<1>1. CASE Then(r, "idle")
  <2>1. "idle" \in TurnPcs \ {"create", "load", "manage", "addlink"} /\ ~Resting(r)
    BY <1>0 DEF TurnPcs, Resting
  <2>2. LinksPromised'
    BY <1>0, <1>1, <2>1, ThenLinks DEF TeamInv, TeamTypeOK
  <2> QED BY <1>0, <1>1, <2>1, <2>2, ThenKeeps DEF Changing
<1>2. CASE ~Then(r, "idle")
  <2> DEFINE md == IF turn[r].op = "mode" THEN turn[r].mode ELSE mode
             c == [turn[r] EXCEPT !.pc = "manage", !.mode = md]
  <2>1. turn' = [turn EXCEPT ![r] = c] /\ UNCHANGED <<turns, single>>
    BY <1>0, <1>2 DEF Load, TeamInv, TurnsTyped, TurnSet
  <2>2. md \in MEMBERSHIP_MODES /\ (turn[r].op = "add" => md = mode)
    BY <1>0 DEF TurnSet, TeamInv, TeamTypeOK
  <2> HIDE DEF md
  <2>3. c \in TurnSet /\ c.pc = "manage" /\ c.op = turn[r].op /\ c.who = turn[r].who
        /\ c.admin = turn[r].admin /\ c.role = turn[r].role /\ c.mode = md
    BY <1>0, <2>2 DEF TurnSet, TurnPcs
  <2> HIDE DEF c
  <2>4. turn' \in [Hands -> TurnSet] /\ turn'[r] = c /\ \A s \in Hands \ {r} : turn'[s] = turn[s]
    BY <2>1, <2>3 DEF TeamInv, TurnsTyped
  <2>5. /\ grounds' \in [Hands -> SUBSET {"manager", "open"}]
        /\ \A s \in Hands : turn'[s].pc # "idle" => grounds[s] \cup Speaks(turn[s].who)' \subseteq grounds'[s]
    BY <2>4, NotesMore DEF TeamInv
  <2>6. TurnsTyped'
    <3>1. /\ \A s \in Hands : turn'[s].pc = "create" => turn'[s].op = "create"
          /\ \A s \in Hands : turn'[s].pc \in {"load", "manage"} => turn'[s].op \notin {"none", "create"}
          /\ \A s \in Hands : turn'[s].pc = "drop" => turn'[s].op = "drop"
          /\ \A s \in Hands : turn'[s].pc = "insert" => turn'[s].op \in {"create", "add"}
          /\ \A s \in Hands : turn'[s].pc \in Changing => turn'[s].op \in {"role", "remove"}
          /\ \A s \in Hands : turn'[s].op = "remove" => turn'[s].role = "none"
      BY <1>0, <2>3, <2>4 DEF TeamInv, TurnsTyped, Changing
    <3>2. turns' \in Nat /\ single' \in BOOLEAN
      BY <2>1 DEF TeamInv, TurnsTyped
    <3> QED BY <2>4, <2>5, <3>1, <3>2 DEF TurnsTyped
  <2>7. TeamTypeOK'
    BY <1>0, <2>6 DEF RowsOK, TeamTypeOK, TurnsTyped
  <2>8. Granted'
    <3> SUFFICES ASSUME NEW s \in Hands
                 PROVE  /\ turn'[s].pc # "idle" /\ turn'[s].admin => "manager" \in grounds'[s]
                        /\ turn'[s].pc = "manage" /\ turn'[s].op = "add" /\ turn'[s].mode = "OPEN" => "open" \in grounds'[s]
                        /\ turn'[s].pc \in {"insert"} \cup Changing /\ turn'[s].op # "create" => Cleared(s)'
      BY DEF Granted, Resting
    <3>1. CASE s = r
      <4>1. grounds[r] \cup Speaks(turn[r].who)' \subseteq grounds'[r]
        BY <2>3, <2>4, <2>5
      <4>2. mode = "OPEN" => "open" \in grounds'[r]
        BY <1>0, <4>1 DEF Speaks
      <4>3. turn'[r].admin => "manager" \in grounds'[r]
        BY <1>0, <2>3, <2>4, <4>1 DEF TeamInv, Granted, Resting
      <4> QED BY <2>2, <2>3, <2>4, <3>1, <4>2, <4>3 DEF Changing
    <3>2. CASE s # r
      <4>1. turn'[s] = turn[s] /\ (turn[s].pc # "idle" => grounds[s] \subseteq grounds'[s])
        BY <2>4, <2>5, <3>2
      <4> QED BY <4>1 DEF TeamInv, Granted, Cleared, Itself, Resting, Changing
    <3> QED BY <3>1, <3>2
  <2>9. OneTurn'
    <3>1. single => \A s \in Hands \ {r} : turn[s].pc = "idle"
      BY <1>0 DEF TeamInv, OneTurn, Resting
    <3>2. single' <=> single
      BY <2>1
    <3> QED BY <2>3, <2>4, <3>1, <3>2 DEF OneTurn, Resting
  <2>10. LinksPromised'
    <3>1. Adding' \subseteq Adding
      BY <2>3, <2>4 DEF Adding
    <3> QED BY <1>0, <2>1, <3>1, LinksStay DEF TeamInv, TeamTypeOK, TurnsTyped
  <2> QED BY <2>6, <2>7, <2>8, <2>9, <2>10 DEF TeamInv
<1> QED BY <1>1, <1>2

\* The gate of teams.js.
LEMMA ManageKeeps ==
  ASSUME TeamInv, NEW r \in Hands, Note, Manage(r)
  PROVE  TeamInv'
<1> DEFINE p == IF ~May(r) THEN "idle"
                ELSE CASE turn[r].op \in {"mode", "rename"} -> "update"
                       [] turn[r].op = "add" -> "insert"
                       [] turn[r].op \in {"role", "remove"} -> "existing"
                       [] OTHER -> turn[r].op
<1>0. turn[r].pc = "manage" /\ Then(r, p) /\ UNCHANGED <<rank, team, mode, roster, links>>
  BY DEF Manage
<1>1. turn[r] \in TurnSet /\ turn[r].op \in TurnOps \ {"none", "create"} /\ RowsOK' /\ ~Resting(r)
  BY <1>0, RowsSplit DEF TeamInv, TurnsTyped, RowsOK, TurnSet, Resting
<1>2. /\ p \in {"idle", "update", "insert", "existing", "drop", "link", "unlink"}
      /\ p = "drop" => turn[r].op = "drop"
      /\ p = "insert" => turn[r].op = "add" /\ May(r)
      /\ p = "existing" => turn[r].op \in {"role", "remove"} /\ May(r)
  BY <1>1 DEF TurnOps
<1> HIDE DEF p
<1>3. ASSUME p \in {"insert", "existing"} PROVE Cleared(r) \/ "manager" \in Speaks(turn[r].who)'
  <2>1. CanManageTeam(r) => Cleared(r) \/ "manager" \in Speaks(turn[r].who)'
    <3>1. CASE turn[r].admin
      BY <1>0, <3>1 DEF TeamInv, Granted, Resting, Cleared
    <3>2. CASE roster[turn[r].who] = "Lead"
      <4>1. turn'[r].who = turn[r].who /\ roster' = roster
        BY <1>0, <1>2, <1>3, ThenMoves DEF TeamInv, TurnPcs, Changing
      <4> QED BY <3>2, <4>1 DEF Speaks
    <3> QED BY <3>1, <3>2 DEF CanManageTeam
  <2>2. May(r)
    BY <1>2, <1>3
  <2> QED BY <1>0, <2>1, <2>2 DEF May, Cleared, TeamInv, Granted
<1>4. LinksPromised'
  BY <1>0, <1>2, ThenLinks DEF TeamInv, TeamTypeOK, TurnPcs, Changing
<1> QED BY <1>0, <1>1, <1>2, <1>3, <1>4, ThenKeeps DEF TurnPcs, Changing

\* A request that ends after it has written.
LEMMA EndKeeps ==
  ASSUME TeamInv, NEW r \in Hands, Note, Then(r, "idle"), ~Resting(r), RowsOK', links' <= links
  PROVE  TeamInv'
<1>1. "idle" \in TurnPcs \ {"create", "load", "manage", "addlink"}
  BY DEF TurnPcs
<1>2. LinksPromised'
  BY <1>1, ThenLinks DEF RowsOK
<1> QED BY <1>1, <1>2, ThenKeeps DEF Changing

LEMMA WriteTeamKeeps ==
  ASSUME TeamInv, NEW r \in Hands, Note, Update(r) \/ DropTeam(r) \/ Insert(r) \/ Change(r) \/ Unlink(r)
  PROVE  TeamInv'
<1>0. RowsOK /\ turn[r] \in TurnSet
  BY RowsSplit DEF TeamInv, TurnsTyped
<1>1. CASE Update(r)
  <2>1. RowsOK'
    BY <1>0, <1>1 DEF Update, RowsOK, TurnSet
  <2> QED BY <1>1, <2>1, EndKeeps DEF Update, Resting, RowsOK
<1>2. CASE DropTeam(r)
  <2>1. RowsOK' /\ links' <= links
    BY <1>0, <1>2 DEF DropTeam, RowsOK
  <2> QED BY <1>2, <2>1, EndKeeps DEF DropTeam, Resting
<1>3. CASE Insert(r)
  <2>1. RowsOK'
    BY <1>0, <1>3 DEF Insert, RowsOK, TurnSet
  <2> QED BY <1>3, <2>1, EndKeeps DEF Insert, Resting, RowsOK
<1>4. CASE Change(r)
  <2>1. RowsOK'
    BY <1>0, <1>4 DEF Change, RowsOK, TurnSet
  <2> QED BY <1>4, <2>1, EndKeeps DEF Change, Resting, RowsOK
<1>5. CASE Unlink(r)
  <2>1. RowsOK' /\ links' <= links
    BY <1>0, <1>5 DEF Unlink, RowsOK
  <2> QED BY <1>5, <2>1, EndKeeps DEF Unlink, Resting
<1> QED BY <1>1, <1>2, <1>3, <1>4, <1>5

\* The last-Lead guard.
LEMMA GuardKeeps ==
  ASSUME TeamInv, NEW r \in Hands, Note, Existing(r) \/ LeadCount(r)
  PROVE  TeamInv'
<1>0. UNCHANGED <<rank, team, mode, roster, links>> /\ turn[r].pc \in Changing /\ ~Resting(r) /\ RowsOK'
      /\ Leads' = Leads /\ links' <= links /\ links' \in Nat
  BY RowsSplit DEF Existing, LeadCount, TeamInv, RowsOK, Resting, Changing, Leads
<1>1. turn[r].op \in {"role", "remove"} /\ Cleared(r)
  BY <1>0 DEF TeamInv, TurnsTyped, Granted
<1>2. ASSUME NEW p \in {"idle"} \cup Changing, Then(r, p),
             p = "change" /\ turn[r].target \in Leads /\ turn[r].role # "Lead" =>
               \E m \in Folk \ {turn[r].target} : roster[m] = "Lead"
      PROVE  TeamInv'
  <2>1. p \in TurnPcs \ {"create", "load", "manage", "addlink"} /\ p # "insert" /\ p # "drop"
    BY DEF TurnPcs, Changing
  <2>2. LinksPromised'
    BY <1>0, <1>2, <2>1, ThenLinks
  <2> QED BY <1>0, <1>1, <1>2, <2>1, <2>2, ThenKeeps
<1>3. CASE Existing(r)
  <2> DEFINE p == CASE roster[turn[r].target] = "none" -> "idle"
                    [] roster[turn[r].target] = "Lead" /\ turn[r].role # "Lead" -> "leads"
                    [] OTHER -> "change"
  <2>1. Then(r, p)
    BY <1>3 DEF Existing
  <2>2. p \in {"idle"} \cup Changing
        /\ (p = "change" => ~(turn[r].target \in Leads /\ turn[r].role # "Lead"))
    BY DEF Changing, Leads
  <2> HIDE DEF p
  <2> QED BY <1>2, <2>1, <2>2
<1>4. CASE LeadCount(r)
  <2>1. Then(r, "idle") \/ (Then(r, "change") /\ ~(Cardinality(Leads) <= 1))
    BY <1>4 DEF LeadCount
  <2>2. ASSUME ~(Cardinality(Leads) <= 1) PROVE \E m \in Folk \ {turn[r].target} : roster[m] = "Lead"
    <3> SUFFICES ASSUME \A m \in Leads : m = turn[r].target PROVE FALSE
      BY DEF Leads
    <3>1. Leads = {} \/ Leads = {turn[r].target}
      OBVIOUS
    <3>2. Cardinality(Leads) = 0 \/ Cardinality(Leads) = 1
      BY <3>1, FS_EmptySet, FS_Singleton
    <3> QED BY <2>2, <3>2
  <2> QED BY <1>2, <2>1, <2>2 DEF Changing
<1> QED BY <1>3, <1>4

\* Adding a link: one more is promised when there is room, and one less when it is there.
LEMMA LinkKeeps ==
  ASSUME TeamInv, NEW r \in Hands, Note, CountLinks(r) \/ AddLink(r)
  PROVE  TeamInv'
<1>0. RowsOK /\ ~Resting(r) /\ links \in Nat /\ single \in BOOLEAN /\ IsFiniteSet(Hands)
  BY RowsSplit, TeamsAssumption DEF TeamInv, TurnsTyped, RowsOK, CountLinks, AddLink, Resting
<1>f. /\ Cardinality(Adding) \in Nat /\ Cardinality(Hands) \in Nat /\ Cardinality(Hands) >= 1 /\ IsFiniteSet(Adding)
      /\ r \notin Adding => Cardinality(Adding) <= Cardinality(Hands) - 1
  BY AddingFinite
<1>1. CASE CountLinks(r)
  <2>0. RowsOK' /\ links' = links /\ turn[r].pc = "link"
    BY <1>0, <1>1 DEF CountLinks, RowsOK
  <2>1. CASE links >= MAX_TEAM_LINKS
    BY <1>0, <1>1, <2>0, <2>1, EndKeeps DEF CountLinks
  <2>2. CASE ~(links >= MAX_TEAM_LINKS)
    <3>1. Then(r, "addlink") /\ "addlink" \in TurnPcs
      BY <1>1, <2>2 DEF CountLinks, TurnPcs
    <3>2. /\ \A s \in Hands \ {r} : turn'[s] = turn[s]
          /\ turn'[r].pc = "addlink" /\ (single' <=> single)
      BY <3>1, ThenMoves DEF TeamInv
    <3>3. Adding' = Adding \cup {r} /\ r \notin Adding
      BY <2>0, <3>2 DEF Adding
    <3>4. Cardinality(Adding') = Cardinality(Adding) + 1
      BY <1>f, <3>3, FS_AddElement
    <3>5. single => Adding = {}
      BY <1>0, <2>0 DEF TeamInv, OneTurn, Adding, Resting
    <3>6. single => Cardinality(Adding) = 0
      BY <3>5, FS_EmptySet
    <3>7. links' + Cardinality(Adding') <= MAX_TEAM_LINKS + (IF single' THEN 0 ELSE Cardinality(Hands) - 1)
      BY <1>0, <1>f, <2>0, <2>2, <3>2, <3>3, <3>4, <3>6, TeamsAssumption
    <3> QED BY <1>0, <2>0, <3>1, <3>7, ThenKeeps DEF LinksPromised, Changing
  <2> QED BY <2>1, <2>2
<1>2. CASE AddLink(r)
  <2>0. RowsOK' /\ links' <= links + 1 /\ links' \in Nat /\ turn[r].pc = "addlink" /\ Then(r, "idle")
        /\ "idle" \in TurnPcs
    BY <1>0, <1>2 DEF AddLink, RowsOK, TurnPcs
  <2>1. /\ \A s \in Hands \ {r} : turn'[s] = turn[s]
        /\ turn'[r].pc = "idle" /\ (single' <=> single)
    BY <2>0, ThenMoves DEF TeamInv
  <2>2. Adding' = Adding \ {r} /\ r \in Adding
    BY <2>0, <2>1 DEF Adding
  <2>3. Cardinality(Adding') = Cardinality(Adding) - 1
    BY <1>f, <2>2, FS_RemoveElement
  <2>4. links' + Cardinality(Adding') <= MAX_TEAM_LINKS + (IF single' THEN 0 ELSE Cardinality(Hands) - 1)
    BY <1>0, <1>f, <2>0, <2>1, <2>3, TeamsAssumption DEF TeamInv, LinksPromised
  <2> QED BY <1>0, <2>0, <2>4, ThenKeeps DEF LinksPromised, Changing
<1> QED BY <1>1, <1>2

\* The workspace's own handlers.
LEMMA FolkKeeps ==
  ASSUME TeamInv, NEW r \in Hands, Note, LeaveWorkspace(r) \/ Promote(r)
  PROVE  TeamInv'
<1>0. RowsOK
  BY RowsSplit DEF TeamInv
<1>1. UNCHANGED <<team, mode, links, turn>> /\ turns' \in Nat /\ single' \in BOOLEAN
  <2>1. UNCHANGED <<team, mode, links, turn>> /\ Admit
    BY DEF LeaveWorkspace, Promote
  <2>2. turns' \in Nat
    BY <2>1 DEF Admit, TeamInv, TurnsTyped
  <2>3. single' \in BOOLEAN
    BY <2>1, Zenon DEF Admit
  <2> QED BY <2>1, <2>2, <2>3
<1>2. single' => single /\ \A s \in Hands : Resting(s)
  BY Zenon DEF LeaveWorkspace, Promote, Admit
<1>3. RowsOK'
  <2>1. CASE LeaveWorkspace(r)
    BY <1>0, <2>1 DEF LeaveWorkspace, RowsOK
  <2>2. CASE Promote(r)
    BY <1>0, <2>2 DEF Promote, RowsOK
  <2> QED BY <2>1, <2>2
<1>4. turn' \in [Hands -> TurnSet]
  BY <1>1 DEF TeamInv, TurnsTyped
<1>5. /\ grounds' \in [Hands -> SUBSET {"manager", "open"}]
      /\ \A s \in Hands : turn'[s].pc # "idle" => grounds[s] \cup Speaks(turn[s].who)' \subseteq grounds'[s]
  BY <1>4, NotesMore DEF TeamInv
<1>6. TurnsTyped'
  BY <1>1, <1>4, <1>5 DEF TeamInv, TurnsTyped
<1>7. TeamTypeOK'
  BY <1>3, <1>6 DEF RowsOK, TeamTypeOK, TurnsTyped
<1>8. Granted'
  BY <1>1, <1>5 DEF TeamInv, Granted, Cleared, Itself, Resting, Changing
<1>9. OneTurn'
  BY <1>1, <1>2 DEF OneTurn, Resting
<1>10. LinksPromised'
  <2>1. Adding' \subseteq Adding /\ links' <= links
    BY <1>0, <1>1 DEF Adding, RowsOK
  <2> QED BY <1>0, <1>1, <1>2, <2>1, LinksStay DEF TeamInv, TurnsTyped, RowsOK
<1> QED BY <1>6, <1>7, <1>8, <1>9, <1>10 DEF TeamInv

-----------------------------------------------------------------------------
(***************************************************************************)
(* The theorems.                                                           *)
(***************************************************************************)
LEMMA TeamInvInit == TeamInit => TeamInv
<1> SUFFICES ASSUME TeamInit PROVE TeamInv
  OBVIOUS
<1>1. \A r \in Hands : turn[r].pc = "idle" /\ turn[r].op = "none"
  BY NoTurnTyped DEF TeamInit
<1>2. TurnsTyped
  BY <1>1, NoTurnTyped DEF TeamInit, TurnsTyped, Changing
<1>3. TeamTypeOK
  BY <1>2 DEF TeamInit, TeamTypeOK, MEMBERSHIP_MODES
<1>4. Granted /\ OneTurn
  BY <1>1 DEF Granted, OneTurn, Resting, Changing
<1>5. LinksPromised
  <2>1. Cardinality(Adding) = 0
    BY <1>1, FS_EmptySet DEF Adding
  <2>2. links = 0 /\ single
    BY DEF TeamInit
  <2> QED BY <2>1, <2>2, TeamsAssumption DEF LinksPromised
<1> QED BY <1>2, <1>3, <1>4, <1>5 DEF TeamInv

LEMMA TeamInvNext == TeamInv /\ [TeamNext]_teamVars => TeamInv'
<1> SUFFICES ASSUME TeamInv, [TeamNext]_teamVars PROVE TeamInv'
  OBVIOUS
<1>1. CASE TeamNext
  <2>1. PICK r \in Hands :
          \/ AskTeam(r) \/ CreateTeam(r) \/ AskOf(r) \/ Load(r) \/ Manage(r)
          \/ Update(r) \/ DropTeam(r) \/ Insert(r) \/ Existing(r) \/ LeadCount(r) \/ Change(r)
          \/ CountLinks(r) \/ AddLink(r) \/ Unlink(r) \/ LeaveWorkspace(r) \/ Promote(r)
    BY <1>1 DEF TeamNext
  <2>2. Note
    BY <1>1 DEF TeamNext
  <2> QED BY <2>1, <2>2, AskKeeps, CreateKeeps, LoadKeeps, ManageKeeps, WriteTeamKeeps, GuardKeeps, LinkKeeps,
             FolkKeeps
<1>2. CASE UNCHANGED teamVars
  <2>1. UNCHANGED <<rank, team, mode, roster, links, turn, turns, single, grounds>>
    BY <1>2 DEF teamVars
  <2>2. Adding' = Adding /\ TeamTypeOK' /\ TurnsTyped'
    BY <2>1 DEF Adding, TeamInv, TeamTypeOK, TurnsTyped
  <2>3. Granted' /\ OneTurn'
    BY <2>1 DEF TeamInv, Granted, Cleared, Itself, OneTurn, Resting, Leads
  <2>4. LinksPromised'
    BY <2>1, <2>2 DEF TeamInv, LinksPromised
  <2> QED BY <2>2, <2>3, <2>4 DEF TeamInv
<1> QED BY <1>1, <1>2

\* The inductive invariant behind the others.
THEOREM TeamInvariant == TeamSpec => []TeamInv
BY TeamInvInit, TeamInvNext, PTL DEF TeamSpec

\* The team's tables keep their types; in particular only members of the workspace
\* are on the team, and on none that is gone.
THEOREM TeamTypes == TeamSpec => []TeamTypeOK
<1>1. TeamInv => TeamTypeOK
  BY DEF TeamInv
<1> QED BY <1>1, TeamInvariant, PTL

\* Whoever is put on the team, given another role or taken off it by a request had
\* somebody speaking for it.
LEMMA ChangesWarranted ==
  ASSUME TeamInv, TeamNext, NEW r \in Hands, NEW m \in Folk, ~Resting(r), turn'[r].pc = "idle",
         turn[r].op \in {"add", "role", "remove"}, roster'[m] # roster[m]
  PROVE  \/ "manager" \in grounds[r]
         \/ m = turn[r].who /\ (roster'[m] = "none" \/ ("open" \in grounds[r] /\ roster'[m] = "Member"))
<1>0. RowsOK
  BY RowsSplit DEF TeamInv
<1>1. PICK s \in Hands :
          \/ AskTeam(s) \/ CreateTeam(s) \/ AskOf(s) \/ Load(s) \/ Manage(s)
          \/ Update(s) \/ DropTeam(s) \/ Insert(s) \/ Existing(s) \/ LeadCount(s) \/ Change(s)
          \/ CountLinks(s) \/ AddLink(s) \/ Unlink(s) \/ LeaveWorkspace(s) \/ Promote(s)
  BY DEF TeamNext
<1>2. DropTeam(s) \/ Insert(s) \/ Change(s)
  BY <1>1 DEF AskTeam, CreateTeam, AskOf, Take, Load, Manage, Update, Existing, LeadCount, CountLinks, AddLink, Unlink,
     LeaveWorkspace, Promote, Resting
<1>3. Then(s, "idle") /\ "idle" \in TurnPcs
  BY <1>2 DEF DropTeam, Insert, Change, TurnPcs
<1>4. r = s
  BY <1>3, ThenMoves DEF TeamInv, Resting
<1>5. ~DropTeam(r)
  BY DEF DropTeam, TeamInv, TurnsTyped
<1>6. m = turn[r].target /\ roster'[m] = turn[r].role
  BY <1>0, <1>2, <1>4, <1>5 DEF Insert, Change, RowsOK
<1>7. Cleared(r)
  BY <1>2, <1>4, <1>5 DEF Insert, Change, TeamInv, Granted, Changing
<1>8. turn[r].op = "remove" => turn[r].role = "none"
  BY DEF TeamInv, TurnsTyped
<1> QED BY <1>6, <1>7, <1>8 DEF Cleared, Itself

\* The last Lead leaves a team only with the team, or with the workspace.
LEMMA LeadStays ==
  ASSUME TeamInv, TeamNext, single', Leads # {}, Leads' = {}
  PROVE  team' = "gone" \/ rank' # rank
<1>0. RowsOK
  BY RowsSplit DEF TeamInv
<1>1. PICK r \in Hands :
          \/ AskTeam(r) \/ CreateTeam(r) \/ AskOf(r) \/ Load(r) \/ Manage(r)
          \/ Update(r) \/ DropTeam(r) \/ Insert(r) \/ Existing(r) \/ LeadCount(r) \/ Change(r)
          \/ CountLinks(r) \/ AddLink(r) \/ Unlink(r) \/ LeaveWorkspace(r) \/ Promote(r)
  BY DEF TeamNext
<1>2. PICK m \in Folk : roster[m] = "Lead"
  BY DEF Leads
<1>3. roster' # roster /\ \A n \in Folk : roster'[n] # "Lead"
  BY DEF Leads
<1>4. DropTeam(r) \/ Insert(r) \/ Change(r) \/ LeaveWorkspace(r)
  BY <1>1, <1>3 DEF AskTeam, CreateTeam, AskOf, Take, Load, Manage, Update, Existing, LeadCount, CountLinks, AddLink,
     Unlink, Promote
<1>5. CASE DropTeam(r)
  BY <1>5 DEF DropTeam
<1>6. CASE Insert(r)
  <2>1. roster'[m] = "Lead"
    BY <1>0, <1>2, <1>6 DEF Insert, RowsOK
  <2> QED BY <1>3, <2>1
<1>7. CASE LeaveWorkspace(r)
  BY <1>0, <1>7 DEF LeaveWorkspace, RowsOK
<1>8. CASE Change(r)
  <2>1. turn[r].pc = "change" /\ roster' = [roster EXCEPT ![turn[r].target] = turn[r].role]
    BY <1>3, <1>8 DEF Change
  <2>2. single
    BY <1>8, Zenon DEF Change, Then
  <2>3. roster'[m] = IF m = turn[r].target THEN turn[r].role ELSE roster[m]
    BY <1>0, <2>1 DEF RowsOK
  <2>4. turn[r].target \in Leads /\ turn[r].role # "Lead"
    BY <1>2, <1>3, <2>3 DEF Leads
  <2>5. PICK n \in Folk \ {turn[r].target} : roster[n] = "Lead"
    BY <2>1, <2>2, <2>4 DEF TeamInv, OneTurn
  <2>6. roster'[n] = "Lead"
    BY <1>0, <2>1, <2>5 DEF RowsOK
  <2> QED BY <1>3, <2>6
<1> QED BY <1>4, <1>5, <1>6, <1>7, <1>8

\* Every change of who is on the team is warranted, a team keeps a Lead while
\* requests come one at a time, and the links stay under their cap.
THEOREM TeamsStaySound == TeamSpec => TeamsSound
<1>1. TeamInv /\ [TeamNext]_teamVars =>
        [\A r \in Hands, m \in Folk :
           ~Resting(r) /\ turn'[r].pc = "idle" /\ turn[r].op \in {"add", "role", "remove"} /\ roster'[m] # roster[m] =>
             \/ "manager" \in grounds[r]
             \/ m = turn[r].who /\ (roster'[m] = "none" \/ ("open" \in grounds[r] /\ roster'[m] = "Member"))]_teamVars
  BY ChangesWarranted
<1>2. TeamInv /\ [TeamNext]_teamVars =>
        [single' /\ Leads # {} /\ Leads' = {} => team' = "gone" \/ rank' # rank]_teamVars
  BY LeadStays
<1>3. TeamInv => LinksCapped
  BY AddingFinite, TeamsAssumption DEF TeamInv, TeamTypeOK, LinksPromised, LinksCapped
<1> QED BY <1>1, <1>2, <1>3, TeamInvariant, PTL DEF TeamSpec, TeamsSound, Warranted, LeadKept

(***************************************************************************)
(* The search (Search), for a query of any length.  Sequences laid one     *)
(* after the other keep their elements at places that add up (Laid), so    *)
(* each condition takes its own parameters (ParamsFound, OneMore); AND and  *)
(* OR between them split into the groups typed (GroupsRun); and a clause   *)
(* compiles to a condition that holds where the clause does (ClauseMeans). *)
(***************************************************************************)
\* A sequence of sequences one after the other, the first i of them.
Joins(g, ss, n) == g = [i \in 1..n |-> IF i = 1 THEN ss[i] ELSE g[i-1] \o ss[i]]
Sums(g, F, n) == g = [k \in 1..(n + 1) |-> IF k = 1 THEN 0 ELSE g[k - 1] + F[k - 1].n]

LEMMA JoinsExist == ASSUME NEW n \in Nat, NEW ss PROVE \E g : Joins(g, ss, n)
<1> DEFINE Bad == {m \in Nat : ~\E g : Joins(g, ss, m)}
<1> SUFFICES ASSUME Bad # {} PROVE FALSE
  OBVIOUS
<1>1. PICK m \in Bad : \A k \in Bad : m <= k
  <2>1. Bad \subseteq Nat
    OBVIOUS
  <2> HIDE DEF Bad
  <2> QED BY <2>1, LeastOf
<1>2. m \in Nat /\ ~\E g : Joins(g, ss, m)
  BY <1>1
<1>3. CASE m = 0
  <2>1. PICK g : g = [i \in 1..0 |-> 0]
    OBVIOUS
  <2>2. Joins(g, ss, 0)
    BY <2>1 DEF Joins
  <2> QED BY <1>2, <1>3, <2>2
<1>4. CASE m # 0
  <2>1. m - 1 \in Nat /\ m - 1 \notin Bad
    <3>1. m - 1 \in Bad => m <= m - 1
      BY <1>1
    <3> QED BY <1>2, <1>4, <3>1
  <2>2. PICK f : Joins(f, ss, m - 1)
    BY <2>1
  <2>3. PICK g : g = [i \in 1..m |-> IF i = m THEN (IF m = 1 THEN ss[1] ELSE f[m-1] \o ss[m]) ELSE f[i]]
    OBVIOUS
  <2>4. ASSUME NEW i \in 1..m PROVE g[i] = IF i = 1 THEN ss[i] ELSE g[i-1] \o ss[i]
    <3>1. CASE i = m
      BY <1>2, <1>4, <2>3, <3>1
    <3>2. CASE i # m
      <4>1. i \in 1..(m - 1) /\ (i # 1 => i - 1 \in 1..(m - 1))
        BY <1>2, <2>4, <3>2
      <4>2. f[i] = IF i = 1 THEN ss[i] ELSE f[i-1] \o ss[i]
        BY <2>2, <4>1 DEF Joins
      <4>3. g[i] = f[i] /\ (i # 1 => g[i-1] = f[i-1])
        BY <1>2, <2>3, <4>1, <3>2
      <4> QED BY <4>2, <4>3
    <3> QED BY <3>1, <3>2
  <2>5. Joins(g, ss, m)
    BY <2>3, <2>4 DEF Joins
  <2> QED BY <1>2, <2>5
<1> QED BY <1>3, <1>4

LEMMA SumsExist == ASSUME NEW n \in Nat, NEW F PROVE \E g : Sums(g, F, n)
<1> DEFINE Bad == {m \in Nat : ~\E g : Sums(g, F, m)}
<1> SUFFICES ASSUME Bad # {} PROVE FALSE
  OBVIOUS
<1>1. PICK m \in Bad : \A k \in Bad : m <= k
  <2>1. Bad \subseteq Nat
    OBVIOUS
  <2> HIDE DEF Bad
  <2> QED BY <2>1, LeastOf
<1>2. m \in Nat /\ ~\E g : Sums(g, F, m)
  BY <1>1
<1>3. CASE m = 0
  <2>1. PICK g : g = [i \in 1..1 |-> 0]
    OBVIOUS
  <2>2. Sums(g, F, 0)
    BY <2>1 DEF Sums
  <2> QED BY <1>2, <1>3, <2>2
<1>4. CASE m # 0
  <2>1. m - 1 \in Nat /\ m - 1 \notin Bad
    <3>1. m - 1 \in Bad => m <= m - 1
      BY <1>1
    <3> QED BY <1>2, <1>4, <3>1
  <2>2. PICK f : Sums(f, F, m - 1)
    BY <2>1
  <2>3. PICK g : g = [i \in 1..(m + 1) |-> IF i = m + 1 THEN f[m] + F[m].n ELSE f[i]]
    OBVIOUS
  <2>4. ASSUME NEW i \in 1..(m + 1) PROVE g[i] = IF i = 1 THEN 0 ELSE g[i-1] + F[i-1].n
    <3>1. CASE i = m + 1
      BY <1>2, <1>4, <2>3, <3>1
    <3>2. CASE i # m + 1
      <4>1. i \in 1..((m - 1) + 1) /\ (i # 1 => i - 1 \in 1..((m - 1) + 1))
        BY <1>2, <2>4, <3>2
      <4>2. f[i] = IF i = 1 THEN 0 ELSE f[i-1] + F[i-1].n
        BY <2>2, <4>1 DEF Sums
      <4>3. g[i] = f[i] /\ (i # 1 => g[i-1] = f[i-1])
        BY <1>2, <2>3, <4>1, <3>2
      <4> QED BY <4>2, <4>3
    <3> QED BY <3>1, <3>2
  <2>5. Sums(g, F, m)
    BY <2>3, <2>4 DEF Sums
  <2> QED BY <1>2, <2>5
<1> QED BY <1>3, <1>4

LEMMA JoinsRule ==
  ASSUME NEW g, NEW ss, NEW n, Joins(g, ss, n)
  PROVE  \A i \in 1..n : g[i] = IF i = 1 THEN ss[i] ELSE g[i-1] \o ss[i]
<1> DEFINE h == [i \in 1..n |-> IF i = 1 THEN ss[i] ELSE g[i-1] \o ss[i]]
<1>1. g = h
  BY DEF Joins
<1>2. \A i \in 1..n : h[i] = IF i = 1 THEN ss[i] ELSE g[i-1] \o ss[i]
  OBVIOUS
<1> HIDE DEF h
<1> QED BY <1>1, <1>2, Zenon

LEMMA SumsRule ==
  ASSUME NEW g, NEW F, NEW n, Sums(g, F, n)
  PROVE  \A k \in 1..(n + 1) : g[k] = IF k = 1 THEN 0 ELSE g[k - 1] + F[k - 1].n
<1> DEFINE h == [k \in 1..(n + 1) |-> IF k = 1 THEN 0 ELSE g[k - 1] + F[k - 1].n]
<1>1. g = h
  BY DEF Sums
<1>2. \A k \in 1..(n + 1) : h[k] = IF k = 1 THEN 0 ELSE g[k - 1] + F[k - 1].n
  OBVIOUS
<1> HIDE DEF h
<1> QED BY <1>1, <1>2, Zenon

LEMMA FlattenSeqJoins ==
  ASSUME NEW n \in Nat \ {0}, NEW ss, Len(ss) = n
  PROVE  \E g : Joins(g, ss, n) /\ FlattenSeq(ss) = g[n]
<1>1. PICK f : f = CHOOSE g : Joins(g, ss, n)
  OBVIOUS
<1>2. Joins(f, ss, n)
  BY <1>1, JoinsExist
<1>3. FlattenSeq(ss) = f[n]
  BY <1>1 DEF FlattenSeq, Joins
<1> QED BY <1>2, <1>3

LEMMA StartsSums == ASSUME NEW F, Len(F) \in Nat PROVE Sums(Starts(F), F, Len(F))
<1>1. PICK f : f = CHOOSE g : Sums(g, F, Len(F))
  OBVIOUS
<1>2. Sums(f, F, Len(F))
  BY <1>1, SumsExist
<1>3. Starts(F) = f
  BY <1>1 DEF Starts, Sums
<1> QED BY <1>2, <1>3

\* What is known of one sequence after the other: each lies where the lengths before
\* it add up to.
Lined(V, n, ss, F) ==
  n \in Nat /\ ss \in [1..n -> Seq(V)] /\ Len(F) = n /\ \A k \in 1..n : F[k].n = Len(ss[k])
LaidOut(V, n, ss, o, x) ==
  /\ x \in Seq(V) /\ Len(x) = o[n + 1]
  /\ \A k \in 1..(n + 1) : o[k] \in Nat /\ o[k] <= o[n + 1]
  /\ \A k \in 1..n : /\ o[k + 1] = o[k] + Len(ss[k])
                     /\ \A j \in 1..Len(ss[k]) : x[o[k] + j] = ss[k][j]

LEMMA Laid ==
  ASSUME NEW V, NEW n, NEW ss, NEW F, Lined(V, n, ss, F)
  PROVE  LaidOut(V, n, ss, Starts(F), FlattenSeq(ss)) /\ Starts(F)[1] = 0
<1> USE DEF LaidOut
<1>a. n \in Nat /\ ss \in [1..n -> Seq(V)] /\ Len(F) = n /\ \A k \in 1..n : F[k].n = Len(ss[k])
  BY DEF Lined
<1>0. Len(ss) = n
  BY <1>a
<1>1. PICK s : s = Starts(F) /\ Sums(s, F, n)
  BY <1>a, StartsSums
<1>2. s[1] = 0 /\ \A k \in 1..n : s[k + 1] = s[k] + Len(ss[k])
  <2>0. \A k \in 1..(n + 1) : s[k] = IF k = 1 THEN 0 ELSE s[k - 1] + F[k - 1].n
    BY <1>a, <1>1, SumsRule
  <2>1. s[1] = 0 /\ \A k \in 2..(n + 1) : s[k] = s[k - 1] + F[k - 1].n
    BY <1>a, <2>0
  <2>2. ASSUME NEW k \in 1..n PROVE s[k + 1] = s[k] + Len(ss[k])
    <3>1. s[k + 1] = s[k] + F[k].n
      BY <1>a, <2>1
    <3> QED BY <1>a, <3>1
  <2> QED BY <1>a, <2>1, <2>2
<1>3. \A k \in 1..n : Len(ss[k]) \in Nat
  BY <1>a
<1>4. CASE n = 0
  <2>1. FlattenSeq(ss) = ss /\ ss = <<>>
    BY <1>a, <1>0, <1>4 DEF FlattenSeq
  <2> QED BY <1>a, <1>1, <1>2, <1>4, <2>1
<1>5. CASE n # 0
  <2>1. PICK g : Joins(g, ss, n) /\ FlattenSeq(ss) = g[n]
    BY <1>a, <1>0, <1>5, FlattenSeqJoins
  <2>2. g[1] = ss[1] /\ \A i \in 2..n : g[i] = g[i - 1] \o ss[i]
    <3>1. \A i \in 1..n : g[i] = IF i = 1 THEN ss[i] ELSE g[i - 1] \o ss[i]
      BY <2>1, JoinsRule
    <3>2. 1 \in 1..n /\ \A i \in 2..n : i \in 1..n /\ i # 1
      BY <1>a, <1>5
    <3> QED BY <1>a, <3>1, <3>2, Zenon
  <2> DEFINE Good(m) == /\ g[m] \in Seq(V) /\ Len(g[m]) = s[m + 1]
                        /\ \A k \in 1..(m + 1) : s[k] \in Nat /\ s[k] <= s[m + 1]
                        /\ \A k \in 1..m : \A j \in 1..Len(ss[k]) : g[m][s[k] + j] = ss[k][j]
             Bad == {m \in 1..n : ~Good(m)}
  <2>3. Bad = {}
    <3> SUFFICES ASSUME Bad # {} PROVE FALSE
      OBVIOUS
    <3>1. PICK m \in Bad : \A k \in Bad : m <= k
      <4>1. Bad \subseteq Nat
        OBVIOUS
      <4> HIDE DEF Bad
      <4> QED BY <1>a, <4>1, LeastOf
    <3>2. m \in 1..n /\ ~Good(m)
      BY <1>a, <3>1
    <3>3. m # 1
      <4> SUFFICES ASSUME m = 1 PROVE Good(1)
        BY <1>a, <3>2
      <4>1. s[2] = Len(ss[1]) /\ s[1] = 0 /\ Len(ss[1]) \in Nat
        BY <1>a, <1>2, <1>3, <1>5
      <4>2. g[1] \in Seq(V) /\ ss[1] \in Seq(V) /\ g[1] = ss[1]
        BY <1>a, <1>5, <2>2
      <4> QED BY <1>a, <4>1, <4>2
    <3>4. m - 1 \in 1..n /\ Good(m - 1)
      <4>1. m - 1 \in 1..n
        BY <1>a, <3>2, <3>3
      <4>2. m - 1 \in Bad => m <= m - 1
        BY <1>a, <3>1
      <4> QED BY <1>a, <3>2, <4>1, <4>2
    <3>5. PICK u, v : u = g[m - 1] /\ v = ss[m]
      OBVIOUS
    <3>6. u \in Seq(V) /\ v \in Seq(V) /\ g[m] = u \o v
      <4>1. m \in 2..n /\ m \in 1..n
        BY <1>a, <3>2, <3>3
      <4>2. g[m] = g[m - 1] \o ss[m]
        BY <1>a, <2>2, <4>1
      <4>3. g[m - 1] \in Seq(V) /\ ss[m] \in Seq(V)
        BY <1>a, <3>4, <4>1
      <4> QED BY <1>a, <3>5, <4>2, <4>3
    <3>7. Len(u) = s[m] /\ s[m + 1] = s[m] + Len(v) /\ s[m] \in Nat
      BY <1>a, <1>2, <3>2, <3>4, <3>5
    <3>8. g[m] \in Seq(V) /\ Len(g[m]) = s[m + 1] /\ s[m + 1] \in Nat
      <4>1. PICK w, a, b : w = g[m] /\ a = s[m] /\ b = s[m + 1]
        OBVIOUS
      <4>2. w \in Seq(V) /\ Len(w) = a + Len(v) /\ Len(v) \in Nat
        <5>1. w = u \o v /\ Len(u) = a
          BY <1>a, <3>6, <3>7, <4>1
        <5>2. Len(u \o v) = Len(u) + Len(v) /\ u \o v \in Seq(V) /\ Len(v) \in Nat
          BY ONLY <3>6
        <5> QED BY ONLY <5>1, <5>2
      <4>3. a \in Nat /\ b = a + Len(v)
        BY <1>a, <3>7, <4>1
      <4> QED BY ONLY <4>1, <4>2, <4>3
    <3>9. \A k \in 1..(m + 1) : s[k] \in Nat /\ s[k] <= s[m + 1]
      <4> SUFFICES ASSUME NEW k \in 1..(m + 1) PROVE s[k] \in Nat /\ s[k] <= s[m + 1]
        OBVIOUS
      <4>1. Len(v) \in Nat
        BY <1>a, <3>6
      <4>2. k = m + 1 \/ k \in 1..((m - 1) + 1)
        BY <1>a, <3>2
      <4>3. k \in 1..((m - 1) + 1) => s[k] \in Nat /\ s[k] <= s[(m - 1) + 1]
        BY <1>a, <3>4
      <4>4. (m - 1) + 1 = m
        BY <1>a, <3>2
      <4> QED BY <1>a, <3>7, <3>8, <4>1, <4>2, <4>3, <4>4
    <3>10. ASSUME NEW k \in 1..m, NEW j \in 1..Len(ss[k]) PROVE g[m][s[k] + j] = ss[k][j]
      <4>1. CASE k = m
        <5>1. j \in 1..Len(v) /\ (u \o v)[Len(u) + j] = v[j]
          BY <1>a, <3>5, <3>6, <4>1
        <5> QED BY <1>a, <3>5, <3>6, <3>7, <4>1, <5>1
      <4>2. CASE k # m
        <5>1. k \in 1..(m - 1) /\ k \in 1..n
          BY <1>a, <3>2, <4>2
        <5>2. u[s[k] + j] = ss[k][j]
          BY <1>a, <3>4, <3>5, <5>1
        <5>3. s[k + 1] \in Nat /\ s[k + 1] <= s[(m - 1) + 1] /\ s[k] \in Nat
          <6>1. k \in 1..((m - 1) + 1) /\ k + 1 \in 1..((m - 1) + 1)
            BY <1>a, <3>2, <5>1
          <6>2. \A l \in 1..((m - 1) + 1) : s[l] \in Nat /\ s[l] <= s[(m - 1) + 1]
            BY <1>a, <3>4
          <6>3. s[k] \in Nat /\ s[k] <= s[(m - 1) + 1]
            BY ONLY <6>1, <6>2
          <6>4. PICK l : l = k + 1
            OBVIOUS
          <6>5. s[l] \in Nat /\ s[l] <= s[(m - 1) + 1]
            BY ONLY <6>1, <6>2, <6>4
          <6> QED BY ONLY <6>3, <6>4, <6>5
        <5>4. s[k] + j \in 1..Len(u)
          <6>1. s[k + 1] = s[k] + Len(ss[k]) /\ Len(ss[k]) \in Nat
            BY <1>a, <1>2, <1>3, <5>1
          <6>2. (m - 1) + 1 = m
            BY <1>a, <3>2
          <6>3. PICK a, b, c, d : a = s[k] /\ b = Len(ss[k]) /\ c = s[k + 1] /\ d = s[m]
            OBVIOUS
          <6>4. a \in Nat /\ b \in Nat /\ c = a + b /\ c <= d /\ d = Len(u) /\ d \in Nat /\ j \in 1..b
            BY <1>a, <3>7, <5>3, <6>1, <6>2, <6>3
          <6>5. a + j \in 1..d
            BY <1>a, <6>4
          <6> QED BY <1>a, <6>3, <6>4, <6>5
        <5>5. (u \o v)[s[k] + j] = u[s[k] + j]
          BY <1>a, <3>6, <5>4
        <5> QED BY <1>a, <3>6, <5>2, <5>5
      <4> QED BY <1>a, <4>1, <4>2
    <3> QED BY <1>a, <3>2, <3>8, <3>9, <3>10
  <2>4. Good(n)
    <3>1. n \in 1..n /\ n \notin Bad
      BY <1>a, <1>5, <2>3
    <3> QED BY <1>a, <3>1
  <2> QED BY <1>a, <1>1, <1>2, <2>1, <2>4
<1> QED BY <1>a, <1>4, <1>5

Values == {"Open", "Done", "Review", "me", "you", "log", "in", "status", 1}
\* A fragment with the parameters its placeholders take.
Bound(f, ps) == ps \in Seq(Values) /\ f.n = Len(ps) /\ f.n \in Nat

LEMMA ClauseMeans ==
  ASSUME NEW c \in Clauses, NEW i \in Issues, NEW f, NEW ps,
         f = compileClause(c).frag, ps = compileClause(c).params
  PROVE  Bound(f, ps) /\ f.t # "group" /\ (Holds(f, ps, i) <=> Means(c, i))
<1>0. i.status \in {"Open", "Done"} /\ i.assignee \in {Null, "me", "you"} /\ i.title \in {"login", "logout"}
  BY DEF Issues
<1>1. CASE c = Scalar("status", "=", "Open")
  <2>0. c.kind = "CURRENT" /\ c.col = "status" /\ c.op = "=" /\ c.fn = "none" /\ c.value = "Open"
    BY <1>1 DEF Scalar
  <2>2. f = Frag("=", "status", 1) /\ ps = <<"Open">>
    BY <2>0 DEF compileClause, Frag
  <2>3. Bound(f, ps) /\ f.t # "group"
    BY <2>2 DEF Bound, Values, Frag
  <2>4. Holds(f, ps, i) <=> i.status # Null /\ i.status = "Open"
    BY <2>2 DEF Frag, Holds
  <2>5. Means(c, i) <=> i.status = "Open"
    BY <2>0 DEF Means
  <2> QED BY <1>0, <2>3, <2>4, <2>5, SearchAssumption
<1>2. CASE c = Scalar("assignee", "!=", "you")
  <2>0. c.kind = "CURRENT" /\ c.col = "assignee" /\ c.op = "!=" /\ c.fn = "none" /\ c.value = "you"
    BY <1>2 DEF Scalar
  <2>2. f = Frag("!=", "assignee", 1) /\ ps = <<"you">>
    BY <2>0 DEF compileClause, Frag
  <2>3. Bound(f, ps) /\ f.t # "group"
    BY <2>2 DEF Bound, Values, Frag
  <2>4. Holds(f, ps, i) <=> i.assignee # Null /\ i.assignee # "you"
    BY <2>2 DEF Frag, Holds
  <2>5. Means(c, i) <=> i.assignee \notin {"you", Null}
    BY <2>0 DEF Means
  <2> QED BY <2>3, <2>4, <2>5, SearchAssumption
<1>3. CASE c = Scalar("title", "~", "log")
  <2>0. c.kind = "CURRENT" /\ c.col = "title" /\ c.op = "~" /\ c.fn = "none" /\ c.value = "log"
    BY <1>3 DEF Scalar
  <2>2. f = Frag("ILIKE", "title", 1) /\ ps = <<"log">>
    BY <2>0 DEF compileClause, Frag
  <2>3. Bound(f, ps) /\ f.t # "group"
    BY <2>2 DEF Bound, Values, Frag
  <2>4. Holds(f, ps, i) <=> i.title \in Like["log"]
    BY <2>2 DEF Frag, Holds
  <2>5. Means(c, i) <=> i.title \in Like["log"]
    BY <2>0 DEF Means
  <2> QED BY <2>3, <2>4, <2>5, SearchAssumption
<1>4. CASE c = Function("assignee", "=", "currentUser", "")
  <2>0. c.kind = "CURRENT" /\ c.col = "assignee" /\ c.op = "=" /\ c.fn = "currentUser"
    BY <1>4 DEF Function
  <2>2. f = Frag("=", "assignee", 1) /\ ps = <<"me">>
    BY <2>0 DEF compileClause, Frag
  <2>3. Bound(f, ps) /\ f.t # "group"
    BY <2>2 DEF Bound, Values, Frag
  <2>4. Holds(f, ps, i) <=> i.assignee # Null /\ i.assignee = "me"
    BY <2>2 DEF Frag, Holds
  <2>5. Means(c, i) <=> i.assignee = "me"
    BY <2>0 DEF Means
  <2> QED BY <2>3, <2>4, <2>5, SearchAssumption
<1>5. CASE c = Function("assignee", "IN", "membersOf", "Admin")
  <2>0. c.kind = "CURRENT" /\ c.col = "assignee" /\ c.op = "IN" /\ c.fn = "membersOf" /\ c.value = "Admin"
    BY <1>5 DEF Function
  <2>1. MembersOf["Admin"] = <<"you">>
    BY DEF MembersOf
  <2>2. f = Frag("IN", "assignee", 1) /\ ps = <<"you">>
    BY <2>0, <2>1 DEF compileClause, buildInClause, Frag
  <2>3. Bound(f, ps) /\ f.t # "group"
    BY <2>2 DEF Bound, Values, Frag
  <2>4. Holds(f, ps, i) <=> i.assignee # Null /\ i.assignee = "you"
    BY <2>2 DEF Frag, Holds
  <2>5. Means(c, i) <=> i.assignee = "you"
    BY <2>0, <2>1 DEF Means
  <2> QED BY <2>3, <2>4, <2>5, SearchAssumption
<1>6. CASE c = Function("assignee", "!=", "membersOf", "Nobody")
  <2>0. c.kind = "CURRENT" /\ c.col = "assignee" /\ c.op = "!=" /\ c.fn = "membersOf" /\ c.value = "Nobody"
    BY <1>6 DEF Function
  <2>1. MembersOf["Nobody"] = <<>>
    BY DEF MembersOf
  <2>2. f = Frag("1=1", "assignee", 0) /\ ps = <<>>
    BY <2>0, <2>1 DEF compileClause, buildInClause, Frag
  <2>3. Bound(f, ps) /\ f.t # "group"
    BY <2>2 DEF Bound, Values, Frag
  <2>4. Holds(f, ps, i)
    BY <2>2 DEF Frag, Holds
  <2>5. Means(c, i)
    BY <2>0, <2>1 DEF Means
  <2> QED BY <2>3, <2>4, <2>5, SearchAssumption
<1>7. CASE c = Function("assignee", "NOT_IN", "membersOf", "Admin")
  <2>0. c.kind = "CURRENT" /\ c.col = "assignee" /\ c.op = "NOT_IN" /\ c.fn = "membersOf" /\ c.value = "Admin"
    BY <1>7 DEF Function
  <2>1. MembersOf["Admin"] = <<"you">>
    BY DEF MembersOf
  <2>2. f = Frag("NOT_IN", "assignee", 1) /\ ps = <<"you">>
    BY <2>0, <2>1 DEF compileClause, buildInClause, Frag
  <2>3. Bound(f, ps) /\ f.t # "group"
    BY <2>2 DEF Bound, Values, Frag
  <2>4. Holds(f, ps, i) <=> i.assignee # Null /\ i.assignee # "you"
    BY <2>2 DEF Frag, Holds
  <2>5. Means(c, i) <=> i.assignee \notin {"you", Null}
    BY <2>0, <2>1 DEF Means
  <2> QED BY <2>3, <2>4, <2>5, SearchAssumption
<1>8. CASE c = Past("WAS", <<"Done", "Review">>)
  <2>0. c.kind = "WAS" /\ c.col = "status" /\ c.op = "none" /\ c.fn = "none" /\ c.value = <<"Done", "Review">>
    BY <1>8 DEF Past
  <2>2. f = Frag("WAS", "status", 5) /\ ps = <<"status", "Done", "Review", "Done", "Review">>
    BY <2>0 DEF compileClause, buildHistoryExists, Frag
  <2>3. Bound(f, ps) /\ f.t # "group"
    BY <2>2 DEF Bound, Values, Frag
  <2>1. f.t = "WAS" /\ f.n = 5 /\ f.col = "status"
    BY <2>2 DEF Frag
  <2>4. Holds(f, ps, i) <=> \E h \in i.past : h[1] \in {"Done", "Review"} \/ h[2] \in {"Done", "Review"}
    <3>1. Holds(f, ps, i) <=> ps[1] = f.col /\ \E h \in i.past, k \in 1..2 : h[1] = ps[1 + k] \/ h[2] = ps[3 + k]
      BY <2>1 DEF Holds
    <3> QED BY <2>1, <2>2, <3>1
  <2>5. Means(c, i) <=> \E h \in i.past : {h[1], h[2]} \cap {"Done", "Review"} # {}
    <3>1. {c.value[k] : k \in DOMAIN c.value} = {"Done", "Review"}
      BY <2>0
    <3> QED BY <2>0, <3>1 DEF Means
  <2> QED BY <2>3, <2>4, <2>5, SearchAssumption
<1>9. CASE c = Past("CHANGED", <<>>)
  <2>0. c.kind = "CHANGED" /\ c.col = "status" /\ c.op = "none" /\ c.fn = "none" /\ c.value = <<>>
    BY <1>9 DEF Past
  <2>2. f = Frag("EXISTS", "status", 1) /\ ps = <<"status">>
    BY <2>0 DEF compileClause, buildHistoryExists, Frag
  <2>3. Bound(f, ps) /\ f.t # "group"
    BY <2>2 DEF Bound, Values, Frag
  <2>4. Holds(f, ps, i) <=> i.past # {}
    BY <2>2 DEF Frag, Holds
  <2>5. Means(c, i) <=> i.past # {}
    BY <2>0 DEF Means
  <2> QED BY <2>3, <2>4, <2>5, SearchAssumption
<1> QED BY <1>1, <1>2, <1>3, <1>4, <1>5, <1>6, <1>7, <1>8, <1>9 DEF Clauses, Common

\* Fragments joined by AND and OR hold when a run between two ORs lies in T, the
\* fragments that hold.
RunIn(conns, n, T) ==
  \E a \in 1..n : /\ a = 1 \/ conns[a - 1] = "OR"
                  /\ \A b \in a..n : (\A c \in a..(b - 1) : conns[c] = "AND") => b \in T

LEMMA AndsRun ==
  ASSUME NEW conns, NEW n \in Nat \ {0}, NEW T, \A c \in 1..(n - 1) : conns[c] = "AND"
  PROVE  RunIn(conns, n, T) <=> \A b \in 1..n : b \in T
<1>1. ASSUME RunIn(conns, n, T), NEW b \in 1..n PROVE b \in T
  <2>1. PICK a \in 1..n : /\ a = 1 \/ conns[a - 1] = "OR"
                          /\ \A d \in a..n : (\A c \in a..(d - 1) : conns[c] = "AND") => d \in T
    BY <1>1 DEF RunIn
  <2>2. a = 1
    <3>1. a # 1 => a - 1 \in 1..(n - 1)
      OBVIOUS
    <3> QED BY <2>1, <3>1
  <2>3. \A c \in a..(b - 1) : c \in 1..(n - 1)
    BY <2>2
  <2> QED BY <2>1, <2>2, <2>3
<1>2. ASSUME \A b \in 1..n : b \in T PROVE RunIn(conns, n, T)
  <2>1. 1 \in 1..n
    OBVIOUS
  <2> QED BY <1>2, <2>1 DEF RunIn
<1> QED BY <1>1, <1>2

\* Where groups of a known length follow each other and each begins with an OR, a run
\* is a group.
Grouped(o, len, G) ==
  /\ o[1] = 0 /\ \A g \in 1..(G + 1) : o[g] \in Nat /\ o[g] <= o[G + 1]
  /\ \A g \in 1..G : len[g] \in Nat \ {0} /\ o[g + 1] = o[g] + len[g]

LEMMA InGroup ==
  ASSUME NEW G \in Nat, NEW o, NEW len, Grouped(o, len, G), NEW a \in 1..o[G + 1]
  PROVE  \E g \in 1..G : \E k \in 1..len[g] : a = o[g] + k
<1> DEFINE Reached == {h \in 1..(G + 1) : a <= o[h]}
<1>1. PICK h \in Reached : \A l \in Reached : h <= l
  <2>1. Reached \subseteq Nat /\ G + 1 \in Reached
    <3>1. o[G + 1] \in Nat /\ G + 1 \in 1..(G + 1)
      BY DEF Grouped
    <3> QED BY <3>1
  <2> HIDE DEF Reached
  <2> QED BY <2>1, LeastOf
<1>2. h \in 1..(G + 1) /\ a <= o[h] /\ o[h] \in Nat /\ o[G + 1] \in Nat
  BY <1>1 DEF Grouped
<1>3. h # 1
  <2>1. o[1] = 0
    BY DEF Grouped
  <2> QED BY <1>2, <2>1
<1>4. PICK g : g = h - 1
  OBVIOUS
<1>5. g \in 1..G /\ g + 1 = h /\ g \in 1..(G + 1)
  BY <1>2, <1>3, <1>4
<1>6. g \notin Reached
  <2>1. g \in Reached => h <= g
    BY <1>1
  <2> QED BY <1>2, <1>4, <2>1
<1>7. ~(a <= o[g]) /\ o[g] \in Nat
  BY <1>5, <1>6 DEF Grouped
<1>8. o[h] = o[g] + len[g] /\ len[g] \in Nat
  BY <1>5 DEF Grouped
<1>9. PICK k : k = a - o[g]
  OBVIOUS
<1>10. k \in 1..len[g] /\ a = o[g] + k
  <2>1. PICK x, y, z : x = o[g] /\ y = o[h] /\ z = len[g]
    OBVIOUS
  <2>2. x \in Nat /\ y = x + z /\ z \in Nat /\ a <= y /\ ~(a <= x) /\ a \in Nat /\ k = a - x
    BY <1>2, <1>7, <1>8, <1>9, <2>1
  <2> QED BY <2>1, <2>2
<1> QED BY <1>5, <1>10

Marked(o, len, G, w, conns) ==
  /\ \A g \in 1..G : \A k \in 1..len[g] : w[o[g] + k] = IF k = 1 THEN "OR" ELSE "AND"
  /\ \A c \in 1..(o[G + 1] - 1) : conns[c] = w[c + 1]

LEMMA GroupsRun ==
  ASSUME NEW G \in Nat \ {0}, NEW o, NEW len, Grouped(o, len, G), NEW T, NEW w, NEW conns,
         Marked(o, len, G, w, conns)
  PROVE  RunIn(conns, o[G + 1], T) <=> \E g \in 1..G : \A k \in 1..len[g] : o[g] + k \in T
<1>0. /\ \A g \in 1..G : \A k \in 1..len[g] : w[o[g] + k] = IF k = 1 THEN "OR" ELSE "AND"
      /\ \A c \in 1..(o[G + 1] - 1) : conns[c] = w[c + 1]
  BY DEF Marked
<1>1. PICK N : N = o[G + 1]
  OBVIOUS
<1>2. N \in Nat /\ \A g \in 1..G : /\ o[g] \in Nat /\ len[g] \in Nat \ {0} /\ o[g] + len[g] <= N
                                   /\ o[g + 1] = o[g] + len[g]
  <2>1. \A g \in 1..G : g \in 1..(G + 1) /\ g + 1 \in 1..(G + 1)
    OBVIOUS
  <2> QED BY <1>1, <2>1 DEF Grouped
<1>3. ASSUME RunIn(conns, N, T)
      PROVE  \E g \in 1..G : \A k \in 1..len[g] : o[g] + k \in T
  <2>1. PICK a \in 1..N : /\ a = 1 \/ conns[a - 1] = "OR"
                          /\ \A b \in a..N : (\A c \in a..(b - 1) : conns[c] = "AND") => b \in T
    BY <1>3 DEF RunIn
  <2>2. PICK g \in 1..G : \E k \in 1..len[g] : a = o[g] + k
    BY <1>1, InGroup
  <2>3. PICK k \in 1..len[g] : a = o[g] + k
    BY <2>2
  <2>4. PICK x, l : x = o[g] /\ l = len[g]
    OBVIOUS
  <2>5. x \in Nat /\ l \in Nat \ {0} /\ x + l <= N /\ a = x + k /\ k \in 1..l
    BY <1>2, <2>3, <2>4
  <2>6. k = 1
    <3>1. CASE a = 1
      BY <2>5, <3>1
    <3>2. CASE a # 1
      <4>1. a - 1 \in 1..(N - 1) /\ (a - 1) + 1 = a
        BY <1>2, <3>2
      <4>2. conns[a - 1] = w[a]
        BY <1>0, <1>1, <4>1
      <4>3. w[a] = IF k = 1 THEN "OR" ELSE "AND"
        BY <1>0, <2>2, <2>3
      <4> QED BY <2>1, <3>2, <4>2, <4>3
    <3> QED BY <3>1, <3>2
  <2>7. ASSUME NEW j \in 1..l PROVE x + j \in T
    <3>1. x + j \in a..N
      BY <1>2, <2>5, <2>6
    <3>2. ASSUME NEW c \in a..((x + j) - 1) PROVE conns[c] = "AND"
      <4>1. PICK m : m = (c + 1) - x
        OBVIOUS
      <4>2. m \in 1..l /\ m # 1 /\ c + 1 = x + m /\ c \in 1..(N - 1)
        BY <1>2, <2>5, <2>6, <4>1
      <4>3. w[x + m] = "AND"
        BY <1>0, <2>4, <4>2
      <4> QED BY <1>0, <1>1, <4>2, <4>3
    <3> QED BY <2>1, <3>1, <3>2
  <2> QED BY <2>4, <2>7
<1>4. ASSUME NEW g \in 1..G, \A k \in 1..len[g] : o[g] + k \in T
      PROVE  RunIn(conns, N, T)
  <2>1. PICK x, l : x = o[g] /\ l = len[g]
    OBVIOUS
  <2>2. x \in Nat /\ l \in Nat \ {0} /\ x + l <= N /\ o[g + 1] = x + l
    BY <1>2, <2>1
  <2>3. x + 1 \in 1..N /\ 1 \in 1..l
    BY <1>2, <2>2
  <2>4. x + 1 = 1 \/ conns[(x + 1) - 1] = "OR"
    <3>1. CASE x = 0
      BY <3>1
    <3>2. CASE x # 0
      <4>1. x \in 1..(N - 1) /\ (x + 1) - 1 = x
        BY <1>2, <2>2, <3>2
      <4>2. conns[x] = w[x + 1]
        BY <1>0, <1>1, <4>1
      <4>3. w[x + 1] = "OR"
        BY <1>0, <2>1, <2>3
      <4> QED BY <4>1, <4>2, <4>3
    <3> QED BY <3>1, <3>2
  <2>5. ASSUME NEW b \in (x + 1)..N, \A c \in (x + 1)..(b - 1) : conns[c] = "AND" PROVE b \in T
    <3>1. b <= x + l
      <4> SUFFICES ASSUME ~(b <= x + l) PROVE FALSE
        OBVIOUS
      <4>1. x + l \in (x + 1)..(b - 1) /\ x + l \in 1..(N - 1)
        BY <1>2, <2>2
      <4>2. conns[x + l] = w[(x + l) + 1] /\ conns[x + l] = "AND"
        BY <1>0, <1>1, <2>5, <4>1
      <4>3. g + 1 \in 1..G
        <5>1. g + 1 = G + 1 => N = x + l
          BY <1>1, <2>2
        <5> QED BY <4>1, <5>1
      <4>4. len[g + 1] \in Nat \ {0} /\ 1 \in 1..len[g + 1]
        BY <1>2, <4>3
      <4>5. w[o[g + 1] + 1] = "OR"
        BY <1>0, <4>3, <4>4
      <4> QED BY <2>2, <4>2, <4>5
    <3>2. PICK k : k = b - x
      OBVIOUS
    <3>3. k \in 1..l /\ b = x + k
      BY <1>2, <2>2, <3>1, <3>2
    <3> QED BY <1>4, <2>1, <3>3
  <2> QED BY <2>3, <2>4, <2>5 DEF RunIn
<1> QED BY <1>1, <1>3, <1>4

\* Each fragment takes its own parameters.
LEMMA ParamsFound ==
  ASSUME NEW V, NEW n, NEW ss, NEW F, Lined(V, n, ss, F), NEW k \in 1..n
  PROVE  ParamsOf(F, FlattenSeq(ss), k) = ss[k]
<1>0. n \in Nat /\ ss \in [1..n -> Seq(V)] /\ Len(F) = n /\ F[k].n = Len(ss[k])
  BY DEF Lined
<1>1. PICK x, a, l, u : x = FlattenSeq(ss) /\ a = Starts(F)[k] /\ l = F[k].n /\ u = ss[k]
  OBVIOUS
<1>2. /\ x \in Seq(V) /\ Len(x) = Starts(F)[n + 1]
      /\ \A m \in 1..(n + 1) : Starts(F)[m] \in Nat /\ Starts(F)[m] <= Starts(F)[n + 1]
      /\ Starts(F)[k + 1] = a + l /\ \A j \in 1..l : x[a + j] = u[j]
  <2>1. /\ FlattenSeq(ss) \in Seq(V) /\ Len(FlattenSeq(ss)) = Starts(F)[n + 1]
        /\ \A m \in 1..(n + 1) : Starts(F)[m] \in Nat /\ Starts(F)[m] <= Starts(F)[n + 1]
        /\ Starts(F)[k + 1] = Starts(F)[k] + Len(ss[k])
        /\ \A j \in 1..Len(ss[k]) : FlattenSeq(ss)[Starts(F)[k] + j] = ss[k][j]
    <3>1. LaidOut(V, n, ss, Starts(F), FlattenSeq(ss))
      BY Laid
    <3> QED BY <1>0, <3>1 DEF LaidOut
  <2> QED BY <1>0, <1>1, <2>1
<1>3. l = Len(u) /\ u \in Seq(V) /\ l \in Nat
  BY <1>0, <1>1
<1>4. a \in Nat /\ a + l <= Len(x) /\ Len(x) \in Nat
  <2>1. k \in 1..(n + 1) /\ k + 1 \in 1..(n + 1)
    BY <1>0
  <2>2. a + l = Starts(F)[k + 1]
    BY <1>2
  <2> QED BY <1>1, <1>2, <2>1, <2>2
<1>5. SubSeq(x, a + 1, a + l) = u
  <2>1. PICK v : v = SubSeq(x, a + 1, a + l)
    OBVIOUS
  <2>2. v \in Seq(V) /\ Len(v) = l /\ \A j \in 1..l : v[j] = x[a + j]
    <3>1. \A m \in (a + 1)..(a + l) : m \in 1..Len(x)
      BY <1>3, <1>4
    <3>3. a + 1 \in Int /\ a + l \in Int /\ \A m \in (a + 1)..(a + l) : x[m] \in V
      BY <1>2, <1>3, <1>4, <3>1
    <3>4. /\ v \in Seq(V) /\ Len(v) = IF a + 1 <= a + l THEN (a + l) - (a + 1) + 1 ELSE 0
          /\ \A j \in 1..((a + l) - (a + 1) + 1) : v[j] = x[(a + 1) + j - 1]
      BY <2>1, <3>3, SubSeqProperties
    <3>5. ASSUME NEW j \in 1..l PROVE v[j] = x[a + j]
      <4>1. j \in 1..((a + l) - (a + 1) + 1) /\ (a + 1) + j - 1 = a + j
        BY <1>3, <1>4
      <4> QED BY <3>4, <4>1
    <3> QED BY <1>3, <1>4, <3>4, <3>5
  <2>3. v = u
    BY <1>2, <1>3, <2>2, SeqEqual
  <2> QED BY <2>1, <2>3
<1> QED BY <1>1, <1>5 DEF ParamsOf

Queries == Seq(Seq(Clauses) \ {<<>>})
Lengths(ss) == [g \in DOMAIN ss |-> [n |-> Len(ss[g])]]

\* What scanQuery finds: the clauses group by group, each group begun by an OR.
FoundIn(x, o, scanned) ==
  /\ Grouped(o, [g \in 1..Len(x) |-> Len(x[g])], Len(x))
  /\ scanned.clauses \in Seq(Clauses) /\ Len(scanned.clauses) = o[Len(x) + 1]
  /\ \A g \in 1..Len(x) : \A k \in 1..Len(x[g]) : scanned.clauses[o[g] + k] = x[g][k]
  /\ \E w : /\ \A g \in 1..Len(x) : \A k \in 1..Len(x[g]) : w[o[g] + k] = IF k = 1 THEN "OR" ELSE "AND"
            /\ \A c \in 1..(o[Len(x) + 1] - 1) : scanned.connectives[c] = w[c + 1]
LEMMA Scanned ==
  ASSUME query \in Queries, query # <<>>, NEW o, o = Starts(Lengths(query)), NEW scanned, scanned = scanQuery(query)
  PROVE  FoundIn(query, o, scanned)
<1>1. PICK G : G = Len(query)
  OBVIOUS
<1>2. G \in Nat \ {0} /\ query \in [1..G -> Seq(Clauses)] /\ DOMAIN query = 1..G
      /\ \A g \in 1..G : Len(query[g]) \in Nat \ {0} /\ DOMAIN query[g] = 1..Len(query[g])
  BY <1>1 DEF Queries
<1>3. PICK F : F = Lengths(query) /\ Len(F) = G /\ \A g \in 1..G : F[g].n = Len(query[g])
  <2>1. PICK F : F = [g \in 1..G |-> [n |-> Len(query[g])]]
    OBVIOUS
  <2>2. F = Lengths(query)
    BY <1>2, <2>1 DEF Lengths
  <2>3. Len(F) = G /\ \A g \in 1..G : F[g].n = Len(query[g])
    BY <1>2, <2>1
  <2> QED BY <2>2, <2>3
<1>4. /\ FlattenSeq(query) \in Seq(Clauses) /\ Len(FlattenSeq(query)) = o[G + 1]
      /\ \A k \in 1..(G + 1) : o[k] \in Nat /\ o[k] <= o[G + 1]
      /\ \A k \in 1..G : /\ o[k + 1] = o[k] + Len(query[k])
                         /\ \A j \in 1..Len(query[k]) : FlattenSeq(query)[o[k] + j] = query[k][j]
      /\ o[1] = 0
  <2>1. Lined(Clauses, G, query, F)
    BY <1>2, <1>3 DEF Lined
  <2>2. LaidOut(Clauses, G, query, o, FlattenSeq(query)) /\ o[1] = 0
    BY <1>3, <2>1, Laid
  <2> QED BY <2>2 DEF LaidOut
<1>5. o[1] = 0
  BY <1>4
<1>6. PICK C : C = [g \in DOMAIN query |-> [k \in DOMAIN query[g] |-> IF k = 1 THEN "OR" ELSE "AND"]]
  OBVIOUS
<1>7. C \in [1..G -> Seq({"OR", "AND"})] /\ \A g \in 1..G : Len(C[g]) = Len(query[g])
  <2>1. ASSUME NEW g \in 1..G PROVE C[g] \in Seq({"OR", "AND"}) /\ Len(C[g]) = Len(query[g])
    <3>1. PICK l : l = Len(query[g])
      OBVIOUS
    <3>2. C[g] = [k \in 1..l |-> IF k = 1 THEN "OR" ELSE "AND"] /\ l \in Nat
      BY <1>2, <1>6, <3>1
    <3>3. [k \in 1..l |-> IF k = 1 THEN "OR" ELSE "AND"] \in [1..l -> {"OR", "AND"}]
      OBVIOUS
    <3> QED BY <3>1, <3>2, <3>3
  <2> QED BY <1>2, <1>6, <2>1
<1>8. PICK w : w = FlattenSeq(C)
  OBVIOUS
<1>9. /\ w \in Seq({"OR", "AND"}) /\ Len(w) = o[G + 1]
      /\ \A k \in 1..G : \A j \in 1..Len(query[k]) : w[o[k] + j] = C[k][j]
  <2>1. Lined({"OR", "AND"}, G, C, F)
    BY <1>2, <1>3, <1>7 DEF Lined
  <2>2. LaidOut({"OR", "AND"}, G, C, o, w)
    BY <1>3, <1>8, <2>1, Laid
  <2> QED BY <1>7, <2>2 DEF LaidOut
<1>10. scanned.clauses = FlattenSeq(query) /\ scanned.connectives = Tail(w)
  BY <1>6, <1>8 DEF scanQuery
<1>11. o[G + 1] \in Nat \ {0}
  <2>1. o[1 + 1] = o[1] + Len(query[1]) /\ Len(query[1]) \in Nat \ {0} /\ 1 + 1 \in 1..(G + 1)
    BY <1>2, <1>4
  <2> QED BY <1>4, <1>5, <2>1
<1>12. \A c \in 1..(o[G + 1] - 1) : Tail(w)[c] = w[c + 1]
  BY <1>9, <1>11
<1>13. \A g \in 1..G : \A k \in 1..Len(query[g]) : w[o[g] + k] = IF k = 1 THEN "OR" ELSE "AND"
  BY <1>2, <1>6, <1>9
<1>14. Grouped(o, [g \in 1..G |-> Len(query[g])], G)
  BY <1>2, <1>4, <1>5 DEF Grouped
<1>15. scanned.connectives = Tail(w) /\ \A c \in 1..(o[G + 1] - 1) : scanned.connectives[c] = w[c + 1]
  BY <1>10, <1>12
<1> QED BY <1>1, <1>4, <1>10, <1>13, <1>14, <1>15 DEF FoundIn

\* The query as one group of the WHERE holds where all clauses of some group do.
LEMMA JqlHolds ==
  ASSUME query \in Queries, query # <<>>, NEW i \in Issues, NEW jql, jql = compileScanned(scanQuery(query))
  PROVE  /\ jql.params \in Seq(Values) /\ Len(jql.params) \in Nat
         /\ GroupHolds(jql, jql.params, i)
            <=> \E g \in DOMAIN query : \A k \in DOMAIN query[g] : Means(query[g][k], i)
<1>1. PICK o, scanned : o = Starts(Lengths(query)) /\ scanned = scanQuery(query)
  OBVIOUS
<1>a. /\ Grouped(o, [g \in 1..Len(query) |-> Len(query[g])], Len(query))
      /\ scanned.clauses \in Seq(Clauses) /\ Len(scanned.clauses) = o[Len(query) + 1]
      /\ \A g \in 1..Len(query) : \A k \in 1..Len(query[g]) : scanned.clauses[o[g] + k] = query[g][k]
      /\ \E w : /\ \A g \in 1..Len(query) : \A k \in 1..Len(query[g]) : w[o[g] + k] = IF k = 1 THEN "OR" ELSE "AND"
                /\ \A c \in 1..(o[Len(query) + 1] - 1) : scanned.connectives[c] = w[c + 1]
  <2>1. FoundIn(query, o, scanned)
    BY <1>1, Scanned
  <2> QED BY <2>1 DEF FoundIn
<1>2. PICK G, len, cl, N : /\ G = Len(query) /\ len = [g \in 1..Len(query) |-> Len(query[g])]
                           /\ cl = scanned.clauses /\ N = Len(cl)
  OBVIOUS
<1>3. /\ Grouped(o, len, G) /\ cl \in Seq(Clauses) /\ N = o[G + 1]
      /\ \A g \in 1..G : \A k \in 1..Len(query[g]) : cl[o[g] + k] = query[g][k]
  BY <1>1, <1>2, <1>a
<1>4. PICK w : /\ \A g \in 1..G : \A k \in 1..Len(query[g]) : w[o[g] + k] = IF k = 1 THEN "OR" ELSE "AND"
               /\ \A c \in 1..(o[G + 1] - 1) : scanned.connectives[c] = w[c + 1]
  BY <1>2, <1>a
<1>5. G \in Nat \ {0} /\ DOMAIN query = 1..G
      /\ \A g \in 1..G : len[g] = Len(query[g]) /\ DOMAIN query[g] = 1..len[g] /\ len[g] \in Nat
  BY <1>2 DEF Queries
<1>6. N \in Nat /\ DOMAIN cl = 1..N /\ \A k \in 1..N : cl[k] \in Clauses
  <2>1. cl \in Seq(Clauses)
    BY <1>3
  <2>2. Len(cl) \in Nat /\ DOMAIN cl = 1..Len(cl) /\ cl \in [1..Len(cl) -> Clauses]
    BY <2>1, LenProperties
  <2> QED BY <1>2, <2>2
<1>7. PICK F, P : /\ F = [k \in 1..N |-> compileClause(cl[k]).frag]
                  /\ P = [k \in 1..N |-> compileClause(cl[k]).params]
  OBVIOUS
<1>8. \A k \in 1..N : Bound(F[k], P[k]) /\ (Holds(F[k], P[k], i) <=> Means(cl[k], i))
  <2> SUFFICES ASSUME NEW k \in 1..N
               PROVE  Bound(F[k], P[k]) /\ (Holds(F[k], P[k], i) <=> Means(cl[k], i))
    OBVIOUS
  <2>1. PICK f, ps, c : f = F[k] /\ ps = P[k] /\ c = cl[k]
    OBVIOUS
  <2>2. c \in Clauses /\ f = compileClause(c).frag /\ ps = compileClause(c).params
    BY <1>6, <1>7, <2>1
  <2>3. Bound(f, ps) /\ (Holds(f, ps, i) <=> Means(c, i))
    BY <2>2, ClauseMeans
  <2> QED BY <2>1, <2>3
<1>9. jql = [frags |-> F, conns |-> scanned.connectives, params |-> FlattenSeq(P)]
  <2>1. PICK parts : parts = [k \in 1..N |-> compileClause(cl[k])]
    OBVIOUS
  <2>2. jql = [frags |-> [k \in DOMAIN parts |-> parts[k].frag], conns |-> scanned.connectives,
               params |-> FlattenSeq([k \in DOMAIN parts |-> parts[k].params])]
    BY <1>1, <1>2, <1>6, <2>1 DEF compileScanned
  <2>3. F = [k \in DOMAIN parts |-> parts[k].frag] /\ P = [k \in DOMAIN parts |-> parts[k].params]
    BY <1>7, <2>1
  <2> QED BY <2>2, <2>3
<1>10. Lined(Values, N, P, F)
  BY <1>6, <1>7, <1>8 DEF Lined, Bound
<1>11. FlattenSeq(P) \in Seq(Values) /\ \A k \in 1..N : ParamsOf(F, FlattenSeq(P), k) = P[k]
  <2>1. FlattenSeq(P) \in Seq(Values)
    BY <1>10, Laid DEF LaidOut
  <2>2. ASSUME NEW k \in 1..N PROVE ParamsOf(F, FlattenSeq(P), k) = P[k]
    BY <1>10, ParamsFound
  <2> QED BY <2>1, <2>2
<1>12. PICK T, conns : T = {b \in 1..N : Holds(F[b], P[b], i)} /\ conns = scanned.connectives
  OBVIOUS
<1>13. GroupHolds(jql, jql.params, i) <=> RunIn(conns, N, T)
  <2>1. Len(F) = N
    BY <1>10 DEF Lined
  <2>2. \A a \in 1..N : \A b \in a..N : b \in T <=> Holds(F[b], ParamsOf(F, FlattenSeq(P), b), i)
    BY <1>6, <1>11, <1>12
  <2>3. PICK x : x = FlattenSeq(P)
    OBVIOUS
  <2>4. jql.frags = F /\ jql.conns = conns /\ jql.params = x /\ Len(jql.frags) = N
    BY <1>9, <1>12, <2>1, <2>3
  <2>5. GroupHolds(jql, jql.params, i) <=>
        \E a \in 1..Len(jql.frags) :
          /\ a = 1 \/ jql.conns[a - 1] = "OR"
          /\ \A b \in a..Len(jql.frags) : (\A c \in a..(b - 1) : jql.conns[c] = "AND")
               => Holds(jql.frags[b], ParamsOf(jql.frags, jql.params, b), i)
    BY Zenon DEF GroupHolds, SomeRun
  <2>6. GroupHolds(jql, jql.params, i) <=>
        \E a \in 1..N : /\ a = 1 \/ conns[a - 1] = "OR"
                        /\ \A b \in a..N : (\A c \in a..(b - 1) : conns[c] = "AND")
                                           => Holds(F[b], ParamsOf(F, x, b), i)
    BY <2>4, <2>5
  <2> QED BY <2>2, <2>3, <2>6, Zenon DEF RunIn
<1>14. RunIn(conns, N, T) <=> \E g \in 1..G : \A k \in 1..len[g] : o[g] + k \in T
  <2>1. \A g \in 1..G : \A k \in 1..len[g] : w[o[g] + k] = IF k = 1 THEN "OR" ELSE "AND"
    BY <1>4, <1>5
  <2>2. \A c \in 1..(o[G + 1] - 1) : conns[c] = w[c + 1]
    BY <1>4, <1>12
  <2>3. G \in Nat \ {0} /\ Grouped(o, len, G)
    BY <1>3, <1>5
  <2>4. RunIn(conns, o[G + 1], T) <=> \E g \in 1..G : \A k \in 1..len[g] : o[g] + k \in T
    <3>1. Marked(o, len, G, w, conns)
      BY <2>1, <2>2 DEF Marked
    <3> QED BY <2>3, <3>1, GroupsRun
  <2> QED BY <1>3, <2>4
<1>15. ASSUME NEW g \in 1..G, NEW k \in 1..len[g] PROVE o[g] + k \in T <=> Means(query[g][k], i)
  <2>1. o[g] + k \in 1..N /\ cl[o[g] + k] = query[g][k]
    <3>1. g \in 1..(G + 1) /\ g + 1 \in 1..(G + 1)
      BY <1>5
    <3>2. o[g] \in Nat /\ o[g + 1] = o[g] + len[g] /\ o[g + 1] <= N /\ N \in Nat /\ len[g] \in Nat
      BY <1>3, <1>6, <3>1 DEF Grouped
    <3>3. cl[o[g] + k] = query[g][k]
      BY <1>3, <1>5
    <3> QED BY <3>2, <3>3
  <2> QED BY <1>8, <1>12, <2>1
<1>16. jql.params \in Seq(Values) /\ Len(jql.params) \in Nat
  <2>1. jql.params = FlattenSeq(P)
    BY <1>9
  <2> QED BY <1>11, <2>1, LenProperties
<1>17. (\E g \in 1..G : \A k \in 1..len[g] : o[g] + k \in T)
       <=> \E g \in DOMAIN query : \A k \in DOMAIN query[g] : Means(query[g][k], i)
  <2>1. ASSUME NEW g \in 1..G
        PROVE  (\A k \in 1..len[g] : o[g] + k \in T) <=> \A k \in DOMAIN query[g] : Means(query[g][k], i)
    <3>1. DOMAIN query[g] = 1..len[g]
      BY <1>5
    <3>2. \A k \in 1..len[g] : o[g] + k \in T <=> Means(query[g][k], i)
      BY <1>15
    <3> QED BY <3>1, <3>2, Zenon
  <2>2. DOMAIN query = 1..G
    BY <1>5
  <2> QED BY <2>1, <2>2, Zenon
<1> QED BY <1>13, <1>14, <1>16, <1>17

\* A WHERE whose conditions are joined by AND, with parameters for all of them.
Shape(W, S) ==
  /\ \E R : W.frags \in Seq(R)
  /\ W.conns \in Seq({"AND"}) /\ Len(W.conns) = IF W.frags = <<>> THEN 0 ELSE Len(W.frags) - 1
  /\ S \in Seq(Values) /\ Starts(W.frags)[Len(W.frags) + 1] = Len(S)
  /\ \A k \in 1..Len(W.frags) : /\ Starts(W.frags)[k] \in Nat /\ W.frags[k].n \in Nat
                                /\ Starts(W.frags)[k] + W.frags[k].n <= Len(S)
TruthOf(f, ps, row) == IF f.t = "group" THEN GroupHolds(f.body, ps, row) ELSE Holds(f, ps, row)
All(W, S, row) == \A k \in 1..Len(W.frags) : TruthOf(W.frags[k], ParamsOf(W.frags, S, k), row)

LEMMA WhereAll ==
  ASSUME NEW W, NEW S, Shape(W, S), NEW row
  PROVE  WhereHolds(W, S, row) <=> All(W, S, row)
<1>1. PICK F, conns, n : F = W.frags /\ conns = W.conns /\ n = Len(W.frags)
  OBVIOUS
<1>2. PICK R : F \in Seq(R)
  BY <1>1 DEF Shape
<1>3. n \in Nat /\ (F = <<>> <=> n = 0) /\ conns \in Seq({"AND"}) /\ (n # 0 => Len(conns) = n - 1)
  BY <1>1, <1>2 DEF Shape
<1>4. \A c \in 1..(n - 1) : conns[c] = "AND"
  BY <1>3
<1>5. PICK T : T = {b \in 1..n : TruthOf(F[b], ParamsOf(F, S, b), row)}
  OBVIOUS
<1>6. WhereHolds(W, S, row) <=>
      F = <<>> \/ \E a \in 1..n : /\ a = 1 \/ conns[a - 1] = "OR"
                                  /\ \A b \in a..n : (\A c \in a..(b - 1) : conns[c] = "AND")
                                       => TruthOf(F[b], ParamsOf(F, S, b), row)
  <2>1. WhereHolds(W, S, row) <=>
        W.frags = <<>> \/ \E a \in 1..Len(W.frags) :
           /\ a = 1 \/ W.conns[a - 1] = "OR"
           /\ \A b \in a..Len(W.frags) : (\A c \in a..(b - 1) : W.conns[c] = "AND")
                => TruthOf(W.frags[b], ParamsOf(W.frags, S, b), row)
    BY Zenon DEF WhereHolds, SomeRun, TruthOf
  <2> QED BY <1>1, <2>1
<1>7. \A a \in 1..n : \A b \in a..n : b \in T <=> TruthOf(F[b], ParamsOf(F, S, b), row)
  BY <1>3, <1>5
<1>8. WhereHolds(W, S, row) <=> F = <<>> \/ RunIn(conns, n, T)
  BY <1>6, <1>7, Zenon DEF RunIn
<1>9. n # 0 => (RunIn(conns, n, T) <=> \A b \in 1..n : b \in T)
  BY <1>3, <1>4, AndsRun
<1>10. All(W, S, row) <=> \A b \in 1..n : b \in T
  BY <1>1, <1>5 DEF All
<1> QED BY <1>3, <1>8, <1>9, <1>10

One(f) == [frags |-> <<f>>, conns |-> <<>>]

\* Earlier positions do not move when a fragment is added.
LEMMA StartsAppend ==
  ASSUME NEW R, NEW F \in Seq(R), NEW f, NEW H, H = F \o <<f>>
  PROVE  /\ \A k \in 1..(Len(F) + 1) : Starts(H)[k] = Starts(F)[k]
         /\ Starts(H)[Len(F) + 2] = Starts(H)[Len(F) + 1] + f.n
<1>1. PICK n, s, t : n = Len(F) /\ s = Starts(F) /\ t = Starts(H)
  OBVIOUS
<1>2. n \in Nat /\ Len(H) = n + 1 /\ H[n + 1] = f /\ \A k \in 1..n : H[k] = F[k]
  <2>1. F \in Seq(R \cup {f}) /\ <<f>> \in Seq(R \cup {f})
    OBVIOUS
  <2> QED BY <1>1, <2>1, ConcatProperties
<1>3. \A k \in 1..(n + 1) : s[k] = IF k = 1 THEN 0 ELSE s[k - 1] + F[k - 1].n
  <2>1. Sums(s, F, n)
    BY <1>1, <1>2, StartsSums
  <2> QED BY <2>1, SumsRule
<1>4. \A k \in 1..((n + 1) + 1) : t[k] = IF k = 1 THEN 0 ELSE t[k - 1] + H[k - 1].n
  <2>1. PICK m : m = Len(H)
    OBVIOUS
  <2>2. m = n + 1 /\ m \in Nat
    BY <1>2, <2>1
  <2>3. Sums(t, H, m)
    BY <1>1, <2>1, <2>2, StartsSums
  <2>4. \A k \in 1..(m + 1) : t[k] = IF k = 1 THEN 0 ELSE t[k - 1] + H[k - 1].n
    BY ONLY <2>3, SumsRule
  <2> QED BY <2>2, <2>4
<1> DEFINE Bad == {k \in 1..(n + 1) : t[k] # s[k]}
<1>5. Bad = {}
  <2> SUFFICES ASSUME Bad # {} PROVE FALSE
    OBVIOUS
  <2>1. PICK m \in Bad : \A k \in Bad : m <= k
    <3>1. Bad \subseteq Nat
      BY <1>2
    <3> HIDE DEF Bad
    <3> QED BY <3>1, LeastOf
  <2>2. m \in 1..(n + 1) /\ t[m] # s[m] /\ m \in 1..((n + 1) + 1)
    BY <1>2, <2>1
  <2>3. m # 1
    BY <1>3, <1>4, <2>2
  <2>4. m - 1 \in 1..n /\ m - 1 \in 1..(n + 1) /\ m - 1 \notin Bad
    <3>1. m - 1 \in Bad => m <= m - 1
      BY <2>1
    <3> QED BY <1>2, <2>2, <2>3, <3>1
  <2>5. t[m - 1] = s[m - 1] /\ H[m - 1] = F[m - 1]
    BY <1>2, <2>4
  <2>6. t[m] = t[m - 1] + H[m - 1].n /\ s[m] = s[m - 1] + F[m - 1].n
    BY <1>3, <1>4, <2>2, <2>3
  <2> QED BY <2>2, <2>5, <2>6
<1>6. t[n + 2] = t[n + 1] + f.n
  <2>1. PICK m : m = n + 2
    OBVIOUS
  <2>2. m \in 1..((n + 1) + 1) /\ m # 1 /\ m - 1 = n + 1
    BY <1>2, <2>1
  <2>3. t[m] = t[m - 1] + H[m - 1].n
    BY <1>4, <2>2
  <2> QED BY <1>2, <2>1, <2>2, <2>3
<1> QED BY <1>1, <1>5, <1>6

\* A stretch of a sequence, element by element.
Within(V, x, a, l) == x \in Seq(V) /\ a \in Nat /\ l \in Nat /\ a + l <= Len(x)
LEMMA Stretch ==
  ASSUME NEW V, NEW x, NEW a, NEW l, Within(V, x, a, l)
  PROVE  /\ SubSeq(x, a + 1, a + l) \in Seq(V) /\ Len(SubSeq(x, a + 1, a + l)) = l
         /\ \A j \in 1..l : SubSeq(x, a + 1, a + l)[j] = x[a + j]
<1> USE DEF Within
<1>1. PICK v, n : v = SubSeq(x, a + 1, a + l) /\ n = Len(x) /\ n \in Nat /\ \A m \in 1..n : x[m] \in V
  BY LenProperties
<1>2. a + 1 \in Int /\ a + l \in Int /\ \A m \in (a + 1)..(a + l) : m \in 1..n
  BY <1>1
<1>3. /\ v \in Seq(V) /\ Len(v) = IF a + 1 <= a + l THEN (a + l) - (a + 1) + 1 ELSE 0
      /\ \A j \in 1..((a + l) - (a + 1) + 1) : v[j] = x[(a + 1) + j - 1]
  BY <1>1, <1>2, SubSeqProperties
<1>4. ASSUME NEW j \in 1..l PROVE v[j] = x[a + j]
  <2>1. j \in 1..((a + l) - (a + 1) + 1) /\ (a + 1) + j - 1 = a + j
    OBVIOUS
  <2> QED BY <1>3, <2>1
<1> QED BY <1>1, <1>3, <1>4

Cut(x, a, l) == SubSeq(x, a + 1, a + l)
LEMMA StretchEarlier ==
  ASSUME NEW V, NEW x, NEW p, NEW a, NEW l, Within(V, x, a, l), p \in Seq(V)
  PROVE  Cut(x \o p, a, l) = Cut(x, a, l)
<1>1. PICK y : y = x \o p
  OBVIOUS
<1>0. x \in Seq(V) /\ a \in Nat /\ l \in Nat /\ a + l <= Len(x)
  BY DEF Within
<1>2. y \in Seq(V) /\ Len(x) \in Nat /\ Len(y) = Len(x) + Len(p) /\ Len(p) \in Nat /\ \A m \in 1..Len(x) : y[m] = x[m]
  BY <1>0, <1>1, ConcatProperties, LenProperties
<1>3. Within(V, y, a, l)
  BY <1>0, <1>2 DEF Within
<1>4. PICK u, v : u = SubSeq(y, a + 1, a + l) /\ v = SubSeq(x, a + 1, a + l)
  OBVIOUS
<1>5. u \in Seq(V) /\ Len(u) = l /\ \A j \in 1..l : u[j] = y[a + j]
  BY <1>3, <1>4, Stretch
<1>6. v \in Seq(V) /\ Len(v) = l /\ \A j \in 1..l : v[j] = x[a + j]
  BY <1>4, Stretch
<1>7. ASSUME NEW j \in 1..l PROVE y[a + j] = x[a + j]
  <2>1. a + j \in 1..Len(x)
    BY <1>0, <1>2
  <2> QED BY <1>2, <2>1
<1>8. u = v
  <2>1. \A j \in 1..Len(u) : u[j] = v[j]
    BY <1>5, <1>6, <1>7
  <2> QED BY <1>5, <1>6, <2>1, SeqEqual
<1> QED BY <1>1, <1>4, <1>8 DEF Cut

LEMMA StretchLast ==
  ASSUME NEW V, NEW x \in Seq(V), NEW p \in Seq(V)
  PROVE  SubSeq(x \o p, Len(x) + 1, Len(x) + Len(p)) = p
<1>1. PICK y, a, l : y = x \o p /\ a = Len(x) /\ l = Len(p)
  OBVIOUS
<1>2. y \in Seq(V) /\ a \in Nat /\ l \in Nat /\ Len(y) = a + l /\ \A m \in 1..l : y[a + m] = p[m]
  <2>1. y \in Seq(V) /\ Len(y) = Len(x) + Len(p) /\ \A m \in 1..(Len(x) + Len(p)) : y[m] = IF m <= Len(x) THEN x[m] ELSE p[m - Len(x)]
    BY <1>1, ConcatProperties
  <2>2. a \in Nat /\ l \in Nat
    BY <1>1, LenProperties
  <2>3. ASSUME NEW m \in 1..l PROVE y[a + m] = p[m]
    <3>1. a + m \in 1..(a + l) /\ ~(a + m <= a) /\ (a + m) - a = m
      BY <2>2
    <3> QED BY <1>1, <2>1, <3>1
  <2> QED BY <1>1, <2>1, <2>2, <2>3
<1>3. PICK u : u = SubSeq(y, a + 1, a + l)
  OBVIOUS
<1>4. u \in Seq(V) /\ Len(u) = l /\ \A j \in 1..l : u[j] = y[a + j]
  <2>1. Within(V, y, a, l)
    BY <1>2 DEF Within
  <2> QED BY <1>3, <2>1, Stretch
<1>5. u = p
  BY <1>1, <1>2, <1>4, SeqEqual
<1> QED BY <1>1, <1>3, <1>5

\* One condition more, with its parameters after the others.
LEMMA OneMore ==
  ASSUME NEW W, NEW S, Shape(W, S), NEW f, NEW p, Bound(f, p), NEW row
  PROVE  /\ Shape(Both(W, One(f)), S \o p)
         /\ All(Both(W, One(f)), S \o p, row) <=> All(W, S, row) /\ TruthOf(f, p, row)
<1>1. PICK F, n, s, l : F = W.frags /\ n = Len(F) /\ s = Len(S) /\ l = Len(p)
  OBVIOUS
<1>2. PICK R : F \in Seq(R)
  BY <1>1 DEF Shape
<1>3. n \in Nat /\ (F = <<>> <=> n = 0)
  BY <1>1, <1>2
<1>4. /\ S \in Seq(Values) /\ p \in Seq(Values) /\ s \in Nat /\ l \in Nat /\ f.n = l
      /\ Starts(F)[n + 1] = s
      /\ \A k \in 1..n : Starts(F)[k] \in Nat /\ F[k].n \in Nat /\ Starts(F)[k] + F[k].n <= s
  BY <1>1, LenProperties DEF Shape, Bound
<1>5. PICK H : H = F \o <<f>>
  OBVIOUS
<1>6. H \in Seq(R \cup {f}) /\ Len(H) = n + 1 /\ H[n + 1] = f /\ \A k \in 1..n : H[k] = F[k]
  <2>1. F \in Seq(R \cup {f}) /\ <<f>> \in Seq(R \cup {f})
    BY <1>2
  <2> QED BY <1>1, <1>3, <1>5, <2>1, ConcatProperties
<1>7. (\A k \in 1..(n + 1) : Starts(H)[k] = Starts(F)[k]) /\ Starts(H)[n + 2] = Starts(H)[n + 1] + f.n
  <2>1. n = Len(F)
    BY <1>1
  <2> QED BY ONLY <1>2, <1>5, <2>1, StartsAppend
<1>8. PICK Q : Q = S \o p
  OBVIOUS
<1>9. Q \in Seq(Values) /\ Len(Q) = s + l
  BY <1>1, <1>4, <1>8, ConcatProperties
<1>10. PICK W2 : W2 = Both(W, One(f))
  OBVIOUS
<1>11. W2.frags = H /\ H # <<>> /\ W2.conns \in Seq({"AND"}) /\ Len(W2.conns) = n
  <2>1. W2 = [frags |-> F \o <<f>>, conns |-> W.conns \o (IF F = <<>> \/ <<f>> = <<>> THEN <<>> ELSE <<"AND">>) \o <<>>]
    BY <1>1, <1>10 DEF Both, One
  <2>2. <<f>> # <<>>
    OBVIOUS
  <2>3. W.conns \in Seq({"AND"}) /\ Len(W.conns) = IF F = <<>> THEN 0 ELSE n - 1
    BY <1>1 DEF Shape
  <2>4. H # <<>>
    BY <1>3, <1>6
  <2>5. PICK e : e = IF F = <<>> \/ <<f>> = <<>> THEN <<>> ELSE <<"AND">>
    OBVIOUS
  <2>6. e \in Seq({"AND"}) /\ Len(e) = IF F = <<>> THEN 0 ELSE 1
    <3>1. <<"AND">> \in Seq({"AND"}) /\ <<>> \in Seq({"AND"}) /\ Len(<<"AND">>) = 1
      OBVIOUS
    <3>2. CASE F = <<>>
      BY <2>5, <3>1, <3>2
    <3>3. CASE F # <<>>
      <4>1. e = <<"AND">>
        BY <2>2, <2>5, <3>3
      <4> QED BY <3>1, <3>3, <4>1
    <3> QED BY <3>2, <3>3
  <2>7. W2.conns = (W.conns \o e) \o <<>>
    BY <2>1, <2>5
  <2>8. W.conns \o e \in Seq({"AND"}) /\ Len(W.conns \o e) = Len(W.conns) + Len(e)
    BY <2>3, <2>6, ConcatProperties
  <2>9. W2.conns = W.conns \o e
    BY <2>7, <2>8
  <2>10. W2.frags = H
    BY <1>5, <2>1
  <2>11. Len(W.conns) + Len(e) = n
    BY <1>3, <2>3, <2>6
  <2> QED BY <2>4, <2>8, <2>9, <2>10, <2>11
<1>12. ASSUME NEW k \in 1..n PROVE ParamsOf(H, Q, k) = ParamsOf(F, S, k)
  <2>1. k \in 1..(n + 1)
    BY <1>3
  <2>2. PICK a, m : a = Starts(F)[k] /\ m = F[k].n
    OBVIOUS
  <2>3. a \in Nat /\ m \in Nat /\ a + m <= Len(S) /\ Starts(H)[k] = a /\ H[k].n = m
    BY <1>1, <1>4, <1>6, <1>7, <2>1, <2>2
  <2>4. SubSeq(S \o p, a + 1, a + m) = SubSeq(S, a + 1, a + m)
    <3>1. Within(Values, S, a, m)
      BY <1>4, <2>3 DEF Within
    <3>2. p \in Seq(Values)
      BY <1>4
    <3>3. Cut(S \o p, a, m) = Cut(S, a, m)
      BY ONLY <3>1, <3>2, StretchEarlier
    <3> QED BY ONLY <3>3 DEF Cut
  <2> QED BY <1>8, <2>2, <2>3, <2>4 DEF ParamsOf
<1>13. ParamsOf(H, Q, n + 1) = p
  <2>1. n + 1 \in 1..(n + 1)
    BY <1>3
  <2>2. Starts(H)[n + 1] = Len(S) /\ H[n + 1].n = Len(p)
    BY <1>1, <1>4, <1>6, <1>7, <2>1
  <2>3. SubSeq(S \o p, Len(S) + 1, Len(S) + Len(p)) = p
    BY <1>4, StretchLast
  <2> QED BY <1>8, <2>2, <2>3 DEF ParamsOf
<1>14. Shape(W2, Q)
  <2>1. Starts(H)[(n + 1) + 1] = s + l
    <3>1. n + 1 \in 1..(n + 1) /\ (n + 1) + 1 = n + 2
      BY <1>3
    <3> QED BY <1>4, <1>7, <3>1
  <2>2. ASSUME NEW k \in 1..(n + 1) PROVE Starts(H)[k] \in Nat /\ H[k].n \in Nat /\ Starts(H)[k] + H[k].n <= s + l
    <3>1. CASE k = n + 1
      BY <1>4, <1>6, <1>7, <3>1
    <3>2. CASE k # n + 1
      <4>1. k \in 1..n
        BY <1>3, <3>2
      <4>2. Starts(H)[k] = Starts(F)[k] /\ H[k] = F[k]
        BY <1>6, <1>7, <4>1
      <4>3. PICK a, m : a = Starts(F)[k] /\ m = F[k].n
        OBVIOUS
      <4>4. a \in Nat /\ m \in Nat /\ a + m <= s
        BY <1>4, <4>1, <4>3
      <4> QED BY <1>4, <4>2, <4>3, <4>4
    <3> QED BY <3>1, <3>2
  <2>3. Len(H) - 1 = n
    BY <1>3, <1>6
  <2> QED BY <1>6, <1>9, <1>11, <2>1, <2>2, <2>3 DEF Shape
<1>15. All(W2, Q, row) <=> All(W, S, row) /\ TruthOf(f, p, row)
  <2>1. All(W2, Q, row) <=> \A k \in 1..(n + 1) : TruthOf(H[k], ParamsOf(H, Q, k), row)
    BY <1>6, <1>11 DEF All
  <2>2. All(W, S, row) <=> \A k \in 1..n : TruthOf(F[k], ParamsOf(F, S, k), row)
    BY <1>1 DEF All
  <2>3. \A k \in 1..n : TruthOf(H[k], ParamsOf(H, Q, k), row) <=> TruthOf(F[k], ParamsOf(F, S, k), row)
    BY <1>6, <1>12
  <2>4. TruthOf(H[n + 1], ParamsOf(H, Q, n + 1), row) <=> TruthOf(f, p, row)
    BY <1>6, <1>13
  <2>5. \A k : k \in 1..(n + 1) <=> k \in 1..n \/ k = n + 1
    BY <1>3
  <2> QED BY <2>1, <2>2, <2>3, <2>4, <2>5
<1> QED BY <1>8, <1>10, <1>14, <1>15

\* The status and the text asked for.
NoWhere == [frags |-> <<>>, conns |-> <<>>]
Plain == [frags |-> baseConditions.frags, conns |-> Ands(baseConditions.frags)]

LEMMA NoneAsked == ASSUME NEW row PROVE Shape(NoWhere, <<>>) /\ All(NoWhere, <<>>, row)
<1>1. NoWhere.frags = <<>> /\ NoWhere.conns = <<>>
  BY DEF NoWhere
<1>a. PICK F, n : F = <<>> /\ n = 0
  OBVIOUS
<1>2. n = Len(F) /\ n = 0 /\ F = <<>> /\ F \in Seq({})
  BY <1>a
<1>3. Starts(F)[1] = 0
  <2>1. PICK s : s = Starts(F)
    OBVIOUS
  <2>2. Sums(s, F, n)
    BY <1>2, <2>1, StartsSums
  <2>3. \A k \in 1..(n + 1) : s[k] = IF k = 1 THEN 0 ELSE s[k - 1] + F[k - 1].n
    BY ONLY <2>2, SumsRule
  <2> QED BY <1>2, <2>1, <2>3
<1>4. Shape(NoWhere, <<>>)
  <2>1. Starts(<<>>)[Len(<<>>) + 1] = 0
    BY <1>2, <1>3
  <2> QED BY <1>1, <1>2, <2>1 DEF Shape
<1>5. All(NoWhere, <<>>, row)
  BY <1>1 DEF All
<1> QED BY <1>4, <1>5

LEMMA StatusAsked ==
  ASSUME NEW i \in Issues, NEW f, f = Frag("=", "status", 1)
  PROVE  Bound(f, <<"Open">>) /\ (TruthOf(f, <<"Open">>, i) <=> i.status = "Open")
<1>1. Bound(f, <<"Open">>)
  BY DEF Bound, Frag, Values
<1>2. f.t = "=" /\ f.col = "status"
  BY DEF Frag
<1>a. PICK ps : ps = <<"Open">>
  OBVIOUS
<1>3. ps = <<"Open">> /\ ps[1] = "Open"
  BY <1>a
<1>4. Holds(f, ps, i) <=> i.status # Null /\ i.status = "Open"
  BY <1>2, <1>3 DEF Holds
<1>5. TruthOf(f, ps, i) <=> Holds(f, ps, i)
  BY <1>2 DEF TruthOf
<1> QED BY <1>1, <1>3, <1>4, <1>5, SearchAssumption

LEMMA TextAsked ==
  ASSUME NEW i \in Issues, NEW f, f = Frag("ILIKE", "title", 3)
  PROVE  Bound(f, <<"in", "in", "in">>) /\ (TruthOf(f, <<"in", "in", "in">>, i) <=> i.title \in Like["in"])
<1>1. Bound(f, <<"in", "in", "in">>)
  BY DEF Bound, Frag, Values
<1>2. f.t = "ILIKE" /\ f.col = "title"
  BY DEF Frag
<1>a. PICK ps : ps = <<"in", "in", "in">>
  OBVIOUS
<1>3. ps = <<"in", "in", "in">> /\ DOMAIN ps = 1..3 /\ \A k \in 1..3 : ps[k] = "in"
  BY <1>a
<1>4. Holds(f, ps, i) <=> \E k \in DOMAIN ps : i.title \in Like[ps[k]]
  BY <1>2 DEF Holds
<1>5. TruthOf(f, ps, i) <=> Holds(f, ps, i)
  BY <1>2 DEF TruthOf
<1> QED BY <1>1, <1>3, <1>4, <1>5

\* Nothing before or after changes nothing.
LEMMA NothingJoined ==
  ASSUME NEW f PROVE <<>> \o <<f>> = <<f>> /\ <<f>> \o <<>> = <<f>> /\ Ands(<<f>>) = <<>> /\ <<f>> # <<>>
<1>1. <<f>> \in Seq({f}) /\ Len(<<f>>) = 1
  OBVIOUS
<1>2. <<>> \o <<f>> = <<f>> /\ <<f>> \o <<>> = <<f>>
  BY <1>1, ConcatEmptySeq
<1>3. Ands(<<f>>) = <<>>
  <2>1. Ands(<<f>>) = [k \in 1..0 |-> "AND"]
    BY <1>1 DEF Ands
  <2>2. [k \in 1..0 |-> "AND"] = <<>>
    OBVIOUS
  <2> QED BY <2>1, <2>2
<1> QED BY <1>1, <1>2, <1>3

\* One condition after another.
LEMMA TwoJoined ==
  ASSUME NEW f, NEW g
  PROVE  Ands(<<>>) = <<>> /\ Ands(<<f>>) = <<>> /\ Ands(<<g>>) = <<>> /\ Ands(<<f>> \o <<g>>) = <<"AND">>
<1>1. Ands(<<>>) = <<>>
  <2>1. Ands(<<>>) = [k \in 1..(Len(<<>>) - 1) |-> "AND"]
    BY DEF Ands
  <2>2. 1..(Len(<<>>) - 1) = {}
    <3>1. Len(<<>>) = 0
      OBVIOUS
    <3> QED BY <3>1
  <2>3. PICK e : e = [k \in 1..(Len(<<>>) - 1) |-> "AND"]
    OBVIOUS
  <2>5. e = <<>>
    BY <2>2, <2>3
  <2> QED BY <2>1, <2>3, <2>5
<1>2. PICK u, v : u = <<f>> /\ v = <<g>>
  OBVIOUS
<1>a. u \in Seq({f, g}) /\ v \in Seq({f, g}) /\ Len(u) = 1 /\ Len(v) = 1
  BY <1>2
<1>b. Len(u \o v) = 2
  <2>1. Len(u \o v) = Len(u) + Len(v)
    BY <1>a, ConcatProperties
  <2> QED BY <1>a, <2>1
<1>3. PICK e : e = Ands(u \o v)
  OBVIOUS
<1>4. e = [k \in 1..1 |-> "AND"]
  <2>1. e = [k \in 1..(Len(u \o v) - 1) |-> "AND"]
    BY <1>3 DEF Ands
  <2>2. Len(u \o v) - 1 = 1
    BY <1>b
  <2> QED BY <2>1, <2>2
<1>5. e \in Seq({"AND"}) /\ Len(e) = 1 /\ e[1] = "AND"
  BY <1>4
<1>6. e = <<"AND">>
  <2>1. PICK d : d = <<"AND">>
    OBVIOUS
  <2>2. d \in Seq({"AND"}) /\ Len(d) = 1 /\ d[1] = "AND"
    BY <2>1
  <2>3. \A k \in 1..1 : e[k] = d[k]
    BY <1>5, <2>2
  <2> QED BY <1>5, <2>1, <2>2, <2>3, SeqEqual
<1> QED BY <1>1, <1>2, <1>3, <1>6, NothingJoined

\* The conditions on status and text, alone and together.
StatusCond == Frag("=", "status", 1)
TextCond == Frag("ILIKE", "title", 3)
PlainStatus == [frags |-> <<StatusCond>>, conns |-> <<>>]
PlainText == [frags |-> <<TextCond>>, conns |-> <<>>]
PlainBoth == [frags |-> <<StatusCond>> \o <<TextCond>>, conns |-> <<"AND">>]
StatusParam == <<"Open">>
TextParams == <<"in", "in", "in">>

LEMMA PlainConditions ==
  ASSUME NEW i \in Issues
  PROVE  /\ Shape(PlainStatus, StatusParam) /\ (All(PlainStatus, StatusParam, i) <=> i.status = "Open")
         /\ Shape(PlainText, TextParams) /\ (All(PlainText, TextParams, i) <=> i.title \in Like["in"])
         /\ Shape(PlainBoth, StatusParam \o TextParams)
         /\ All(PlainBoth, StatusParam \o TextParams, i) <=> i.status = "Open" /\ i.title \in Like["in"]
<1>1. PICK f, g, p, r : /\ f = Frag("=", "status", 1) /\ p = <<"Open">>
                        /\ g = Frag("ILIKE", "title", 3) /\ r = <<"in", "in", "in">>
  OBVIOUS
<1>2. Bound(f, p) /\ (TruthOf(f, p, i) <=> i.status = "Open")
  BY <1>1, StatusAsked
<1>3. Bound(g, r) /\ (TruthOf(g, r, i) <=> i.title \in Like["in"])
  BY <1>1, TextAsked
<1>4. Shape(NoWhere, <<>>) /\ All(NoWhere, <<>>, i)
  BY NoneAsked
<1>5. p \in Seq(Values) /\ r \in Seq(Values) /\ <<>> \o p = p /\ <<>> \o r = r /\ p \o <<>> = p
  BY <1>2, <1>3, ConcatEmptySeq DEF Bound
<1>e. <<>> \o <<>> = <<>>
  <2>1. <<>> \in Seq(Values)
    BY EmptySeq
  <2> QED BY <2>1, ConcatEmptySeq
<1>6. PICK A, B, C : A = Both(NoWhere, One(f)) /\ B = Both(NoWhere, One(g)) /\ C = Both(A, One(g))
  OBVIOUS
<1>7. Shape(A, p) /\ (All(A, p, i) <=> i.status = "Open")
  <2>1. Shape(A, <<>> \o p) /\ (All(A, <<>> \o p, i) <=> All(NoWhere, <<>>, i) /\ TruthOf(f, p, i))
    BY ONLY <1>2, <1>4, <1>6, OneMore
  <2> QED BY <1>2, <1>4, <1>5, <2>1
<1>8. Shape(B, r) /\ (All(B, r, i) <=> i.title \in Like["in"])
  <2>1. Shape(B, <<>> \o r) /\ (All(B, <<>> \o r, i) <=> All(NoWhere, <<>>, i) /\ TruthOf(g, r, i))
    BY ONLY <1>3, <1>4, <1>6, OneMore
  <2> QED BY <1>3, <1>4, <1>5, <2>1
<1>9. Shape(C, p \o r) /\ (All(C, p \o r, i) <=> i.status = "Open" /\ i.title \in Like["in"])
  <2>1. Shape(C, p \o r) /\ (All(C, p \o r, i) <=> All(A, p, i) /\ TruthOf(g, r, i))
    BY ONLY <1>3, <1>6, <1>7, OneMore
  <2> QED BY <1>3, <1>7, <2>1
<1>10. A = [frags |-> <<f>>, conns |-> <<>>] /\ B = [frags |-> <<g>>, conns |-> <<>>]
  <2>1. /\ A = [frags |-> <<>> \o <<f>>, conns |-> <<>> \o <<>> \o <<>>]
        /\ B = [frags |-> <<>> \o <<g>>, conns |-> <<>> \o <<>> \o <<>>]
    BY <1>6 DEF Both, One, NoWhere
  <2> QED BY <1>e, <2>1, NothingJoined
<1>11. C = [frags |-> <<f>> \o <<g>>, conns |-> <<"AND">>]
  <2>1. A.frags = <<f>> /\ A.conns = <<>> /\ <<f>> # <<>> /\ <<g>> # <<>>
    BY <1>10, NothingJoined
  <2>2. C = [frags |-> <<f>> \o <<g>>, conns |-> <<>> \o <<"AND">> \o <<>>]
    BY <1>6, <2>1 DEF Both, One
  <2>3. <<>> \o <<"AND">> \o <<>> = <<"AND">>
    BY NothingJoined
  <2> QED BY <2>2, <2>3
<1> QED BY <1>1, <1>7, <1>8, <1>9, <1>10, <1>11 DEF PlainStatus, PlainText, PlainBoth, StatusCond, TextCond, StatusParam, TextParams

LEMMA JoinedShapes ==
  /\ <<>> \o <<>> = <<>>
  /\ StatusParam \o <<>> = StatusParam /\ <<>> \o TextParams = TextParams
  /\ [frags |-> <<>>, conns |-> Ands(<<>>)] = NoWhere
  /\ [frags |-> <<StatusCond>> \o <<>>, conns |-> Ands(<<StatusCond>> \o <<>>)] = PlainStatus
  /\ [frags |-> <<>> \o <<TextCond>>, conns |-> Ands(<<>> \o <<TextCond>>)] = PlainText
  /\ [frags |-> <<StatusCond>> \o <<TextCond>>, conns |-> Ands(<<StatusCond>> \o <<TextCond>>)] = PlainBoth
<1>1. StatusParam \in Seq(Values) /\ TextParams \in Seq(Values)
  BY DEF StatusParam, TextParams, Values
<1>2. <<>> \in Seq(Values)
  BY EmptySeq
<1>3. <<>> \o <<>> = <<>> /\ StatusParam \o <<>> = StatusParam /\ <<>> \o TextParams = TextParams
  BY <1>1, <1>2, ConcatEmptySeq
<1>4. PICK f, g : f = StatusCond /\ g = TextCond
  OBVIOUS
<1>5. /\ <<f>> \o <<>> = <<f>> /\ Ands(<<f>>) = <<>> /\ Ands(<<>>) = <<>>
      /\ <<>> \o <<g>> = <<g>> /\ Ands(<<g>>) = <<>> /\ Ands(<<f>> \o <<g>>) = <<"AND">>
  BY NothingJoined, TwoJoined
<1> QED BY <1>3, <1>4, <1>5 DEF NoWhere, PlainStatus, PlainText, PlainBoth

LEMMA PlainHolds ==
  ASSUME status \in {"", "Open"}, q \in {"", "in"}, NEW i \in Issues
  PROVE  /\ Shape(Plain, baseConditions.params)
         /\ All(Plain, baseConditions.params, i)
              <=> (status # "" => i.status = status) /\ (q # "" => i.title \in Like[q])
<1>1. /\ Shape(PlainStatus, StatusParam) /\ (All(PlainStatus, StatusParam, i) <=> i.status = "Open")
      /\ Shape(PlainText, TextParams) /\ (All(PlainText, TextParams, i) <=> i.title \in Like["in"])
      /\ Shape(PlainBoth, StatusParam \o TextParams)
      /\ All(PlainBoth, StatusParam \o TextParams, i) <=> i.status = "Open" /\ i.title \in Like["in"]
  BY PlainConditions
<1>2. Shape(NoWhere, <<>>) /\ All(NoWhere, <<>>, i)
  BY NoneAsked
<1>3. CASE status = "" /\ q = ""
  <2>1. baseConditions = [frags |-> <<>> \o <<>>, params |-> <<>> \o <<>>]
    BY <1>3, Zenon DEF baseConditions
  <2>2. Plain = NoWhere /\ baseConditions.params = <<>>
    BY ONLY <2>1, JoinedShapes DEF Plain, NoWhere
  <2> QED BY <1>2, <1>3, <2>2
<1>4. CASE status = "Open" /\ q = ""
  <2>1. baseConditions = [frags |-> <<StatusCond>> \o <<>>, params |-> StatusParam \o <<>>]
    BY <1>4 DEF baseConditions, StatusCond, StatusParam
  <2>2. Plain = PlainStatus /\ baseConditions.params = StatusParam
    BY ONLY <2>1, JoinedShapes DEF Plain
  <2> QED BY <1>1, <1>4, <2>2
<1>5. CASE status = "" /\ q = "in"
  <2>1. baseConditions = [frags |-> <<>> \o <<TextCond>>, params |-> <<>> \o TextParams]
    BY <1>5 DEF baseConditions, TextCond, TextParams
  <2>2. Plain = PlainText /\ baseConditions.params = TextParams
    BY ONLY <2>1, JoinedShapes DEF Plain
  <2> QED BY <1>1, <1>5, <2>2
<1>6. CASE status = "Open" /\ q = "in"
  <2>1. baseConditions = [frags |-> <<StatusCond>> \o <<TextCond>>, params |-> StatusParam \o TextParams]
    BY <1>6 DEF baseConditions, StatusCond, TextCond, StatusParam, TextParams
  <2>2. Plain = PlainBoth /\ baseConditions.params = StatusParam \o TextParams
    BY ONLY <2>1, JoinedShapes DEF Plain
  <2> QED BY <1>1, <1>6, <2>2
<1> QED BY <1>3, <1>4, <1>5, <1>6

\* The query as one condition in parentheses.
JqlCond(jql) == [t |-> "group", col |-> "none", n |-> Len(jql.params), body |-> jql]

LEMMA QueryHolds ==
  ASSUME query \in Queries, query # <<>>, NEW i \in Issues, NEW jql, jql = compileScanned(scanQuery(query))
  PROVE  /\ Bound(JqlCond(jql), jql.params)
         /\ TruthOf(JqlCond(jql), jql.params, i)
              <=> \E g \in DOMAIN query : \A k \in DOMAIN query[g] : Means(query[g][k], i)
<1>1. /\ jql.params \in Seq(Values) /\ Len(jql.params) \in Nat
      /\ GroupHolds(jql, jql.params, i)
            <=> \E g \in DOMAIN query : \A k \in DOMAIN query[g] : Means(query[g][k], i)
  BY JqlHolds
<1>2. PICK f : f = JqlCond(jql)
  OBVIOUS
<1>3. f.t = "group" /\ f.body = jql /\ f.n = Len(jql.params)
  BY <1>2 DEF JqlCond
<1>4. TruthOf(f, jql.params, i) <=> GroupHolds(jql, jql.params, i)
  BY <1>3 DEF TruthOf
<1> QED BY <1>1, <1>2, <1>3, <1>4 DEF Bound

\* The caller's scope as one condition.
ScopeIdsCond == IF ScopeIds = <<>> THEN Frag("1=0", "project", 0) ELSE Frag("IN", "project", Len(ScopeIds))
ScopeBody == [frags |-> <<ScopeIdsCond, Frag("IS_NULL", "project", 0)>>, conns |-> <<"OR">>]
ScopeCond == [t |-> "group", col |-> "none", n |-> Len(ScopeIds), body |-> ScopeBody]

LEMMA EitherHolds ==
  ASSUME NEW body, NEW f, NEW g, body = [frags |-> <<f, g>>, conns |-> <<"OR">>], NEW ps, NEW row
  PROVE  GroupHolds(body, ps, row)
           <=> \/ Holds(f, ParamsOf(<<f, g>>, ps, 1), row) \/ Holds(g, ParamsOf(<<f, g>>, ps, 2), row)
<1>1. PICK F, conns : F = <<f, g>> /\ conns = <<"OR">>
  OBVIOUS
<1>2. body.frags = F /\ body.conns = conns /\ Len(F) = 2 /\ F[1] = f /\ F[2] = g /\ conns[1] = "OR"
  BY <1>1
<1>3. PICK T : T = {b \in 1..2 : Holds(F[b], ParamsOf(F, ps, b), row)}
  OBVIOUS
<1>4. GroupHolds(body, ps, row) <=>
        \E a \in 1..2 : /\ a = 1 \/ conns[a - 1] = "OR"
                        /\ \A b \in a..2 : (\A c \in a..(b - 1) : conns[c] = "AND")
                             => Holds(F[b], ParamsOf(F, ps, b), row)
  <2>1. GroupHolds(body, ps, row) <=>
          \E a \in 1..Len(body.frags) :
            /\ a = 1 \/ body.conns[a - 1] = "OR"
            /\ \A b \in a..Len(body.frags) : (\A c \in a..(b - 1) : body.conns[c] = "AND")
                 => Holds(body.frags[b], ParamsOf(body.frags, ps, b), row)
    BY Zenon DEF GroupHolds, SomeRun
  <2> QED BY <1>2, <2>1
<1>5. \A a \in 1..2 : \A b \in a..2 : b \in T <=> Holds(F[b], ParamsOf(F, ps, b), row)
  BY <1>3
<1>6. GroupHolds(body, ps, row) <=>
        \E a \in 1..2 : /\ a = 1 \/ conns[a - 1] = "OR"
                        /\ \A b \in a..2 : (\A c \in a..(b - 1) : conns[c] = "AND") => b \in T
  BY <1>4, <1>5, Zenon
<1>7. (\E a \in 1..2 : /\ a = 1 \/ conns[a - 1] = "OR"
                       /\ \A b \in a..2 : (\A c \in a..(b - 1) : conns[c] = "AND") => b \in T)
        <=> 1 \in T \/ 2 \in T
  <2>1. ASSUME 1 \in T, NEW b \in 1..2, \A c \in 1..(b - 1) : conns[c] = "AND" PROVE b \in T
    <3>1. b # 1 => b = 2 /\ 1 \in 1..(b - 1)
      OBVIOUS
    <3> QED BY <1>2, <2>1, <3>1
  <2>2. ASSUME 2 \in T, NEW b \in 2..2 PROVE b \in T
    BY <2>2
  <2>3. ASSUME NEW a \in 1..2, \A b \in a..2 : (\A c \in a..(b - 1) : conns[c] = "AND") => b \in T
        PROVE  a \in T
    <3>1. a \in a..2 /\ ~\E c \in a..(a - 1) : TRUE
      OBVIOUS
    <3> QED BY <2>3, <3>1
  <2>4. \A a \in 1..2 : a = 1 \/ a = 2
    OBVIOUS
  <2>5. 1 \in 1..2 /\ 2 \in 1..2 /\ 2 - 1 = 1
    OBVIOUS
  <2> QED BY <1>2, <2>1, <2>2, <2>3, <2>4, <2>5
<1>8. 1 \in T <=> Holds(F[1], ParamsOf(F, ps, 1), row)
  BY <1>3
<1>9. 2 \in T <=> Holds(F[2], ParamsOf(F, ps, 2), row)
  BY <1>3
<1> QED BY <1>1, <1>2, <1>6, <1>7, <1>8, <1>9

LEMMA FirstParam ==
  ASSUME NEW f, NEW g, f.n = 1, NEW p, p = << 1 >>, NEW ps, ps = ParamsOf(<<f, g>>, p, 1)
  PROVE  DOMAIN ps = {1} /\ ps[1] = 1
<1>1. PICK F, s : F = <<f, g>> /\ s = Starts(F)
  OBVIOUS
<1>2. Len(F) = 2 /\ F[1] = f
  BY <1>1
<1>3. s[1] = 0
  <2>1. PICK n : n = Len(F)
    OBVIOUS
  <2>2. n \in Nat /\ n = 2 /\ Len(F) \in Nat
    BY <1>2, <2>1
  <2>3. Sums(s, F, n)
    BY <1>1, <2>1, <2>2, StartsSums
  <2>4. \A k \in 1..(n + 1) : s[k] = IF k = 1 THEN 0 ELSE s[k - 1] + F[k - 1].n
    BY ONLY <2>3, SumsRule
  <2> QED BY <2>2, <2>4
<1>4. ps = Cut(p, 0, 1)
  BY <1>1, <1>2, <1>3 DEF ParamsOf, Cut
<1>5. Within(Values, p, 0, 1) /\ Len(p) = 1 /\ p[1] = 1
  BY DEF Within, Values
<1>6. ps \in Seq(Values) /\ Len(ps) = 1 /\ ps[1] = p[1]
  <2>1. PICK a, l : a = 0 /\ l = 1
    OBVIOUS
  <2>2. Within(Values, p, a, l)
    BY <1>5, <2>1
  <2>3. /\ SubSeq(p, a + 1, a + l) \in Seq(Values) /\ Len(SubSeq(p, a + 1, a + l)) = l
        /\ \A j \in 1..l : SubSeq(p, a + 1, a + l)[j] = p[a + j]
    BY ONLY <2>2, Stretch
  <2>4. ps = SubSeq(p, a + 1, a + l)
    BY ONLY <1>4, <2>1 DEF Cut
  <2>5. 1 \in 1..l /\ a + 1 = 1
    BY <2>1
  <2> QED BY <2>1, <2>3, <2>4, <2>5
<1>7. DOMAIN ps = 1..Len(ps) /\ 1..1 = {1}
  BY <1>6
<1> QED BY <1>5, <1>6, <1>7

LEMMA ScopeHolds ==
  ASSUME asker \in {"member", "stranger"}, NEW i \in Issues
  PROVE  /\ ScopeClause = One(ScopeCond) /\ Bound(ScopeCond, ScopeIds)
         /\ TruthOf(ScopeCond, ScopeIds, i) <=> Reachable(i)
<1>1. ScopeClause = One(ScopeCond)
  BY DEF ScopeClause, One, ScopeCond, ScopeBody, ScopeIdsCond
<1>2. PICK ids, null, ps : ids = ScopeIdsCond /\ null = Frag("IS_NULL", "project", 0) /\ ps = ScopeIds
  OBVIOUS
<1>3. TruthOf(ScopeCond, ps, i) <=> GroupHolds(ScopeBody, ps, i)
  <2>1. ScopeCond.t = "group" /\ ScopeCond.body = ScopeBody
    BY DEF ScopeCond
  <2> QED BY <2>1 DEF TruthOf
<1>4. GroupHolds(ScopeBody, ps, i)
        <=> Holds(ids, ParamsOf(<<ids, null>>, ps, 1), i) \/ Holds(null, ParamsOf(<<ids, null>>, ps, 2), i)
  <2>1. PICK body : body = ScopeBody
    OBVIOUS
  <2>2. body = [frags |-> <<ids, null>>, conns |-> <<"OR">>]
    BY <1>2, <2>1 DEF ScopeBody
  <2>3. GroupHolds(body, ps, i)
        <=> Holds(ids, ParamsOf(<<ids, null>>, ps, 1), i) \/ Holds(null, ParamsOf(<<ids, null>>, ps, 2), i)
    BY ONLY <2>2, EitherHolds
  <2> QED BY <2>1, <2>3
<1>5. Holds(null, ParamsOf(<<ids, null>>, ps, 2), i) <=> i.project = Null
  <2>1. null.t = "IS_NULL" /\ null.col = "project"
    BY <1>2 DEF Frag
  <2> QED BY <2>1 DEF Holds
<1>6. CASE asker = "member"
  <2>1. ps = <<1>> /\ ps # <<>> /\ Len(ps) = 1
    BY <1>2, <1>6 DEF ScopeIds
  <2>2. ids = Frag("IN", "project", 1)
    BY <1>2, <2>1 DEF ScopeIdsCond
  <2>3. ids.t = "IN" /\ ids.col = "project" /\ ids.n = 1
    BY <2>2 DEF Frag
  <2>4. PICK r : r = ParamsOf(<<ids, null>>, ps, 1)
    OBVIOUS
  <2>5. DOMAIN r = {1} /\ r[1] = 1
    BY ONLY <2>1, <2>3, <2>4, FirstParam
  <2>6. Holds(ids, r, i) <=> i.project # Null /\ \E k \in DOMAIN r : i.project = r[k]
    BY <2>3 DEF Holds
  <2>7. Holds(ids, r, i) <=> i.project = 1
    BY <2>5, <2>6, SearchAssumption
  <2>8. Bound(ScopeCond, ps)
    <3>1. ps \in Seq(Values) /\ ScopeCond.n = Len(ps)
      BY <1>2, <2>1 DEF Values, ScopeCond
    <3> QED BY <2>1, <3>1 DEF Bound
  <2> QED BY <1>1, <1>2, <1>3, <1>4, <1>5, <1>6, <2>4, <2>7, <2>8 DEF Reachable
<1>7. CASE asker = "stranger"
  <2>1. ps = <<>> /\ Len(ps) = 0
    BY <1>2, <1>7 DEF ScopeIds
  <2>2. ids = Frag("1=0", "project", 0)
    BY <1>2, <2>1 DEF ScopeIdsCond
  <2>3. ids.t = "1=0"
    BY <2>2 DEF Frag
  <2>4. \A r : ~Holds(ids, r, i)
    BY <2>3 DEF Holds
  <2>5. Bound(ScopeCond, ps)
    <3>1. ps \in Seq(Values) /\ ScopeCond.n = Len(ps)
      BY <1>2, <2>1, EmptySeq DEF ScopeCond
    <3> QED BY <2>1, <3>1 DEF Bound
  <2> QED BY <1>1, <1>2, <1>3, <1>4, <1>5, <1>7, <2>4, <2>5 DEF Reachable
<1> QED BY <1>6, <1>7

\* A search as it can be typed: groups of clauses, none of them empty.
SearchInv ==
  /\ query \in Queries /\ status \in {"", "Open"} /\ q \in {"", "in"}
  /\ asker \in {"admin", "member", "stranger"}

LEMMA BuiltHolds ==
  ASSUME SearchInv, NEW i \in Issues
  PROVE  /\ Shape(buildIssueSearch.sql, buildIssueSearch.params)
         /\ All(buildIssueSearch.sql, buildIssueSearch.params, i) <=> Asked(i)
<1>0. query \in Queries /\ status \in {"", "Open"} /\ q \in {"", "in"}
  BY DEF SearchInv
<1>1. PICK S, jql : S = baseConditions.params /\ jql = compileScanned(scanQuery(query))
  OBVIOUS
<1>2. /\ Shape(Plain, S)
      /\ All(Plain, S, i) <=> (status # "" => i.status = status) /\ (q # "" => i.title \in Like[q])
  BY <1>0, <1>1, PlainHolds
<1>3. CASE query = <<>>
  <2>1. buildIssueSearch.sql = Plain /\ buildIssueSearch.params = S
    BY <1>1, <1>3 DEF buildIssueSearch, Plain
  <2> QED BY <1>2, <1>3, <2>1 DEF Asked
<1>4. CASE query # <<>>
  <2>1. PICK f, p : f = JqlCond(jql) /\ p = jql.params
    OBVIOUS
  <2>2. Bound(f, p) /\ (TruthOf(f, p, i) <=> \E g \in DOMAIN query : \A k \in DOMAIN query[g] : Means(query[g][k], i))
    BY <1>0, <1>1, <1>4, <2>1, QueryHolds
  <2>3. /\ Shape(Both(Plain, One(f)), S \o p)
        /\ All(Both(Plain, One(f)), S \o p, i) <=> All(Plain, S, i) /\ TruthOf(f, p, i)
    BY ONLY <1>2, <2>2, OneMore
  <2>4. JqlGroup(jql) = One(f)
    BY <2>1 DEF JqlGroup, One, JqlCond
  <2>5. buildIssueSearch.sql = Both(Plain, JqlGroup(jql)) /\ buildIssueSearch.params = S \o p
    BY <1>1, <1>4, <2>1 DEF buildIssueSearch, Plain
  <2> QED BY <1>2, <1>4, <2>2, <2>3, <2>4, <2>5 DEF Asked
<1> QED BY <1>3, <1>4

\* What is found is what is asked for within the caller's scope.
LEMMA Exact == ASSUME SearchInv PROVE SearchExact
<1>1. PICK W, S : W = buildIssueSearch.sql /\ S = buildIssueSearch.params
  OBVIOUS
<1>2. PICK V, P : /\ V = (IF asker = "admin" THEN W ELSE Both(W, ScopeClause))
                  /\ P = S \o (IF asker = "admin" THEN <<>> ELSE ScopeIds)
  OBVIOUS
<1>3. GetIssues = {i \in Issues : WhereHolds(V, P, i) /\ canViewIssue(i)}
  BY <1>1, <1>2 DEF GetIssues
<1>4. ASSUME NEW i \in Issues PROVE WhereHolds(V, P, i) <=> Asked(i) /\ Reachable(i)
  <2>1. Shape(W, S) /\ (All(W, S, i) <=> Asked(i))
    BY <1>1, BuiltHolds
  <2>2. CASE asker = "admin"
    <3>1. S \in Seq(Values)
      BY <2>1 DEF Shape
    <3>2. V = W /\ P = S
      BY <1>2, <2>2, <3>1, ConcatEmptySeq
    <3>3. WhereHolds(V, P, i) <=> All(V, P, i)
      BY <2>1, <3>2, WhereAll
    <3> QED BY <2>1, <2>2, <3>2, <3>3 DEF Reachable
  <2>3. CASE asker \in {"member", "stranger"}
    <3>1. PICK f, p : f = ScopeCond /\ p = ScopeIds
      OBVIOUS
    <3>2. ScopeClause = One(f) /\ Bound(f, p) /\ (TruthOf(f, p, i) <=> Reachable(i))
      BY <2>3, <3>1, ScopeHolds
    <3>3. V = Both(W, One(f)) /\ P = S \o p
      BY <1>2, <2>3, <3>1, <3>2
    <3>4. Shape(V, P) /\ (All(V, P, i) <=> All(W, S, i) /\ TruthOf(f, p, i))
      <4>1. /\ Shape(Both(W, One(f)), S \o p)
            /\ All(Both(W, One(f)), S \o p, i) <=> All(W, S, i) /\ TruthOf(f, p, i)
        BY ONLY <2>1, <3>2, OneMore
      <4> QED BY <3>3, <4>1
    <3>5. WhereHolds(V, P, i) <=> All(V, P, i)
      BY <3>4, WhereAll
    <3> QED BY <2>1, <3>2, <3>4, <3>5
  <2> QED BY <2>2, <2>3 DEF SearchInv
<1> QED BY <1>3, <1>4 DEF SearchExact

\* Increasing numbers of 1..n, n of them, are 1..n in order.
Climbs(h, n) == h \in [1..n -> 1..n] /\ \A a, b \in 1..n : a < b => h[a] < h[b]
LEMMA StaysPut ==
  ASSUME NEW n \in Nat, NEW h, Climbs(h, n)
  PROVE  \A k \in 1..n : h[k] = k
<1>1. \A k \in 1..n : h[k] \in Nat /\ h[k] <= n
  BY DEF Climbs
<1>2. \A a, b \in 1..n : a < b => h[a] < h[b]
  BY DEF Climbs
<1> DEFINE Low == {k \in 1..n : h[k] < k}
           High == {m \in 1..n : h[(n + 1) - m] > (n + 1) - m}
<1>3. Low = {}
  <2> SUFFICES ASSUME Low # {} PROVE FALSE
    OBVIOUS
  <2>1. PICK k \in Low : \A l \in Low : k <= l
    <3>1. Low \subseteq Nat
      OBVIOUS
    <3> HIDE DEF Low
    <3> QED BY <3>1, LeastOf
  <2>2. k \in 1..n /\ h[k] < k /\ h[k] \in 1..n
    BY <1>1, <2>1 DEF Climbs
  <2>3. PICK l : l = h[k]
    OBVIOUS
  <2>4. l \in 1..n /\ l < k
    BY <2>2, <2>3
  <2>5. h[l] < l
    BY <1>2, <2>2, <2>3, <2>4
  <2>6. k <= l
    BY <2>1, <2>4, <2>5
  <2> QED BY <2>2, <2>4, <2>6
<1>4. High = {}
  <2> SUFFICES ASSUME High # {} PROVE FALSE
    OBVIOUS
  <2>1. PICK m \in High : \A l \in High : m <= l
    <3>1. High \subseteq Nat
      OBVIOUS
    <3> HIDE DEF High
    <3> QED BY <3>1, LeastOf
  <2>2. PICK k : k = (n + 1) - m
    OBVIOUS
  <2>3. m \in 1..n /\ k \in 1..n /\ h[k] > k /\ m = (n + 1) - k
    BY <2>1, <2>2
  <2>4. k # n
    BY <1>1, <2>3
  <2>5. k + 1 \in 1..n /\ h[k] < h[k + 1]
    BY <1>2, <2>3, <2>4
  <2>6. h[k + 1] \in Nat /\ h[k] \in Nat
    BY <1>1, <2>3, <2>5
  <2>7. h[k + 1] > k + 1
    <3>1. PICK x, y : x = h[k] /\ y = h[k + 1]
      OBVIOUS
    <3>2. x \in Nat /\ y \in Nat /\ x < y /\ x > k
      BY <2>3, <2>5, <2>6, <3>1
    <3>3. y > k + 1
      BY <2>3, <3>2
    <3> QED BY <3>1, <3>3
  <2>8. m - 1 \in 1..n /\ (n + 1) - (m - 1) = k + 1
    BY <2>3, <2>5
  <2>9. m - 1 \in High
    BY <2>7, <2>8
  <2> QED BY <2>1, <2>3, <2>9
<1>5. ASSUME NEW k \in 1..n PROVE h[k] = k
  <2>1. ~(h[k] < k)
    BY <1>3
  <2>2. PICK m : m = (n + 1) - k
    OBVIOUS
  <2>3. m \in 1..n /\ (n + 1) - m = k
    BY <2>2
  <2>4. ~(h[k] > k)
    BY <1>4, <2>3
  <2> QED BY <1>1, <2>1, <2>4
<1> QED BY <1>5

LEMMA NumbersInOrder == ASSUME NEW n \in Nat, NEW h, h = InOrder(1..n) PROVE h = [k \in 1..n |-> k]
<1>1. Cardinality(1..n) = n
  <2>1. Cardinality(1..n) = IF 1 > n THEN 0 ELSE n - 1 + 1
    BY FS_Interval
  <2> QED BY <2>1
<1>2. SetToSeqs(1..n) = {f \in [1..n -> 1..n] : \A i, j \in 1..n : i # j => f[i] # f[j]}
  BY <1>1 DEF SetToSeqs
<1>3. PICK e : e = [k \in 1..n |-> k]
  OBVIOUS
<1>4. e \in SetToSeqs(1..n) /\ \A a, b \in DOMAIN e : a < b => e[a] < e[b]
  BY <1>2, <1>3
<1>5. h \in SetToSeqs(1..n) /\ \A a, b \in DOMAIN h : a < b => h[a] < h[b]
  BY <1>4 DEF InOrder
<1>6. Climbs(h, n)
  BY <1>2, <1>5 DEF Climbs
<1>7. \A k \in 1..n : h[k] = k
  BY <1>6, StaysPut
<1>8. h \in [1..n -> 1..n]
  BY <1>6 DEF Climbs
<1> QED BY <1>7, <1>8

\* Conditions laid out with their parameters, joined by AND.
LEMMA LinedShape ==
  ASSUME NEW n \in Nat, NEW F, NEW P, Lined(Values, n, P, F), NEW R, F \in Seq(R)
  PROVE  Shape([frags |-> F, conns |-> [k \in 1..(n - 1) |-> "AND"]], FlattenSeq(P))
<1>1. PICK W, S, s : /\ W = [frags |-> F, conns |-> [k \in 1..(n - 1) |-> "AND"]]
                     /\ S = FlattenSeq(P) /\ s = Starts(F)
  OBVIOUS
<1>2. LaidOut(Values, n, P, s, S)
  BY <1>1, Laid
<1>3. /\ n \in Nat /\ P \in [1..n -> Seq(Values)] /\ Len(F) = n /\ \A k \in 1..n : F[k].n = Len(P[k])
  BY DEF Lined
<1>4. /\ S \in Seq(Values) /\ Len(S) = s[n + 1]
      /\ \A k \in 1..(n + 1) : s[k] \in Nat /\ s[k] <= s[n + 1]
      /\ \A k \in 1..n : s[k + 1] = s[k] + Len(P[k])
  BY <1>2 DEF LaidOut
<1>5. W.frags = F /\ W.conns = [k \in 1..(n - 1) |-> "AND"]
  BY <1>1
<1>6. W.conns \in Seq({"AND"}) /\ Len(W.conns) = IF F = <<>> THEN 0 ELSE n - 1
  <2>1. F = <<>> <=> n = 0
    BY <1>3
  <2>2. CASE n = 0
    <3>1. W.conns = <<>>
      BY <1>5, <2>2
    <3> QED BY <2>1, <2>2, <3>1, EmptySeq
  <2>3. CASE n # 0
    <3>1. n - 1 \in Nat
      BY <2>3
    <3>2. PICK m, c : m = n - 1 /\ c = W.conns
      OBVIOUS
    <3>3. c = [k \in 1..m |-> "AND"] /\ m \in Nat
      BY <1>5, <3>1, <3>2
    <3>4. c \in Seq({"AND"}) /\ Len(c) = m
      BY <3>3
    <3> QED BY <2>1, <2>3, <3>2, <3>4
  <2> QED BY <2>2, <2>3
<1>7. ASSUME NEW k \in 1..n PROVE s[k] \in Nat /\ F[k].n \in Nat /\ s[k] + F[k].n <= Len(S)
  <2>1. k \in 1..(n + 1) /\ k + 1 \in 1..(n + 1)
    OBVIOUS
  <2>2. Len(P[k]) \in Nat /\ F[k].n = Len(P[k])
    BY <1>3
  <2> QED BY <1>4, <2>1, <2>2
<1>8. Shape(W, S)
  <2>1. Starts(W.frags)[Len(W.frags) + 1] = Len(S)
    BY <1>1, <1>3, <1>4, <1>5
  <2>2. \A k \in 1..Len(W.frags) : /\ Starts(W.frags)[k] \in Nat /\ W.frags[k].n \in Nat
                                   /\ Starts(W.frags)[k] + W.frags[k].n <= Len(S)
    BY <1>1, <1>3, <1>5, <1>7
  <2>3. Len(W.conns) = IF W.frags = <<>> THEN 0 ELSE Len(W.frags) - 1
    BY <1>3, <1>5, <1>6
  <2> QED BY <1>4, <1>5, <1>6, <2>1, <2>2, <2>3 DEF Shape
<1> QED BY <1>1, <1>8

\* The second parser compiles a clause it understands as the first does.
LEMMA SameClause ==
  ASSUME NEW c \in Common
  PROVE  FilterClause(c, FALSE) = compileClause(c)
<1>1. c.kind = "CURRENT" /\ c.fn = "none"
  BY DEF Common, Scalar
<1> QED BY <1>1 DEF FilterClause, compileClause

LEMMA Agree == ASSUME SearchInv PROVE ParsersAgree
<1> SUFFICES ASSUME Understood PROVE {i \in PostFilter : Reachable(i)} = GetIssues
  BY DEF ParsersAgree
<1>0. query \in Queries /\ query # <<>> /\ Len(query) = 1 /\ DOMAIN query = {1}
  <2>1. query \in Queries
    BY DEF SearchInv
  <2>2. Len(query) = 1
    BY Zenon DEF Understood
  <2>3. query # <<>> /\ DOMAIN query = {1}
    <3>1. DOMAIN query = 1..Len(query) /\ Len(<<>>) = 0
      BY <2>1, LenProperties, EmptySeq DEF Queries
    <3>2. 1..1 = {1}
      OBVIOUS
    <3> QED BY <2>2, <3>1, <3>2
  <2> QED BY <2>1, <2>2, <2>3
<1>1. PICK o, scanned : o = Starts(Lengths(query)) /\ scanned = scanQuery(query)
  OBVIOUS
<1>2. PICK g, cl, N : g = Len(query[1]) /\ cl = scanned.clauses /\ N = Len(cl)
  OBVIOUS
<1>3. query[1] \in Seq(Clauses) /\ g \in Nat \ {0} /\ DOMAIN query[1] = 1..g /\ \A k \in 1..g : query[1][k] \in Common
  <2>1. query[1] \in Seq(Clauses) \ {<<>>}
    BY <1>0 DEF Queries
  <2>2. DOMAIN query[1] = 1..g /\ g \in Nat \ {0}
    BY <1>2, <2>1, LenProperties, EmptySeq
  <2> QED BY <1>0, <2>1, <2>2 DEF Understood
<1>4. /\ Grouped(o, [h \in 1..1 |-> Len(query[h])], 1) /\ cl \in Seq(Clauses) /\ N = o[2]
      /\ \A k \in 1..g : cl[o[1] + k] = query[1][k]
      /\ \E w : /\ \A k \in 1..g : w[o[1] + k] = IF k = 1 THEN "OR" ELSE "AND"
                /\ \A c \in 1..(o[2] - 1) : scanned.connectives[c] = w[c + 1]
  <2>1. /\ Grouped(o, [h \in 1..Len(query) |-> Len(query[h])], Len(query))
        /\ scanned.clauses \in Seq(Clauses) /\ Len(scanned.clauses) = o[Len(query) + 1]
        /\ \A h \in 1..Len(query) : \A k \in 1..Len(query[h]) : scanned.clauses[o[h] + k] = query[h][k]
        /\ \E w : /\ \A h \in 1..Len(query) : \A k \in 1..Len(query[h]) : w[o[h] + k] = IF k = 1 THEN "OR" ELSE "AND"
                  /\ \A c \in 1..(o[Len(query) + 1] - 1) : scanned.connectives[c] = w[c + 1]
    <3>1. FoundIn(query, o, scanned)
      BY <1>0, <1>1, Scanned
    <3> QED BY <3>1 DEF FoundIn
  <2>2. 1 \in 1..1 /\ 1 + 1 = 2
    OBVIOUS
  <2> QED BY <1>0, <1>2, <2>1, <2>2
<1>5. o[1] = 0 /\ N = g
  <2>1. o[1] = 0 /\ o[1 + 1] = o[1] + Len(query[1])
    BY <1>4 DEF Grouped
  <2> QED BY <1>2, <1>3, <1>4, <2>1
<1>6. \A k \in 1..N : cl[k] = query[1][k] /\ cl[k] \in Common
  BY <1>3, <1>4, <1>5
<1>7. \A c \in 1..(N - 1) : scanned.connectives[c] = "AND"
  <2>1. PICK w : /\ \A k \in 1..g : w[o[1] + k] = IF k = 1 THEN "OR" ELSE "AND"
                 /\ \A c \in 1..(o[2] - 1) : scanned.connectives[c] = w[c + 1]
    BY <1>4
  <2>2. \A k \in 1..g : w[k] = IF k = 1 THEN "OR" ELSE "AND"
    BY <1>5, <2>1
  <2> SUFFICES ASSUME NEW c \in 1..(N - 1) PROVE scanned.connectives[c] = "AND"
    OBVIOUS
  <2>3. c + 1 \in 1..g /\ c + 1 # 1
    BY <1>3, <1>5
  <2> QED BY <1>4, <1>5, <2>1, <2>2, <2>3
<1>8. PICK heads : heads = InOrder({k \in 1..N : k = 1 \/ scanned.connectives[k - 1] = "AND"})
  OBVIOUS
<1>9. heads = [k \in 1..N |-> k]
  <2>1. {k \in 1..N : k = 1 \/ scanned.connectives[k - 1] = "AND"} = 1..N
    <3>1. \A k \in 1..N : k # 1 => k - 1 \in 1..(N - 1)
      BY <1>3, <1>5
    <3> QED BY <1>7, <3>1
  <2> QED BY <1>3, <1>5, <1>8, <2>1, NumbersInOrder
<1>10. PICK parts : parts = [h \in DOMAIN heads |->
          FilterClause(cl[heads[h]], heads[h] < N /\ scanned.connectives[heads[h]] = "OR")]
  OBVIOUS
<1>11. parts = [k \in 1..N |-> compileClause(cl[k])]
  <2>1. ASSUME NEW k \in 1..N
        PROVE  FilterClause(cl[heads[k]], heads[k] < N /\ scanned.connectives[heads[k]] = "OR") = compileClause(cl[k])
    <3>1. heads[k] = k /\ k \in Nat /\ N \in Nat
      BY <1>3, <1>5, <1>9
    <3>2. k < N => k \in 1..(N - 1)
      BY <3>1
    <3>3. (heads[k] < N /\ scanned.connectives[heads[k]] = "OR") = FALSE
      BY <1>7, <3>1, <3>2
    <3>4. FilterClause(cl[k], FALSE) = compileClause(cl[k])
      BY <1>6, SameClause
    <3> QED BY <3>1, <3>3, <3>4
  <2>2. DOMAIN heads = 1..N
    BY <1>9
  <2> QED BY <1>10, <2>1, <2>2
<1>12. PICK F, P : F = [k \in DOMAIN parts |-> parts[k].frag] /\ P = [k \in DOMAIN parts |-> parts[k].params]
  OBVIOUS
<1>13. /\ DOMAIN parts = 1..N /\ N \in Nat
       /\ F = [k \in 1..N |-> compileClause(cl[k]).frag] /\ P = [k \in 1..N |-> compileClause(cl[k]).params]
  BY <1>3, <1>5, <1>11, <1>12
<1>14. PICK W, S : W = [frags |-> F, conns |-> Ands(parts)] /\ S = FlattenSeq(P)
  OBVIOUS
<1>15. PostFilter = {i \in Issues : WhereHolds(W, S, i) /\ canViewIssue(i)}
  BY <1>1, <1>2, <1>8, <1>10, <1>12, <1>14 DEF PostFilter
<1>16. \A k \in 1..N : F[k] = compileClause(cl[k]).frag /\ P[k] = compileClause(cl[k]).params /\ cl[k] \in Clauses
  BY <1>6, <1>13 DEF Clauses
<1>17. ASSUME NEW i \in Issues, NEW k \in 1..N
       PROVE  Bound(F[k], P[k]) /\ (TruthOf(F[k], P[k], i) <=> Means(query[1][k], i))
  <2>1. PICK f, ps, c : f = F[k] /\ ps = P[k] /\ c = cl[k]
    OBVIOUS
  <2>2. c \in Clauses /\ f = compileClause(c).frag /\ ps = compileClause(c).params
    BY <1>16, <2>1
  <2>3. Bound(f, ps) /\ f.t # "group" /\ (Holds(f, ps, i) <=> Means(c, i))
    BY <2>2, ClauseMeans
  <2>4. TruthOf(f, ps, i) <=> Holds(f, ps, i)
    BY <2>3 DEF TruthOf
  <2> QED BY <1>6, <2>1, <2>3, <2>4
<1>18. ASSUME NEW i \in Issues PROVE WhereHolds(W, S, i) <=> \A k \in 1..N : Means(query[1][k], i)
  <2>1. Lined(Values, N, P, F)
    <3>1. \A k \in 1..N : P[k] \in Seq(Values) /\ F[k].n = Len(P[k])
      BY <1>17 DEF Bound
    <3> QED BY <1>13, <3>1 DEF Lined
  <2>2. PICK R : F \in Seq(R)
    <3>1. PICK R : R = {F[k] : k \in 1..N}
      OBVIOUS
    <3>2. F \in [1..N -> R]
      BY <1>13, <3>1
    <3>3. F \in Seq(R)
      BY <1>13, <3>2
    <3> QED BY <3>3
  <2>3. W.frags = F /\ Len(F) = N
    BY <1>14, <2>1 DEF Lined
  <2>4. Shape(W, S)
    <3>1. Len(parts) = N
      BY <1>11, <1>13
    <3>2. W = [frags |-> F, conns |-> [k \in 1..(N - 1) |-> "AND"]]
      BY <1>14, <3>1 DEF Ands
    <3>3. Shape([frags |-> F, conns |-> [k \in 1..(N - 1) |-> "AND"]], FlattenSeq(P))
      BY <1>13, <2>1, <2>2, LinedShape
    <3> QED BY <1>14, <3>2, <3>3
  <2>5. WhereHolds(W, S, i) <=> All(W, S, i)
    BY <2>4, WhereAll
  <2>6. \A k \in 1..N : ParamsOf(F, S, k) = P[k]
    <3> SUFFICES ASSUME NEW k \in 1..N PROVE ParamsOf(F, S, k) = P[k]
      OBVIOUS
    <3>1. ParamsOf(F, FlattenSeq(P), k) = P[k]
      BY <2>1, ParamsFound
    <3> QED BY <1>14, <3>1
  <2>7. All(W, S, i) <=> \A k \in 1..N : TruthOf(F[k], P[k], i)
    BY <2>3, <2>6 DEF All
  <2> QED BY <1>17, <2>5, <2>7
<1>19. ASSUME NEW i \in Issues PROVE Asked(i) <=> \A k \in 1..N : Means(query[1][k], i)
  <2>1. status = "" /\ q = ""
    BY DEF Understood
  <2>2. Asked(i) <=> \E h \in DOMAIN query : \A k \in DOMAIN query[h] : Means(query[h][k], i)
    BY <1>0, <2>1 DEF Asked
  <2> QED BY <1>0, <1>3, <1>5, <2>2
<1>20. GetIssues = {i \in Issues : Asked(i) /\ Reachable(i) /\ canViewIssue(i)}
  BY Exact DEF SearchExact
<1> QED BY <1>15, <1>18, <1>19, <1>20

LEMMA Sound == ASSUME SearchInv PROVE SearchSound
BY Exact, Agree DEF SearchSound

\* How many clauses have been typed: the lengths of the groups, added up.
LEMMA TypedLength ==
  ASSUME NEW x \in Queries
  PROVE  /\ Len(x) \in Nat /\ Len(Lengths(x)) = Len(x) /\ \A k \in 1..Len(x) : Lengths(x)[k].n = Len(x[k])
         /\ Len(FlattenSeq(x)) = Starts(Lengths(x))[Len(x) + 1] /\ Len(FlattenSeq(x)) \in Nat
         /\ Sums(Starts(Lengths(x)), Lengths(x), Len(x))
<1>1. PICK n, F : n = Len(x) /\ F = Lengths(x)
  OBVIOUS
<1>2. n \in Nat /\ x \in [1..n -> Seq(Clauses)] /\ DOMAIN x = 1..n
  <2>1. x \in Seq(Seq(Clauses) \ {<<>>})
    BY DEF Queries
  <2>2. n \in Nat /\ DOMAIN x = 1..n /\ x \in [1..n -> Seq(Clauses) \ {<<>>}]
    BY <1>1, <2>1, LenProperties
  <2> QED BY <2>2
<1>3. F = [k \in 1..n |-> [n |-> Len(x[k])]]
  BY <1>1, <1>2 DEF Lengths
<1>4. Len(F) = n /\ \A k \in 1..n : F[k].n = Len(x[k])
  BY <1>2, <1>3
<1>5. Lined(Clauses, n, x, F)
  BY <1>2, <1>4 DEF Lined
<1>6. LaidOut(Clauses, n, x, Starts(F), FlattenSeq(x))
  BY <1>5, Laid
<1>7. Sums(Starts(F), F, Len(F))
  BY <1>2, <1>4, StartsSums
<1>8. n + 1 \in 1..(n + 1)
  BY <1>2
<1> QED BY <1>1, <1>2, <1>4, <1>6, <1>7, <1>8 DEF LaidOut

Summed(s, F, n) == \A k \in 1..(n + 1) : s[k] = IF k = 1 THEN 0 ELSE s[k - 1] + F[k - 1].n
Alike(F, H, n) == \A k \in 1..n : H[k].n = F[k].n
LEMMA SameStart ==
  ASSUME NEW n \in Nat, NEW m \in Nat, n <= m, NEW s, NEW t, NEW F, NEW H,
         Summed(s, F, n), Summed(t, H, m), Alike(F, H, n)
  PROVE  t[n + 1] = s[n + 1]
<1>1. \A k \in 1..(n + 1) : s[k] = IF k = 1 THEN 0 ELSE s[k - 1] + F[k - 1].n
  BY DEF Summed
<1>2. \A k \in 1..(n + 1) : t[k] = IF k = 1 THEN 0 ELSE t[k - 1] + H[k - 1].n
  <2>1. \A k \in 1..(n + 1) : k \in 1..(m + 1)
    OBVIOUS
  <2> QED BY <2>1 DEF Summed
<1> DEFINE Bad == {k \in 1..(n + 1) : t[k] # s[k]}
<1>3. Bad = {}
  <2> SUFFICES ASSUME Bad # {} PROVE FALSE
    OBVIOUS
  <2>1. PICK k \in Bad : \A l \in Bad : k <= l
    <3>1. Bad \subseteq Nat
      OBVIOUS
    <3> HIDE DEF Bad
    <3> QED BY <3>1, LeastOf
  <2>2. k \in 1..(n + 1) /\ t[k] # s[k]
    BY <2>1
  <2>3. k # 1
    BY <1>1, <1>2, <2>2
  <2>4. k - 1 \in 1..n /\ k - 1 \in 1..(n + 1) /\ k - 1 \notin Bad
    <3>1. k - 1 \in Bad => k <= k - 1
      BY <2>1
    <3> QED BY <2>2, <2>3, <3>1
  <2>5. t[k - 1] = s[k - 1] /\ H[k - 1].n = F[k - 1].n
    BY <2>4 DEF Alike
  <2>6. t[k] = t[k - 1] + H[k - 1].n /\ s[k] = s[k - 1] + F[k - 1].n
    BY <1>1, <1>2, <2>2, <2>3
  <2> QED BY <2>2, <2>5, <2>6
<1> QED BY <1>3

LEMMA TypedLonger ==
  ASSUME NEW x \in Queries, NEW y, NEW c \in Clauses,
         \/ x # <<>> /\ y = [x EXCEPT ![Len(x)] = Append(@, c)]
         \/ y = Append(x, <<c>>)
  PROVE  y \in Queries /\ Len(FlattenSeq(y)) = Len(FlattenSeq(x)) + 1
<1>1. PICK G, L, s : G = Len(x) /\ L = Lengths(x) /\ s = Starts(L)
  OBVIOUS
<1>2. /\ G \in Nat /\ Len(L) = G /\ \A k \in 1..G : L[k].n = Len(x[k])
      /\ Len(FlattenSeq(x)) = s[G + 1] /\ Len(FlattenSeq(x)) \in Nat /\ Sums(s, L, G)
  BY <1>1, TypedLength
<1>3. /\ x \in [1..G -> Seq(Clauses) \ {<<>>}] /\ DOMAIN x = 1..G
      /\ \A k \in 1..G : x[k] \in Seq(Clauses) /\ x[k] # <<>> /\ Len(x[k]) \in Nat
  <2>1. x \in Seq(Seq(Clauses) \ {<<>>})
    BY DEF Queries
  <2> QED BY <1>1, <2>1, LenProperties
<1>4. Summed(s, L, G)
  BY <1>2, SumsRule DEF Summed
<1>5. CASE x # <<>> /\ y = [x EXCEPT ![G] = Append(@, c)]
  <2>1. G \in 1..G
    <3>1. G # 0
      BY <1>1, <1>5, EmptySeq DEF Queries
    <3> QED BY <1>2, <3>1
  <2>2. PICK z, u : z = x[G] /\ u = Append(z, c)
    OBVIOUS
  <2>3. z \in Seq(Clauses) /\ u \in Seq(Clauses) /\ Len(u) = Len(z) + 1 /\ Len(z) \in Nat /\ u # <<>>
    <3>1. z \in Seq(Clauses)
      BY <1>3, <2>1, <2>2
    <3>2. u \in Seq(Clauses) /\ Len(u) = Len(z) + 1 /\ Len(z) \in Nat
      BY ONLY <2>2, <3>1, c \in Clauses
    <3>3. u # <<>>
      <4>1. Len(<<>>) = 0
        OBVIOUS
      <4> QED BY <3>2, <4>1
    <3> QED BY <3>1, <3>2, <3>3
  <2>4. y = [x EXCEPT ![G] = u]
    BY <1>5, <2>2
  <2>5. /\ y \in [1..G -> Seq(Clauses) \ {<<>>}] /\ y[G] = u
        /\ \A k \in 1..G : k # G => y[k] = x[k]
    BY <1>3, <2>1, <2>3, <2>4
  <2>6. y \in Queries /\ Len(y) = G
    BY <1>2, <2>5 DEF Queries
  <2>7. PICK M, t : M = Lengths(y) /\ t = Starts(M)
    OBVIOUS
  <2>8. (\A k \in 1..G : M[k].n = Len(y[k])) /\ Len(FlattenSeq(y)) = t[G + 1] /\ Sums(t, M, G)
    BY <2>6, <2>7, TypedLength
  <2>9. Summed(t, M, G)
    BY <2>8, SumsRule DEF Summed
  <2>10. PICK g : g = G - 1
    OBVIOUS
  <2>11. g \in Nat /\ g + 1 = G /\ g <= G
    BY <1>2, <2>1, <2>10
  <2>12. Summed(s, L, g)
    <3>1. \A k \in 1..(g + 1) : k \in 1..(G + 1)
      BY <1>2, <2>11
    <3> QED BY <1>4, <3>1 DEF Summed
  <2>13. Alike(L, M, g)
    <3>1. \A k \in 1..g : k \in 1..G /\ k # G
      BY <1>2, <2>11
    <3> QED BY <1>2, <2>5, <2>8, <3>1 DEF Alike
  <2>14. t[G] = s[G]
    BY <1>2, <2>9, <2>11, <2>12, <2>13, SameStart
  <2>15. t[G + 1] = t[G] + M[G].n /\ s[G + 1] = s[G] + L[G].n
    <3>1. PICK k : k = G + 1
      OBVIOUS
    <3>2. k \in 1..(G + 1) /\ k # 1 /\ k - 1 = G
      BY <1>2, <2>1, <3>1
    <3>3. t[k] = t[k - 1] + M[k - 1].n /\ s[k] = s[k - 1] + L[k - 1].n
      BY <1>4, <2>9, <3>2 DEF Summed
    <3> QED BY <3>1, <3>2, <3>3
  <2>16. M[G].n = L[G].n + 1 /\ L[G].n \in Nat
    BY <1>2, <2>1, <2>2, <2>3, <2>5, <2>8
  <2>17. s[G] \in Int
    <3>1. Lined(Clauses, G, x, L)
      BY <1>2, <1>3 DEF Lined
    <3>2. LaidOut(Clauses, G, x, s, FlattenSeq(x))
      BY <1>1, <3>1, Laid
    <3>3. G \in 1..(G + 1)
      BY <1>2, <2>1
    <3> QED BY <3>2, <3>3 DEF LaidOut
  <2>18. t[G + 1] = s[G + 1] + 1
    <3>1. PICK a, b, l, d, e : a = t[G] /\ b = s[G] /\ l = L[G].n /\ d = t[G + 1] /\ e = s[G + 1]
      OBVIOUS
    <3>2. a = b /\ b \in Int /\ l \in Nat /\ d = a + (l + 1) /\ e = b + l
      BY <2>14, <2>15, <2>16, <2>17, <3>1
    <3>3. d = e + 1
      BY ONLY <3>2
    <3> QED BY <3>1, <3>3
  <2> QED BY <1>2, <2>6, <2>8, <2>18
<1>6. CASE y = Append(x, <<c>>)
  <2>1. <<c>> \in Seq(Clauses) /\ Len(<<c>>) = 1 /\ <<c>> # <<>>
    OBVIOUS
  <2>2. PICK u : u = <<c>>
    OBVIOUS
  <2>3. /\ y \in Queries /\ Len(y) = G + 1 /\ y[G + 1] = u /\ \A k \in 1..G : y[k] = x[k]
    <3>1. x \in Seq(Seq(Clauses) \ {<<>>}) /\ u \in Seq(Clauses) \ {<<>>} /\ y = Append(x, u)
      BY <1>6, <2>1, <2>2 DEF Queries
    <3>2. /\ y \in Seq(Seq(Clauses) \ {<<>>}) /\ Len(y) = G + 1
          /\ y[G + 1] = u /\ \A k \in 1..G : y[k] = x[k]
      BY <1>1, <3>1, AppendProperties
    <3> QED BY <3>2 DEF Queries
  <2>4. PICK M, t, H : M = Lengths(y) /\ t = Starts(M) /\ H = G + 1
    OBVIOUS
  <2>5. (\A k \in 1..H : M[k].n = Len(y[k])) /\ Len(FlattenSeq(y)) = t[H + 1] /\ Sums(t, M, H)
    BY <2>3, <2>4, TypedLength
  <2>6. Summed(t, M, H)
    BY <2>5, SumsRule DEF Summed
  <2>7. Alike(L, M, G)
    <3>1. \A k \in 1..G : k \in 1..H
      BY <1>2, <2>4
    <3> QED BY <1>2, <2>3, <2>5, <3>1 DEF Alike
  <2>8. t[G + 1] = s[G + 1]
    <3>1. H \in Nat /\ G <= H
      BY <1>2, <2>4
    <3> QED BY <1>2, <1>4, <2>6, <2>7, <3>1, SameStart
  <2>9. t[H + 1] = t[H] + M[H].n
    <3>1. PICK k : k = H + 1
      OBVIOUS
    <3>2. k \in 1..(H + 1) /\ k # 1 /\ k - 1 = H
      BY <1>2, <2>4, <3>1
    <3>3. t[k] = t[k - 1] + M[k - 1].n
      BY <2>6, <3>2 DEF Summed
    <3> QED BY <3>1, <3>2, <3>3
  <2>10. M[H].n = 1
    <3>1. H \in 1..H
      BY <1>2, <2>4
    <3>2. M[H].n = Len(y[H])
      BY <2>5, <3>1
    <3> QED BY <2>1, <2>2, <2>3, <2>4, <3>2
  <2> QED BY <1>2, <2>3, <2>4, <2>5, <2>8, <2>9, <2>10
<1> QED BY <1>1, <1>5, <1>6

(***************************************************************************)
(* The search, at every query typed.                                       *)
(***************************************************************************)
SearchTyped == SearchInv /\ Typed \in Nat /\ Typed <= MaxClauses

LEMMA SearchStarts == ASSUME SearchInit PROVE SearchTyped
<1>1. query \in Queries
  BY EmptySeq DEF SearchInit, Queries
<1>2. Typed = 0
  <2>1. query = <<>> /\ FlattenSeq(<<>>) = <<>> /\ Len(<<>>) = 0
    BY DEF SearchInit, FlattenSeq
  <2> QED BY <2>1 DEF Typed
<1>3. MaxClauses \in Nat
  BY SearchAssumption
<1>4. status \in {"", "Open"} /\ q \in {"", "in"} /\ asker \in {"admin", "member", "stranger"}
  BY Zenon DEF SearchInit
<1>5. SearchInv
  BY <1>1, <1>4, Zenon DEF SearchInv
<1>6. Typed \in Nat /\ Typed <= MaxClauses
  BY <1>2, <1>3
<1> QED BY <1>5, <1>6, Zenon DEF SearchTyped

LEMMA SearchSteps == ASSUME SearchTyped, [SearchNext]_searchVars PROVE SearchTyped'
<1>1. CASE SearchNext
  <2>1. Typed < MaxClauses /\ MaxClauses \in Nat
    <3>1. MaxClauses \in Nat /\ MaxFiltered \in 0..MaxClauses
      BY SearchAssumption
    <3>2. PICK b \in BOOLEAN : b = (status = "" /\ q = "")
      BY Zenon
    <3>3. Typed < (IF b THEN MaxClauses ELSE MaxFiltered)
      BY <1>1, <3>2, Zenon DEF SearchNext
    <3>4. Typed \in Nat
      BY DEF SearchTyped
    <3>5. PICK l, m, f : l = Typed /\ m = MaxClauses /\ f = MaxFiltered
      OBVIOUS
    <3>6. m \in Nat /\ f \in 0..m /\ l \in Nat /\ (l < m \/ l < f)
      BY <3>1, <3>2, <3>3, <3>4, <3>5
    <3>7. l < m
      BY ONLY <3>6
    <3> QED BY ONLY <3>1, <3>5, <3>7
  <2>2. PICK c \in Clauses : And(c) \/ Or(c)
    BY <1>1 DEF SearchNext
  <2>3. PICK x, y : x = query /\ y = query'
    OBVIOUS
  <2>4. x \in Queries
    BY <2>3 DEF SearchTyped, SearchInv
  <2>5. \/ x # <<>> /\ y = [x EXCEPT ![Len(x)] = Append(@, c)]
        \/ y = Append(x, <<c>>)
    BY <2>2, <2>3 DEF And, Or
  <2>6. y \in Queries /\ Len(FlattenSeq(y)) = Len(FlattenSeq(x)) + 1
    BY <2>4, <2>5, TypedLonger
  <2>7. Typed = Len(FlattenSeq(x)) /\ Typed' = Len(FlattenSeq(y))
    BY <2>3 DEF Typed
  <2>8. Typed' \in Nat /\ Typed' <= MaxClauses
    BY <2>1, <2>6, <2>7 DEF SearchTyped
  <2>9. SearchInv'
    BY <1>1, <2>3, <2>6 DEF SearchNext, SearchTyped, SearchInv
  <2> QED BY <2>8, <2>9 DEF SearchTyped
<1>2. CASE UNCHANGED searchVars
  BY <1>2 DEF searchVars, SearchTyped, SearchInv, Typed
<1> QED BY <1>1, <1>2

\* Whatever is typed, what the search stands on holds.
THEOREM SearchInvariant == SearchSpec => []SearchTyped
<1>1. SearchInit => SearchTyped
  BY SearchStarts
<1>2. SearchTyped /\ [SearchNext]_searchVars => SearchTyped'
  BY SearchSteps
<1> QED BY <1>1, <1>2, PTL DEF SearchSpec

\* The query stays a list of groups of clauses, within its bound.
THEOREM SearchTypes == SearchSpec => []SearchTypeOK
<1>1. SearchTyped => SearchTypeOK
  <2> SUFFICES ASSUME SearchTyped PROVE SearchTypeOK
    OBVIOUS
  <2>1. query \in Seq(Seq(Clauses) \ {<<>>})
    BY DEF SearchTyped, SearchInv, Queries
  <2>2. ASSUME NEW g \in DOMAIN query, NEW k \in DOMAIN query[g] PROVE query[g][k] \in Clauses
    BY <2>1
  <2>3. ASSUME NEW g \in DOMAIN query PROVE query[g] # <<>>
    BY <2>1
  <2> QED BY <2>2, <2>3 DEF SearchTyped, SearchTypeOK
<1> QED BY <1>1, SearchInvariant, PTL

\* The list answers with what was asked for within the caller's scope, and the
\* filters page finds the same, for a query of any length.
THEOREM SearchStaysSound == SearchSpec => []SearchSound
<1>1. SearchTyped => SearchSound
  BY Sound DEF SearchTyped
<1> QED BY <1>1, SearchInvariant, PTL

(***************************************************************************)
(* The workspace (MCWorkspace): a behaviour of the whole is one of each    *)
(* part, so what is proved of a part holds in it.  The sprints there are   *)
(* an instance of SprintLifecycle with requests one at a time.             *)
(***************************************************************************)
SprintProofs == INSTANCE SprintLifecycle_proofs WITH
  Projects <- {"p", "q"}, Sprints <- {1, 2}, Legacy <- {1},
  Issues <- {1, 2}, ProjectOf <- <<"p", "q">>, Born <- {1},
  Admins <- {"a"}, Movers <- {"m"}, Statuses <- {"Backlog", "Done"},
  MaxRows <- 0, Opting <- {"q"}, Overlap <- FALSE,
  status <- stage, apc <- spc

\* Both instances unfold to the same text.
LEMMA SameSprints == SprintProofs!Spec <=> Sprint!Spec
<1>1. SprintProofs!Init <=> Sprint!Init
  BY DEF
      Sprint!Init, SprintProofs!Init, Sprint!NoRows, SprintProofs!NoRows, Sprint!NoSprint,
      SprintProofs!NoSprint, Sprint!NoJob, SprintProofs!NoJob, Sprint!NoMove,
      SprintProofs!NoMove, Sprint!NoIssue, SprintProofs!NoIssue, Sprint!Keep,
      SprintProofs!Keep
<1>2. SprintProofs!Next <=> Sprint!Next
  <2>1. ASSUME NEW a PROVE SprintProofs!Start(a) <=> Sprint!Start(a)
    BY DEF
        Sprint!Start, SprintProofs!Start, Sprint!ReadTarget, SprintProofs!ReadTarget,
        Sprint!ReadSetting, SprintProofs!ReadSetting, Sprint!CountActive,
        SprintProofs!CountActive, Sprint!MarkStarted, SprintProofs!MarkStarted,
        Sprint!ReadIssues, SprintProofs!ReadIssues, Sprint!InsertScope,
        SprintProofs!InsertScope, Sprint!AnswerStarted, SprintProofs!AnswerStarted,
        Sprint!Quiet, SprintProofs!Quiet, Sprint!Go, SprintProofs!Go, Sprint!NoJob,
        SprintProofs!NoJob, Sprint!sprintRows, SprintProofs!sprintRows, Sprint!scopeRows,
        SprintProofs!scopeRows, Sprint!issueRows, SprintProofs!issueRows, Sprint!OtherActive,
        SprintProofs!OtherActive, Sprint!Answer, SprintProofs!Answer, Sprint!AtMost,
        SprintProofs!AtMost, Sprint!NoRows, SprintProofs!NoRows, Sprint!Inside,
        SprintProofs!Inside, Sprint!NoSprint, SprintProofs!NoSprint
  <2>2. ASSUME NEW a PROVE SprintProofs!Assign(a) <=> Sprint!Assign(a)
    BY DEF
        Sprint!Assign, SprintProofs!Assign, Sprint!ReadHome, SprintProofs!ReadHome,
        Sprint!CountForeign, SprintProofs!CountForeign, Sprint!AssignProject,
        SprintProofs!AssignProject, Sprint!Quiet, SprintProofs!Quiet, Sprint!Go,
        SprintProofs!Go, Sprint!NoJob, SprintProofs!NoJob, Sprint!sprintRows,
        SprintProofs!sprintRows, Sprint!scopeRows, SprintProofs!scopeRows, Sprint!issueRows,
        SprintProofs!issueRows, Sprint!Inside, SprintProofs!Inside, Sprint!Answer,
        SprintProofs!Answer, Sprint!NoSprint, SprintProofs!NoSprint
  <2>3. ASSUME NEW a PROVE SprintProofs!Finish(a) <=> Sprint!Finish(a)
    BY DEF
        Sprint!Finish, SprintProofs!Finish, Sprint!ReadSprint, SprintProofs!ReadSprint,
        Sprint!SweepOpen, SprintProofs!SweepOpen, Sprint!CloseSprint, SprintProofs!CloseSprint,
        Sprint!EmptySprint, SprintProofs!EmptySprint, Sprint!DeleteSprint,
        SprintProofs!DeleteSprint, Sprint!Quiet, SprintProofs!Quiet, Sprint!Go,
        SprintProofs!Go, Sprint!NoJob, SprintProofs!NoJob, Sprint!sprintRows,
        SprintProofs!sprintRows, Sprint!scopeRows, SprintProofs!scopeRows, Sprint!issueRows,
        SprintProofs!issueRows, Sprint!SendBack, SprintProofs!SendBack, Sprint!Open,
        SprintProofs!Open, Sprint!Answer, SprintProofs!Answer, Sprint!Inside,
        SprintProofs!Inside, Sprint!NoRows, SprintProofs!NoRows, Sprint!NoSprint,
        SprintProofs!NoSprint
  <2>4. ASSUME NEW m PROVE SprintProofs!Place(m) <=> Sprint!Place(m)
    BY DEF
        Sprint!Place, SprintProofs!Place, Sprint!ReadIssue, SprintProofs!ReadIssue,
        Sprint!NewIssue, SprintProofs!NewIssue, Sprint!ReadDefault, SprintProofs!ReadDefault,
        Sprint!NameSprint, SprintProofs!NameSprint, Sprint!CopyIssue, SprintProofs!CopyIssue,
        Sprint!WriteIssue, SprintProofs!WriteIssue, Sprint!Quiet, SprintProofs!Quiet,
        Sprint!NoSprint, SprintProofs!NoSprint, Sprint!Plan, SprintProofs!Plan, Sprint!Placed,
        SprintProofs!Placed, Sprint!sprintRows, SprintProofs!sprintRows, Sprint!scopeRows,
        SprintProofs!scopeRows, Sprint!issueRows, SprintProofs!issueRows, Sprint!Burn,
        SprintProofs!Burn, Sprint!DefaultSprint, SprintProofs!DefaultSprint, Sprint!Keep,
        SprintProofs!Keep, Sprint!Fit, SprintProofs!Fit, Sprint!NoMove, SprintProofs!NoMove,
        Sprint!NoIssue, SprintProofs!NoIssue
  <2>5. SprintProofs!Others <=> Sprint!Others
    BY DEF
        Sprint!Others, SprintProofs!Others, Sprint!CreateSprint, SprintProofs!CreateSprint,
        Sprint!SetParallel, SprintProofs!SetParallel, Sprint!LeaveSprint,
        SprintProofs!LeaveSprint, Sprint!Restatus, SprintProofs!Restatus, Sprint!DeleteIssues,
        SprintProofs!DeleteIssues, Sprint!Restart, SprintProofs!Restart, Sprint!Quiet,
        SprintProofs!Quiet, Sprint!NoHandler, SprintProofs!NoHandler, Sprint!scopeRows,
        SprintProofs!scopeRows, Sprint!issueRows, SprintProofs!issueRows, Sprint!sprintRows,
        SprintProofs!sprintRows, Sprint!NoSprint, SprintProofs!NoSprint, Sprint!NoJob,
        SprintProofs!NoJob, Sprint!NoMove, SprintProofs!NoMove, Sprint!Inside,
        SprintProofs!Inside, Sprint!NoIssue, SprintProofs!NoIssue, Sprint!Keep,
        SprintProofs!Keep
  <2>6. SprintProofs!Observe <=> Sprint!Observe
    BY DEF
        Sprint!Observe, SprintProofs!Observe, Sprint!Starting, SprintProofs!Starting
  <2> QED BY <2>1, <2>2, <2>3, <2>4, <2>5, <2>6, Zenon DEF SprintProofs!Next, Sprint!Next, SprintProofs!Step, Sprint!Step
<1>3. SprintProofs!vars = Sprint!vars /\ SprintProofs!vars' = Sprint!vars'
  BY DEF
      Sprint!vars, SprintProofs!vars, Sprint!sprintRows, SprintProofs!sprintRows,
      Sprint!scopeRows, SprintProofs!scopeRows, Sprint!issueRows, SprintProofs!issueRows
<1>4. [SprintProofs!Next]_SprintProofs!vars <=> [Sprint!Next]_Sprint!vars
  BY <1>2, <1>3
<1> QED BY <1>1, <1>4, PTL DEF SprintProofs!Spec, Sprint!Spec

LEMMA SprintConstants == SprintProofs!SprintAssumption
BY WorkspaceAssumption DEF SprintProofs!SprintAssumption

LEMMA PartsMove ==
  ASSUME [WorkspaceNext]_workspaceVars
  PROVE  /\ [Next]_vars /\ [Sprint!Next]_Sprint!vars /\ [AccessNext]_accessVars
         /\ [TeamNext]_teamVars /\ [SearchNext]_searchVars
<1>1. sprintVars' = sprintVars => Sprint!vars' = Sprint!vars
  BY DEF sprintVars, Sprint!vars, Sprint!sprintRows, Sprint!scopeRows, Sprint!issueRows
<1>2. CASE UNCHANGED workspaceVars
  BY <1>1, <1>2 DEF workspaceVars
<1>3. CASE WorkspaceNext
  BY <1>1, <1>3, Zenon DEF WorkspaceNext
<1> QED BY <1>2, <1>3

\* A behaviour of the workspace is a behaviour of each of its parts.
THEOREM PartsKeep == WorkspaceSpec => Spec /\ Sprint!Spec /\ AccessSpec /\ TeamSpec /\ SearchSpec
<1>1. WorkspaceInit => Init /\ Sprint!Init /\ AccessInit /\ TeamInit /\ SearchInit
  BY DEF WorkspaceInit
<1> QED BY <1>1, PartsMove, PTL DEF WorkspaceSpec, Spec, Sprint!Spec, AccessSpec, TeamSpec, SearchSpec

\* An issue of the workspace never sits in a sprint of another project, shared
\* sprints that are assigned to a project included (sprints.js, issues.js).
THEOREM WorkspaceFits == WorkspaceSpec => []Fits
<1>1. SprintProofs!Spec => []SprintProofs!Fits
  BY SprintConstants, SprintProofs!IssuesFitSprints
<1>2. SprintProofs!Fits => Fits
  BY DEF Fits, SprintProofs!Fits, Sprint!Fits, SprintProofs!Fit, Sprint!Fit, SprintProofs!NoSprint, Sprint!NoSprint
<1> QED BY <1>1, <1>2, PartsKeep, SameSprints, PTL

\* In the workspace a sprint keeps its project, starts next to another active one of
\* its project only where the settings allow, and leaves nothing behind when it ends
\* or goes (sprints.js).  A later assignment may still give a project a second active
\* sprint.
THEOREM WorkspaceKeepsSprintRules == WorkspaceSpec => SprintRules
<1>1. SprintProofs!Spec => SprintProofs!SprintRules
  BY SprintConstants, SprintProofs!SprintsInOrder
<1>2. SprintProofs!HomeSticks <=> Sprint!HomeSticks
  BY DEF SprintProofs!vars, Sprint!vars, SprintProofs!sprintRows, Sprint!sprintRows, SprintProofs!scopeRows,
         Sprint!scopeRows, SprintProofs!issueRows, Sprint!issueRows, SprintProofs!HomeSticks, Sprint!HomeSticks
<1>3. SprintProofs!StartsAllowed <=> Sprint!StartsAllowed
  BY DEF SprintProofs!vars, Sprint!vars, SprintProofs!sprintRows, Sprint!sprintRows, SprintProofs!scopeRows,
         Sprint!scopeRows, SprintProofs!issueRows, Sprint!issueRows, SprintProofs!StartsAllowed, Sprint!StartsAllowed
<1>4. SprintProofs!LeavesNothing <=> Sprint!LeavesNothing
  BY DEF SprintProofs!vars, Sprint!vars, SprintProofs!sprintRows, Sprint!sprintRows, SprintProofs!scopeRows,
         Sprint!scopeRows, SprintProofs!issueRows, Sprint!issueRows, SprintProofs!LeavesNothing, Sprint!LeavesNothing, SprintProofs!Open, Sprint!Open,
         SprintProofs!Inside, Sprint!Inside
<1> QED BY <1>1, <1>2, <1>3, <1>4, PartsKeep, SameSprints
        DEF SprintRules, SprintProofs!SprintRules, Sprint!SprintRules

\* The workspace's search finds what was asked for, in every scene (jqlSearch.js,
\* issues.js, filters.js).
THEOREM WorkspaceSearched == WorkspaceSpec => []Searched
<1>1. SearchSound => Searched
  BY DEF Searched
<1> QED BY <1>1, PartsKeep, SearchStaysSound, PTL

\* Every part keeps its types, at rest and at work.
THEOREM WorkspaceTypes == WorkspaceSpec => []WorkspaceTypeOK
<1>1. SprintProofs!Spec => []SprintProofs!TypeOK
  BY SprintConstants, SprintProofs!SprintTypes
<1>2. SprintProofs!TypeOK => Sprint!TypeOK
  <2> SUFFICES ASSUME SprintProofs!TypeOK PROVE Sprint!TypeOK
    OBVIOUS
  <2>1. Sprint!SprintsOK
    BY DEF SprintProofs!TypeOK, SprintProofs!SprintsOK, Sprint!SprintsOK
  <2>2. Sprint!ScopeOK
    BY DEF SprintProofs!TypeOK, SprintProofs!ScopeOK, Sprint!ScopeOK
  <2>3. Sprint!IssuesOK
    BY DEF SprintProofs!TypeOK, SprintProofs!IssuesOK, Sprint!IssuesOK, SprintProofs!NoSprint, Sprint!NoSprint
  <2>4. Sprint!HandlersOK
    <3>1. /\ SprintProofs!Jobs = Sprint!Jobs /\ SprintProofs!Moves = Sprint!Moves
          /\ SprintProofs!Running = Sprint!Running
      BY DEF SprintProofs!Jobs, Sprint!Jobs, SprintProofs!Moves, Sprint!Moves, SprintProofs!Running, Sprint!Running,
             SprintProofs!Starting, Sprint!Starting, SprintProofs!NoSprint, Sprint!NoSprint,
             SprintProofs!NoIssue, Sprint!NoIssue, SprintProofs!Keep, Sprint!Keep
    <3>2. SprintProofs!HandlersOK
      BY DEF SprintProofs!TypeOK
    <3> QED BY <3>1, <3>2 DEF SprintProofs!HandlersOK, Sprint!HandlersOK
  <2> QED BY <2>1, <2>2, <2>3, <2>4 DEF SprintProofs!TypeOK, Sprint!TypeOK
<1>3. Sprint!TypeOK /\ AccessTypeOK /\ TeamTypeOK /\ SearchTypeOK => WorkspaceTypeOK
  BY DEF WorkspaceTypeOK
<1> QED BY <1>1, <1>2, <1>3, PartsKeep, SameSprints, AccessTypes, TeamTypes, SearchTypes, PTL
=============================================================================
