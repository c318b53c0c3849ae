--------------------------- MODULE Services_proofs ---------------------------
(***************************************************************************)
(* What goes on by itself once begun.  The deliveries of webhooks: what    *)
(* they keep for every set of hooks, fires and replays, whatever admins    *)
(* and crashes do meanwhile, and that every step of them is one the        *)
(* abstract Delivery allows.  The digests: what their watermarks may pass. *)
(* The scheduled rules: how long each of them waits.  The throttling of    *)
(* logins: what a window may hold.  The page editor: that what it saves is *)
(* never older than what is there.  The live updates of issue pages: what  *)
(* rooms and pages may hold.  And the services put together.               *)
(***************************************************************************)
EXTENDS MCServices, FiniteSetTheorems, SequenceTheorems, TLAPS

-----------------------------------------------------------------------------
(***************************************************************************)
(* Webhooks.  The hooks a fire has still to serve are distinct and among   *)
(* those it found; it has asked the first of them as often as it counts    *)
(* and the others not at all; and those it has left are told the truth of. *)
(***************************************************************************)
Underway(f) == fire[f].pc \in {"send", "log"}
Distinct(s) == \A i, j \in DOMAIN s : s[i] = s[j] => i = j

Lined(f) ==
  /\ fire[f].left # <<>> <=> Underway(f)
  /\ ~Underway(f) => fire[f].tries = 0
  /\ Distinct(fire[f].left)
  /\ Range(fire[f].left) \subseteq Range(fire[f].all)

Tallied(f) ==
  /\ fire[f].pc = "new" => \A h \in Hooks : sent[f][h].n = 0
  /\ Underway(f) =>
       /\ sent[f][Head(fire[f].left)].n = fire[f].tries
       /\ \A i \in 2..Len(fire[f].left) : sent[f][fire[f].left[i]].n = 0
  /\ fire[f].pc = "send" => fire[f].tries < MAX_RETRIES
  /\ fire[f].pc = "log" =>
       /\ fire[f].tries > 0
       /\ sent[f][Head(fire[f].left)].last = fire[f].answer
       /\ fire[f].answer = "none" => fire[f].tries = MAX_RETRIES

ToldOf(f) ==
  /\ Underway(f) \/ fire[f].pc = "over" =>
       \A h \in Range(fire[f].all) \ Range(fire[f].left) : Told(f, h)
  /\ fire[f].pc = "lost" =>
       \E h \in Range(fire[f].all) : ~There(h) /\ sent[f][h].n = MAX_RETRIES

FireInv(f) == Lined(f) /\ Tallied(f) /\ ToldOf(f)
HookInv == HookTypeOK /\ \A f \in Fires : FireInv(f)

\* The type of a fire.
Fired == [pc : {"new", "send", "log", "over", "lost", "cut"}, left : Seq(Hooks), all : Seq(Hooks),
          tries : 0..MAX_RETRIES, answer : Outcomes]

LEMMA FireTyped ==
  ASSUME HookTypeOK, NEW f \in Fires
  PROVE  /\ fire \in [Fires -> Fired] /\ fire[f] \in Fired
         /\ Range(fire[f].all) \subseteq Hooks /\ Range(fire[f].left) \subseteq Hooks
<1>1. fire \in [Fires -> Fired] /\ fire[f] \in Fired
  BY DEF HookTypeOK, Fired
<1>2. fire[f].all \in Seq(Hooks) /\ fire[f].left \in Seq(Hooks)
  BY <1>1 DEF Fired
<1>3. /\ \A i \in DOMAIN fire[f].all : fire[f].all[i] \in Hooks
      /\ \A i \in DOMAIN fire[f].left : fire[f].left[i] \in Hooks
  BY <1>2
<1> QED BY <1>1, <1>3 DEF Range

\* The hooks that listen, in any order, are a queue of distinct hooks.
LEMMA Ordered ==
  ASSUME NEW S \in SUBSET Hooks, NEW s \in SetToSeqs(S)
  PROVE  s \in Seq(Hooks) /\ Distinct(s)
<1>1. IsFiniteSet(S)
  BY WebhooksAssumption, FS_Subset
<1>2. Cardinality(S) \in Nat
  BY <1>1, FS_CardinalityType
<1>3. s \in [1..Cardinality(S) -> S] /\ \A i, j \in 1..Cardinality(S) : i # j => s[i] # s[j]
  BY DEF SetToSeqs
<1> QED BY <1>2, <1>3 DEF Distinct

\* What is told of a hook stays told as long as the fire neither asks it again
\* nor has its rows changed.
LEMMA ToldKept ==
  ASSUME NEW f, NEW h, Told(f, h), There(h)' => There(h), sent'[f][h] = sent[f][h],
         There(h)' => \A row : row.hook = h /\ row.by = f => (row \in log' <=> row \in log)
  PROVE  Told(f, h)'
BY DEF Told

\* A fire that a step does not serve keeps its invariant.
LEMMA FireRests ==
  ASSUME HookTypeOK, NEW f \in Fires, FireInv(f), fire'[f] = fire[f], sent'[f] = sent[f],
         \A h \in Hooks : There(h)' => There(h),
         \A h \in Hooks : There(h)' =>
            \A row : row.hook = h /\ row.by = f => (row \in log' <=> row \in log)
  PROVE  FireInv(f)'
<1>1. Lined(f)' /\ Tallied(f)'
  BY DEF FireInv, Lined, Tallied, Underway
<1>2. Range(fire[f].all) \subseteq Hooks
  BY FireTyped
<1>3. \A h \in Hooks : Told(f, h) => Told(f, h)'
  BY ToldKept
<1>4. ToldOf(f)'
  BY <1>2, <1>3 DEF FireInv, ToldOf, Underway
<1> QED BY <1>1, <1>4 DEF FireInv

\* A fire begins with every hook still to be asked.
LEMMA FireBegins ==
  ASSUME HookTypeOK, NEW f \in Fires, FireInv(f), Fire(f)
  PROVE  HookTypeOK' /\ FireInv(f)'
<1>1. PICK s \in SetToSeqs({h \in Hooks : hook[h] = "listens"}) :
        /\ fire[f].pc = "new"
        /\ fire' = [fire EXCEPT ![f] = [@ EXCEPT !.left = s, !.all = s,
                                          !.pc = IF s = <<>> THEN "over" ELSE "send"]]
        /\ UNCHANGED <<hook, edits, replay, log, lastLog, sent>>
  BY DEF Fire
<1>2. s \in Seq(Hooks) /\ Distinct(s)
  BY Ordered
<1>3. /\ fire'[f].left = s /\ fire'[f].all = s /\ fire'[f].tries = fire[f].tries
      /\ fire'[f].pc = IF s = <<>> THEN "over" ELSE "send"
      /\ fire[f].tries = 0
  BY <1>1 DEF HookTypeOK, FireInv, Lined, Underway
<1>4. HookTypeOK'
  <2> DEFINE new == [fire[f] EXCEPT !.left = s, !.all = s, !.pc = IF s = <<>> THEN "over" ELSE "send"]
  <2>1. new \in Fired
    BY <1>2, FireTyped DEF Fired
  <2>2. fire' = [fire EXCEPT ![f] = new]
    BY <1>1
  <2> HIDE DEF new
  <2>3. fire' \in [Fires -> Fired]
    BY <2>1, <2>2, FireTyped
  <2> QED BY <2>3, <1>1 DEF HookTypeOK, Fired
<1>5. Lined(f)'
  BY <1>2, <1>3 DEF Lined, Underway
<1>6. \A i \in 1..Len(s) : s[i] \in Hooks
  BY <1>2
<1>7. s # <<>> => Head(s) = s[1] /\ Len(s) >= 1
  BY <1>2
<1>8. \A h \in Hooks : sent'[f][h].n = 0
  BY <1>1 DEF FireInv, Tallied
<1>9. Tallied(f)'
  BY <1>1, <1>2, <1>3, <1>6, <1>7, <1>8, WebhooksAssumption DEF Tallied, Underway
<1>10. ToldOf(f)'
  BY <1>1, <1>3 DEF ToldOf, Underway
<1> QED BY <1>4, <1>5, <1>9, <1>10 DEF FireInv

\* The first of a queue of distinct hooks is none of the others.
LEMMA Queue ==
  ASSUME HookTypeOK, NEW f \in Fires, Lined(f), Underway(f)
  PROVE  LET left == fire[f].left
         IN  /\ left \in Seq(Hooks) /\ Len(left) \in Nat /\ Len(left) >= 1
             /\ Head(left) = left[1] /\ Head(left) \in Hooks /\ Head(left) \in Range(fire[f].all)
             /\ Head(left) \in Range(left)
             /\ \A i \in 2..Len(left) : left[i] # Head(left)
             /\ Tail(left) \in Seq(Hooks) /\ Distinct(Tail(left))
             /\ Len(Tail(left)) = Len(left) - 1
             /\ \A i \in 1..(Len(left) - 1) : Tail(left)[i] = left[i + 1]
             /\ Range(left) = Range(Tail(left)) \cup {Head(left)}
<1> DEFINE left == fire[f].left
<1>1. left \in Seq(Hooks) /\ left # <<>> /\ Distinct(left)
  BY DEF HookTypeOK, Lined
<1>2. Len(left) \in Nat /\ Len(left) >= 1 /\ Head(left) = left[1] /\ DOMAIN left = 1..Len(left)
  BY <1>1
<1>3. Head(left) \in Hooks /\ Head(left) \in Range(left)
  BY <1>1, <1>2 DEF Range
<1>4. \A i \in 2..Len(left) : left[i] # Head(left)
  BY <1>1, <1>2 DEF Distinct
<1>5. /\ Tail(left) \in Seq(Hooks) /\ Len(Tail(left)) = Len(left) - 1
      /\ \A i \in 1..(Len(left) - 1) : Tail(left)[i] = left[i + 1]
  BY <1>1, <1>2
<1>6. DOMAIN Tail(left) = 1..(Len(left) - 1)
  BY <1>5
<1>7. Distinct(Tail(left))
  <2> SUFFICES ASSUME NEW i \in 1..(Len(left) - 1), NEW j \in 1..(Len(left) - 1),
                      Tail(left)[i] = Tail(left)[j]
               PROVE  i = j
    BY <1>6 DEF Distinct
  <2>1. left[i + 1] = left[j + 1] /\ i + 1 \in DOMAIN left /\ j + 1 \in DOMAIN left
    BY <1>2, <1>5
  <2> QED BY <2>1, <1>1 DEF Distinct
<1>8. Range(left) = Range(Tail(left)) \cup {Head(left)}
  <2>1. ASSUME NEW i \in DOMAIN left PROVE left[i] \in Range(Tail(left)) \cup {Head(left)}
    <3>1. CASE i = 1
      BY <3>1, <1>2
    <3>2. CASE i # 1
      <4>1. i - 1 \in DOMAIN Tail(left) /\ Tail(left)[i - 1] = left[i]
        BY <3>2, <1>2, <1>5, <1>6
      <4> QED BY <4>1 DEF Range
    <3> QED BY <3>1, <3>2
  <2>2. ASSUME NEW i \in DOMAIN Tail(left) PROVE Tail(left)[i] \in Range(left)
    <3>1. i + 1 \in DOMAIN left /\ Tail(left)[i] = left[i + 1]
      BY <1>2, <1>5, <1>6
    <3> QED BY <3>1 DEF Range
  <2> QED BY <2>1, <2>2, <1>3 DEF Range
<1>9. Head(left) \in Range(fire[f].all)
  BY <1>3 DEF Lined
<1> QED BY <1>1, <1>2, <1>3, <1>4, <1>5, <1>7, <1>8, <1>9

\* An attempt is counted, and what it was answered kept.
LEMMA SendKeeps ==
  ASSUME HookTypeOK, NEW f \in Fires, FireInv(f), Send(f)
  PROVE  HookTypeOK' /\ FireInv(f)'
<1> DEFINE left == fire[f].left
           h == Head(left)
<1> DEFINE asked(a) == [fire[f] EXCEPT !.tries = @ + 1, !.answer = a]
<1>0. PICK a \in Outcomes :
        /\ fire[f].pc = "send"
        /\ sent' = [sent EXCEPT ![f][Head(asked(a).left)] = [n |-> @.n + 1, last |-> a]]
        /\ fire' = [fire EXCEPT ![f] = IF a = "none" /\ ~Exhausted(asked(a)) THEN asked(a)
                                       ELSE [asked(a) EXCEPT !.pc = "log"]]
        /\ UNCHANGED <<hook, edits, replay, log, lastLog>>
  BY DEF Send
<1>a. /\ asked(a).left = left /\ asked(a).all = fire[f].all /\ asked(a).answer = a
      /\ asked(a).tries = fire[f].tries + 1 /\ asked(a).pc = fire[f].pc
  BY FireTyped DEF Fired
<1>1. /\ fire[f].pc = "send"
      /\ sent' = [sent EXCEPT ![f][h] = [n |-> @.n + 1, last |-> a]]
      /\ fire' = [fire EXCEPT ![f] = IF a = "none" /\ ~Exhausted(asked(a)) THEN asked(a)
                                     ELSE [asked(a) EXCEPT !.pc = "log"]]
      /\ UNCHANGED <<hook, edits, replay, log, lastLog>>
  BY <1>0, <1>a
<1>2. fire[f].tries < MAX_RETRIES /\ fire[f].tries \in Nat /\ MAX_RETRIES \in Nat /\ Underway(f)
  BY <1>1, WebhooksAssumption DEF FireInv, Tallied, HookTypeOK, Underway
<1>3. /\ left \in Seq(Hooks) /\ Len(left) \in Nat /\ Len(left) >= 1 /\ h = left[1] /\ h \in Hooks
      /\ h \in Range(left) /\ \A i \in 2..Len(left) : left[i] # h
  BY <1>2, Queue DEF FireInv
<1>4. /\ fire'[f].left = left /\ fire'[f].all = fire[f].all /\ fire'[f].tries = fire[f].tries + 1
      /\ fire'[f].answer = a
      /\ fire'[f].pc = IF a = "none" /\ fire[f].tries + 1 # MAX_RETRIES THEN "send" ELSE "log"
      /\ fire' \in [Fires -> Fired]
  <2> DEFINE new == IF a = "none" /\ ~Exhausted(asked(a)) THEN asked(a) ELSE [asked(a) EXCEPT !.pc = "log"]
  <2>1. asked(a) \in Fired
    <3>1. fire[f].tries + 1 \in 0..MAX_RETRIES
      BY <1>2
    <3> QED BY <3>1, FireTyped DEF Fired
  <2>2. new \in Fired
    BY <2>1 DEF Fired
  <2>3. /\ new.left = left /\ new.all = fire[f].all /\ new.tries = fire[f].tries + 1 /\ new.answer = a
        /\ new.pc = IF a = "none" /\ fire[f].tries + 1 # MAX_RETRIES THEN "send" ELSE "log"
    <3>1. Exhausted(asked(a)) <=> fire[f].tries + 1 = MAX_RETRIES
      BY <1>a DEF Exhausted
    <3> HIDE DEF asked
    <3> QED BY <3>1, <2>1, <1>a, <1>1 DEF Fired
  <2>4. fire' = [fire EXCEPT ![f] = new]
    BY <1>1
  <2> HIDE DEF new
  <2>5. fire'[f] = new /\ fire' \in [Fires -> Fired]
    BY <2>2, <2>4, FireTyped
  <2> QED BY <2>3, <2>5
<1> HIDE DEF asked
<1>5. HookTypeOK'
  <2>1. fire' \in [Fires -> Fired]
    BY <1>4
  <2>2. sent' \in [Fires -> [Hooks -> [n : Nat, last : Outcomes]]]
    BY <1>1, <1>3 DEF HookTypeOK
  <2> QED BY <1>1, <2>1, <2>2 DEF HookTypeOK, Fired
<1>6. /\ sent'[f][h].n = fire[f].tries + 1 /\ sent'[f][h].last = a
      /\ \A g \in Hooks \ {h} : sent'[f][g] = sent[f][g]
  BY <1>1, <1>2, <1>3 DEF FireInv, Tallied, HookTypeOK
<1>7. Underway(f)'
  BY <1>4 DEF Underway
<1>8. Lined(f)'
  BY <1>2, <1>3, <1>4, <1>7 DEF FireInv, Lined
<1>9. Tallied(f)'
  <2>1. \A i \in 2..Len(left) : left[i] \in Hooks \ {h} /\ sent[f][left[i]].n = 0
    BY <1>2, <1>3 DEF FireInv, Tallied
  <2>2. \A i \in 2..Len(left) : sent'[f][left[i]].n = 0
    BY <2>1, <1>6
  <2>3. fire'[f].pc = "send" => fire'[f].tries < MAX_RETRIES
    BY <1>2, <1>4
  <2>4. /\ fire'[f].tries > 0 /\ fire'[f].pc # "new"
        /\ fire'[f].pc = "log" /\ fire'[f].answer = "none" => fire'[f].tries = MAX_RETRIES
    BY <1>2, <1>4
  <2> QED BY <2>2, <2>3, <2>4, <1>4, <1>6 DEF Tallied
<1>10. ToldOf(f)'
  <2>1. ASSUME NEW g \in Range(fire[f].all) \ Range(left) PROVE Told(f, g)'
    <3>1. g \in Hooks \ {h} /\ Told(f, g)
      BY <2>1, <1>2, <1>3, FireTyped DEF FireInv, ToldOf
    <3>2. sent'[f][g] = sent[f][g] /\ There(g)' = There(g) /\ log' = log
      BY <3>1, <1>1, <1>6 DEF There
    <3> QED BY <3>1, <3>2, ToldKept
  <2> QED BY <2>1, <1>4, <1>7 DEF ToldOf, Underway
<1> QED BY <1>5, <1>8, <1>9, <1>10 DEF FireInv

\* A row goes to the hook that was asked, and the fire tries again, leaves the
\* hook, or, its last row refused, gives up.
LEMMA LogKeeps ==
  ASSUME HookTypeOK, NEW f \in Fires, FireInv(f), Log(f)
  PROVE  HookTypeOK' /\ FireInv(f)'
<1>q. PICK q, left, h : q = fire[f] /\ left = q.left /\ h = Head(left)
  OBVIOUS
<1> DEFINE row == [id |-> lastLog + 1, hook |-> h, by |-> f, ok |-> q.answer = "ok"]
<1>1. q.pc = "log" /\ Underway(f) /\ UNCHANGED <<hook, edits, replay, sent>>
  BY <1>q DEF Log, Underway
<1>2. /\ left \in Seq(Hooks) /\ Len(left) \in Nat /\ Len(left) >= 1 /\ h = left[1] /\ h \in Hooks
      /\ h \in Range(left) /\ h \in Range(q.all) /\ \A i \in 2..Len(left) : left[i] # h
      /\ Tail(left) \in Seq(Hooks) /\ Distinct(Tail(left)) /\ Len(Tail(left)) = Len(left) - 1
      /\ \A i \in 1..(Len(left) - 1) : Tail(left)[i] = left[i + 1]
      /\ Range(left) = Range(Tail(left)) \cup {h}
  BY <1>q, <1>1, Queue DEF FireInv
<1>3. /\ q.tries > 0 /\ q.tries \in 0..MAX_RETRIES /\ sent[f][h].n = q.tries
      /\ sent[f][h].last = q.answer /\ q \in Fired /\ fire \in [Fires -> Fired]
      /\ \A i \in 2..Len(left) : sent[f][left[i]].n = 0
  BY <1>q, <1>1, FireTyped DEF FireInv, Tallied, Fired
<1>4. MAX_RETRIES \in Nat /\ lastLog \in Nat
  BY WebhooksAssumption DEF HookTypeOK
<1>f. q \in Fired /\ left = q.left
  BY <1>q, FireTyped
<1>r. ASSUME There(h)
      PROVE  /\ log' = log \cup {row} /\ lastLog' = lastLog + 1
             /\ log' \subseteq [id : 1..lastLog', hook : Hooks, by : Fires \cup Replays, ok : BOOLEAN]
  <2>1. log' = log \cup {row} /\ lastLog' = lastLog + 1
    BY <1>q, <1>r DEF Log, Insert
  <2>2. row \in [id : 1..lastLog', hook : Hooks, by : Fires \cup Replays, ok : BOOLEAN]
    BY <2>1, <1>2, <1>4
  <2>3. log \subseteq [id : 1..lastLog', hook : Hooks, by : Fires \cup Replays, ok : BOOLEAN]
    <3>1. 1..lastLog \subseteq 1..lastLog'
      BY <2>1, <1>4
    <3> QED BY <3>1 DEF HookTypeOK
  <2> QED BY <2>1, <2>2, <2>3
<1>t. ASSUME NEW new \in Fired, fire' = [fire EXCEPT ![f] = new] PROVE HookTypeOK' /\ fire'[f] = new
  <2>1. fire' \in [Fires -> Fired] /\ fire'[f] = new
    BY <1>t, <1>3
  <2>2. /\ lastLog' \in Nat
        /\ log' \subseteq [id : 1..lastLog', hook : Hooks, by : Fires \cup Replays, ok : BOOLEAN]
    <3>1. CASE There(h)
      BY <3>1, <1>r, <1>4
    <3>2. CASE ~There(h)
      BY <1>q, <3>2 DEF Log, HookTypeOK
    <3> QED BY <3>1, <3>2
  <2> QED BY <2>1, <2>2, <1>1 DEF HookTypeOK, Fired
<1>k. ASSUME NEW g \in Range(q.all) \ Range(left) PROVE Told(f, g)'
  <2>1. g \in Hooks /\ g # h /\ Told(f, g)
    BY <1>q, <1>1, <1>2, <1>k, FireTyped DEF FireInv, ToldOf
  <2>2. \A r : r.hook = g => (r \in log' <=> r \in log)
    <3>1. CASE There(h)
      BY <3>1, <2>1, <1>r
    <3>2. CASE ~There(h)
      BY <1>q, <3>2 DEF Log
    <3> QED BY <3>1, <3>2
  <2>3. There(g)' = There(g) /\ sent'[f][g] = sent[f][g]
    BY <1>1 DEF There
  <2> QED BY <2>1, <2>2, <2>3, ToldKept
<1>5. CASE fire' = [fire EXCEPT ![f] = [q EXCEPT !.pc = "send"]] /\ ~Exhausted(q)
  <2>1. [q EXCEPT !.pc = "send"] \in Fired
    BY <1>3 DEF Fired
  <2>2. HookTypeOK' /\ fire'[f] = [q EXCEPT !.pc = "send"]
    BY <2>1, <1>5, <1>t
  <2>3. /\ fire'[f].left = left /\ fire'[f].all = q.all /\ fire'[f].tries = q.tries /\ fire'[f].pc = "send"
        /\ q.tries < MAX_RETRIES
    <3>1. [q EXCEPT !.pc = "send"].tries = q.tries
      BY <1>f DEF Fired
    <3>2. q.tries < MAX_RETRIES
      BY <1>3, <1>4, <1>5 DEF Exhausted
    <3> QED BY <2>2, <3>1, <3>2, <1>f DEF Fired
  <2>4. Lined(f)' /\ Tallied(f)'
    BY <2>3, <1>q, <1>1, <1>3 DEF FireInv, Lined, Tallied, Underway
  <2>5. ToldOf(f)'
    BY <2>3, <1>q, <1>k DEF ToldOf
  <2> QED BY <2>2, <2>4, <2>5 DEF FireInv
<1>6. CASE fire' = [fire EXCEPT ![f] = NextHook(q)] /\ There(h) /\ (q.answer = "ok" \/ Exhausted(q))
  <2>1. NextHook(q) \in Fired
    <3>1. 0 \in 0..MAX_RETRIES /\ Tail(q.left) \in Seq(Hooks)
      BY <1>2, <1>4, <1>f
    <3> QED BY <3>1, <1>f DEF NextHook, Fired
  <2>2. HookTypeOK' /\ fire'[f] = NextHook(q)
    BY <2>1, <1>6, <1>t
  <2>3. /\ fire'[f].left = Tail(left) /\ fire'[f].all = q.all /\ fire'[f].tries = 0
        /\ fire'[f].pc = IF Len(left) = 1 THEN "over" ELSE "send"
    BY <2>2, <1>f DEF NextHook, Fired
  <2>0. Tail(left) = <<>> <=> Len(left) = 1
    BY <1>2
  <2>4. Lined(f)'
    <3>1. Range(Tail(left)) \subseteq Range(q.all)
      BY <1>q, <1>1, <1>2 DEF FireInv, Lined
    <3> QED BY <3>1, <2>0, <2>3, <1>2 DEF Lined, Underway
  <2>5. Tallied(f)'
    <3>1. fire'[f].pc = "send" => Len(left) >= 2 /\ Head(Tail(left)) = left[2]
      BY <2>3, <1>2
    <3>2. \A i \in 2..Len(Tail(left)) : Tail(left)[i] = left[i + 1] /\ i + 1 \in 2..Len(left)
      BY <1>2
    <3>3. Underway(f)' => fire'[f].pc = "send" /\ Head(fire'[f].left) = left[2] /\ sent'[f][left[2]].n = 0
      <4>1. Underway(f)' => fire'[f].pc = "send"
        BY <2>3 DEF Underway
      <4>2. Len(left) >= 2 => sent[f][left[2]].n = 0
        BY <1>2, <1>3
      <4> QED BY <4>1, <4>2, <3>1, <2>3, <1>1
    <3>4. \A i \in 2..Len(Tail(left)) : sent'[f][Tail(left)[i]].n = 0
      BY <3>2, <1>1, <1>3
    <3>5. 0 < MAX_RETRIES /\ fire'[f].pc # "new" /\ fire'[f].pc # "log"
      BY <2>3, <1>4, WebhooksAssumption
    <3> QED BY <3>3, <3>4, <3>5, <2>3 DEF Tallied
  <2>6. Told(f, h)'
    <3>1. row \in log' /\ row.hook = h /\ row.by = f /\ row.id = lastLog + 1 /\ (row.ok <=> q.answer = "ok")
      BY <1>6, <1>r
    <3>2. \A other \in log' : other.id <= row.id
      BY <3>1, <1>4, <1>6, <1>r DEF HookTypeOK
    <3>3. sent'[f][h].n > 0 /\ sent'[f][h].last = q.answer /\ (row.ok \/ sent'[f][h].n = MAX_RETRIES)
      BY <3>1, <1>1, <1>3, <1>6 DEF Exhausted
    <3>4. row.ok <=> sent'[f][h].last = "ok"
      BY <3>1, <3>3
    <3> HIDE DEF row
    <3> QED BY <3>1, <3>2, <3>3, <3>4 DEF Told
  <2>7. ToldOf(f)'
    <3>1. \A g \in Range(q.all) \ Range(Tail(left)) : Told(f, g)'
      BY <2>6, <1>2, <1>k
    <3>2. fire'[f].pc # "lost"
      BY <2>3
    <3> QED BY <3>1, <3>2, <2>3 DEF ToldOf
  <2> QED BY <2>2, <2>4, <2>5, <2>7 DEF FireInv
<1>7. CASE /\ fire' = [fire EXCEPT ![f] = Rest("lost", q.all)]
           /\ ~There(h) /\ Exhausted(q)
  <2>1. Rest("lost", q.all) \in Fired
    <3>1. q.all \in Seq(Hooks) /\ <<>> \in Seq(Hooks) /\ 0 \in 0..MAX_RETRIES
      BY <1>f, <1>4 DEF Fired
    <3> QED BY <3>1 DEF Rest, Outcomes, Fired
  <2>2. HookTypeOK' /\ fire'[f] = Rest("lost", q.all)
    BY <2>1, <1>7, <1>t
  <2>3. fire'[f].left = <<>> /\ fire'[f].all = q.all /\ fire'[f].tries = 0 /\ fire'[f].pc = "lost"
    BY <2>2 DEF Rest
  <2>4. Lined(f)' /\ Tallied(f)'
    BY <2>3 DEF Lined, Tallied, Underway, Distinct, Range
  <2>5. ~There(h)' /\ sent'[f][h].n = MAX_RETRIES
    BY <1>1, <1>3, <1>7 DEF There, Exhausted
  <2>6. ToldOf(f)'
    BY <2>3, <2>5, <1>2 DEF ToldOf, Underway
  <2> QED BY <2>2, <2>4, <2>6 DEF FireInv
<1>8. \/ fire' = [fire EXCEPT ![f] = [q EXCEPT !.pc = "send"]] /\ ~Exhausted(q)
      \/ fire' = [fire EXCEPT ![f] = NextHook(q)] /\ There(h) /\ (q.answer = "ok" \/ Exhausted(q))
      \/ /\ fire' = [fire EXCEPT ![f] = Rest("lost", q.all)]
         /\ ~There(h) /\ Exhausted(q)
  BY <1>q DEF Log
<1> QED BY <1>5, <1>6, <1>7, <1>8

\* Every step keeps the invariant: the fire it serves by the lemmas above, the
\* others because it leaves their rows alone.
LEMMA HookStep ==
  ASSUME HookInv, [HookNext]_hookVars
  PROVE  HookInv'
<1>t. HookTypeOK /\ \A f \in Fires : FireInv(f)
  BY DEF HookInv
<1>n. lastLog \in Nat /\ 1..lastLog \subseteq 1..(lastLog + 1) /\ lastLog + 1 \in 1..(lastLog + 1)
  BY <1>t DEF HookTypeOK
<1>k. ASSUME NEW g \in Fires, fire'[g] = fire[g], sent'[g] = sent[g], hook' = hook,
             \A row : row.by = g => (row \in log' <=> row \in log)
      PROVE  FireInv(g)'
  BY <1>k, <1>t, FireRests DEF There
<1>1. ASSUME NEW f \in Fires, Fire(f) \/ FireStep(f) PROVE HookInv'
  <2>1. HookTypeOK' /\ FireInv(f)'
    BY <1>1, <1>t, FireBegins, SendKeeps, LogKeeps DEF FireStep
  <2>2. ASSUME NEW g \in Fires, g # f PROVE FireInv(g)'
    <3>1. fire'[g] = fire[g] /\ sent'[g] = sent[g] /\ hook' = hook
      BY <1>1, <1>t, <2>2 DEF Fire, FireStep, Send, Log, HookTypeOK
    <3>2. \/ log' = log
          \/ \E h, ok : log' = log \cup {[id |-> lastLog + 1, hook |-> h, by |-> f, ok |-> ok]}
      BY <1>1 DEF Fire, FireStep, Send, Log, Insert
    <3>3. \A row : row.by = g => (row \in log' <=> row \in log)
      BY <2>2, <3>2
    <3> QED BY <3>1, <3>3, <1>k
  <2> QED BY <2>1, <2>2 DEF HookInv
<1>2. ASSUME NEW r \in Replays, Replay(r) \/ LogReplay(r) PROVE HookInv'
  <2>1. UNCHANGED <<hook, edits, fire, sent>> /\ \A g \in Fires : r # g
    BY <1>2, WebhooksAssumption DEF Replay, LogReplay
  <2>2. \/ UNCHANGED <<log, lastLog>>
        \/ /\ Insert(replay[r].hook, r, replay[r].answer)
           /\ replay[r].hook \in Hooks
    BY <1>2, <1>t DEF Replay, LogReplay, HookTypeOK
  <2>3. /\ lastLog' \in Nat
        /\ log' \subseteq [id : 1..lastLog', hook : Hooks, by : Fires \cup Replays, ok : BOOLEAN]
    <3>1. CASE UNCHANGED <<log, lastLog>>
      BY <3>1, <1>t DEF HookTypeOK
    <3>2. CASE Insert(replay[r].hook, r, replay[r].answer) /\ replay[r].hook \in Hooks
      <4>1. [id |-> lastLog + 1, hook |-> replay[r].hook, by |-> r, ok |-> replay[r].answer = "ok"]
              \in [id : 1..lastLog', hook : Hooks, by : Fires \cup Replays, ok : BOOLEAN]
        BY <3>2, <1>n DEF Insert
      <4>2. log \subseteq [id : 1..lastLog', hook : Hooks, by : Fires \cup Replays, ok : BOOLEAN]
        BY <3>2, <1>n, <1>t DEF Insert, HookTypeOK
      <4>3. /\ lastLog' \in Nat
            /\ log' = log \cup {[id |-> lastLog + 1, hook |-> replay[r].hook, by |-> r,
                                 ok |-> replay[r].answer = "ok"]}
        BY <3>2, <1>n DEF Insert
      <4> QED BY <4>1, <4>2, <4>3
    <3> QED BY <2>2, <3>1, <3>2
  <2>4. HookTypeOK'
    <3>1. /\ replay' \in [Replays -> [pc : {"new", "log", "over"}, hook : Hooks \cup {0}, answer : Outcomes]]
          /\ \A p \in Replays : replay'[p].pc = "log" => replay'[p].hook \in Hooks
      <4>1. CASE Replay(r)
        <5>1. PICK h \in Hooks, a \in Outcomes :
                replay' = [replay EXCEPT ![r] = [pc |-> "log", hook |-> h, answer |-> a]]
          BY <4>1 DEF Replay
        <5> QED BY <5>1, <1>t DEF HookTypeOK
      <4>2. CASE LogReplay(r)
        BY <4>2, <1>t DEF LogReplay, HookTypeOK
      <4> QED BY <1>2, <4>1, <4>2
    <3> QED BY <2>1, <2>3, <3>1, <1>t DEF HookTypeOK
  <2>5. ASSUME NEW g \in Fires PROVE FireInv(g)'
    <3>1. \/ log' = log
          \/ \E h, ok : log' = log \cup {[id |-> lastLog + 1, hook |-> h, by |-> r, ok |-> ok]}
      BY <2>2 DEF Insert
    <3>2. \A row : row.by = g => (row \in log' <=> row \in log)
      BY <2>1, <3>1
    <3> QED BY <2>1, <3>2, <1>k
  <2> QED BY <2>4, <2>5 DEF HookInv
<1>3. CASE EditHook \/ DeleteHook
  <2>1. UNCHANGED <<fire, replay, lastLog, sent>> /\ edits < MaxEdits /\ edits' = edits + 1
    BY <1>3 DEF EditHook, DeleteHook
  <2>2. PICK h \in Hooks :
          /\ There(h) /\ hook' \in [Hooks -> {"listens", "silent", "gone"}]
          /\ \A k \in Hooks \ {h} : hook'[k] = hook[k]
          /\ log' = log \/ (hook'[h] = "gone" /\ log' = {row \in log : row.hook # h})
    <3>1. CASE EditHook
      <4>1. PICK h \in Hooks : /\ There(h) /\ log' = log
                               /\ hook' = [hook EXCEPT ![h] = IF @ = "silent" THEN "listens" ELSE "silent"]
        BY <3>1 DEF EditHook
      <4> QED BY <4>1, <1>t DEF HookTypeOK
    <3>2. CASE DeleteHook
      <4>1. PICK h \in Hooks : /\ There(h) /\ log' = {row \in log : row.hook # h}
                               /\ hook' = [hook EXCEPT ![h] = "gone"]
        BY <3>2 DEF DeleteHook
      <4> QED BY <4>1, <1>t DEF HookTypeOK
    <3> QED BY <1>3, <3>1, <3>2
  <2>3. HookTypeOK'
    <3>1. log' \subseteq log /\ edits' \in 0..MaxEdits
      BY <2>1, <2>2, <1>t, WebhooksAssumption DEF HookTypeOK
    <3> QED BY <2>1, <2>2, <3>1, <1>t DEF HookTypeOK
  <2>4. \A k \in Hooks : There(k)' => There(k)
    BY <2>2 DEF There
  <2>5. \A k \in Hooks : There(k)' => \A row : row.hook = k => (row \in log' <=> row \in log)
    BY <2>2 DEF There
  <2> QED BY <2>1, <2>3, <2>4, <2>5, <1>t, FireRests DEF HookInv
<1>4. CASE HookCrash
  <2>1. /\ UNCHANGED <<hook, edits, log, lastLog, sent>>
        /\ fire' = [f \in Fires |-> IF Underway(f) THEN Rest("cut", fire[f].all)
                                    ELSE fire[f]]
        /\ replay' = [r \in Replays |-> [replay[r] EXCEPT !.pc = IF @ = "log" THEN "over" ELSE @]]
    BY <1>4 DEF HookCrash, Underway
  <2>2. ASSUME NEW f \in Fires, Underway(f)
        PROVE  /\ fire'[f] \in Fired
               /\ fire'[f].left = <<>> /\ fire'[f].tries = 0 /\ fire'[f].pc = "cut"
    <3>1. fire[f].all \in Seq(Hooks) /\ <<>> \in Seq(Hooks) /\ 0 \in 0..MAX_RETRIES
      BY <1>t, FireTyped, WebhooksAssumption DEF Fired
    <3>2. fire'[f] = Rest("cut", fire[f].all)
      BY <2>1, <2>2
    <3> QED BY <3>1, <3>2 DEF Rest, Fired, Outcomes
  <2>3. HookTypeOK'
    <3>1. fire' \in [Fires -> Fired]
      BY <2>1, <2>2, <1>t, FireTyped
    <3>2. /\ replay' \in [Replays -> [pc : {"new", "log", "over"}, hook : Hooks \cup {0}, answer : Outcomes]]
          /\ \A p \in Replays : replay'[p].pc = "log" => replay'[p].hook \in Hooks
      BY <2>1, <1>t DEF HookTypeOK
    <3> QED BY <2>1, <3>1, <3>2, <1>t DEF HookTypeOK, Fired
  <2>4. ASSUME NEW f \in Fires PROVE FireInv(f)'
    <3>1. CASE Underway(f)
      <4>1. Lined(f)'
        BY <3>1, <2>2 DEF Lined, Underway, Distinct, Range
      <4> QED BY <3>1, <2>2, <4>1 DEF FireInv, Tallied, ToldOf, Underway
    <3>2. CASE ~Underway(f)
      BY <3>2, <2>1, <1>k
    <3> QED BY <3>1, <3>2
  <2> QED BY <2>3, <2>4 DEF HookInv
<1>5. CASE UNCHANGED hookVars
  <2>1. UNCHANGED <<hook, edits, fire, replay, log, lastLog, sent>>
    BY <1>5 DEF hookVars
  <2>2. HookTypeOK'
    BY <2>1, <1>t DEF HookTypeOK
  <2> QED BY <2>1, <2>2, <1>k DEF HookInv
<1> QED BY <1>1, <1>2, <1>3, <1>4, <1>5 DEF HookNext

LEMMA HookStart ==
  ASSUME HookInit
  PROVE  HookInv
<1>1. /\ fire = [f \in Fires |-> Unfired]
      /\ sent = [f \in Fires |-> [h \in Hooks |-> [n |-> 0, last |-> "none"]]]
      /\ replay = [r \in Replays |-> [pc |-> "new", hook |-> 0, answer |-> "none"]]
      /\ hook \in [Hooks -> {"listens", "silent"}] /\ edits = 0 /\ log = {} /\ lastLog = 0
  BY DEF HookInit
<1>2. Unfired \in Fired /\ Unfired.pc = "new" /\ Unfired.left = <<>> /\ Unfired.tries = 0
  <2>1. <<>> \in Seq(Hooks) /\ 0 \in 0..MAX_RETRIES
    BY WebhooksAssumption
  <2> QED BY <2>1 DEF Unfired, Rest, Fired, Outcomes
<1>3. HookTypeOK
  <2>1. fire \in [Fires -> Fired]
    BY <1>1, <1>2
  <2>2. /\ replay \in [Replays -> [pc : {"new", "log", "over"}, hook : Hooks \cup {0}, answer : Outcomes]]
        /\ \A p \in Replays : replay[p].pc = "log" => replay[p].hook \in Hooks
        /\ sent \in [Fires -> [Hooks -> [n : Nat, last : Outcomes]]]
    BY <1>1 DEF Outcomes
  <2> QED BY <1>1, <2>1, <2>2, WebhooksAssumption DEF HookTypeOK, Fired
<1>4. ASSUME NEW f \in Fires PROVE FireInv(f)
  <2>1. fire[f].pc = "new" /\ fire[f].left = <<>> /\ fire[f].tries = 0 /\ \A h \in Hooks : sent[f][h].n = 0
    BY <1>1, <1>2
  <2>2. Lined(f)
    BY <2>1 DEF Lined, Underway, Distinct, Range
  <2> QED BY <2>1, <2>2 DEF FireInv, Tallied, ToldOf, Underway
<1> QED BY <1>3, <1>4 DEF HookInv

\* The invariant holds in every state.
THEOREM HookInvariant == HookSpec => []HookInv
<1> QED BY HookStart, HookStep, PTL DEF HookSpec

\* The hooks, the fires, the replays and the log keep their types.
THEOREM HookTypes == HookSpec => []HookTypeOK
<1>1. HookInv => HookTypeOK
  BY DEF HookInv
<1> QED BY <1>1, HookInvariant, PTL

\* What the console says of a fire that ran to its end is what happened, and
\* only a hook deleted under it ends a fire early.
THEOREM FiresAccounted == HookSpec => []Accounted
<1>1. HookInv => Accounted
  <2> SUFFICES ASSUME HookInv, NEW f \in Fires
               PROVE  /\ fire[f].pc = "over" => \A i \in DOMAIN fire[f].all : Told(f, fire[f].all[i])
                      /\ fire[f].pc = "lost" => \E i \in DOMAIN fire[f].all :
                           ~There(fire[f].all[i]) /\ sent[f][fire[f].all[i]].n = MAX_RETRIES
    BY DEF Accounted
  <2>1. Lined(f) /\ ToldOf(f)
    BY DEF HookInv, FireInv
  <2>2. fire[f].pc = "over" => Range(fire[f].left) = {}
    BY <2>1 DEF Lined, Underway, Range
  <2>3. \A i \in DOMAIN fire[f].all : fire[f].all[i] \in Range(fire[f].all)
    BY DEF Range
  <2> QED BY <2>1, <2>2, <2>3 DEF ToldOf, Range
<1> QED BY <1>1, HookInvariant, PTL

\* The queue of a fire as Delivery sees it: the abstract actions, spelled out.
Line(f) == IF fire[f].pc = "new" THEN << "none" >> ELSE fire[f].left

LEMMA Unborn ==
  ASSUME HookInv, NEW f \in Fires
  PROVE  /\ Promise!Open(f) <=> Underway(f)
         /\ Line(f) = Promise!Unborn <=> fire[f].pc = "new"
<1>1. fire[f].left \in Seq(Hooks) /\ (fire[f].left # <<>> <=> Underway(f))
  BY FireTyped DEF HookInv, FireInv, Lined, Fired
<1>2. fire[f].left # << "none" >>
  <2>1. fire[f].left = << "none" >> => fire[f].left[1] \in Hooks /\ fire[f].left[1] = "none"
    BY <1>1
  <2> QED BY <2>1, WebhooksAssumption
<1> QED BY <1>1, <1>2 DEF Promise!Open, Promise!Unborn, Line, Underway

\* Each step of the webhooks is a step of Delivery, or one it does not see.
LEMMA StepDelivers ==
  ASSUME HookInv, [HookNext]_hookVars
  PROVE  [Promise!DNext]_(Promise!dvars)
<1> DEFINE lined == [f \in Fires |-> Line(f)]
           tries == [f \in Fires |-> fire[f].tries]
           Seen(f, s, n) == /\ lined' = [lined EXCEPT ![f] = s]
                            /\ tries' = [tries EXCEPT ![f] = n]
<1>t. HookTypeOK /\ \A f \in Fires : Lined(f) /\ Tallied(f)
  BY DEF HookInv, FireInv
<1>0. ASSUME UNCHANGED fire PROVE UNCHANGED Promise!dvars
  BY <1>0 DEF Promise!dvars
<1>s. ASSUME NEW f \in Fires, NEW new, fire' = [fire EXCEPT ![f] = new], new.pc # "new",
             NEW s, NEW n, new.left = s, new.tries = n
      PROVE  Seen(f, s, n)
  BY <1>s, <1>t, FireTyped DEF Line
<1> HIDE DEF Seen
<1>1. ASSUME NEW f \in Fires, Fire(f) PROVE Promise!Start(f)
  <2>1. PICK s \in SetToSeqs({h \in Hooks : hook[h] = "listens"}) :
          /\ fire[f].pc = "new"
          /\ fire' = [fire EXCEPT ![f] = [@ EXCEPT !.left = s, !.all = s,
                                            !.pc = IF s = <<>> THEN "over" ELSE "send"]]
    BY <1>1 DEF Fire
  <2>2. PICK n, new :
          /\ n = fire[f].tries
          /\ new = [fire[f] EXCEPT !.left = s, !.all = s, !.pc = IF s = <<>> THEN "over" ELSE "send"]
    OBVIOUS
  <2>3. new.left = s /\ new.tries = n /\ new.pc # "new"
    BY <2>2, <1>t, FireTyped DEF Fired
  <2>4. fire' = [fire EXCEPT ![f] = new]
    BY <2>1, <2>2
  <2>5. Seen(f, s, n)
    BY <2>3, <2>4, <1>s
  <2>6. s \in Seq(Hooks) /\ Distinct(s)
    BY Ordered
  <2>7. Line(f) = Promise!Unborn
    BY <2>1, Unborn
  <2>8. lined'[f] = s /\ tries' = tries
    BY <2>2, <2>5 DEF Seen
  <2> QED BY <2>5, <2>6, <2>7, <2>8 DEF Seen, Promise!Start, Line, Distinct
<1>2. ASSUME NEW f \in Fires, Send(f) PROVE Promise!Try(f)
  <2>1. PICK a, new, s, n :
          /\ a \in Outcomes /\ s = fire[f].left /\ n = fire[f].tries + 1
          /\ fire[f].pc = "send"
          /\ new = IF a = "none" /\ ~Exhausted([fire[f] EXCEPT !.tries = @ + 1, !.answer = a])
                   THEN [fire[f] EXCEPT !.tries = @ + 1, !.answer = a]
                   ELSE [[fire[f] EXCEPT !.tries = @ + 1, !.answer = a] EXCEPT !.pc = "log"]
          /\ fire' = [fire EXCEPT ![f] = new]
    BY <1>2 DEF Send
  <2>2. new.left = s /\ new.tries = n /\ new.pc # "new"
    BY <2>1, <1>t, FireTyped DEF Fired
  <2>3. Seen(f, s, n)
    BY <2>1, <2>2, <1>s
  <2>4. Underway(f) /\ fire[f].tries < MAX_RETRIES /\ Line(f) = fire[f].left
    BY <2>1, <1>t DEF Underway, Tallied, Line
  <2>5. lined' = lined
    BY <2>1, <2>3, <2>4 DEF Seen
  <2> QED BY <2>3, <2>4, <2>5, <2>1, Unborn DEF Seen, Promise!Try, Line
<1>3. ASSUME NEW f \in Fires, Log(f) PROVE Promise!Serve(f) \/ UNCHANGED Promise!dvars
  <2>1. fire[f].pc = "log" /\ Underway(f) /\ fire[f].tries > 0 /\ Line(f) = fire[f].left
    BY <1>3, <1>t DEF Log, Underway, Tallied, Line
  <2>2. PICK q, new :
          /\ q = fire[f] /\ q \in Fired
          /\ fire' = [fire EXCEPT ![f] = new]
          /\ new \in {[q EXCEPT !.pc = "send"], NextHook(q), Rest("lost", q.all)}
    BY <1>3, <1>t, FireTyped DEF Log
  <2>3. CASE new = [q EXCEPT !.pc = "send"]
    <3>1. new.left = q.left /\ new.tries = q.tries /\ new.pc # "new"
      BY <2>2, <2>3 DEF Fired
    <3>2. Seen(f, q.left, q.tries)
      BY <2>2, <3>1, <1>s
    <3>3. lined' = lined /\ tries' = tries
      BY <2>1, <2>2, <3>2 DEF Seen
    <3> QED BY <3>3 DEF Promise!dvars, Line
  <2>4. CASE new = NextHook(q)
    <3>1. new.left = Tail(q.left) /\ new.tries = 0 /\ new.pc # "new"
      BY <2>2, <2>4 DEF Fired, NextHook
    <3>2. Seen(f, Tail(Line(f)), 0)
      BY <2>1, <2>2, <3>1, <1>s
    <3> QED BY <2>1, <3>2, Unborn DEF Seen, Promise!Serve, Promise!Leave, Line
  <2>5. CASE new = Rest("lost", q.all)
    <3>1. new.left = <<>> /\ new.tries = 0 /\ new.pc # "new"
      BY <2>2, <2>5 DEF Rest
    <3>2. Seen(f, <<>>, 0)
      BY <2>2, <3>1, <1>s
    <3> QED BY <2>1, <3>2, Unborn DEF Seen, Promise!Serve, Promise!GiveUp, Line
  <2> QED BY <2>2, <2>3, <2>4, <2>5
<1>4. ASSUME HookCrash PROVE Promise!Stop
  <2>1. /\ \E f \in Fires : Underway(f)
        /\ fire' = [f \in Fires |-> IF Underway(f) THEN Rest("cut", fire[f].all) ELSE fire[f]]
    BY <1>4 DEF HookCrash, Underway
  <2>2. \A f \in Fires : /\ Line(f)' = IF Underway(f) THEN <<>> ELSE Line(f)
                         /\ fire'[f].tries = IF Underway(f) THEN 0 ELSE fire[f].tries
    BY <2>1 DEF Line, Rest
  <2> QED BY <2>1, <2>2, Unborn DEF Promise!Stop, Line
<1>5. CASE UNCHANGED fire
  BY <1>0, <1>5
<1>6. \/ UNCHANGED fire \/ HookCrash
      \/ \E f \in Fires : Fire(f) \/ FireStep(f)
  BY DEF HookNext, Replay, LogReplay, EditHook, DeleteHook, hookVars
<1> HIDE DEF lined, tries
<1>7. Promise!DNext \/ UNCHANGED Promise!dvars
  <2>1. ASSUME NEW f \in Fires, Fire(f) \/ FireStep(f)
        PROVE  Promise!Start(f) \/ Promise!Serve(f) \/ UNCHANGED Promise!dvars
    <3>1. Promise!Try(f) => Promise!Serve(f)
      BY DEF Promise!Serve
    <3> QED BY <2>1, <3>1, <1>1, <1>2, <1>3 DEF FireStep
  <2>2. \A f \in Fires : Promise!Start(f) \/ Promise!Serve(f) => Promise!DNext
    BY DEF Promise!DNext
  <2>3. Promise!Stop => Promise!DNext
    BY DEF Promise!DNext
  <2> QED BY <2>1, <2>2, <2>3, <1>4, <1>5, <1>6
<1> QED BY <1>7

\* Webhooks implement the safety of Delivery for every set of hooks and fires:
\* at most MAX_RETRIES requests to each, in the order found, never back to one
\* that was left, even after a restart of the process.
THEOREM WebhooksDeliver == HookSpec => Promise!DSafe
<1>1. HookInit => Promise!DInit
  <2>1. HookInit => \A f \in Fires : fire[f].pc = "new" /\ fire[f].tries = 0
    BY DEF HookInit, Unfired, Rest
  <2> QED BY <2>1 DEF Promise!DInit, Promise!Unborn
<1> QED BY <1>1, HookInvariant, StepDelivers, PTL DEF HookSpec, Promise!DSafe

-----------------------------------------------------------------------------
(***************************************************************************)
(* Digests.  Whatever overlaps or is cut off: what a watermark has passed, *)
(* or a run is about to let it pass, is there, and is digested if it is    *)
(* still unread.                                                           *)
(***************************************************************************)
DueRows == [user : Users, mark : SUBSET Notes]
DigestRuns == [pc : {"rest", "next", "mail", "stamp"}, age : 0..2, upto : SUBSET Notes, due : SUBSET DueRows,
               user : Users \cup {"none"}, batch : SUBSET Notes]
NoteRows == [to : Users \cup {"none"}, state : {"unborn", "unread", "read"}]

\* The type of a run; one that mails, or has mailed, does it to a user about something.
RunTyped(q) == /\ q \in DigestRuns
               /\ q.pc = "rest" => q.due = {}
               /\ q.pc \in {"mail", "stamp"} => q.user \in Users /\ q.batch # {}
DigestRowsTyped ==
  /\ mode \in [Users -> Modes] /\ age \in [Users -> 0..2] /\ mark \in [Users -> SUBSET Notes]
  /\ note \in [Notes -> NoteRows]
  /\ tick \in [Ticks -> DigestRuns] /\ \A t \in Ticks : RunTyped(tick[t])
  /\ handed \in [Notes -> 0..2] /\ mailed \subseteq Notes /\ smooth \in BOOLEAN /\ upsets \in 0..MaxUpsets

\* A set of notifications, a digest or the watermark of a user, leaves none unread
\* that no digest carried.
Leaves(u, S) == S \subseteq Born /\ \A n \in S : note[n] = [to |-> u, state |-> "unread"] => handed[n] > 0
RunCovers(q) ==
  /\ q.upto \subseteq Born /\ q.batch \subseteq q.upto
  /\ \A d \in q.due : Leaves(d.user, d.mark)
  /\ q.pc = "mail" => Leaves(q.user, q.upto \ q.batch)
  /\ q.pc = "stamp" => Leaves(q.user, q.upto)
DigestCovers == (\A u \in Users : Leaves(u, mark[u])) /\ \A t \in Ticks : RunCovers(tick[t])

\* While runs neither overlap nor are cut off: the watermarks a run has read are
\* those that stand, and a notification that a digest carried is behind the
\* watermark of its recipient, or the run is about to move that there.
Alone == \A s, t \in Ticks : tick[s].pc # "rest" /\ tick[t].pc # "rest" => s = t
MarksStand(q) ==
  /\ \A d \in q.due : d.mark = mark[d.user] /\ (q.pc \in {"mail", "stamp"} => d.user # q.user)
  /\ \A d, e \in q.due : d.user = e.user => d = e
  /\ q.pc # "rest" => \A u \in Users : mark[u] \subseteq q.upto
BatchFresh(q) ==
  q.pc \in {"mail", "stamp"} =>
    \A n \in q.batch : note[n].to = q.user /\ (q.pc = "mail" => handed[n] = 0)
LeftBehind(n) == n \in mark[note[n].to] \/ \E t \in Ticks : tick[t].pc = "stamp" /\ n \in tick[t].batch
HandedMarked ==
  \A n \in Notes : handed[n] > 0 => handed[n] = 1 /\ note[n].to \in Users /\ n \in Born /\ LeftBehind(n)
Unhurried == Alone /\ HandedMarked /\ \A t \in Ticks : MarksStand(tick[t]) /\ BatchFresh(tick[t])

DigestInv == DigestRowsTyped /\ DigestCovers /\ (smooth => Unhurried)

\* What a step may do to the notifications that are there, and to how often they
\* were digested.
Onwards ==
  /\ \A n \in Notes : handed[n] > 0 => handed'[n] > 0
  /\ \A n \in Born : n \in Born' /\ (note'[n] = note[n] \/ note'[n].state = "read")

LEMMA LeavesKept ==
  ASSUME Onwards, NEW u, NEW S, Leaves(u, S)
  PROVE  Leaves(u, S)'
<1>1. S \subseteq Born /\ Born \subseteq Notes
  BY DEF Leaves, Born
<1>2. S \subseteq Born'
  BY <1>1 DEF Onwards
<1>3. ASSUME NEW n \in S, note'[n] = [to |-> u, state |-> "unread"] PROVE handed'[n] > 0
  <2>1. n \in Born /\ n \in Notes
    BY <1>1
  <2>2. note'[n].state = "unread"
    BY <1>3
  <2>3. note'[n] = note[n]
    BY <2>1, <2>2 DEF Onwards
  <2>4. handed[n] > 0
    BY <1>3, <2>3 DEF Leaves
  <2> QED BY <2>1, <2>4 DEF Onwards
<1> QED BY <1>2, <1>3 DEF Leaves

LEMMA CoversKept ==
  ASSUME Onwards, NEW q, RunCovers(q)
  PROVE  RunCovers(q)'
<1>1. q.upto \subseteq Born'
  BY DEF RunCovers, Onwards
<1>2. \A d \in q.due : Leaves(d.user, d.mark)'
  BY LeavesKept DEF RunCovers
<1>3. q.pc = "mail" => Leaves(q.user, q.upto \ q.batch)'
  <2>1. ASSUME q.pc = "mail" PROVE Leaves(q.user, q.upto \ q.batch)
    BY <2>1 DEF RunCovers
  <2> QED BY <2>1, LeavesKept
<1>4. q.pc = "stamp" => Leaves(q.user, q.upto)'
  <2>1. ASSUME q.pc = "stamp" PROVE Leaves(q.user, q.upto)
    BY <2>1 DEF RunCovers
  <2> QED BY <2>1, LeavesKept
<1> QED BY <1>1, <1>2, <1>3, <1>4 DEF RunCovers

\* A step that moves no watermark and at most one run: the others stay covered.
LEMMA TicksCovered ==
  ASSUME DigestInv, Onwards, mark' = mark, NEW t \in Ticks, NEW q, q = tick'[t],
         \A s \in Ticks : s # t => tick'[s] = tick[s], RunCovers(q)'
  PROVE  DigestCovers'
<1>1. \A u \in Users : Leaves(u, mark[u])'
  <2>1. TAKE u \in Users
  <2>2. PICK S : S = mark[u]
    OBVIOUS
  <2>3. Leaves(u, S)'
    BY <2>2, LeavesKept DEF DigestInv, DigestCovers
  <2> QED BY <2>2, <2>3
<1>2. \A s \in Ticks : RunCovers(tick[s])'
  <2>1. TAKE s \in Ticks
  <2>2. CASE s = t
    BY <2>2
  <2>3. CASE s # t
    <3>1. PICK p : p = tick[s]
      OBVIOUS
    <3>2. RunCovers(p)'
      BY <3>1, CoversKept DEF DigestInv, DigestCovers
    <3>3. p = tick'[s]
      BY <2>3, <3>1
    <3> QED BY <3>2, <3>3
  <2> QED BY <2>2, <2>3
<1> QED BY <1>1, <1>2 DEF DigestCovers

\* A step that leaves the watermarks and the runs as they are.
LEMMA NothingCovered ==
  ASSUME DigestInv, Onwards, mark' = mark, tick' = tick
  PROVE  DigestCovers'
<1>1. \A u \in Users : Leaves(u, mark[u])'
  <2>1. TAKE u \in Users
  <2>2. PICK S : S = mark[u]
    OBVIOUS
  <2>3. Leaves(u, S)'
    BY <2>2, LeavesKept DEF DigestInv, DigestCovers
  <2> QED BY <2>2, <2>3
<1>2. \A s \in Ticks : RunCovers(tick[s])'
  <2>1. TAKE s \in Ticks
  <2>2. PICK p : p = tick[s]
    OBVIOUS
  <2>3. RunCovers(p)'
    BY <2>2, CoversKept DEF DigestInv, DigestCovers
  <2> QED BY <2>2, <2>3
<1> QED BY <1>1, <1>2 DEF DigestCovers

\* Which run is watched by what a smooth course keeps: a step that leaves the
\* watermarks, the digests and the recipients as they are disturbs none.
Steady == mark' = mark /\ handed' = handed /\ \A n \in Born : note'[n].to = note[n].to

LEMMA RunUndisturbed ==
  ASSUME Steady, NEW q, RunCovers(q), MarksStand(q), BatchFresh(q)
  PROVE  MarksStand(q)' /\ BatchFresh(q)'
<1>1. MarksStand(q)'
  BY DEF MarksStand, Steady
<1>2. q.batch \subseteq Born
  BY DEF RunCovers
<1>3. BatchFresh(q)'
  BY <1>2 DEF BatchFresh, Steady
<1> QED BY <1>1, <1>3

LEMMA HandedUndisturbed ==
  ASSUME DigestInv, Onwards, Steady, HandedMarked,
         \A n \in Notes, t \in Ticks : tick[t].pc = "stamp" /\ n \in tick[t].batch
                                        => tick'[t].pc = "stamp" /\ n \in tick'[t].batch
  PROVE  HandedMarked'
<1> SUFFICES ASSUME NEW n \in Notes, handed'[n] > 0
             PROVE  handed'[n] = 1 /\ note'[n].to \in Users /\ n \in Born' /\ LeftBehind(n)'
  BY DEF HandedMarked
<1>1. handed[n] > 0 /\ handed[n] = handed'[n]
  BY DEF Steady
<1>2. handed[n] = 1 /\ note[n].to \in Users /\ n \in Born /\ LeftBehind(n)
  BY <1>1 DEF HandedMarked
<1>3. note'[n].to = note[n].to /\ n \in Born' /\ mark' = mark
  BY <1>2 DEF Steady, Onwards
<1>4. LeftBehind(n)'
  BY <1>2, <1>3 DEF LeftBehind
<1> QED BY <1>1, <1>2, <1>3, <1>4

LEMMA Undisturbed ==
  ASSUME DigestInv, Onwards, Steady, tick' = tick, smooth' = smooth
  PROVE  DigestCovers' /\ (smooth' => Unhurried')
<1>1. DigestCovers'
  BY NothingCovered DEF Steady
<1>2. ASSUME smooth' PROVE Unhurried'
  <2>1. Unhurried
    BY <1>2 DEF DigestInv
  <2>2. Alone'
    BY <2>1 DEF Unhurried, Alone
  <2>3. HandedMarked'
    BY <2>1, HandedUndisturbed DEF Unhurried
  <2>4. ASSUME NEW t \in Ticks PROVE MarksStand(tick[t])' /\ BatchFresh(tick[t])'
    <3>1. PICK q : q = tick[t]
      OBVIOUS
    <3>2. MarksStand(q)' /\ BatchFresh(q)'
      BY <2>1, <3>1, RunUndisturbed DEF Unhurried, DigestInv, DigestCovers
    <3> QED BY <3>1, <3>2
  <2> QED BY <2>2, <2>3, <2>4 DEF Unhurried
<1> QED BY <1>1, <1>2

LEMMA NotifyKeeps == ASSUME DigestInv, Notify PROVE DigestInv'
<1>1. PICK n \in Notes, u \in Users, arrives \in {TRUE, ~Rejects} :
        /\ note[n].state = "unborn" /\ \A k \in Notes : k < n => note[k].state # "unborn"
        /\ note' = [note EXCEPT ![n] = [to |-> u, state |-> "unread"]]
        /\ mailed' = IF mode[u] = "off" /\ arrives THEN mailed \cup {n} ELSE mailed
        /\ UNCHANGED <<mode, age, mark, tick, handed, smooth, upsets>>
  BY DEF Notify
<1>2. DigestRowsTyped
  BY DEF DigestInv
<1>3. note' \in [Notes -> NoteRows] /\ mailed' \subseteq Notes
  BY <1>1, <1>2 DEF DigestRowsTyped, NoteRows
<1>4. DigestRowsTyped'
  BY <1>1, <1>2, <1>3 DEF DigestRowsTyped, RunTyped
<1>5. \A k \in Born : note'[k] = note[k] /\ k \in Born'
  BY <1>1, <1>2 DEF DigestRowsTyped, Born
<1>6. Onwards /\ Steady
  BY <1>1, <1>5 DEF Onwards, Steady
<1> QED BY <1>1, <1>4, <1>6, Undisturbed DEF DigestInv

LEMMA ReadNoteKeeps == ASSUME DigestInv, ReadNote PROVE DigestInv'
<1>1. PICK n \in Notes :
        /\ note[n].state = "unread"
        /\ note' = [note EXCEPT ![n].state = "read"]
        /\ UNCHANGED <<mode, age, mark, tick, handed, mailed, smooth, upsets>>
  BY DEF ReadNote
<1>2. DigestRowsTyped
  BY DEF DigestInv
<1>3. note' \in [Notes -> NoteRows]
  BY <1>1, <1>2 DEF DigestRowsTyped, NoteRows
<1>4. DigestRowsTyped'
  BY <1>1, <1>2, <1>3 DEF DigestRowsTyped, RunTyped
<1>5. \A k \in Born : k \in Born' /\ note'[k].to = note[k].to /\ (note'[k] = note[k] \/ note'[k].state = "read")
  BY <1>1, <1>2 DEF DigestRowsTyped, Born, NoteRows
<1>6. Onwards /\ Steady
  BY <1>1, <1>5 DEF Onwards, Steady
<1> QED BY <1>1, <1>4, <1>6, Undisturbed DEF DigestInv

LEMMA PreferKeeps == ASSUME DigestInv, Prefer PROVE DigestInv'
<1>1. PICK u \in Users, m \in Modes :
        /\ mode[u] # m /\ upsets < MaxUpsets
        /\ mode' = [mode EXCEPT ![u] = m]
        /\ upsets' = upsets + 1
        /\ UNCHANGED <<age, mark, note, tick, handed, mailed, smooth>>
  BY DEF Prefer
<1>2. DigestRowsTyped
  BY DEF DigestInv
<1>3. mode' \in [Users -> Modes] /\ upsets' \in 0..MaxUpsets
  BY <1>1, <1>2, DigestsAssumption DEF DigestRowsTyped
<1>4. DigestRowsTyped'
  BY <1>1, <1>2, <1>3 DEF DigestRowsTyped, RunTyped
<1>5. Onwards /\ Steady
  BY <1>1 DEF Onwards, Steady, Born
<1> QED BY <1>1, <1>4, <1>5, Undisturbed DEF DigestInv

LEMMA DayKeeps == ASSUME DigestInv, Day PROVE DigestInv'
<1>1. /\ age' = [u \in Users |-> Older(age[u])]
      /\ tick' = [t \in Ticks |-> IF tick[t].pc = "rest" THEN tick[t] ELSE [tick[t] EXCEPT !.age = Older(@)]]
      /\ UNCHANGED <<mode, mark, note, handed, mailed, smooth, upsets>>
  BY DEF Day
<1>2. DigestRowsTyped
  BY DEF DigestInv
<1>3. \A a \in 0..2 : Older(a) \in 0..2
  BY DEF Older, Longest
<1>4. age' \in [Users -> 0..2]
  BY <1>1, <1>2, <1>3 DEF DigestRowsTyped
<1>5. ASSUME NEW t \in Ticks
      PROVE  /\ tick'[t] \in DigestRuns /\ RunTyped(tick'[t])
             /\ tick'[t].pc = tick[t].pc /\ tick'[t].upto = tick[t].upto /\ tick'[t].due = tick[t].due
             /\ tick'[t].user = tick[t].user /\ tick'[t].batch = tick[t].batch
  <2>1. tick[t] \in DigestRuns /\ tick[t].age \in 0..2 /\ RunTyped(tick[t])
    BY <1>2 DEF DigestRowsTyped, DigestRuns
  <2>2. PICK a \in 0..2 : a = Older(tick[t].age)
    BY <1>3, <2>1
  <2>3. tick'[t] = tick[t] \/ tick'[t] = [tick[t] EXCEPT !.age = a]
    BY <1>1, <2>2
  <2> QED BY <2>1, <2>3 DEF DigestRuns, RunTyped
<1>6. tick' \in [Ticks -> DigestRuns]
  BY <1>1, <1>5
<1>7. DigestRowsTyped'
  BY <1>1, <1>2, <1>4, <1>5, <1>6 DEF DigestRowsTyped, RunTyped
<1>8. Onwards /\ Steady
  BY <1>1 DEF Onwards, Steady, Born
<1>9. \A u \in Users : Leaves(u, mark[u])'
  BY <1>1 DEF DigestInv, DigestCovers, Leaves, Born
<1>10. ASSUME NEW t \in Ticks PROVE RunCovers(tick[t])'
  <2>1. PICK q : q = tick[t]
    OBVIOUS
  <2>2. RunCovers(q)'
    BY <1>8, <2>1, CoversKept DEF DigestInv, DigestCovers
  <2> QED BY <1>5, <2>1, <2>2 DEF RunCovers
<1>11. ASSUME smooth' PROVE Unhurried'
  <2>1. Unhurried
    BY <1>1, <1>11 DEF DigestInv
  <2>2. Alone'
    BY <1>5, <2>1 DEF Unhurried, Alone
  <2>3. HandedMarked'
    BY <1>5, <1>8, <2>1, HandedUndisturbed DEF Unhurried
  <2>4. ASSUME NEW t \in Ticks PROVE MarksStand(tick[t])' /\ BatchFresh(tick[t])'
    <3>1. PICK q : q = tick[t]
      OBVIOUS
    <3>2. MarksStand(q)' /\ BatchFresh(q)'
      BY <1>8, <2>1, <3>1, RunUndisturbed DEF Unhurried, DigestInv, DigestCovers
    <3>3. MarksStand(tick[t])'
      BY <1>5, <3>1, <3>2 DEF MarksStand
    <3>4. BatchFresh(tick[t])'
      BY <1>5, <3>1, <3>2 DEF BatchFresh
    <3> QED BY <3>3, <3>4
  <2> QED BY <2>2, <2>3, <2>4 DEF Unhurried
<1> QED BY <1>7, <1>9, <1>10, <1>11 DEF DigestInv, DigestCovers

\* One run goes on, without touching a watermark or a digest.
LEMMA RunMoves ==
  ASSUME DigestInv, NEW t \in Ticks, NEW q, tick' = [tick EXCEPT ![t] = q], RunTyped(q), RunCovers(q),
         UNCHANGED <<mode, age, mark, note, handed, mailed, upsets>>, smooth' \in BOOLEAN,
         smooth' => smooth /\ \A s \in Ticks : tick[s].pc = "stamp" => s # t,
         smooth' => \A s \in Ticks : s # t => tick[s].pc = "rest",
         smooth' => MarksStand(q) /\ BatchFresh(q)
  PROVE  DigestInv'
<1>1. DigestRowsTyped /\ q \in DigestRuns
  BY DEF DigestInv, RunTyped
<1>2. tick' \in [Ticks -> DigestRuns] /\ tick'[t] = q /\ \A s \in Ticks : s # t => tick'[s] = tick[s]
  BY <1>1 DEF DigestRowsTyped
<1>3. \A s \in Ticks : RunTyped(tick'[s])
  BY <1>1, <1>2 DEF DigestRowsTyped
<1>4. DigestRowsTyped'
  BY <1>1, <1>2, <1>3 DEF DigestRowsTyped, RunTyped
<1>5. Onwards /\ Steady
  BY DEF Onwards, Steady, Born
<1>6. RunCovers(q)'
  BY <1>5, CoversKept
<1>7. DigestCovers'
  BY <1>2, <1>5, <1>6, TicksCovered
<1>8. ASSUME smooth' PROVE Unhurried'
  <2>1. Unhurried
    BY <1>8 DEF DigestInv
  <2>2. Alone'
    BY <1>2, <1>8 DEF Alone
  <2>3. \A n \in Notes, s \in Ticks : tick[s].pc = "stamp" /\ n \in tick[s].batch
                                        => tick'[s].pc = "stamp" /\ n \in tick'[s].batch
    BY <1>2, <1>8
  <2>4. HandedMarked'
    BY <1>5, <2>1, <2>3, HandedUndisturbed DEF Unhurried
  <2>5. ASSUME NEW s \in Ticks PROVE MarksStand(tick[s])' /\ BatchFresh(tick[s])'
    <3>1. CASE s = t
      <4>1. MarksStand(q)' /\ BatchFresh(q)'
        BY <1>5, <1>8, RunUndisturbed
      <4> QED BY <1>2, <3>1, <4>1
    <3>2. CASE s # t
      <4>1. PICK p : p = tick[s]
        OBVIOUS
      <4>2. MarksStand(p)' /\ BatchFresh(p)'
        BY <1>5, <2>1, <4>1, RunUndisturbed DEF Unhurried, DigestInv, DigestCovers
      <4> QED BY <1>2, <3>2, <4>1, <4>2
    <3> QED BY <3>1, <3>2
  <2> QED BY <2>2, <2>4, <2>5 DEF Unhurried
<1> QED BY <1>4, <1>7, <1>8 DEF DigestInv

LEMMA FireDigestKeeps == ASSUME DigestInv, NEW t \in Ticks, FireDigest(t) PROVE DigestInv'
<1>1. /\ tick[t].pc = "rest"
      /\ tick' = [tick EXCEPT ![t] = [Resting EXCEPT !.pc = "next", !.upto = Born,
                                    !.due = {[user |-> u, mark |-> mark[u]] : u \in {u \in Users : Due(u)}}]]
      /\ smooth' = (smooth /\ \A s \in Ticks : tick[s].pc = "rest")
      /\ UNCHANGED <<mode, age, mark, note, handed, mailed, upsets>>
  BY DEF FireDigest
<1> DEFINE awaited == {[user |-> u, mark |-> mark[u]] : u \in {u \in Users : Due(u)}}
           q == [Resting EXCEPT !.pc = "next", !.upto = Born, !.due = awaited]
<1>2. DigestRowsTyped
  BY DEF DigestInv
<1>3. awaited \in SUBSET DueRows /\ \A d \in awaited : d.user \in Users /\ d.mark = mark[d.user]
  BY <1>2 DEF DigestRowsTyped, DueRows
<1>4. \A d, e \in awaited : d.user = e.user => d = e
  OBVIOUS
<1> HIDE DEF awaited
<1>5. Born \in SUBSET Notes
  BY DEF Born
<1>6. q \in DigestRuns /\ q.pc = "next" /\ q.upto = Born /\ q.due = awaited /\ q.batch = {}
  <2>1. PICK upto, rows, r : upto = Born /\ rows = awaited /\ r = Resting
    OBVIOUS
  <2>2. r \in DigestRuns /\ r.batch = {} /\ upto \in SUBSET Notes /\ rows \in SUBSET DueRows
    BY <1>3, <1>5, <2>1 DEF Resting, DigestRuns
  <2>3. PICK o : o = [r EXCEPT !.pc = "next", !.upto = upto, !.due = rows]
    OBVIOUS
  <2>4. o \in DigestRuns /\ o.pc = "next" /\ o.upto = upto /\ o.due = rows /\ o.batch = {}
    BY <2>2, <2>3 DEF DigestRuns
  <2> QED BY <2>1, <2>3, <2>4
<1> HIDE DEF q
<1>7. RunTyped(q)
  BY <1>6 DEF RunTyped
<1>8. RunCovers(q)
  BY <1>3, <1>6 DEF RunCovers, DigestInv, DigestCovers
<1>9. MarksStand(q) /\ BatchFresh(q)
  BY <1>3, <1>4, <1>6 DEF MarksStand, BatchFresh, DigestInv, DigestCovers, Leaves
<1>10. tick' = [tick EXCEPT ![t] = q]
  BY <1>1 DEF q, awaited
<1>11. smooth' => smooth /\ \A s \in Ticks : tick[s].pc = "rest"
  BY <1>1
<1>12. smooth' \in BOOLEAN
  BY <1>1, <1>2 DEF DigestRowsTyped
<1>13. UNCHANGED <<mode, age, mark, note, handed, mailed, upsets>>
  BY <1>1
<1> QED BY <1>7, <1>8, <1>9, <1>10, <1>11, <1>12, <1>13, RunMoves

\* Going on to the next user, or to rest.
LEMMA OnwardKept ==
  ASSUME DigestInv, NEW q, RunTyped(q), q.pc # "rest", q.upto \subseteq Born,
         \A d \in q.due : Leaves(d.user, d.mark)
  PROVE  /\ RunTyped(Onward(q)) /\ RunCovers(Onward(q)) /\ Onward(q).pc \in {"rest", "next"}
         /\ Onward(q).due = q.due /\ (Onward(q).pc # "rest" => Onward(q).upto = q.upto)
         /\ BatchFresh(Onward(q))
<1>1. CASE q.due = {}
  <2>1. Onward(q) = Resting
    BY <1>1 DEF Onward
  <2>2. RunTyped(Resting)
    BY DEF RunTyped, Resting, DigestRuns
  <2>3. RunCovers(Resting) /\ BatchFresh(Resting) /\ Resting.pc = "rest" /\ Resting.due = {}
    BY DEF RunCovers, Resting, BatchFresh
  <2> QED BY <1>1, <2>1, <2>2, <2>3
<1>2. CASE q.due # {}
  <2>1. Onward(q) = [q EXCEPT !.pc = "next", !.batch = {}]
    BY <1>2 DEF Onward
  <2>2. PICK o : o = [q EXCEPT !.pc = "next", !.batch = {}]
    OBVIOUS
  <2>3. q \in DigestRuns
    BY DEF RunTyped
  <2>4. o \in DigestRuns /\ o.pc = "next" /\ o.batch = {} /\ o.due = q.due /\ o.upto = q.upto
    BY <2>2, <2>3 DEF DigestRuns
  <2>5. RunTyped(o) /\ RunCovers(o) /\ BatchFresh(o)
    BY <2>4 DEF RunTyped, RunCovers, BatchFresh
  <2> QED BY <2>1, <2>2, <2>4, <2>5
<1> QED BY <1>1, <1>2

LEMMA NextUserKeeps == ASSUME DigestInv, NEW t \in Ticks, NextUser(t) PROVE DigestInv'
<1> DEFINE unread(d) == {n \in tick[t].upto \ d.mark : note[n] = [to |-> d.user, state |-> "unread"]}
           taken(d) == [tick[t] EXCEPT !.due = @ \ {d}]
<1>1. PICK d \in tick[t].due :
        /\ tick[t].pc = "next"
        /\ tick' = [tick EXCEPT ![t] = IF unread(d) = {} THEN Onward(taken(d))
                      ELSE [taken(d) EXCEPT !.user = d.user, !.batch = unread(d), !.pc = "mail"]]
        /\ UNCHANGED <<mode, age, mark, note, handed, mailed, smooth, upsets>>
  BY DEF NextUser
<1>2. DigestRowsTyped /\ RunTyped(tick[t]) /\ tick[t] \in DigestRuns /\ RunCovers(tick[t])
  BY DEF DigestInv, DigestRowsTyped, DigestCovers
<1>3. PICK q : q = tick[t]
  OBVIOUS
<1>4. q \in DigestRuns /\ q.upto \in SUBSET Notes /\ q.due \in SUBSET DueRows /\ d \in q.due /\ d \in DueRows
  BY <1>1, <1>2, <1>3 DEF DigestRuns
<1>5. d.user \in Users /\ d.mark \subseteq Notes /\ Leaves(d.user, d.mark) /\ q.upto \subseteq Born
  BY <1>2, <1>3, <1>4 DEF DueRows, RunCovers
<1>6. PICK b : b = unread(d)
  OBVIOUS
<1>7. b \in SUBSET Notes /\ b \subseteq q.upto
      /\ \A n \in b : n \in Notes /\ n \notin d.mark /\ note[n] = [to |-> d.user, state |-> "unread"]
  BY <1>3, <1>4, <1>6
<1>8. \A n \in q.upto : note[n] = [to |-> d.user, state |-> "unread"] => n \in d.mark \/ n \in b
  BY <1>3, <1>6
<1>9. smooth' = smooth /\ smooth \in BOOLEAN
  BY <1>1, <1>2 DEF DigestRowsTyped
<1>10. smooth' => smooth /\ \A s \in Ticks : s # t => tick[s].pc = "rest"
  BY <1>1, <1>9 DEF DigestInv, Unhurried, Alone
<1>11. ASSUME smooth'
       PROVE  /\ \A e \in q.due : e.mark = mark[e.user]
              /\ \A e, f \in q.due : e.user = f.user => e = f
              /\ \A u \in Users : mark[u] \subseteq q.upto
              /\ \A n \in b : handed[n] = 0
  <2>1. Unhurried /\ MarksStand(q)
    BY <1>3, <1>9, <1>11 DEF DigestInv, Unhurried
  <2>2. \A e \in q.due : e.mark = mark[e.user]
    BY <2>1 DEF MarksStand
  <2>3. ASSUME NEW n \in b PROVE handed[n] = 0
    <3>1. n \in Notes /\ note[n].to = d.user /\ n \notin mark[d.user]
      BY <1>4, <1>7, <2>2
    <3>2. \A s \in Ticks : tick[s].pc # "stamp"
      BY <1>1, <1>10, <1>11
    <3>3. ~LeftBehind(n)
      BY <3>1, <3>2 DEF LeftBehind
    <3>4. ~(handed[n] > 0) /\ handed[n] \in 0..2
      BY <1>2, <2>1, <3>1, <3>3 DEF Unhurried, HandedMarked, DigestRowsTyped
    <3> QED BY <3>4
  <2> QED BY <1>1, <1>3, <2>1, <2>2, <2>3 DEF MarksStand
<1>12. smooth' => \A s \in Ticks : tick[s].pc = "stamp" => s # t
  BY <1>1
<1>13. CASE b = {}
  <2>1. PICK p : p = [q EXCEPT !.due = @ \ {d}]
    OBVIOUS
  <2>2. p \in DigestRuns /\ p.pc = "next" /\ p.due = q.due \ {d} /\ p.upto = q.upto
    BY <1>1, <1>3, <1>4, <2>1 DEF DigestRuns
  <2>3. RunTyped(p)
    BY <2>2 DEF RunTyped
  <2>4. PICK o : o = Onward(p)
    OBVIOUS
  <2>5. \A e \in p.due : Leaves(e.user, e.mark)
    BY <1>2, <1>3, <2>2 DEF RunCovers
  <2>6. /\ RunTyped(o) /\ RunCovers(o) /\ o.pc \in {"rest", "next"}
        /\ o.due = p.due /\ (o.pc # "rest" => o.upto = p.upto) /\ BatchFresh(o)
    BY <1>5, <2>2, <2>3, <2>4, <2>5, OnwardKept
  <2>7. smooth' => MarksStand(o)
    BY <1>11, <2>2, <2>6 DEF MarksStand
  <2>8. tick' = [tick EXCEPT ![t] = o]
    BY <1>1, <1>3, <1>6, <1>13, <2>1, <2>4
  <2> QED BY <1>1, <1>9, <1>10, <1>12, <2>6, <2>7, <2>8, RunMoves
<1>14. CASE b # {}
  <2>1. PICK p : p = [q EXCEPT !.due = @ \ {d}]
    OBVIOUS
  <2>2. PICK o : o = [p EXCEPT !.user = d.user, !.batch = b, !.pc = "mail"]
    OBVIOUS
  <2>3. p \in DigestRuns /\ p.due = q.due \ {d} /\ p.upto = q.upto
    BY <1>4, <2>1 DEF DigestRuns
  <2>4. o \in DigestRuns /\ o.pc = "mail" /\ o.due = q.due \ {d} /\ o.upto = q.upto /\ o.batch = b /\ o.user = d.user
    BY <1>5, <1>7, <2>2, <2>3 DEF DigestRuns
  <2>5. RunTyped(o)
    BY <1>5, <1>14, <2>4 DEF RunTyped
  <2>6. Leaves(d.user, q.upto \ b)
    BY <1>5, <1>8 DEF Leaves
  <2>7. RunCovers(o)
    BY <1>2, <1>3, <1>5, <1>7, <2>4, <2>6 DEF RunCovers
  <2>8. smooth' => MarksStand(o)
    BY <1>4, <1>11, <2>4 DEF MarksStand
  <2>9. smooth' => BatchFresh(o)
    BY <1>7, <1>11, <2>4 DEF BatchFresh
  <2>10. tick' = [tick EXCEPT ![t] = o]
    BY <1>1, <1>3, <1>6, <1>14, <2>2, <2>1
  <2> QED BY <1>1, <1>9, <1>10, <1>12, <2>5, <2>7, <2>8, <2>9, <2>10, RunMoves
<1> QED BY <1>13, <1>14

LEMMA MailKeeps == ASSUME DigestInv, NEW t \in Ticks, Mail(t) PROVE DigestInv'
<1>1. PICK arrives \in {TRUE, ~Rejects} :
        /\ tick[t].pc = "mail"
        /\ handed' = [n \in Notes |-> IF n \in tick[t].batch /\ handed[n] < 2 THEN handed[n] + 1 ELSE handed[n]]
        /\ mailed' = IF arrives THEN mailed \cup tick[t].batch ELSE mailed
        /\ tick' = [tick EXCEPT ![t].pc = "stamp"]
        /\ UNCHANGED <<mode, age, mark, note, smooth, upsets>>
  BY DEF Mail
<1>2. DigestRowsTyped /\ RunTyped(tick[t]) /\ RunCovers(tick[t])
  BY DEF DigestInv, DigestRowsTyped, DigestCovers
<1>3. PICK q : q = tick[t]
  OBVIOUS
<1>4. q \in DigestRuns /\ q.batch \in SUBSET Notes /\ q.user \in Users
  BY <1>1, <1>2, <1>3 DEF RunTyped, DigestRuns
<1>5. PICK o : o = [q EXCEPT !.pc = "stamp"]
  OBVIOUS
<1>6. /\ o \in DigestRuns /\ o.pc = "stamp" /\ o.due = q.due /\ o.upto = q.upto
      /\ o.batch = q.batch /\ o.user = q.user
  BY <1>4, <1>5 DEF DigestRuns
<1>7. RunTyped(o)
  BY <1>1, <1>2, <1>3, <1>4, <1>6 DEF RunTyped
<1>8. tick' = [tick EXCEPT ![t] = o]
  BY <1>1, <1>3, <1>5
<1>9. tick' \in [Ticks -> DigestRuns] /\ tick'[t] = o /\ \A s \in Ticks : s # t => tick'[s] = tick[s]
  BY <1>2, <1>6, <1>8 DEF DigestRowsTyped
<1>10. \A s \in Ticks : RunTyped(tick'[s])
  BY <1>2, <1>7, <1>9 DEF DigestRowsTyped
<1>11. \A n \in Notes : /\ handed[n] \in 0..2 /\ handed'[n] \in 0..2
                        /\ n \in q.batch => handed'[n] > 0 /\ (handed[n] = 0 => handed'[n] = 1)
                        /\ n \notin q.batch => handed'[n] = handed[n]
                        /\ handed[n] > 0 => handed'[n] > 0
  BY <1>1, <1>2, <1>3 DEF DigestRowsTyped
<1>12. handed' \in [Notes -> 0..2]
  BY <1>1, <1>11
<1>13. mailed' \subseteq Notes
  BY <1>1, <1>2, <1>3, <1>4 DEF DigestRowsTyped
<1>14. DigestRowsTyped'
  BY <1>1, <1>2, <1>9, <1>10, <1>12, <1>13 DEF DigestRowsTyped, RunTyped
<1>15. Onwards
  BY <1>1, <1>11 DEF Onwards, Born
<1>16. RunCovers(o)'
  <2>1. \A d \in q.due : Leaves(d.user, d.mark)'
    BY <1>2, <1>3, <1>15, LeavesKept DEF RunCovers
  <2>2. q.upto \subseteq Born' /\ q.batch \subseteq q.upto /\ q.upto \subseteq Notes
    BY <1>1, <1>2, <1>3 DEF RunCovers, Born
  <2>3. Leaves(q.user, q.upto \ q.batch)
    BY <1>1, <1>2, <1>3 DEF RunCovers
  <2>4. Leaves(q.user, q.upto \ q.batch)'
    BY <1>15, <2>3, LeavesKept
  <2>5. Leaves(q.user, q.upto)'
    BY <1>11, <2>2, <2>4 DEF Leaves
  <2> QED BY <1>6, <2>1, <2>2, <2>5 DEF RunCovers
<1>17. DigestCovers'
  BY <1>1, <1>9, <1>15, <1>16, TicksCovered
<1>18. ASSUME smooth' PROVE Unhurried'
  <2>1. Unhurried
    BY <1>1, <1>18 DEF DigestInv
  <2>2. Alone'
    BY <1>1, <1>6, <1>9, <2>1 DEF Unhurried, Alone
  <2>3. \A s \in Ticks : s # t => tick[s].pc = "rest"
    BY <1>1, <2>1 DEF Unhurried, Alone
  <2>4. MarksStand(q) /\ BatchFresh(q)
    BY <1>3, <2>1 DEF Unhurried
  <2>5. ASSUME NEW s \in Ticks PROVE MarksStand(tick[s])' /\ BatchFresh(tick[s])'
    <3>1. CASE s = t
      <4>1. MarksStand(o)' /\ BatchFresh(o)'
        BY <1>1, <1>3, <1>6, <2>4 DEF MarksStand, BatchFresh
      <4> QED BY <1>9, <3>1, <4>1
    <3>2. CASE s # t
      <4>1. PICK p : p = tick[s]
        OBVIOUS
      <4>2. p.pc = "rest" /\ MarksStand(p) /\ p = tick'[s]
        BY <1>9, <2>1, <2>3, <3>2, <4>1 DEF Unhurried
      <4>3. MarksStand(p)' /\ BatchFresh(p)'
        BY <1>1, <4>2 DEF MarksStand, BatchFresh
      <4> QED BY <4>2, <4>3
    <3> QED BY <3>1, <3>2
  <2>6. ASSUME NEW n \in Notes, handed'[n] > 0
        PROVE  handed'[n] = 1 /\ note'[n].to \in Users /\ n \in Born' /\ LeftBehind(n)'
    <3>1. CASE n \in q.batch
      <4>1. handed[n] = 0 /\ note[n].to = q.user
        BY <1>1, <1>3, <2>4, <3>1 DEF BatchFresh
      <4>2. n \in Born
        BY <1>2, <1>3, <3>1 DEF RunCovers
      <4>3. LeftBehind(n)'
        BY <1>6, <1>9, <3>1 DEF LeftBehind
      <4> QED BY <1>1, <1>4, <1>11, <3>1, <4>1, <4>2, <4>3 DEF Born
    <3>2. CASE n \notin q.batch
      <4>1. handed[n] = handed'[n]
        BY <1>11, <3>2
      <4>2. handed[n] = 1 /\ note[n].to \in Users /\ n \in Born /\ LeftBehind(n)
        BY <2>1, <2>6, <4>1 DEF Unhurried, HandedMarked
      <4>3. n \in mark[note[n].to]
        BY <1>1, <2>3, <4>2 DEF LeftBehind
      <4>4. LeftBehind(n)'
        BY <1>1, <4>3 DEF LeftBehind
      <4> QED BY <1>1, <4>1, <4>2, <4>4 DEF Born
    <3> QED BY <3>1, <3>2
  <2>7. HandedMarked'
    BY <2>6 DEF HandedMarked
  <2> QED BY <2>2, <2>5, <2>7 DEF Unhurried
<1> QED BY <1>14, <1>17, <1>18 DEF DigestInv

LEMMA StampKeeps == ASSUME DigestInv, NEW t \in Ticks, Stamp(t) PROVE DigestInv'
<1>1. /\ tick[t].pc = "stamp"
      /\ mark' = [mark EXCEPT ![tick[t].user] = tick[t].upto]
      /\ age' = [age EXCEPT ![tick[t].user] = tick[t].age]
      /\ tick' = [tick EXCEPT ![t] = Onward(@)]
      /\ UNCHANGED <<mode, note, handed, mailed, smooth, upsets>>
  BY DEF Stamp
<1>2. DigestRowsTyped /\ RunTyped(tick[t]) /\ RunCovers(tick[t])
  BY DEF DigestInv, DigestRowsTyped, DigestCovers
<1>3. PICK q : q = tick[t]
  OBVIOUS
<1>4. q \in DigestRuns /\ q.batch \in SUBSET Notes /\ q.user \in Users /\ q.age \in 0..2 /\ q.upto \in SUBSET Notes
      /\ q.due \in SUBSET DueRows
  BY <1>1, <1>2, <1>3 DEF RunTyped, DigestRuns
<1>5. PICK o : o = Onward(q)
  OBVIOUS
<1>6. /\ RunTyped(o) /\ RunCovers(o) /\ o.pc \in {"rest", "next"}
      /\ o.due = q.due /\ (o.pc # "rest" => o.upto = q.upto) /\ BatchFresh(o)
  <2>1. q.upto \subseteq Born /\ \A d \in q.due : Leaves(d.user, d.mark)
    BY <1>2, <1>3 DEF RunCovers
  <2>2. q.pc # "rest" /\ RunTyped(q)
    BY <1>1, <1>2, <1>3
  <2> QED BY <1>5, <2>1, <2>2, OnwardKept
<1>7. o \in DigestRuns
  BY <1>6 DEF RunTyped
<1>8. tick' \in [Ticks -> DigestRuns] /\ tick'[t] = o /\ \A s \in Ticks : s # t => tick'[s] = tick[s]
  BY <1>1, <1>2, <1>3, <1>5, <1>7 DEF DigestRowsTyped
<1>9. \A s \in Ticks : RunTyped(tick'[s])
  BY <1>2, <1>6, <1>8 DEF DigestRowsTyped
<1>10. mark' \in [Users -> SUBSET Notes] /\ age' \in [Users -> 0..2]
       /\ mark'[q.user] = q.upto /\ \A u \in Users : u # q.user => mark'[u] = mark[u]
  BY <1>1, <1>2, <1>3, <1>4 DEF DigestRowsTyped
<1>11. DigestRowsTyped'
  BY <1>1, <1>2, <1>8, <1>9, <1>10 DEF DigestRowsTyped, RunTyped
<1>12. Born' = Born
  BY <1>1 DEF Born
<1>13. ASSUME NEW u \in Users PROVE Leaves(u, mark[u])'
  <2>1. PICK S : S = mark'[u]
    OBVIOUS
  <2>2. Leaves(u, S)
    BY <1>1, <1>2, <1>3, <1>10, <2>1 DEF RunCovers, DigestInv, DigestCovers
  <2> QED BY <1>1, <1>12, <2>1, <2>2 DEF Leaves
<1>14. Onwards
  BY <1>1, <1>12 DEF Onwards
<1>15. ASSUME NEW s \in Ticks PROVE RunCovers(tick[s])'
  <2>1. PICK p : p = tick'[s]
    OBVIOUS
  <2>2. RunCovers(p)
    BY <1>6, <1>8, <2>1 DEF DigestInv, DigestCovers
  <2> QED BY <1>14, <2>1, <2>2, CoversKept
<1>16. ASSUME smooth' PROVE Unhurried'
  <2>1. Unhurried
    BY <1>1, <1>16 DEF DigestInv
  <2>2. \A s \in Ticks : s # t => tick[s].pc = "rest"
    BY <1>1, <2>1 DEF Unhurried, Alone
  <2>3. Alone'
    BY <1>8, <2>2 DEF Alone
  <2>4. MarksStand(q) /\ BatchFresh(q)
    BY <1>3, <2>1 DEF Unhurried
  <2>5. ASSUME NEW s \in Ticks PROVE MarksStand(tick[s])' /\ BatchFresh(tick[s])'
    <3>1. CASE s = t
      <4>1. \A d \in o.due : d.mark = mark'[d.user]
        <5>1. \A d \in q.due : d.user \in Users /\ d.user # q.user /\ d.mark = mark[d.user]
          BY <1>1, <1>3, <1>4, <2>4 DEF MarksStand, DueRows
        <5> QED BY <1>6, <1>10, <5>1
      <4>2. \A u \in Users : mark'[u] \subseteq q.upto
        BY <1>1, <1>3, <1>10, <2>4 DEF MarksStand
      <4>3. \A d, e \in o.due : d.user = e.user => d = e
        BY <1>6, <2>4 DEF MarksStand
      <4>4. MarksStand(o)'
        BY <1>6, <4>1, <4>2, <4>3 DEF MarksStand
      <4>5. BatchFresh(o)'
        BY <1>6 DEF BatchFresh
      <4> QED BY <1>8, <3>1, <4>4, <4>5
    <3>2. CASE s # t
      <4>1. PICK p : p = tick[s]
        OBVIOUS
      <4>2. p.pc = "rest" /\ p.due = {} /\ p = tick'[s]
        BY <1>2, <1>8, <2>2, <3>2, <4>1 DEF DigestRowsTyped, RunTyped
      <4>3. MarksStand(p)' /\ BatchFresh(p)'
        BY <4>2 DEF MarksStand, BatchFresh
      <4> QED BY <4>2, <4>3
    <3> QED BY <3>1, <3>2
  <2>6. ASSUME NEW n \in Notes, handed'[n] > 0
        PROVE  handed'[n] = 1 /\ note'[n].to \in Users /\ n \in Born' /\ LeftBehind(n)'
    <3>1. handed[n] = 1 /\ note[n].to \in Users /\ n \in Born /\ LeftBehind(n)
      BY <1>1, <2>1, <2>6 DEF Unhurried, HandedMarked
    <3>2. n \in mark'[note[n].to]
      <4>1. CASE n \in mark[note[n].to]
        BY <1>1, <1>3, <1>10, <2>4, <3>1, <4>1 DEF MarksStand
      <4>2. CASE n \notin mark[note[n].to]
        <5>1. n \in q.batch
          BY <1>3, <2>2, <3>1, <4>2 DEF LeftBehind
        <5>2. note[n].to = q.user /\ n \in q.upto
          BY <1>1, <1>2, <1>3, <2>4, <5>1 DEF BatchFresh, RunCovers
        <5> QED BY <1>10, <5>2
      <4> QED BY <4>1, <4>2
    <3>3. LeftBehind(n)'
      BY <1>1, <3>2 DEF LeftBehind
    <3> QED BY <1>1, <1>12, <3>1, <3>3
  <2>7. HandedMarked'
    BY <2>6 DEF HandedMarked
  <2> QED BY <2>3, <2>5, <2>7 DEF Unhurried
<1> QED BY <1>11, <1>13, <1>15, <1>16 DEF DigestInv, DigestCovers

LEMMA DigestCrashKeeps == ASSUME DigestInv, DigestCrash PROVE DigestInv'
<1>1. /\ upsets < MaxUpsets /\ upsets' = upsets + 1 /\ smooth' = FALSE
      /\ tick' = [t \in Ticks |-> Resting]
      /\ UNCHANGED <<mode, age, mark, note, handed, mailed>>
  BY DEF DigestCrash
<1>2. DigestRowsTyped
  BY DEF DigestInv
<1>3. RunTyped(Resting) /\ Resting \in DigestRuns
  BY DEF RunTyped, Resting, DigestRuns
<1>4. tick' \in [Ticks -> DigestRuns] /\ \A t \in Ticks : RunTyped(tick'[t])
  BY <1>1, <1>3
<1>5. upsets' \in 0..MaxUpsets
  BY <1>1, <1>2, DigestsAssumption DEF DigestRowsTyped
<1>6. DigestRowsTyped'
  BY <1>1, <1>2, <1>4, <1>5 DEF DigestRowsTyped, RunTyped
<1>7. \A u \in Users : Leaves(u, mark[u])'
  BY <1>1 DEF DigestInv, DigestCovers, Leaves, Born
<1>8. \A t \in Ticks : RunCovers(tick[t])'
  BY <1>1 DEF RunCovers, Resting
<1> QED BY <1>1, <1>6, <1>7, <1>8 DEF DigestInv, DigestCovers

LEMMA DigestStep == DigestInv /\ [DigestNext]_digestVars => DigestInv'
<1> SUFFICES ASSUME DigestInv, [DigestNext]_digestVars PROVE DigestInv'
  OBVIOUS
<1>1. CASE Notify
  BY <1>1, NotifyKeeps
<1>2. CASE ReadNote
  BY <1>2, ReadNoteKeeps
<1>3. CASE Prefer
  BY <1>3, PreferKeeps
<1>4. CASE Day
  BY <1>4, DayKeeps
<1>5. CASE DigestCrash
  BY <1>5, DigestCrashKeeps
<1>6. ASSUME NEW t \in Ticks, FireDigest(t) \/ RunDigest(t) PROVE DigestInv'
  BY <1>6, FireDigestKeeps, NextUserKeeps, MailKeeps, StampKeeps DEF RunDigest
<1>7. CASE UNCHANGED digestVars
  <2>1. tick' = tick /\ smooth' = smooth /\ Onwards /\ Steady
    BY <1>7 DEF digestVars, Onwards, Steady, Born
  <2>2. DigestCovers' /\ (smooth' => Unhurried')
    BY <2>1, Undisturbed
  <2>3. DigestRowsTyped'
    BY <1>7 DEF digestVars, DigestInv, DigestRowsTyped, RunTyped
  <2> QED BY <2>2, <2>3 DEF DigestInv
<1> QED BY <1>1, <1>2, <1>3, <1>4, <1>5, <1>6, <1>7 DEF DigestNext

LEMMA DigestStart == DigestInit => DigestInv
<1> SUFFICES ASSUME DigestInit PROVE DigestInv
  OBVIOUS
<1>1. RunTyped(Resting) /\ Resting \in DigestRuns /\ RunCovers(Resting) /\ BatchFresh(Resting) /\ Resting.pc = "rest"
  BY DEF RunTyped, Resting, DigestRuns, RunCovers, BatchFresh
<1>2. tick \in [Ticks -> DigestRuns] /\ \A t \in Ticks : tick[t] = Resting
  BY <1>1 DEF DigestInit
<1>3. Longest \in 0..2 /\ 0 \in 0..MaxUpsets
  BY DigestsAssumption DEF Longest
<1>4. note \in [Notes -> NoteRows] /\ age \in [Users -> 0..2]
  BY <1>3 DEF DigestInit, NoteRows
<1>5. DigestRowsTyped
  BY <1>1, <1>2, <1>3, <1>4 DEF DigestInit, DigestRowsTyped
<1>6. DigestCovers
  BY <1>1, <1>2 DEF DigestInit, DigestCovers, Leaves
<1>7. MarksStand(Resting)
  BY DEF MarksStand, Resting
<1>8. HandedMarked /\ Alone
  BY <1>1, <1>2 DEF DigestInit, HandedMarked, Alone
<1> QED BY <1>1, <1>2, <1>5, <1>6, <1>7, <1>8 DEF DigestInv, Unhurried

\* What digests keep in every state.
THEOREM DigestInvariant == DigestSpec => []DigestInv
<1> QED BY DigestStart, DigestStep, PTL DEF DigestSpec

LEMMA DigestTyped ==
  ASSUME DigestInv
  PROVE  DigestTypeOK
<1>1. DigestRowsTyped
  BY DEF DigestInv
<1>2. ASSUME NEW t \in Ticks
      PROVE  /\ tick[t].pc \in {"rest", "next", "mail", "stamp"} /\ tick[t].age \in 0..2
             /\ tick[t].upto \subseteq Notes /\ tick[t].batch \subseteq Notes
             /\ tick[t].due \subseteq [user : Users, mark : SUBSET Notes]
             /\ tick[t].pc \in {"mail", "stamp"} => tick[t].batch # {}
  BY <1>1 DEF DigestRowsTyped, RunTyped, DigestRuns, DueRows
<1> QED BY <1>1, <1>2 DEF DigestRowsTyped, DigestTypeOK, NoteRows

\* Every row of the digests' tables has its type, and no mail is about nothing.
THEOREM DigestTypes == DigestSpec => []DigestTypeOK
<1> QED BY DigestTyped, DigestInvariant, PTL

\* However many users, notifications and runs: while runs neither overlap nor are
\* cut off no notification is digested twice, and whatever overlaps or is cut off
\* the watermark of a user (last_digest_sent_at) passes no unread notification that
\* no digest carried.
THEOREM WatermarksHold == DigestSpec => []WatermarkSound
<1>1. DigestInv => WatermarkSound
  <2> SUFFICES ASSUME DigestInv PROVE WatermarkSound
    OBVIOUS
  <2>1. DigestedOnce
    <3> SUFFICES ASSUME smooth, NEW n \in Notes PROVE handed[n] <= 1
      BY DEF DigestedOnce
    <3>1. HandedMarked /\ handed[n] \in 0..2
      BY DEF DigestInv, Unhurried, DigestRowsTyped
    <3>2. handed[n] > 0 => handed[n] = 1
      BY <3>1 DEF HandedMarked
    <3> QED BY <3>1, <3>2
  <2>2. NonePassedOver
    BY DEF DigestInv, DigestCovers, Leaves, NonePassedOver
  <2> QED BY <2>1, <2>2 DEF WatermarkSound
<1> QED BY <1>1, DigestInvariant, PTL

-----------------------------------------------------------------------------
(***************************************************************************)
(* Scheduled rules.  While runs neither overlap nor are cut off and no     *)
(* rule is edited: a rule that a run has yet to take up last ran an        *)
(* interval before the run began, and no action is later than the run that *)
(* took it or, once that has stamped the rule, than the stamp.             *)
(***************************************************************************)
RunRecords == [pc : {"asleep", "next", "act"}, age : 0..Never, due : SUBSET Rules,
               rule : Rules \cup {"none"}, todo : SUBSET Matching]
RunSound(q) ==
  /\ q \in RunRecords
  /\ q.pc = "asleep" <=> q = Asleep
  /\ q.pc = "next" => q.due # {}
  /\ q.pc = "act" => q.rule \in Rules \ q.due
  /\ q.pc # "act" => q.rule = "none"
RuleRowsTyped ==
  /\ rule \in [Rules -> [state : {"enabled", "disabled", "gone"}, interval : Nat]]
  /\ since \in [Rules -> 0..Never]
  /\ run \in [Runs -> RunRecords] /\ \A k \in Runs : RunSound(run[k])
  /\ acted \in [Rules -> [Matching -> 0..Never]] /\ steady \in BOOLEAN /\ ruleUpsets \in 0..RuleUpsets

OneAwake == \A j, k \in Runs : run[j].pc # "asleep" /\ run[k].pc # "asleep" => j = k
Ripe(q) == \A r \in q.due : since[r] = Never \/ since[r] - q.age >= rule[r].interval
Late(q, r) == q.pc = "act" /\ q.rule = r
ActsStamped ==
  \A r \in Rules, i \in Matching : acted[r][i] >= since[r] \/ \E k \in Runs : Late(run[k], r)
ActsBefore ==
  \A k \in Runs : run[k].pc = "act" => \A i \in Matching : acted[run[k].rule][i] >= run[k].age
NoneGone == \A r \in Rules : rule[r].state # "gone"
Timely == NoneGone /\ OneAwake /\ ActsStamped /\ ActsBefore /\ \A k \in Runs : Ripe(run[k])
RuleInv == RuleRowsTyped /\ (steady => Timely)

LEMMA NeverIsNumber == Never \in Nat /\ \A h \in Intervals : Stored(h) \in Nat /\ Stored(h) < Never
<1>1. \A h \in Intervals : h \in Nat /\ Stored(h) \in Nat
  BY ScheduledRulesAssumption DEF Stored
<1>2. PICK longest \in Intervals : \A h \in Intervals : h <= longest
  BY ScheduledRulesAssumption
<1>3. \A h \in Intervals : Stored(h) <= Stored(longest)
  BY <1>1, <1>2 DEF Stored
<1> DEFINE S == {Stored(h) : h \in Intervals}
           P(n) == \A h \in Intervals : Stored(h) <= n
           top == CHOOSE n \in S : P(n)
<1>4. \E n \in S : P(n)
  BY <1>2, <1>3
<1>5. top \in S /\ P(top)
  BY <1>4
<1>6. PICK most \in S : most = top /\ P(most)
  BY <1>5
<1>7. Never = 1 + most
  BY <1>6 DEF Never
<1>8. most \in Nat
  BY <1>1
<1>9. \A h \in Intervals : Stored(h) <= most
  BY <1>6
<1> HIDE DEF S, P, top
<1> QED BY <1>1, <1>7, <1>8, <1>9

LEMMA OlderKept ==
  /\ \A a \in 0..Never : MinuteOlder(a) \in 0..Never /\ (a = Never => MinuteOlder(a) = Never)
  /\ \A a, b \in 0..Never : a >= b => MinuteOlder(a) >= MinuteOlder(b)
  /\ \A a, b \in 0..Never, n \in Nat : a - b >= n => MinuteOlder(a) = Never \/ MinuteOlder(a) - MinuteOlder(b) >= n
BY NeverIsNumber DEF MinuteOlder

LEMMA RuleRowsAt ==
  ASSUME RuleRowsTyped
  PROVE  /\ \A r \in Rules : since[r] \in 0..Never /\ rule[r].interval \in Nat
         /\ \A r \in Rules, i \in Matching : acted[r][i] \in 0..Never
         /\ \A k \in Runs : /\ RunSound(run[k]) /\ run[k].age \in 0..Never /\ run[k].due \in SUBSET Rules
                            /\ run[k].todo \in SUBSET Matching
BY DEF RuleRowsTyped, RunSound, RunRecords

LEMMA AsleepSound == RunSound(Asleep) /\ Asleep.pc = "asleep" /\ Asleep.due = {} /\ Asleep.age = 0
<1>1. Asleep \in RunRecords
  BY NeverIsNumber DEF Asleep, RunRecords
<1> QED BY <1>1 DEF RunSound, Asleep

\* Whether a step is witnessed to disturb the course of things or not.
LEMMA WitnessTyped ==
  ASSUME RuleRowsTyped, NEW b \in BOOLEAN, Witness(b)
  PROVE  /\ steady' \in BOOLEAN /\ acted' \in [Rules -> [Matching -> 0..Never]]
         /\ steady' => steady /\ b /\ acted' = acted
<1>1. steady \in BOOLEAN /\ acted \in [Rules -> [Matching -> 0..Never]]
  BY DEF RuleRowsTyped
<1>2. steady' = (steady /\ b) /\ acted' = IF steady' THEN acted ELSE [r \in Rules |-> [i \in Matching |-> Never]]
  BY DEF Witness
<1>3. [r \in Rules |-> [i \in Matching |-> Never]] \in [Rules -> [Matching -> 0..Never]]
  BY NeverIsNumber
<1> QED BY <1>1, <1>2, <1>3

\* One run changes from an entry to another.
LEMMA RunChanges ==
  ASSUME RuleRowsTyped, NEW k \in Runs, NEW q, RunSound(q), run' = [run EXCEPT ![k] = q]
  PROVE  /\ run' \in [Runs -> RunRecords] /\ \A j \in Runs : RunSound(run'[j])
         /\ run'[k] = q /\ \A j \in Runs : j # k => run'[j] = run[j]
<1>1. q \in RunRecords /\ run \in [Runs -> RunRecords] /\ \A j \in Runs : RunSound(run[j])
  BY DEF RunSound, RuleRowsTyped
<1> QED BY <1>1

LEMMA MinuteKeeps == ASSUME RuleInv, Minute PROVE RuleInv'
<1>1. /\ since' = [r \in Rules |-> MinuteOlder(since[r])]
      /\ acted' = [r \in Rules |-> [i \in Matching |-> MinuteOlder(acted[r][i])]]
      /\ run' = [k \in Runs |-> IF run[k] = Asleep THEN Asleep ELSE [run[k] EXCEPT !.age = MinuteOlder(@)]]
      /\ UNCHANGED <<rule, steady, ruleUpsets>>
  BY DEF Minute
<1>2. RuleRowsTyped
  BY DEF RuleInv
<1>3. since' \in [Rules -> 0..Never] /\ acted' \in [Rules -> [Matching -> 0..Never]]
  BY <1>1, <1>2, OlderKept, RuleRowsAt
<1>4. ASSUME NEW k \in Runs
      PROVE  /\ RunSound(run'[k]) /\ run'[k] \in RunRecords
             /\ run'[k].pc = run[k].pc /\ run'[k].due = run[k].due /\ run'[k].rule = run[k].rule
             /\ run[k].pc # "asleep" => run'[k].age = MinuteOlder(run[k].age)
  <2>1. PICK q : q = run[k]
    OBVIOUS
  <2>2. RunSound(q) /\ q \in RunRecords /\ q.age \in 0..Never
    BY <1>2, <2>1, RuleRowsAt DEF RunSound
  <2>3. CASE q = Asleep
    BY <1>1, <2>1, <2>2, <2>3, AsleepSound
  <2>4. CASE q # Asleep
    <3>1. PICK a \in 0..Never : a = MinuteOlder(q.age)
      BY <2>2, OlderKept
    <3>2. PICK o : o = [q EXCEPT !.age = a]
      OBVIOUS
    <3>3. run'[k] = o
      BY <1>1, <2>1, <2>4, <3>1, <3>2
    <3>4. /\ o \in RunRecords /\ o.pc = q.pc /\ o.due = q.due /\ o.rule = q.rule /\ o.age = a
      BY <2>2, <3>2 DEF RunRecords
    <3>5. q.pc # "asleep" /\ o # Asleep
      BY <2>2, <2>4, <3>4, AsleepSound DEF RunSound
    <3>6. RunSound(o)
      BY <2>2, <3>4, <3>5 DEF RunSound
    <3> QED BY <2>1, <3>1, <3>3, <3>4, <3>6
  <2> QED BY <2>3, <2>4
<1>5. run' \in [Runs -> RunRecords]
  BY <1>1, <1>4
<1>6. RuleRowsTyped'
  BY <1>1, <1>2, <1>3, <1>4, <1>5 DEF RuleRowsTyped, RunSound
<1>7. ASSUME steady' PROVE Timely'
  <2>1. Timely
    BY <1>1, <1>7 DEF RuleInv
  <2>2. OneAwake'
    BY <1>4, <2>1 DEF Timely, OneAwake
  <2>3. ASSUME NEW k \in Runs PROVE Ripe(run[k])'
    <3>1. ASSUME NEW r \in run'[k].due PROVE since'[r] = Never \/ since'[r] - run'[k].age >= rule'[r].interval
      <4>1. r \in run[k].due /\ r \in Rules /\ run[k].pc # "asleep"
        BY <1>2, <1>4, <3>1, RuleRowsAt, AsleepSound DEF RunSound
      <4>2. since[r] = Never \/ since[r] - run[k].age >= rule[r].interval
        BY <2>1, <4>1 DEF Timely, Ripe
      <4>3. since'[r] = MinuteOlder(since[r]) /\ run'[k].age = MinuteOlder(run[k].age) /\ rule' = rule
        BY <1>1, <1>4, <4>1
      <4>4. since[r] \in 0..Never /\ run[k].age \in 0..Never /\ rule[r].interval \in Nat
        BY <1>2, <4>1, RuleRowsAt
      <4> QED BY <4>2, <4>3, <4>4, OlderKept
    <3> QED BY <3>1 DEF Ripe
  <2>4. ActsBefore'
    <3>1. ASSUME NEW k \in Runs, run'[k].pc = "act", NEW i \in Matching
          PROVE  acted'[run'[k].rule][i] >= run'[k].age
      <4>1. run[k].pc = "act" /\ run'[k].age = MinuteOlder(run[k].age) /\ run'[k].rule = run[k].rule
        BY <1>4, <3>1
      <4>2. run[k].rule \in Rules
        BY <1>2, <4>1, RuleRowsAt DEF RunSound
      <4>3. acted[run[k].rule][i] >= run[k].age
        BY <2>1, <4>1 DEF Timely, ActsBefore
      <4>4. acted[run[k].rule][i] \in 0..Never /\ run[k].age \in 0..Never
        BY <1>2, <4>2, RuleRowsAt
      <4>5. acted'[run[k].rule][i] = MinuteOlder(acted[run[k].rule][i])
        BY <1>1, <4>2
      <4> QED BY <4>1, <4>3, <4>4, <4>5, OlderKept
    <3> QED BY <3>1 DEF ActsBefore
  <2>5. ActsStamped'
    <3>1. ASSUME NEW r \in Rules, NEW i \in Matching
          PROVE  acted'[r][i] >= since'[r] \/ \E k \in Runs : Late(run[k], r)'
      <4>1. CASE acted[r][i] >= since[r]
        <5>1. acted'[r][i] = MinuteOlder(acted[r][i]) /\ since'[r] = MinuteOlder(since[r])
          BY <1>1
        <5> QED BY <1>2, <4>1, <5>1, OlderKept, RuleRowsAt
      <4>2. CASE \E k \in Runs : Late(run[k], r)
        BY <1>4, <4>2 DEF Late
      <4> QED BY <2>1, <4>1, <4>2 DEF Timely, ActsStamped
    <3> QED BY <3>1 DEF ActsStamped
  <2> QED BY <1>1, <2>1, <2>2, <2>3, <2>4, <2>5 DEF Timely, NoneGone
<1> QED BY <1>6, <1>7 DEF RuleInv

LEMMA FireRulesKeeps == ASSUME RuleInv, NEW k \in Runs, FireRules(k) PROVE RuleInv'
<1>1. /\ run[k] = Asleep /\ DueRules # {}
      /\ run' = [run EXCEPT ![k] = [Asleep EXCEPT !.pc = "next", !.due = DueRules]]
      /\ Witness(\A j \in Runs : run[j] = Asleep)
      /\ UNCHANGED <<rule, since, ruleUpsets>>
  BY DEF FireRules
<1>2. RuleRowsTyped
  BY DEF RuleInv
<1>3. PICK b \in BOOLEAN : (b <=> \A j \in Runs : run[j] = Asleep) /\ Witness(b)
  <2>1. PICK b \in BOOLEAN : b <=> \A j \in Runs : run[j] = Asleep
    OBVIOUS
  <2>2. b = (\A j \in Runs : run[j] = Asleep)
    BY <2>1
  <2> QED BY <1>1, <2>1, <2>2
<1>4. PICK awaited, s : awaited = DueRules /\ s = Asleep
  OBVIOUS
<1>5. awaited \in SUBSET Rules /\ RunSound(s) /\ s \in RunRecords /\ s.due = {} /\ s.age = 0 /\ s.pc = "asleep" /\ s.rule = "none"
  BY <1>4, AsleepSound DEF RunSound, DueRules
<1>6. PICK o : o = [s EXCEPT !.pc = "next", !.due = awaited]
  OBVIOUS
<1>7. o \in RunRecords /\ o.pc = "next" /\ o.due = awaited /\ o.age = 0 /\ o.rule = "none"
  BY <1>5, <1>6 DEF RunRecords
<1>8. RunSound(o)
  BY <1>1, <1>4, <1>7, AsleepSound DEF RunSound
<1>9. run' = [run EXCEPT ![k] = o]
  BY <1>1, <1>4, <1>6
<1>10. /\ run' \in [Runs -> RunRecords] /\ \A j \in Runs : RunSound(run'[j])
       /\ run'[k] = o /\ \A j \in Runs : j # k => run'[j] = run[j]
  BY <1>2, <1>8, <1>9, RunChanges
<1>11. /\ steady' \in BOOLEAN /\ acted' \in [Rules -> [Matching -> 0..Never]]
       /\ steady' => steady /\ b /\ acted' = acted
  BY <1>2, <1>3, WitnessTyped
<1>12. RuleRowsTyped'
  BY <1>1, <1>2, <1>10, <1>11 DEF RuleRowsTyped, RunSound
<1>13. ASSUME steady' PROVE Timely'
  <2>1. /\ Timely /\ acted' = acted
        /\ \A j \in Runs : run[j] = Asleep /\ run[j].pc = "asleep" /\ run[j].due = {}
    BY <1>3, <1>11, <1>13, AsleepSound DEF RuleInv
  <2>2. OneAwake'
    BY <1>10, <2>1 DEF OneAwake
  <2>3. ASSUME NEW j \in Runs PROVE Ripe(run[j])'
    <3>1. ASSUME NEW r \in awaited PROVE since[r] = Never \/ since[r] - 0 >= rule[r].interval
      BY <1>2, <1>4, <3>1, NeverIsNumber, RuleRowsAt DEF DueRules
    <3> QED BY <1>1, <1>7, <1>10, <2>1, <3>1 DEF Ripe
  <2>4. ActsBefore'
    BY <1>7, <1>10, <2>1 DEF ActsBefore
  <2>5. ActsStamped'
    BY <1>1, <2>1 DEF Timely, ActsStamped, Late
  <2> QED BY <1>1, <2>1, <2>2, <2>3, <2>4, <2>5 DEF Timely, NoneGone
<1> QED BY <1>12, <1>13 DEF RuleInv

\* What a step of a run leaves of the course of things: the other runs are asleep.
LEMMA OthersAsleep ==
  ASSUME RuleInv, steady, NEW k \in Runs, run[k].pc # "asleep"
  PROVE  \A j \in Runs : j # k => run[j].pc = "asleep" /\ run[j] = Asleep /\ run[j].due = {}
<1>1. RuleRowsTyped /\ OneAwake
  BY DEF RuleInv, Timely
<1> QED BY <1>1, RuleRowsAt, AsleepSound DEF OneAwake, RunSound

\* The rule that is taken up, and when it last acted.
LEMMA TakeRuleKeeps ==
  ASSUME RuleInv, NEW k \in Runs, TakeRule(k)
  PROVE  /\ RuleInv'
         /\ steady' /\ run'[k].rule \in Rules =>
              \A i \in Matching : LET r == run'[k].rule IN
                acted[r][i] = Never \/ acted[r][i] - run[k].age >= rule[r].interval
<1>1. PICK r \in run[k].due, m \in SUBSET Matching :
        /\ run[k].pc = "next"
        /\ run' = [run EXCEPT ![k].pc = "act", ![k].due = @ \ {r}, ![k].rule = r, ![k].todo = m]
        /\ UNCHANGED <<rule, since, acted, steady, ruleUpsets>>
  BY DEF TakeRule
<1>2. RuleRowsTyped
  BY DEF RuleInv
<1>3. PICK q : q = run[k]
  OBVIOUS
<1>4. RunSound(q) /\ q \in RunRecords /\ q.due \in SUBSET Rules /\ q.age \in 0..Never /\ r \in Rules
  BY <1>1, <1>2, <1>3, RuleRowsAt DEF RunSound
<1>5. PICK o : o = [q EXCEPT !.pc = "act", !.due = @ \ {r}, !.rule = r, !.todo = m]
  OBVIOUS
<1>6. o \in RunRecords /\ o.pc = "act" /\ o.due = q.due \ {r} /\ o.rule = r /\ o.age = q.age
  BY <1>4, <1>5 DEF RunRecords
<1>7. RunSound(o)
  BY <1>4, <1>6, AsleepSound DEF RunSound
<1>8. run' = [run EXCEPT ![k] = o]
  BY <1>1, <1>2, <1>3, <1>5 DEF RuleRowsTyped
<1>9. /\ run' \in [Runs -> RunRecords] /\ \A j \in Runs : RunSound(run'[j])
      /\ run'[k] = o /\ \A j \in Runs : j # k => run'[j] = run[j]
  BY <1>2, <1>7, <1>8, RunChanges
<1>10. RuleRowsTyped'
  BY <1>1, <1>2, <1>9 DEF RuleRowsTyped, RunSound
<1>11. ASSUME steady'
       PROVE  \A i \in Matching : /\ acted[r][i] = Never \/ acted[r][i] - q.age >= rule[r].interval
                                  /\ acted[r][i] >= q.age
  <2>1. Timely /\ Ripe(q)
    BY <1>1, <1>3, <1>11 DEF RuleInv, Timely
  <2>2. \A j \in Runs : ~Late(run[j], r)
    <3>1. \A j \in Runs : j # k => run[j].pc = "asleep"
      BY <1>1, <1>11, OthersAsleep
    <3> QED BY <1>1, <3>1 DEF Late
  <2>3. since[r] = Never \/ since[r] - q.age >= rule[r].interval
    BY <1>1, <1>3, <2>1 DEF Ripe
  <2> SUFFICES ASSUME NEW i \in Matching
               PROVE  /\ acted[r][i] = Never \/ acted[r][i] - q.age >= rule[r].interval
                      /\ acted[r][i] >= q.age
    OBVIOUS
  <2>4. acted[r][i] >= since[r]
    BY <1>4, <2>1, <2>2 DEF Timely, ActsStamped
  <2>5. acted[r][i] \in 0..Never /\ since[r] \in 0..Never /\ rule[r].interval \in Nat /\ Never \in Nat
    BY <1>2, <1>4, RuleRowsAt, NeverIsNumber
  <2> QED BY <1>4, <2>3, <2>4, <2>5
<1>12. ASSUME steady' PROVE Timely'
  <2>1. Timely /\ Ripe(q)
    BY <1>1, <1>3, <1>12 DEF RuleInv, Timely
  <2>2. \A j \in Runs : j # k => run'[j].pc = "asleep" /\ run'[j].due = {}
    BY <1>1, <1>9, <1>12, OthersAsleep
  <2>3. OneAwake'
    BY <1>9, <2>2 DEF OneAwake
  <2>4. ASSUME NEW j \in Runs PROVE Ripe(run[j])'
    BY <1>1, <1>6, <1>9, <2>1, <2>2 DEF Ripe
  <2>5. ActsBefore'
    BY <1>1, <1>6, <1>9, <1>11, <1>12, <2>2 DEF ActsBefore
  <2>6. ActsStamped'
    <3>1. \A s \in Rules : (\E j \in Runs : Late(run[j], s)) => FALSE
      <4>1. \A j \in Runs : j # k => run[j].pc = "asleep"
        BY <1>1, <1>12, OthersAsleep
      <4> QED BY <1>1, <4>1 DEF Late
    <3> QED BY <1>1, <2>1, <3>1 DEF Timely, ActsStamped
  <2> QED BY <1>1, <2>1, <2>3, <2>4, <2>5, <2>6 DEF Timely, NoneGone
<1> QED BY <1>3, <1>6, <1>9, <1>10, <1>11, <1>12 DEF RuleInv

LEMMA ActOnKeeps == ASSUME RuleInv, NEW k \in Runs, ActOn(k) PROVE RuleInv'
<1> DEFINE r == run[k].rule
<1>1. PICK i \in run[k].todo, done \in BOOLEAN :
        /\ run[k].pc = "act"
        /\ acted' = IF done /\ steady THEN [acted EXCEPT ![r][i] = run[k].age] ELSE acted
        /\ run' = IF rule[r].state = "gone" THEN [run EXCEPT ![k] = Asleep]
                                      ELSE [run EXCEPT ![k].todo = @ \ {i}]
        /\ UNCHANGED <<rule, since, steady, ruleUpsets>>
  BY DEF ActOn
<1>2. RuleRowsTyped
  BY DEF RuleInv
<1>3. PICK q : q = run[k]
  OBVIOUS
<1>4. /\ RunSound(q) /\ q \in RunRecords /\ q.age \in 0..Never /\ q.pc = "act" /\ q.rule = r
      /\ r \in Rules /\ i \in Matching /\ q.todo \in SUBSET Matching
  BY <1>1, <1>2, <1>3, RuleRowsAt DEF RunSound
<1> HIDE DEF r
<1>5. PICK o : /\ RunSound(o) /\ run' = [run EXCEPT ![k] = o]
               /\ (o = Asleep /\ rule[r].state = "gone") \/ (o # Asleep /\ o.pc = "act" /\ o.due = q.due /\ o.rule = r /\ o.age = q.age)
  <2>1. CASE rule[r].state = "gone"
    BY <1>1, <2>1, AsleepSound
  <2>2. CASE rule[r].state # "gone"
    <3>1. PICK o : o = [q EXCEPT !.todo = @ \ {i}]
      OBVIOUS
    <3>2. o \in RunRecords /\ o.pc = "act" /\ o.due = q.due /\ o.rule = r /\ o.age = q.age
      BY <1>4, <3>1 DEF RunRecords
    <3>3. RunSound(o)
      BY <1>4, <3>2, AsleepSound DEF RunSound
    <3>4. run' = [run EXCEPT ![k] = o]
      BY <1>1, <1>2, <1>3, <2>2, <3>1 DEF RuleRowsTyped
    <3> QED BY <3>2, <3>3, <3>4, AsleepSound
  <2> QED BY <2>1, <2>2
<1>6. /\ run' \in [Runs -> RunRecords] /\ \A j \in Runs : RunSound(run'[j])
      /\ run'[k] = o /\ \A j \in Runs : j # k => run'[j] = run[j]
  BY <1>2, <1>5, RunChanges
<1>7. /\ acted' \in [Rules -> [Matching -> 0..Never]]
      /\ \A s \in Rules, j \in Matching : acted'[s][j] = acted[s][j] \/ (s = r /\ acted'[s][j] = q.age)
  BY <1>1, <1>2, <1>3, <1>4 DEF RuleRowsTyped
<1>8. RuleRowsTyped'
  BY <1>1, <1>2, <1>6, <1>7 DEF RuleRowsTyped, RunSound
<1>9. ASSUME steady' PROVE Timely'
  <2>1. Timely /\ Ripe(q)
    BY <1>1, <1>3, <1>9 DEF RuleInv, Timely
  <2>2. \A j \in Runs : j # k => run[j].pc = "asleep" /\ run'[j] = run[j] /\ run[j].due = {}
    BY <1>1, <1>6, <1>9, OthersAsleep
  <2>3. OneAwake'
    BY <1>6, <2>2 DEF OneAwake
  <2>4. ASSUME NEW j \in Runs PROVE Ripe(run[j])'
    <3>1. run'[j].due = {} \/ (run'[j].due = q.due /\ run'[j].age = q.age)
      BY <1>5, <1>6, <2>2, AsleepSound
    <3> QED BY <1>1, <2>1, <3>1 DEF Ripe
  <2>5. \A j \in Matching : acted'[r][j] >= q.age
    <3>1. \A j \in Matching : acted[r][j] >= q.age
      BY <1>3, <1>4, <2>1 DEF Timely, ActsBefore
    <3> QED BY <1>4, <1>7, <3>1
  <2>6. ActsBefore'
    BY <1>1, <1>5, <1>6, <2>2, <2>5, AsleepSound DEF ActsBefore
  <2>7. ActsStamped'
    <3>1. o # Asleep
      <4>1. rule[r].state # "gone"
        BY <1>4, <2>1 DEF Timely, NoneGone
      <4> QED BY <1>5, <4>1
    <3>2. CASE o # Asleep
      <4>1. Late(run'[k], r)
        BY <1>5, <1>6, <3>2 DEF Late
      <4>2. ASSUME NEW s \in Rules, NEW j \in Matching, s # r PROVE acted'[s][j] >= since'[s]
        <5>1. \A l \in Runs : ~Late(run[l], s)
          BY <1>3, <1>4, <2>2, <4>2 DEF Late
        <5>2. acted[s][j] >= since[s]
          BY <2>1, <5>1 DEF Timely, ActsStamped
        <5> QED BY <1>1, <1>7, <4>2, <5>2
      <4> QED BY <4>1, <4>2 DEF ActsStamped, Late
    <3> QED BY <3>1, <3>2
  <2> QED BY <1>1, <2>1, <2>3, <2>4, <2>6, <2>7 DEF Timely, NoneGone
<1> QED BY <1>8, <1>9 DEF RuleInv

LEMMA StampRuleKeeps == ASSUME RuleInv, NEW k \in Runs, StampRule(k) PROVE RuleInv'
<1> DEFINE r == run[k].rule
<1>1. /\ run[k].pc = "act" /\ run[k].todo = {}
      /\ since' = [since EXCEPT ![r] = run[k].age]
      /\ run' = [run EXCEPT ![k] = IF @.due = {} THEN Asleep
                                ELSE [@ EXCEPT !.pc = "next", !.rule = "none"]]
      /\ UNCHANGED <<rule, acted, steady, ruleUpsets>>
  BY DEF StampRule
<1>2. RuleRowsTyped
  BY DEF RuleInv
<1>3. PICK q : q = run[k]
  OBVIOUS
<1>4. /\ RunSound(q) /\ q \in RunRecords /\ q.age \in 0..Never /\ q.pc = "act" /\ q.rule = r
      /\ r \in Rules /\ r \notin q.due /\ q.due \in SUBSET Rules
  BY <1>1, <1>2, <1>3, RuleRowsAt DEF RunSound
<1> HIDE DEF r
<1>5. PICK o : /\ RunSound(o) /\ run' = [run EXCEPT ![k] = o]
               /\ o = Asleep \/ (o.pc = "next" /\ o.due = q.due /\ o.age = q.age)
  <2>1. CASE q.due = {}
    BY <1>1, <1>3, <2>1, AsleepSound
  <2>2. CASE q.due # {}
    <3>1. PICK o : o = [q EXCEPT !.pc = "next", !.rule = "none"]
      OBVIOUS
    <3>2. o \in RunRecords /\ o.pc = "next" /\ o.due = q.due /\ o.rule = "none" /\ o.age = q.age
      BY <1>4, <3>1 DEF RunRecords
    <3>3. RunSound(o)
      BY <2>2, <3>2, AsleepSound DEF RunSound
    <3>4. run' = [run EXCEPT ![k] = o]
      BY <1>1, <1>3, <2>2, <3>1
    <3> QED BY <3>2, <3>3, <3>4
  <2> QED BY <2>1, <2>2
<1>6. /\ run' \in [Runs -> RunRecords] /\ \A j \in Runs : RunSound(run'[j])
      /\ run'[k] = o /\ \A j \in Runs : j # k => run'[j] = run[j]
  BY <1>2, <1>5, RunChanges
<1>7. since' \in [Rules -> 0..Never] /\ since'[r] = q.age /\ \A s \in Rules : s # r => since'[s] = since[s]
  BY <1>1, <1>2, <1>3, <1>4 DEF RuleRowsTyped
<1>8. RuleRowsTyped'
  BY <1>1, <1>2, <1>6, <1>7 DEF RuleRowsTyped, RunSound
<1>9. ASSUME steady' PROVE Timely'
  <2>1. Timely /\ Ripe(q)
    BY <1>1, <1>3, <1>9 DEF RuleInv, Timely
  <2>2. \A j \in Runs : j # k => run[j].pc = "asleep" /\ run'[j] = run[j] /\ run[j].due = {}
    BY <1>1, <1>6, <1>9, OthersAsleep
  <2>3. OneAwake'
    BY <1>6, <2>2 DEF OneAwake
  <2>4. ASSUME NEW j \in Runs PROVE Ripe(run[j])'
    <3>1. run'[j].due = {} \/ (run'[j].due = q.due /\ run'[j].age = q.age)
      BY <1>5, <1>6, <2>2, AsleepSound
    <3>2. \A s \in q.due : since'[s] = since[s]
      BY <1>4, <1>7
    <3> QED BY <1>1, <2>1, <3>1, <3>2 DEF Ripe
  <2>5. ActsBefore'
    BY <1>5, <1>6, <2>2, AsleepSound DEF ActsBefore
  <2>6. ActsStamped'
    <3>1. ASSUME NEW s \in Rules, NEW j \in Matching PROVE acted'[s][j] >= since'[s]
      <4>1. CASE s = r
        BY <1>1, <1>3, <1>4, <1>7, <2>1, <4>1 DEF Timely, ActsBefore
      <4>2. CASE s # r
        <5>1. \A l \in Runs : ~Late(run[l], s)
          BY <1>3, <1>4, <2>2, <4>2 DEF Late
        <5>2. acted[s][j] >= since[s]
          BY <2>1, <5>1 DEF Timely, ActsStamped
        <5> QED BY <1>1, <1>7, <4>2, <5>2
      <4> QED BY <4>1, <4>2
    <3> QED BY <3>1 DEF ActsStamped
  <2> QED BY <1>1, <2>1, <2>3, <2>4, <2>5, <2>6 DEF Timely, NoneGone
<1> QED BY <1>8, <1>9 DEF RuleInv

LEMMA EditRuleKeeps == ASSUME RuleInv, EditRule PROVE RuleInv'
<1>1. PICK r \in Rules :
        /\ rule[r].state # "gone" /\ ruleUpsets < RuleUpsets
        /\ \/ rule' = [rule EXCEPT ![r].state = IF @ = "enabled" THEN "disabled" ELSE "enabled"]
           \/ rule' = [rule EXCEPT ![r].state = "gone"]
           \/ \E h \in Intervals : rule' = [rule EXCEPT ![r].interval = Stored(h)]
        /\ ruleUpsets' = ruleUpsets + 1 /\ Witness(FALSE)
        /\ UNCHANGED <<since, run>>
  BY DEF EditRule
<1>2. RuleRowsTyped
  BY DEF RuleInv
<1>3. rule' \in [Rules -> [state : {"enabled", "disabled", "gone"}, interval : Nat]]
  <2>1. \A h \in Intervals : Stored(h) \in Nat
    BY NeverIsNumber
  <2> QED BY <1>1, <1>2, <2>1, ZenonT(40) DEF RuleRowsTyped
<1>4. ruleUpsets' \in 0..RuleUpsets
  BY <1>1, <1>2, ScheduledRulesAssumption DEF RuleRowsTyped
<1>5. steady' \in BOOLEAN /\ acted' \in [Rules -> [Matching -> 0..Never]] /\ ~steady'
  BY <1>1, <1>2, WitnessTyped
<1>6. RuleRowsTyped'
  BY <1>1, <1>2, <1>3, <1>4, <1>5 DEF RuleRowsTyped, RunSound
<1> QED BY <1>5, <1>6 DEF RuleInv

LEMMA RuleCrashKeeps == ASSUME RuleInv, RuleCrash PROVE RuleInv'
<1>1. /\ ruleUpsets < RuleUpsets
      /\ run' = [k \in Runs |-> Asleep]
      /\ ruleUpsets' = ruleUpsets + 1 /\ Witness(FALSE)
      /\ UNCHANGED <<rule, since>>
  BY DEF RuleCrash
<1>2. RuleRowsTyped
  BY DEF RuleInv
<1>3. run' \in [Runs -> RunRecords] /\ \A k \in Runs : RunSound(run'[k])
  <2>1. RunSound(Asleep) /\ Asleep \in RunRecords
    BY AsleepSound DEF RunSound
  <2> QED BY <1>1, <2>1
<1>4. ruleUpsets' \in 0..RuleUpsets
  BY <1>1, <1>2, ScheduledRulesAssumption DEF RuleRowsTyped
<1>5. steady' \in BOOLEAN /\ acted' \in [Rules -> [Matching -> 0..Never]] /\ ~steady'
  BY <1>1, <1>2, WitnessTyped
<1>6. RuleRowsTyped'
  BY <1>1, <1>2, <1>3, <1>4, <1>5 DEF RuleRowsTyped, RunSound
<1> QED BY <1>5, <1>6 DEF RuleInv

LEMMA RuleStart == RuleInit => RuleInv
<1> SUFFICES ASSUME RuleInit PROVE RuleInv
  OBVIOUS
<1>1. /\ rule \in [Rules -> [state : {"enabled"}, interval : {Stored(h) : h \in Intervals}]]
      /\ since = [r \in Rules |-> Never] /\ run = [k \in Runs |-> Asleep]
      /\ acted = [r \in Rules |-> [i \in Matching |-> Never]]
      /\ steady = TRUE /\ ruleUpsets = 0
  BY DEF RuleInit
<1>2. {Stored(h) : h \in Intervals} \subseteq Nat /\ Never \in 0..Never
  BY NeverIsNumber
<1>3. /\ rule \in [Rules -> [state : {"enabled", "disabled", "gone"}, interval : Nat]]
      /\ \A r \in Rules : rule[r].state # "gone"
  BY <1>1, <1>2
<1>4. since \in [Rules -> 0..Never] /\ acted \in [Rules -> [Matching -> 0..Never]] /\ 0 \in 0..RuleUpsets
  BY <1>1, <1>2, ScheduledRulesAssumption
<1>5. run \in [Runs -> RunRecords] /\ \A k \in Runs : RunSound(run[k]) /\ run[k] = Asleep
  <2>1. RunSound(Asleep) /\ Asleep \in RunRecords
    BY AsleepSound DEF RunSound
  <2> QED BY <1>1, <2>1
<1>6. RuleRowsTyped
  BY <1>1, <1>3, <1>4, <1>5 DEF RuleRowsTyped
<1>7. OneAwake /\ ActsBefore /\ \A k \in Runs : Ripe(run[k])
  BY <1>5, AsleepSound DEF OneAwake, ActsBefore, Ripe
<1>8. ActsStamped
  BY <1>1, <1>2 DEF ActsStamped
<1> QED BY <1>3, <1>6, <1>7, <1>8 DEF RuleInv, Timely, NoneGone

LEMMA RuleStep == RuleInv /\ [RuleNext]_ruleVars => RuleInv'
<1> SUFFICES ASSUME RuleInv, [RuleNext]_ruleVars PROVE RuleInv'
  OBVIOUS
<1>1. CASE Minute
  BY <1>1, MinuteKeeps
<1>2. CASE EditRule
  BY <1>2, EditRuleKeeps
<1>3. CASE RuleCrash
  BY <1>3, RuleCrashKeeps
<1>4. ASSUME NEW k \in Runs, FireRules(k) \/ RunRules(k) PROVE RuleInv'
  BY <1>4, FireRulesKeeps, TakeRuleKeeps, ActOnKeeps, StampRuleKeeps DEF RunRules
<1>5. CASE UNCHANGED ruleVars
  BY <1>5 DEF ruleVars, RuleInv, RuleRowsTyped, RunSound, Timely, NoneGone, OneAwake, ActsBefore, Ripe,
              ActsStamped, Late
<1> QED BY <1>1, <1>2, <1>3, <1>4, <1>5 DEF RuleNext

\* What the scheduled rules keep in every state.
THEOREM RuleInvariant == RuleSpec => []RuleInv
<1> QED BY RuleStart, RuleStep, PTL DEF RuleSpec

\* Every row of the scheduled rules has its type.
THEOREM RuleTypes == RuleSpec => []RuleTypeOK
<1>1. RuleInv => RuleTypeOK
  BY DEF RuleInv, RuleRowsTyped, RunSound, RunRecords, RuleTypeOK
<1> QED BY <1>1, RuleInvariant, PTL

\* However many rules, issues and runs: while runs neither overlap nor are cut off
\* and no rule is edited, a rule takes up an issue again only when its interval has
\* passed since the `now` of the run that last acted on it.
THEOREM RulesWait == RuleSpec => OncePerInterval
<1> DEFINE Waits == \A k \in Runs, r \in Rules : steady' /\ run[k].rule # r /\ run'[k].rule = r =>
                      \A i \in Matching :
                        acted[r][i] = Never \/ acted[r][i] - run[k].age >= rule[r].interval
<1>1. RuleInv /\ [RuleNext]_ruleVars => [Waits]_ruleVars
  <2> SUFFICES ASSUME RuleInv, RuleNext,
                      NEW k \in Runs, NEW r \in Rules, steady', run[k].rule # r, run'[k].rule = r
               PROVE  \A i \in Matching :
                        acted[r][i] = Never \/ acted[r][i] - run[k].age >= rule[r].interval
    OBVIOUS
  <2>1. RuleRowsTyped /\ run \in [Runs -> RunRecords] /\ "none" # r
    BY ScheduledRulesAssumption DEF RuleInv, RuleRowsTyped
  <2>2. Asleep.rule = "none"
    BY DEF Asleep
  <2>3. CASE Minute
    <3>1. PICK q : q = run[k]
      OBVIOUS
    <3>2. q \in RunRecords
      BY <2>1, <3>1
    <3>3. run'[k] = Asleep \/ run'[k] = [q EXCEPT !.age = MinuteOlder(@)]
      BY <2>3, <3>1 DEF Minute
    <3>4. run'[k].rule = "none" \/ run'[k].rule = run[k].rule
      BY <2>2, <3>1, <3>2, <3>3 DEF RunRecords
    <3> QED BY <2>1, <3>4
  <2>4. CASE EditRule
    BY <2>4 DEF EditRule
  <2>5. CASE RuleCrash
    BY <2>1, <2>2, <2>5 DEF RuleCrash
  <2>6. ASSUME NEW j \in Runs, FireRules(j) PROVE FALSE
    <3>1. run'[k] = run[k] \/ run'[k] = [Asleep EXCEPT !.pc = "next", !.due = DueRules]
      BY <2>1, <2>6 DEF FireRules
    <3>2. [Asleep EXCEPT !.pc = "next", !.due = DueRules].rule = "none"
      BY DEF Asleep
    <3> QED BY <2>1, <3>1, <3>2
  <2>7. ASSUME NEW j \in Runs, TakeRule(j)
        PROVE  \A i \in Matching :
                 acted[r][i] = Never \/ acted[r][i] - run[k].age >= rule[r].interval
    <3>1. j = k
      BY <2>1, <2>7 DEF TakeRule
    <3> QED BY <2>7, <3>1, TakeRuleKeeps
  <2>8. ASSUME NEW j \in Runs, ActOn(j) PROVE FALSE
    BY <2>1, <2>2, <2>8 DEF ActOn, RunRecords
  <2>9. ASSUME NEW j \in Runs, StampRule(j) PROVE FALSE
    BY <2>1, <2>2, <2>9 DEF StampRule, RunRecords
  <2> QED BY <2>3, <2>4, <2>5, <2>6, <2>7, <2>8, <2>9 DEF RuleNext, RunRules
<1> QED BY <1>1, RuleInvariant, PTL DEF RuleSpec, OncePerInterval

-----------------------------------------------------------------------------
(***************************************************************************)
(* Throttle.  A window touches two buckets at most, and what a lock finds  *)
(* past the gate is all that may still be counted.                         *)
(***************************************************************************)
Moments == (0..Window) \X (Nat \ {0})
\* The moments of the present tick are told apart by numbers up to their count.
ToldApart(s) == \A t \in Now(s) : t[2] <= Cardinality(Now(s))
Timed(s) == s \subseteq Moments /\ IsFiniteSet(s) /\ ToldApart(s)
Clocks == Timed(failures) /\ Timed(guesses) /\ Timed(passes) /\ Within(guesses) = guesses /\ Within(passes) = passes

\* What the open bucket let through; the rest is of earlier ones.
Recent == {t \in passes : bucket.reset > 0 /\ t[1] + bucket.reset <= Window}
Buckets ==
  /\ bucket.reset = 0 => bucket.count = 0 /\ Now(passes) = {}
  /\ Cardinality(Recent) <= bucket.count /\ Cardinality(Recent) <= Allowance
  /\ Cardinality(passes \ Recent) <= Allowance

Pending == {a \in Attempts : attempt[a]}
\* While no attempt is late: before a lock every wrong password of the window is counted;
\* under one no attempt enters, and each guess ages with the lock; after it
\* the window is empty.
Guarded == Lockout >= Window /\ ~late =>
  /\ lock = Free => guesses = Within(failures)
  /\ lock = 0 => guesses = {} /\ Pending = {}
  /\ Locked => /\ \A t \in guesses : t[1] + lock >= Lockout
               /\ Cardinality(guesses) + Cardinality(Pending) <= MaxAttempts + Cardinality(Attempts) - 1
               /\ Pending # {} => lock = Lockout
ThrottleInv == ThrottleTypeOK /\ Clocks /\ Buckets /\ Guarded

LEMMA AddNowGrows ==
  ASSUME NEW s, Timed(s)
  PROVE  /\ Timed(AddNow(s)) /\ Cardinality(s) \in Nat /\ Cardinality(AddNow(s)) = Cardinality(s) + 1
         /\ Within(s) = s => Within(AddNow(s)) = AddNow(s)
<1>1. PICK n : n = Cardinality(Now(s)) + 1
  OBVIOUS
<1>2. PICK t : t = <<0, n>>
  OBVIOUS
<1>3. AddNow(s) = s \cup {t} /\ t[1] = 0 /\ t[2] = n
  BY <1>1, <1>2 DEF AddNow
<1>4. IsFiniteSet(s) /\ IsFiniteSet(Now(s)) /\ Cardinality(s) \in Nat /\ Cardinality(Now(s)) \in Nat
  BY FS_Subset, FS_CardinalityType DEF Timed, Now
<1>5. n \in Nat \ {0} /\ 0 \in 0..Window
  BY <1>1, <1>4, ThrottleAssumption
<1>6. t \in Moments
  BY <1>2, <1>5 DEF Moments
<1>7. t \notin s
  BY <1>1, <1>3, <1>4 DEF Timed, ToldApart, Now
<1>8. Now(s \cup {t}) = Now(s) \cup {t}
  BY <1>3 DEF Now
<1>9. IsFiniteSet(s \cup {t}) /\ Cardinality(s \cup {t}) = Cardinality(s) + 1
  BY <1>4, <1>7, FS_AddElement
<1>10. Cardinality(Now(s) \cup {t}) = n
  <2>1. t \notin Now(s)
    BY <1>7 DEF Now
  <2> QED BY <1>1, <1>4, <2>1, FS_AddElement
<1>11. ToldApart(s \cup {t})
  <2>1. ASSUME NEW r \in Now(s) PROVE r[2] <= n
    <3>1. r[2] \in Nat /\ r[2] <= Cardinality(Now(s))
      BY DEF Timed, ToldApart, Now, Moments
    <3> QED BY <1>1, <1>4, <3>1
  <2> QED BY <1>3, <1>5, <1>8, <1>10, <2>1 DEF ToldApart
<1>12. Within(s) = s => Within(s \cup {t}) = s \cup {t}
  BY <1>3, ThrottleAssumption DEF Within
<1> QED BY <1>3, <1>4, <1>6, <1>9, <1>11, <1>12 DEF Timed

\* A tick later, moments are as many at most.
Later(s) == {<<t[1] + 1, t[2]>> : t \in s}

LEMMA LaterShrinks ==
  ASSUME NEW s, IsFiniteSet(s), NEW r, r \subseteq Later(s)
  PROVE  IsFiniteSet(r) /\ Cardinality(r) \in Nat /\ Cardinality(s) \in Nat /\ Cardinality(r) <= Cardinality(s)
<1> DEFINE f == [t \in s |-> <<t[1] + 1, t[2]>>]
<1>1. f \in Surjection(s, Later(s))
  BY DEF Surjection, Later
<1>2. IsFiniteSet(Later(s)) /\ Cardinality(Later(s)) <= Cardinality(s)
  BY <1>1, FS_Surjection
<1>3. IsFiniteSet(r) /\ Cardinality(r) <= Cardinality(Later(s))
  BY <1>2, FS_Subset
<1>4. Cardinality(r) \in Nat /\ Cardinality(s) \in Nat /\ Cardinality(Later(s)) \in Nat
  BY <1>2, <1>3, FS_CardinalityType
<1> QED BY <1>2, <1>3, <1>4

LEMMA AgedTimed ==
  ASSUME NEW s, Timed(s), NEW r, r \subseteq Aged(s)
  PROVE  /\ Timed(r) /\ Now(r) = {} /\ Cardinality(r) \in Nat /\ Cardinality(s) \in Nat
         /\ Cardinality(r) <= Cardinality(s)
<1>1. Within(s) \subseteq s /\ r \subseteq Later(s)
  BY DEF Within, Aged, Later
<1>2. IsFiniteSet(r) /\ Cardinality(r) \in Nat /\ Cardinality(s) \in Nat /\ Cardinality(r) <= Cardinality(s)
  BY <1>1, LaterShrinks DEF Timed
<1>3. ASSUME NEW t \in r PROVE t \in Moments /\ t[1] # 0
  <2>1. PICK m \in s : m[1] < Window /\ t = <<m[1] + 1, m[2]>>
    BY DEF Aged, Within
  <2>2. m[1] \in 0..Window /\ m[2] \in Nat \ {0}
    BY <2>1 DEF Timed, Moments
  <2>3. m[1] + 1 \in 0..Window /\ m[1] + 1 # 0
    BY <2>1, <2>2, ThrottleAssumption
  <2> QED BY <2>1, <2>2, <2>3 DEF Moments
<1>4. Now(r) = {}
  BY <1>3 DEF Now
<1> QED BY <1>2, <1>3, <1>4 DEF Timed, ToldApart

LEMMA NothingTimed == Timed({}) /\ Within({}) = {} /\ Now({}) = {} /\ Cardinality({}) = 0
BY FS_EmptySet DEF Timed, Within, Now, ToldApart

LEMMA WithinTimed == ASSUME NEW s, Timed(s) PROVE Timed(Within(s)) /\ Cardinality(Within(s)) <= Cardinality(s)
<1>1. Within(s) \subseteq s /\ Now(Within(s)) = Now(s)
  BY ThrottleAssumption DEF Within, Now
<1>2. IsFiniteSet(Within(s)) /\ Cardinality(Within(s)) <= Cardinality(s)
  BY <1>1, FS_Subset DEF Timed
<1> QED BY <1>1, <1>2 DEF Timed, ToldApart

\* The clocks carry the types of the sets of moments.
LEMMA TypesNext ==
  ASSUME Clocks', lock' \in Free..Lockout, bucket' \in [count : 0..Allowance + 1, reset : 0..Window],
         attempt' \in [Attempts -> BOOLEAN], late' \in BOOLEAN, Cardinality(failures') >= MaxAttempts => lock' # Free
  PROVE  ThrottleTypeOK'
BY DEF Clocks, Timed, Moments, ThrottleTypeOK

LEMMA PendingFinite ==
  ASSUME NEW S, S \subseteq Attempts
  PROVE  IsFiniteSet(S) /\ Cardinality(S) \in Nat /\ Cardinality(Attempts) \in Nat /\ Cardinality(S) <= Cardinality(Attempts)
BY FS_Subset, FS_CardinalityType, ThrottleAssumption

LEMMA BucketTyped == ASSUME ThrottleTypeOK PROVE bucket.count \in Nat /\ bucket.count <= Allowance + 1 /\ bucket.reset \in Nat /\ bucket.reset <= Window
BY ThrottleAssumption DEF ThrottleTypeOK

\* A request the limiter counts.
LEMMA CountedTyped ==
  ASSUME ThrottleTypeOK, Buckets
  PROVE  /\ Counted \in [count : 0..Allowance + 1, reset : 0..Window] /\ Counted.reset > 0
         /\ Counted.count \in Nat /\ Counted.count >= bucket.count
         /\ Counted.count <= Allowance => Counted.count = bucket.count + 1
         /\ bucket.reset > 0 => Counted.reset = bucket.reset
         /\ bucket.reset = 0 => Counted.reset = Window /\ Counted.count = 1
<1>1. PICK c, n : c = bucket.count /\ n = bucket.reset
  OBVIOUS
<1>2. c \in 0..Allowance + 1 /\ n \in 0..Window
  BY <1>1 DEF ThrottleTypeOK
<1>3. PICK b : b = IF bucket.reset = 0 THEN [count |-> 0, reset |-> Window] ELSE bucket
  OBVIOUS
<1>4. /\ b \in [count : 0..Allowance + 1, reset : 0..Window] /\ b.reset > 0 /\ b.count = c
      /\ b.reset = IF n = 0 THEN Window ELSE n
  <2>1. CASE bucket.reset = 0
    BY <1>1, <1>2, <1>3, <2>1, ThrottleAssumption DEF Buckets
  <2>2. CASE bucket.reset # 0
    BY <1>1, <1>2, <1>3, <2>2 DEF ThrottleTypeOK
  <2> QED BY <2>1, <2>2
<1>5. Counted = [b EXCEPT !.count = IF @ > Allowance THEN @ ELSE @ + 1]
  BY <1>3 DEF Counted
<1>6. Counted.count = (IF c > Allowance THEN c ELSE c + 1) /\ Counted.reset = b.reset
  BY <1>4, <1>5
<1>7. Counted \in [count : 0..Allowance + 1, reset : 0..Window]
  BY <1>2, <1>4, <1>5, ThrottleAssumption
<1>8. n = 0 => c = 0
  BY <1>1 DEF Buckets
<1> QED BY <1>1, <1>2, <1>4, <1>6, <1>7, <1>8, ThrottleAssumption

LEMMA ThrottleStart == ThrottleInit => ThrottleInv
<1> SUFFICES ASSUME ThrottleInit PROVE ThrottleInv
  OBVIOUS
<1>1. /\ failures = {} /\ guesses = {} /\ passes = {} /\ lock = Free /\ late = FALSE
      /\ bucket = [count |-> 0, reset |-> 0] /\ bucket.count = 0 /\ bucket.reset = 0
      /\ attempt = [a \in Attempts |-> FALSE]
  BY DEF ThrottleInit
<1>2. Clocks
  BY <1>1, NothingTimed DEF Clocks
<1>3. Recent = {} /\ passes \ Recent = {}
  BY <1>1 DEF Recent
<1>4. Buckets
  BY <1>1, <1>3, NothingTimed, ThrottleAssumption DEF Buckets
<1>5. ThrottleTypeOK
  <2>1. bucket \in [count : 0..Allowance + 1, reset : 0..Window] /\ lock \in Free..Lockout
    BY <1>1, ThrottleAssumption DEF Free
  <2>3. attempt \in [Attempts -> BOOLEAN] /\ late \in BOOLEAN
    BY <1>1
  <2>4. ~(Cardinality(failures) >= MaxAttempts)
    BY <1>1, NothingTimed, ThrottleAssumption
  <2> QED BY <1>2, <2>1, <2>3, <2>4 DEF Clocks, Timed, Moments, ThrottleTypeOK
<1>6. Guarded
  BY <1>1, NothingTimed DEF Guarded, Free, Locked
<1> QED BY <1>2, <1>4, <1>5, <1>6 DEF ThrottleInv

LEMMA RecentCounted ==
  ASSUME ThrottleTypeOK, Clocks
  PROVE  /\ IsFiniteSet(Recent) /\ Cardinality(Recent) \in Nat
         /\ IsFiniteSet(passes \ Recent) /\ Cardinality(passes \ Recent) \in Nat
         /\ Cardinality(passes) \in Nat /\ Cardinality(passes) = Cardinality(Recent) + Cardinality(passes \ Recent)
<1>1. IsFiniteSet(passes) /\ Recent \subseteq passes
  BY DEF Clocks, Timed, Recent
<1>2. IsFiniteSet(Recent) /\ IsFiniteSet(passes \ Recent)
  BY <1>1, FS_Subset
<1>3. Recent \cap (passes \ Recent) = {} /\ passes = Recent \cup (passes \ Recent)
  BY <1>1
<1>4. Cardinality(passes) = Cardinality(Recent) + Cardinality(passes \ Recent) - Cardinality({})
  BY <1>2, <1>3, FS_Union
<1> QED BY <1>1, <1>2, <1>4, FS_CardinalityType, FS_EmptySet

\* Where requests and the bucket stay, so does what the bucket let through.
LEMMA BucketsStay == ASSUME Buckets, bucket' = bucket, passes' = passes PROVE Buckets'
BY DEF Buckets, Recent

LEMMA RefusedKeeps == ASSUME ThrottleInv, Refused PROVE ThrottleInv'
<1>1. /\ ThrottleTypeOK /\ Clocks /\ Buckets /\ Guarded
      /\ Counted.count > Allowance /\ bucket' = Counted
      /\ UNCHANGED <<failures, lock, attempt, guesses, passes, late>>
  BY DEF ThrottleInv, Refused
<1>2. /\ Counted \in [count : 0..Allowance + 1, reset : 0..Window] /\ Counted.count >= bucket.count
      /\ Counted.reset = bucket.reset /\ bucket.reset > 0
  <2>1. bucket.reset \in Nat
    BY <1>1, BucketTyped
  <2>2. bucket.reset # 0
    BY <1>1, CountedTyped, ThrottleAssumption
  <2> QED BY <1>1, <2>1, <2>2, CountedTyped
<1>3. Clocks' /\ ThrottleTypeOK'
  BY <1>1, <1>2 DEF Clocks, ThrottleTypeOK
<1>4. Recent' = Recent
  BY <1>1, <1>2 DEF Recent
<1>5. Buckets'
  <2>1. Cardinality(Recent) \in Nat /\ bucket.count \in Nat /\ Counted.count \in Nat
    BY <1>1, RecentCounted, BucketTyped, CountedTyped
  <2>2. Cardinality(Recent) <= Counted.count
    BY <1>1, <1>2, <2>1 DEF Buckets
  <2> QED BY <1>1, <1>2, <1>4, <2>2 DEF Buckets
<1>6. Guarded'
  BY <1>1 DEF Guarded, Pending, Locked
<1> QED BY <1>3, <1>5, <1>6 DEF ThrottleInv

LEMMA GateBuckets ==
  ASSUME ThrottleInv, bucket' = Counted, Counted.count <= Allowance, passes' = AddNow(passes)
  PROVE  Buckets'
<1>1. ThrottleTypeOK /\ Clocks /\ Buckets /\ Timed(passes)
  BY DEF ThrottleInv, Clocks
<1>2. PICK t : t = <<0, Cardinality(Now(passes)) + 1>>
  OBVIOUS
<1>3. passes' = passes \cup {t} /\ t[1] = 0
  BY <1>2 DEF AddNow
<1>4. \A m \in passes : m[1] \in Nat
  BY <1>1 DEF Timed, Moments
<1>5. /\ IsFiniteSet(Recent) /\ Cardinality(Recent) \in Nat /\ Cardinality(Recent) <= bucket.count
      /\ Cardinality(Recent) <= Allowance /\ Cardinality(passes \ Recent) <= Allowance
      /\ bucket.count \in Nat /\ bucket.reset \in Nat /\ bucket.reset <= Window
  BY <1>1, RecentCounted, BucketTyped DEF Buckets
<1>6. /\ Counted.count \in Nat /\ Counted.count = bucket.count + 1 /\ Counted.reset > 0
      /\ bucket.reset > 0 => Counted.reset = bucket.reset
      /\ bucket.reset = 0 => Counted.reset = Window
  BY <1>1, CountedTyped
<1>7. CASE bucket.reset > 0
  <2>1. Recent' = Recent \cup {t}
    BY <1>3, <1>5, <1>6, <1>7 DEF Recent
  <2>2. Cardinality(Recent \cup {t}) <= Cardinality(Recent) + 1 /\ Cardinality(Recent \cup {t}) \in Nat
    <3>1. IsFiniteSet(Recent \cup {t}) /\ Cardinality(Recent \cup {t}) = IF t \in Recent THEN Cardinality(Recent)
                                                                        ELSE Cardinality(Recent) + 1
      BY <1>5, FS_AddElement
    <3> QED BY <1>5, <3>1
  <2>3. (passes \cup {t}) \ (Recent \cup {t}) \subseteq passes \ Recent
    OBVIOUS
  <2>4. Cardinality((passes \cup {t}) \ (Recent \cup {t})) <= Allowance
    <3>1. IsFiniteSet(passes \ Recent) /\ Cardinality(passes \ Recent) \in Nat
      BY <1>1, RecentCounted
    <3>2. /\ Cardinality((passes \cup {t}) \ (Recent \cup {t})) <= Cardinality(passes \ Recent)
          /\ Cardinality((passes \cup {t}) \ (Recent \cup {t})) \in Nat
      BY <2>3, <3>1, FS_Subset, FS_CardinalityType
    <3> QED BY <1>5, <3>1, <3>2, ThrottleAssumption
  <2>5. Cardinality(Recent \cup {t}) <= Counted.count /\ Cardinality(Recent \cup {t}) <= Allowance
    BY <1>5, <1>6, <2>2, ThrottleAssumption
  <2> QED BY <1>3, <1>6, <2>1, <2>4, <2>5 DEF Buckets
<1>8. CASE bucket.reset = 0
  <2>1. Recent = {} /\ bucket.count = 0 /\ Now(passes) = {}
    BY <1>1, <1>8 DEF Buckets, Recent
  <2>2. Recent' = {t}
    <3>1. \A m \in passes : m[1] + Window > Window
      BY <1>4, <2>1, ThrottleAssumption DEF Now
    <3>2. bucket'.reset = Window /\ Window > 0 /\ 0 + Window <= Window
      BY <1>6, <1>8, ThrottleAssumption
    <3>3. Recent' = {m \in passes \cup {t} : m[1] + Window <= Window}
      BY <1>3, <3>2 DEF Recent
    <3>4. \A m \in passes : ~(m[1] + Window <= Window)
      BY <1>4, <3>1, ThrottleAssumption
    <3> QED BY <1>3, <3>2, <3>3, <3>4
  <2>3. Cardinality({t}) = 1
    BY FS_Singleton
  <2>4. (passes \cup {t}) \ {t} \subseteq passes
    OBVIOUS
  <2>5. Cardinality((passes \cup {t}) \ {t}) <= Allowance
    <3>1. IsFiniteSet(passes) /\ Cardinality(passes) \in Nat /\ Cardinality(passes) <= Allowance
      BY <1>1, <1>5, <2>1, FS_CardinalityType DEF Timed
    <3>2. /\ Cardinality((passes \cup {t}) \ {t}) <= Cardinality(passes)
          /\ Cardinality((passes \cup {t}) \ {t}) \in Nat
      BY <2>4, <3>1, FS_Subset, FS_CardinalityType
    <3> QED BY <3>1, <3>2, ThrottleAssumption
  <2> QED BY <1>3, <1>6, <2>1, <2>2, <2>3, <2>5, ThrottleAssumption DEF Buckets
<1> QED BY <1>5, <1>7, <1>8

LEMMA GateKeeps == ASSUME ThrottleInv, NEW a \in Attempts, Gate(a) PROVE ThrottleInv'
<1>1. /\ ThrottleTypeOK /\ Clocks /\ Buckets /\ Guarded
      /\ ~attempt[a] /\ Counted.count <= Allowance /\ bucket' = Counted /\ passes' = AddNow(passes)
      /\ attempt' = [attempt EXCEPT ![a] = ~Locked]
      /\ IF lock = 0 THEN failures' = {} /\ lock' = Free ELSE UNCHANGED <<failures, lock>>
      /\ UNCHANGED <<guesses, late>>
  BY DEF ThrottleInv, Gate
<1>2. PICK k \in BOOLEAN : k <=> Locked
  OBVIOUS
<1>3. attempt' = [attempt EXCEPT ![a] = ~k]
  BY <1>1, <1>2 DEF Locked
<1>4. attempt \in [Attempts -> BOOLEAN] /\ attempt' \in [Attempts -> BOOLEAN]
  BY <1>1, <1>3 DEF ThrottleTypeOK
<1>5. Clocks'
  <2>1. Timed(AddNow(passes)) /\ Within(AddNow(passes)) = AddNow(passes)
    BY <1>1, AddNowGrows DEF Clocks
  <2>2. Timed(failures)'
    BY <1>1, NothingTimed DEF Clocks
  <2> QED BY <1>1, <2>1, <2>2 DEF Clocks
<1>6. ThrottleTypeOK'
  <2>1. bucket' \in [count : 0..Allowance + 1, reset : 0..Window]
    BY <1>1, CountedTyped
  <2>2. lock' \in Free..Lockout /\ (Cardinality(failures') >= MaxAttempts => lock' # Free)
    <3>1. lock \in Free..Lockout /\ (Cardinality(failures) >= MaxAttempts => lock # Free) /\ Free \in Free..Lockout
      BY <1>1, ThrottleAssumption DEF ThrottleTypeOK, Free
    <3>2. CASE lock = 0
      <4>1. ~(Cardinality({}) >= MaxAttempts)
        BY NothingTimed, ThrottleAssumption
      <4> QED BY <1>1, <3>1, <3>2, <4>1
    <3> QED BY <1>1, <3>1, <3>2
  <2>3. late' \in BOOLEAN
    BY <1>1 DEF ThrottleTypeOK
  <2> QED BY <1>4, <1>5, <2>1, <2>2, <2>3, TypesNext
<1>7. Buckets'
  BY <1>1, GateBuckets
<1>8. Guarded'
  <2> SUFFICES ASSUME Lockout >= Window, ~late
               PROVE  /\ lock' = Free => guesses' = Within(failures')
                      /\ lock' # 0
                      /\ Locked' => /\ \A t \in guesses' : t[1] + lock' >= Lockout
                                    /\ Cardinality(guesses') + Cardinality(Pending') <= MaxAttempts + Cardinality(Attempts) - 1
                                    /\ Pending' # {} => lock' = Lockout
    BY <1>1 DEF Guarded
  <2>1. /\ lock = Free => guesses = Within(failures)
        /\ lock = 0 => guesses = {} /\ Pending = {}
        /\ Locked => /\ \A t \in guesses : t[1] + lock >= Lockout
                     /\ Cardinality(guesses) + Cardinality(Pending) <= MaxAttempts + Cardinality(Attempts) - 1
                     /\ Pending # {} => lock = Lockout
    BY <1>1 DEF Guarded
  <2>2. CASE lock = 0
    BY <1>1, <2>1, <2>2, NothingTimed DEF Locked, Free
  <2>3. CASE lock # 0 /\ ~Locked
    BY <1>1, <2>1, <2>3 DEF Locked
  <2>4. CASE lock # 0 /\ Locked
    <3>1. k = TRUE
      BY <1>2, <2>4
    <3>2. attempt' = attempt
      BY <1>1, <1>3, <1>4, <3>1
    <3>3. Pending' = Pending
      BY <3>2 DEF Pending
    <3> QED BY <1>1, <2>1, <2>4, <3>3 DEF Locked, Free
  <2> QED BY <2>2, <2>3, <2>4
<1> QED BY <1>5, <1>6, <1>7, <1>8 DEF ThrottleInv

\* An attempt that gets its verdict is one fewer past the gate.
LEMMA VerdictReached ==
  ASSUME ThrottleTypeOK, NEW a \in Attempts, attempt[a], attempt' = [attempt EXCEPT ![a] = FALSE]
  PROVE  /\ attempt' \in [Attempts -> BOOLEAN] /\ Pending # {} /\ Pending' \subseteq Pending
         /\ Cardinality(Pending) \in Nat /\ Cardinality(Pending') = Cardinality(Pending) - 1
         /\ Cardinality(Attempts) \in Nat /\ Cardinality(Pending) <= Cardinality(Attempts)
<1>1. attempt \in [Attempts -> BOOLEAN]
  BY DEF ThrottleTypeOK
<1>2. Pending' = Pending \ {a} /\ a \in Pending
  BY <1>1 DEF Pending
<1>3. IsFiniteSet(Pending) /\ Cardinality(Pending) \in Nat /\ Cardinality(Attempts) \in Nat
      /\ Cardinality(Pending) <= Cardinality(Attempts)
  BY PendingFinite DEF Pending
<1>4. Cardinality(Pending \ {a}) = Cardinality(Pending) - 1
  BY <1>2, <1>3, FS_RemoveElement
<1> QED BY <1>1, <1>2, <1>3, <1>4

LEMMA WrongKeeps == ASSUME ThrottleInv, NEW a \in Attempts, Wrong(a) PROVE ThrottleInv'
<1>1. PICK kept : kept = AddNow(Within(failures))
  OBVIOUS
<1>2. /\ ThrottleTypeOK /\ Clocks /\ Buckets /\ Guarded
      /\ attempt[a] /\ attempt' = [attempt EXCEPT ![a] = FALSE]
      /\ failures' = kept /\ lock' = (IF Cardinality(kept) >= MaxAttempts THEN Lockout ELSE lock)
      /\ guesses' = AddNow(guesses) /\ UNCHANGED <<bucket, passes, late>>
  BY <1>1 DEF ThrottleInv, Wrong
<1>3. /\ attempt' \in [Attempts -> BOOLEAN] /\ Pending # {} /\ Pending' \subseteq Pending
      /\ Cardinality(Pending) \in Nat /\ Cardinality(Pending') = Cardinality(Pending) - 1
      /\ Cardinality(Attempts) \in Nat /\ Cardinality(Pending) <= Cardinality(Attempts)
  BY <1>2, VerdictReached
<1>4. Timed(Within(failures)) /\ Cardinality(Within(failures)) <= Cardinality(failures)
  BY <1>2, WithinTimed DEF Clocks
<1>5. Timed(kept) /\ Cardinality(kept) = Cardinality(Within(failures)) + 1 /\ Cardinality(Within(failures)) \in Nat
  BY <1>1, <1>4, AddNowGrows
<1>6. /\ Timed(guesses') /\ Within(guesses') = guesses' /\ Cardinality(guesses) \in Nat
      /\ Cardinality(guesses') = Cardinality(guesses) + 1
  BY <1>2, AddNowGrows DEF Clocks
<1>7. Clocks'
  BY <1>2, <1>5, <1>6 DEF Clocks
<1>8. lock \in Free..Lockout /\ Cardinality(failures) \in Nat /\ (Cardinality(failures) >= MaxAttempts => lock # Free)
  BY <1>2, FS_CardinalityType DEF ThrottleTypeOK
<1>9. ThrottleTypeOK'
  <2>1. lock' \in Free..Lockout /\ (Cardinality(kept) >= MaxAttempts => lock' # Free)
    BY <1>2, <1>8, ThrottleAssumption DEF Free
  <2>2. bucket' \in [count : 0..Allowance + 1, reset : 0..Window] /\ late' \in BOOLEAN
    BY <1>2 DEF ThrottleTypeOK
  <2>3. Cardinality(failures') >= MaxAttempts => lock' # Free
    BY <1>2, <2>1
  <2> QED BY <1>3, <1>7, <2>1, <2>2, <2>3, TypesNext
<1>10. Buckets'
  BY <1>2, BucketsStay
<1>11. Guarded'
  <2> SUFFICES ASSUME Lockout >= Window, ~late
               PROVE  /\ lock' = Free => guesses' = Within(failures')
                      /\ lock' # 0
                      /\ Locked' => /\ \A t \in guesses' : t[1] + lock' >= Lockout
                                    /\ Cardinality(guesses') + Cardinality(Pending') <= MaxAttempts + Cardinality(Attempts) - 1
                                    /\ lock' = Lockout
    BY <1>2 DEF Guarded
  <2>1. /\ lock = Free => guesses = Within(failures)
        /\ lock # 0
        /\ Locked => /\ \A t \in guesses : t[1] + lock >= Lockout
                     /\ Cardinality(guesses) + Cardinality(Pending) <= MaxAttempts + Cardinality(Attempts) - 1
                     /\ lock = Lockout
    BY <1>2, <1>3 DEF Guarded
  <2>2. \A t \in guesses' : t[1] \in Nat
    BY <1>6 DEF Timed, Moments
  <2>3. CASE lock = Free
    <3>1. guesses' = kept
      BY <1>1, <1>2, <2>1, <2>3
    <3>2. Cardinality(kept) <= MaxAttempts
      BY <1>4, <1>5, <1>8, <2>3, ThrottleAssumption
    <3>3. CASE Cardinality(kept) >= MaxAttempts
      <4>1. lock' = Lockout /\ Lockout \in Nat \ {0} /\ lock' # Free
        BY <1>2, <3>3, ThrottleAssumption DEF Free
      <4>2. Cardinality(guesses') + Cardinality(Pending') <= MaxAttempts + Cardinality(Attempts) - 1
        BY <1>3, <1>5, <3>1, <3>2, ThrottleAssumption
      <4>3. \A t \in guesses' : t[1] + lock' >= Lockout
        BY <2>2, <4>1
      <4> QED BY <4>1, <4>2, <4>3
    <3>4. CASE ~(Cardinality(kept) >= MaxAttempts)
      <4>1. lock' = Free
        BY <1>2, <2>3, <3>4
      <4> QED BY <1>2, <1>6, <3>1, <4>1 DEF Locked, Free
    <3> QED BY <3>3, <3>4
  <2>4. CASE lock # Free
    <3>1. Locked /\ lock = Lockout
      BY <1>8, <2>1, <2>4 DEF Locked, Free
    <3>2. lock' = Lockout /\ Lockout \in Nat \ {0} /\ lock' # Free
      BY <1>2, <3>1, ThrottleAssumption DEF Free
    <3>3. \A t \in guesses' : t[1] + lock' >= Lockout
      BY <2>2, <3>2
    <3>4. Cardinality(guesses') + Cardinality(Pending') <= MaxAttempts + Cardinality(Attempts) - 1
      BY <1>3, <1>6, <2>1, <3>1, ThrottleAssumption
    <3> QED BY <3>2, <3>3, <3>4
  <2> QED BY <2>3, <2>4
<1> QED BY <1>7, <1>9, <1>10, <1>11 DEF ThrottleInv

LEMMA RightKeeps == ASSUME ThrottleInv, NEW a \in Attempts, Right(a) PROVE ThrottleInv'
<1>1. /\ ThrottleTypeOK /\ Clocks /\ Buckets /\ Guarded
      /\ attempt[a] /\ attempt' = [attempt EXCEPT ![a] = FALSE]
      /\ failures' = {} /\ lock' = Free /\ guesses' = {} /\ UNCHANGED <<bucket, passes, late>>
  BY DEF ThrottleInv, Right
<1>2. Clocks'
  BY <1>1, NothingTimed DEF Clocks
<1>3. ThrottleTypeOK'
  <2>1. attempt' \in [Attempts -> BOOLEAN] /\ bucket' \in [count : 0..Allowance + 1, reset : 0..Window] /\ late' \in BOOLEAN
    BY <1>1 DEF ThrottleTypeOK
  <2>2. lock' \in Free..Lockout /\ ~(Cardinality(failures') >= MaxAttempts)
    BY <1>1, NothingTimed, ThrottleAssumption DEF Free
  <2> QED BY <1>2, <2>1, <2>2, TypesNext
<1>4. Buckets'
  BY <1>1, BucketsStay
<1>5. Guarded'
  BY <1>1, NothingTimed DEF Guarded, Free, Locked
<1> QED BY <1>2, <1>3, <1>4, <1>5 DEF ThrottleInv

LEMMA UndecidedKeeps == ASSUME ThrottleInv, NEW a \in Attempts, Undecided(a) PROVE ThrottleInv'
<1>1. /\ ThrottleTypeOK /\ Clocks /\ Buckets /\ Guarded
      /\ attempt[a] /\ attempt' = [attempt EXCEPT ![a] = FALSE]
      /\ UNCHANGED <<failures, lock, bucket, guesses, passes, late>>
  BY DEF ThrottleInv, Undecided
<1>2. /\ attempt' \in [Attempts -> BOOLEAN] /\ Pending # {} /\ Pending' \subseteq Pending
      /\ Cardinality(Pending) \in Nat /\ Cardinality(Pending') = Cardinality(Pending) - 1
      /\ Cardinality(Attempts) \in Nat
  BY <1>1, VerdictReached
<1>3. Clocks' /\ ThrottleTypeOK'
  BY <1>1, <1>2 DEF Clocks, ThrottleTypeOK
<1>4. Buckets'
  BY <1>1, BucketsStay
<1>5. Guarded'
  <2>1. Cardinality(guesses) \in Nat
    BY <1>1, FS_CardinalityType DEF Clocks, Timed
  <2>2. Cardinality(guesses) + Cardinality(Pending) <= MaxAttempts + Cardinality(Attempts) - 1
        => Cardinality(guesses) + Cardinality(Pending') <= MaxAttempts + Cardinality(Attempts) - 1
    BY <1>2, <2>1, ThrottleAssumption
  <2>3. lock' = lock /\ guesses' = guesses /\ failures' = failures /\ late' = late /\ (Locked' <=> Locked)
    BY <1>1 DEF Locked
  <2> QED BY <1>1, <1>2, <2>2, <2>3 DEF Guarded
<1> QED BY <1>3, <1>4, <1>5 DEF ThrottleInv

LEMMA ElapseBuckets ==
  ASSUME ThrottleTypeOK, Clocks, Buckets, passes' = Within(Aged(passes)),
         bucket' = IF bucket.reset <= 1 THEN [count |-> 0, reset |-> 0] ELSE [bucket EXCEPT !.reset = @ - 1]
  PROVE  Buckets' /\ bucket' \in [count : 0..Allowance + 1, reset : 0..Window]
<1>1. PICK b : b = bucket
  OBVIOUS
<1>2. /\ b \in [count : 0..Allowance + 1, reset : 0..Window] /\ b.count \in Nat /\ b.reset \in Nat /\ b.reset <= Window
  BY <1>1, BucketTyped DEF ThrottleTypeOK
<1>3. /\ IsFiniteSet(Recent) /\ Cardinality(Recent) \in Nat /\ Cardinality(Recent) <= b.count
      /\ Cardinality(Recent) <= Allowance /\ Cardinality(passes \ Recent) <= Allowance
      /\ IsFiniteSet(passes \ Recent) /\ Cardinality(passes \ Recent) \in Nat
  BY <1>1, RecentCounted DEF Buckets
<1>4. ASSUME NEW t \in passes'
      PROVE  \E m \in passes : /\ t = <<m[1] + 1, m[2]>> /\ t[1] = m[1] + 1 /\ m[1] \in Nat
                               /\ m[1] + 1 < Window /\ t \in Later({m})
  <2>1. PICK m \in passes : t = <<m[1] + 1, m[2]>> /\ t[1] < Window
    BY DEF Within, Aged
  <2>2. m[1] \in Nat
    BY DEF Clocks, Timed, Moments
  <2> QED BY <2>1, <2>2 DEF Later
<1>5. Now(passes') = {}
  BY AgedTimed DEF Clocks, Within
<1>6. CASE b.reset > 1
  <2>0. PICK n : n = b.reset - 1
    OBVIOUS
  <2>1. PICK c : c = [b EXCEPT !.reset = n]
    OBVIOUS
  <2>2. bucket' = c
    BY <1>1, <1>2, <1>6, <2>0, <2>1
  <2>3. c \in [count : 0..Allowance + 1, reset : 0..Window] /\ c.count = b.count /\ c.reset = b.reset - 1
    <3>1. n \in 0..Window
      BY <1>2, <1>6, <2>0, ThrottleAssumption
    <3> QED BY <1>2, <2>0, <2>1, <3>1
  <2>4. Recent' \subseteq Later(Recent)
    <3> SUFFICES ASSUME NEW t \in passes', t[1] + (b.reset - 1) <= Window PROVE t \in Later(Recent)
      BY <2>2, <2>3 DEF Recent
    <3>1. PICK m \in passes : t = <<m[1] + 1, m[2]>> /\ t[1] = m[1] + 1 /\ m[1] \in Nat
      BY <1>4
    <3>2. m[1] + bucket.reset <= Window /\ bucket.reset > 0
      BY <1>1, <1>2, <1>6, <3>1, ThrottleAssumption
    <3>3. m \in Recent
      BY <3>1, <3>2 DEF Recent
    <3> QED BY <3>1, <3>3 DEF Later
  <2>5. passes' \ Recent' \subseteq Later(passes \ Recent)
    <3> SUFFICES ASSUME NEW t \in passes', ~(t[1] + (b.reset - 1) <= Window) PROVE t \in Later(passes \ Recent)
      BY <1>2, <1>6, <2>2, <2>3 DEF Recent
    <3>1. PICK m \in passes : t = <<m[1] + 1, m[2]>> /\ t[1] = m[1] + 1 /\ m[1] \in Nat
      BY <1>4
    <3>2. ~(m[1] + b.reset <= Window)
      BY <1>2, <3>1
    <3>3. m \notin Recent
      BY <1>1, <3>2 DEF Recent
    <3> QED BY <3>1, <3>3 DEF Later
  <2>6. Cardinality(Recent') \in Nat /\ Cardinality(Recent') <= Cardinality(Recent)
    BY <1>3, <2>4, LaterShrinks
  <2>7. Cardinality(passes' \ Recent') \in Nat /\ Cardinality(passes' \ Recent') <= Cardinality(passes \ Recent)
    BY <1>3, <2>5, LaterShrinks
  <2>8. Cardinality(Recent') <= b.count /\ Cardinality(Recent') <= Allowance /\ Cardinality(passes' \ Recent') <= Allowance
    BY <1>2, <1>3, <2>6, <2>7, ThrottleAssumption
  <2>9. c.reset # 0
    BY <1>2, <1>6, <2>3
  <2> QED BY <2>2, <2>3, <2>8, <2>9 DEF Buckets
<1>7. CASE ~(b.reset > 1)
  <2>1. bucket' = [count |-> 0, reset |-> 0]
    BY <1>1, <1>2, <1>7
  <2>2. bucket'.count = 0 /\ bucket'.reset = 0 /\ bucket' \in [count : 0..Allowance + 1, reset : 0..Window]
    <3>1. 0 \in 0..Allowance + 1 /\ 0 \in 0..Window
      BY ThrottleAssumption
    <3>2. PICK z : z = [count |-> 0, reset |-> 0]
      OBVIOUS
    <3>3. z.count = 0 /\ z.reset = 0 /\ z \in [count : 0..Allowance + 1, reset : 0..Window]
      BY <3>1, <3>2
    <3>4. bucket' = z
      BY <2>1, <3>2
    <3> QED BY <3>3, <3>4
  <2>3. Recent' = {}
    BY <2>2 DEF Recent
  <2>4. Cardinality(passes') \in Nat /\ Cardinality(passes') <= Allowance
    <3>1. CASE b.reset = 1
      <4>1. ASSUME NEW t \in passes' PROVE t \in Later(Recent)
        <5>1. PICK m \in passes : t = <<m[1] + 1, m[2]>> /\ m[1] \in Nat /\ m[1] + 1 < Window
          BY <1>4
        <5>2. bucket.reset > 0 /\ m[1] + bucket.reset <= Window
          BY <1>1, <3>1, <5>1, ThrottleAssumption
        <5>3. m \in Recent
          BY <5>2 DEF Recent
        <5> QED BY <5>1, <5>3 DEF Later
      <4>2. Cardinality(passes') \in Nat /\ Cardinality(passes') <= Cardinality(Recent)
        BY <1>3, <4>1, LaterShrinks
      <4> QED BY <1>3, <4>2, ThrottleAssumption
    <3>2. CASE b.reset = 0
      <4>1. Recent = {} /\ passes \ Recent = passes
        BY <1>1, <3>2 DEF Recent
      <4>2. passes' \subseteq Later(passes)
        BY <1>4 DEF Later
      <4>3. Cardinality(passes') \in Nat /\ Cardinality(passes') <= Cardinality(passes)
        BY <1>3, <4>1, <4>2, LaterShrinks
      <4> QED BY <1>3, <4>1, <4>3, ThrottleAssumption
    <3> QED BY <1>2, <1>7, <3>1, <3>2
  <2>5. passes' \ Recent' = passes' /\ Cardinality(Recent') = 0
    BY <2>3, FS_EmptySet
  <2>6. Cardinality(Recent') <= bucket'.count /\ Cardinality(Recent') <= Allowance
    BY <2>2, <2>5, ThrottleAssumption
  <2>7. Cardinality(passes' \ Recent') <= Allowance
    BY <2>4, <2>5
  <2>8. Buckets'
    BY <1>5, <2>2, <2>6, <2>7 DEF Buckets
  <2> QED BY <2>2, <2>8
<1> QED BY <1>6, <1>7

LEMMA ElapseKeeps == ASSUME ThrottleInv, Elapse PROVE ThrottleInv'
<1>1. /\ ThrottleTypeOK /\ Clocks /\ Buckets /\ Guarded
      /\ failures' = Aged(failures) /\ guesses' = Within(Aged(guesses)) /\ passes' = Within(Aged(passes))
      /\ lock' = (IF Locked THEN lock - 1 ELSE lock) /\ attempt' = attempt
      /\ bucket' = (IF bucket.reset <= 1 THEN [count |-> 0, reset |-> 0] ELSE [bucket EXCEPT !.reset = @ - 1])
      /\ late' = (late \/ \E a \in Attempts : attempt[a])
  BY DEF ThrottleInv, Elapse
<1>2. Buckets' /\ bucket' \in [count : 0..Allowance + 1, reset : 0..Window]
  BY <1>1, ElapseBuckets
<1>3. /\ Timed(failures') /\ Cardinality(failures') \in Nat /\ Cardinality(failures) \in Nat
      /\ Cardinality(failures') <= Cardinality(failures)
  BY <1>1, AgedTimed DEF Clocks
<1>4. /\ Timed(guesses') /\ Cardinality(guesses') \in Nat /\ Cardinality(guesses) \in Nat
      /\ Cardinality(guesses') <= Cardinality(guesses)
  BY <1>1, AgedTimed DEF Clocks, Within
<1>5. Timed(passes')
  BY <1>1, AgedTimed DEF Clocks, Within
<1>6. Clocks'
  BY <1>1, <1>3, <1>4, <1>5 DEF Clocks, Within
<1>7. lock \in Free..Lockout /\ late \in BOOLEAN /\ (Cardinality(failures) >= MaxAttempts => lock # Free)
  BY <1>1 DEF ThrottleTypeOK
<1>8. PICK p \in BOOLEAN : p <=> Pending # {}
  OBVIOUS
<1>9. late' = (late \/ p)
  BY <1>1, <1>8 DEF Pending
<1>10. ThrottleTypeOK'
  <2>1. lock' \in Free..Lockout /\ (lock # Free => lock' # Free)
    BY <1>1, <1>7, ThrottleAssumption DEF Locked, Free
  <2>2. Cardinality(failures') >= MaxAttempts => lock' # Free
    BY <1>3, <1>7, <2>1, ThrottleAssumption
  <2>3. late' \in BOOLEAN /\ attempt' \in [Attempts -> BOOLEAN]
    BY <1>1, <1>7, <1>9 DEF ThrottleTypeOK
  <2> QED BY <1>2, <1>6, <2>1, <2>2, <2>3, TypesNext
<1>11. Guarded'
  <2> SUFFICES ASSUME Lockout >= Window, ~late'
               PROVE  /\ lock' = Free => guesses' = Within(failures')
                      /\ lock' = 0 => guesses' = {}
                      /\ Locked' => /\ \A t \in guesses' : t[1] + lock' >= Lockout
                                    /\ Cardinality(guesses') + Cardinality(Pending') <= MaxAttempts + Cardinality(Attempts) - 1
                      /\ Pending' = {}
    BY DEF Guarded
  <2>1. ~late /\ Pending = {} /\ Pending' = {}
    BY <1>1, <1>7, <1>8, <1>9 DEF Pending
  <2>2. /\ lock = Free => guesses = Within(failures)
        /\ lock = 0 => guesses = {}
        /\ Locked => /\ \A t \in guesses : t[1] + lock >= Lockout
                     /\ Cardinality(guesses) + Cardinality(Pending) <= MaxAttempts + Cardinality(Attempts) - 1
    BY <1>1, <2>1 DEF Guarded
  <2>3. CASE lock = Free
    <3>1. lock' = Free /\ ~Locked'
      BY <1>1, <2>3 DEF Locked, Free
    <3>2. Aged(guesses) = Aged(failures)
      BY <2>2, <2>3 DEF Aged, Within
    <3> QED BY <1>1, <2>1, <3>1, <3>2 DEF Free
  <2>4. CASE lock = 0
    <3>1. lock' = 0 /\ ~Locked' /\ lock' # Free
      BY <1>1, <2>4 DEF Locked, Free
    <3> QED BY <1>1, <2>1, <2>2, <2>4, <3>1 DEF Aged, Within
  <2>5. CASE Locked
    <3>1. lock' = lock - 1 /\ lock \in Nat /\ lock > 0 /\ lock' # Free
      BY <1>1, <1>7, <2>5 DEF Locked, Free
    <3>2. ASSUME NEW t \in guesses' PROVE t[1] + lock' >= Lockout /\ t[1] < Window /\ t[1] \in Nat
      <4>1. PICK m \in guesses : t = <<m[1] + 1, m[2]>> /\ t[1] < Window
        BY <1>1 DEF Within, Aged
      <4>2. m[1] \in Nat /\ m[1] + lock >= Lockout
        BY <1>1, <2>2, <2>5 DEF Clocks, Timed, Moments
      <4> QED BY <3>1, <4>1, <4>2, ThrottleAssumption
    <3>3. lock' = 0 => guesses' = {}
      BY <3>2, ThrottleAssumption
    <3>4. Cardinality(guesses') + Cardinality(Pending') <= MaxAttempts + Cardinality(Attempts) - 1
      <4>1. Cardinality(Pending) = 0 /\ Cardinality(Pending') = 0 /\ Cardinality(Attempts) \in Nat
        BY <2>1, PendingFinite, FS_EmptySet
      <4> QED BY <1>4, <2>2, <2>5, <4>1, ThrottleAssumption
    <3> QED BY <2>1, <3>1, <3>2, <3>3, <3>4
  <2> QED BY <1>7, <2>3, <2>4, <2>5, ThrottleAssumption DEF Locked, Free
<1> QED BY <1>2, <1>6, <1>10, <1>11 DEF ThrottleInv

LEMMA ForgetKeeps == ASSUME Forget PROVE ThrottleInv'
<1>1. /\ failures' = {} /\ guesses' = {} /\ passes' = {} /\ lock' = Free /\ late' = FALSE
      /\ bucket' = [count |-> 0, reset |-> 0] /\ bucket'.count = 0 /\ bucket'.reset = 0
      /\ attempt' = [a \in Attempts |-> FALSE]
  BY DEF Forget
<1>2. Clocks'
  BY <1>1, NothingTimed DEF Clocks
<1>3. Recent' = {} /\ passes' \ Recent' = {}
  BY <1>1 DEF Recent
<1>4. Buckets'
  BY <1>1, <1>3, NothingTimed, ThrottleAssumption DEF Buckets
<1>5. ThrottleTypeOK'
  <2>1. bucket' \in [count : 0..Allowance + 1, reset : 0..Window] /\ lock' \in Free..Lockout
    BY <1>1, ThrottleAssumption DEF Free
  <2>2. attempt' \in [Attempts -> BOOLEAN] /\ late' \in BOOLEAN
    BY <1>1
  <2>3. ~(Cardinality(failures') >= MaxAttempts)
    BY <1>1, NothingTimed, ThrottleAssumption
  <2> QED BY <1>2, <2>1, <2>2, <2>3, TypesNext
<1>6. Guarded'
  BY <1>1, NothingTimed DEF Guarded, Free, Locked
<1> QED BY <1>2, <1>4, <1>5, <1>6 DEF ThrottleInv

LEMMA ThrottleStep == ThrottleInv /\ [ThrottleNext]_throttleVars => ThrottleInv'
<1> SUFFICES ASSUME ThrottleInv, [ThrottleNext]_throttleVars PROVE ThrottleInv'
  OBVIOUS
<1>1. ASSUME NEW a \in Attempts, Gate(a) \/ Wrong(a) \/ Right(a) \/ Undecided(a) PROVE ThrottleInv'
  BY <1>1, GateKeeps, WrongKeeps, RightKeeps, UndecidedKeeps
<1>2. CASE Refused \/ Elapse \/ Forget
  BY <1>2, RefusedKeeps, ElapseKeeps, ForgetKeeps
<1>3. CASE UNCHANGED throttleVars
  BY <1>3 DEF ThrottleInv, ThrottleTypeOK, Clocks, Timed, ToldApart, Now, Within, Buckets, Recent, Guarded, Pending,
              Locked, throttleVars
<1> QED BY <1>1, <1>2, <1>3 DEF ThrottleNext

\* For every number of attempts and every maximum, window, lockout and allowance.
THEOREM ThrottleInvariant == ThrottleSpec => []ThrottleInv
<1>1. ThrottleInit => ThrottleInv
  BY ThrottleStart
<1>2. ThrottleInv /\ [ThrottleNext]_throttleVars => ThrottleInv'
  BY ThrottleStep
<1> QED BY <1>1, <1>2, PTL DEF ThrottleSpec

\* What the two stores hold has its type, and an entry that is full has a lock.
THEOREM ThrottleTypes == ThrottleSpec => []ThrottleTypeOK
<1>1. ThrottleInv => ThrottleTypeOK
  BY DEF ThrottleInv
<1> QED BY <1>1, ThrottleInvariant, PTL

\* A window holds at most MaxAttempts wrong passwords and one for each further attempt
\* that was past the gate, and with MaxAttempts the lock is on; the limiter lets at
\* most twice its allowance through in any window (loginLockout.js, rateLimit.js).
THEOREM WindowsBound == ThrottleSpec => []Throttled
<1>1. ThrottleInv => Throttled
  <2> SUFFICES ASSUME ThrottleInv PROVE GuessesBounded /\ Burst
    BY DEF Throttled
  <2>1. ThrottleTypeOK /\ Clocks /\ Buckets /\ Guarded
    BY DEF ThrottleInv
  <2>2. Burst
    <3>1. /\ Cardinality(Recent) \in Nat /\ Cardinality(passes \ Recent) \in Nat
          /\ Cardinality(passes) = Cardinality(Recent) + Cardinality(passes \ Recent)
      BY <2>1, RecentCounted
    <3>2. Cardinality(Recent) <= Allowance /\ Cardinality(passes \ Recent) <= Allowance
      BY <2>1 DEF Buckets
    <3> QED BY <3>1, <3>2, ThrottleAssumption DEF Burst
  <2>3. GuessesBounded
    <3> SUFFICES ASSUME Lockout >= Window, ~late
                 PROVE  /\ Cardinality(guesses) <= MaxAttempts + Cardinality(Attempts) - 1
                        /\ Cardinality(guesses) >= MaxAttempts => Locked
      BY DEF GuessesBounded
    <3>1. /\ lock = Free => guesses = Within(failures)
          /\ lock = 0 => guesses = {}
          /\ Locked => Cardinality(guesses) + Cardinality(Pending) <= MaxAttempts + Cardinality(Attempts) - 1
      BY <2>1 DEF Guarded
    <3>2. /\ lock \in Free..Lockout /\ Cardinality(failures) \in Nat /\ Cardinality(guesses) \in Nat
          /\ Cardinality(failures) >= MaxAttempts => lock # Free
      BY <2>1, FS_CardinalityType DEF ThrottleTypeOK
    <3>3. Cardinality(Pending) \in Nat /\ Cardinality(Attempts) \in Nat
      BY PendingFinite DEF Pending
    <3>4. CASE lock = Free
      <4>1. Cardinality(Within(failures)) <= Cardinality(failures)
        BY <2>1, WithinTimed DEF Clocks
      <4>2. Cardinality(guesses) < MaxAttempts
        BY <3>1, <3>2, <3>4, <4>1, ThrottleAssumption
      <4> QED BY <3>2, <3>3, <4>2, ThrottleAssumption
    <3>5. CASE lock = 0
      <4>1. Cardinality(guesses) = 0
        BY <3>1, <3>5, FS_EmptySet
      <4> QED BY <3>3, <4>1, ThrottleAssumption
    <3>6. CASE Locked
      BY <3>1, <3>2, <3>3, <3>6, ThrottleAssumption
    <3> QED BY <3>2, <3>4, <3>5, <3>6, ThrottleAssumption DEF Locked, Free
  <2> QED BY <2>2, <2>3
<1> QED BY <1>1, ThrottleInvariant, PTL

-----------------------------------------------------------------------------
(***************************************************************************)
(* PageEditor.  What flies carries no more than was typed and no less than *)
(* the server holds, and from Publish on nothing is typed but an image     *)
(* that was picked before.                                                 *)
(***************************************************************************)
Publishes == doing \in {"publishing", "ensuring", "sending"}

\* A page that is being created is not known, and known once it is there.
Drafted ==
  /\ creating # NobodyCreates => ~known
  /\ "answer" \notin astray => server.made = IF known THEN 1 ELSE 0

Carried ==
  /\ job.pc = "none" <=> ~JobRuns
  /\ job.pc = "create" => creating # NobodyCreates /\ creating.text = job.text
  /\ job.pc = "wait" => creating # NobodyCreates /\ creating.text <= job.text
  /\ job.pc = "save" => known
  /\ job.text <= typed /\ creating.text <= typed /\ server.text <= typed /\ content <= typed
  /\ creating # NobodyCreates => server.text <= creating.text
  /\ doing = "sending" => known

\* A flush behind those Publish waits for comes of the image, which is then typed:
\* what such a flush carries is what is published.
InOrder == "image" \notin astray =>
  /\ job.pc = "save" => server.text <= job.text
  /\ doing = "sending" => content = typed
  /\ Publishes /\ (timer \/ Behind > ahead) => image = "no"
  /\ doing \in {"ensuring", "sending"} => ahead = 0
  /\ Publishes /\ ahead = 0 /\ JobRuns => job.text = typed

\* What is not dirty is there or on its way.
Owed == astray = {} /\ ~dirty /\ server.live /\ doing \notin {"trashing", "deleting"} =>
  server.text = typed \/ (JobRuns /\ job.text = typed)

EditorInv == EditorTypeOK /\ Drafted /\ Carried /\ InOrder /\ Owed

LEMMA EditorFields ==
  ASSUME EditorTypeOK
  PROVE  /\ typed \in Nat /\ typed <= MaxTyped /\ queue \in Nat /\ ahead \in Nat /\ content \in Nat
         /\ job.text \in Nat /\ creating.text \in Nat /\ server.text \in Nat /\ server.made \in Nat
         /\ job.text \in 0..MaxTyped /\ creating.text \in 0..MaxTyped /\ server.text \in 0..MaxTyped
         /\ job.pc \in {"none", "create", "wait", "save"} /\ server.live \in BOOLEAN
         /\ Behind \in Nat /\ Behind = queue + IF JobRuns THEN 1 ELSE 0
<1>1. /\ typed \in 0..MaxTyped /\ queue \in Nat /\ ahead \in Nat /\ content \in 0..MaxTyped
      /\ job \in [pc : {"none", "create", "wait", "save"}, text : 0..MaxTyped]
      /\ creating \in [by : {"nobody", "job", "image", "publish"}, text : 0..MaxTyped]
      /\ server \in [made : Nat, text : 0..MaxTyped, live : BOOLEAN]
  BY DEF EditorTypeOK
<1>2. PICK n \in {0, 1} : n = IF JobRuns THEN 1 ELSE 0
  OBVIOUS
<1>3. Behind \in Nat
  BY <1>1, <1>2 DEF Behind
<1> QED BY <1>1, <1>3, PageEditorAssumption DEF Behind

LEMMA NoJobFields ==
  /\ NoJob.pc = "none" /\ NoJob.text = 0 /\ NobodyCreates.text = 0
  /\ NoJob \in [pc : {"none", "create", "wait", "save"}, text : 0..MaxTyped]
  /\ NobodyCreates \in [by : {"nobody", "job", "image", "publish"}, text : 0..MaxTyped]
<1>1. 0 \in 0..MaxTyped
  BY PageEditorAssumption
<1>2. PICK r : r = [pc |-> "none", text |-> 0]
  OBVIOUS
<1>3. r.pc = "none" /\ r.text = 0 /\ r \in [pc : {"none", "create", "wait", "save"}, text : 0..MaxTyped]
  BY <1>1, <1>2
<1>4. PICK c : c = [by |-> "nobody", text |-> 0]
  OBVIOUS
<1>5. c.text = 0 /\ c \in [by : {"nobody", "job", "image", "publish"}, text : 0..MaxTyped]
  BY <1>1, <1>4
<1> QED BY <1>2, <1>3, <1>4, <1>5 DEF NoJob, NobodyCreates

LEMMA EditorStart == EditorInit => EditorInv
<1> SUFFICES ASSUME EditorInit PROVE EditorInv
  OBVIOUS
<1>1. /\ typed = 0 /\ dirty = FALSE /\ timer = FALSE /\ queue = 0 /\ job = NoJob /\ creating = NobodyCreates
      /\ known \in BOOLEAN /\ image = "no" /\ doing = "editing" /\ ahead = 0 /\ content = 0
      /\ failed = 0 /\ astray = {}
  BY DEF EditorInit
<1>2. PICK n \in Nat : n = IF known THEN 1 ELSE 0
  OBVIOUS
<1>3. PICK s : s = [made |-> n, text |-> 0, live |-> TRUE]
  OBVIOUS
<1>4. server = s
  BY <1>2, <1>3 DEF EditorInit
<1>5. s \in [made : Nat, text : 0..MaxTyped, live : BOOLEAN] /\ s.made = n /\ s.text = 0
  BY <1>3, PageEditorAssumption
<1>6. EditorTypeOK
  <2>1. 0 \in 0..MaxTyped /\ 0 \in 0..MaxFailures
    BY PageEditorAssumption
  <2>2. server \in [made : Nat, text : 0..MaxTyped, live : BOOLEAN]
    BY <1>4, <1>5
  <2>3. /\ job \in [pc : {"none", "create", "wait", "save"}, text : 0..MaxTyped]
        /\ creating \in [by : {"nobody", "job", "image", "publish"}, text : 0..MaxTyped]
    BY <1>1, NoJobFields
  <2> QED BY <1>1, <2>1, <2>2, <2>3 DEF EditorTypeOK
<1>7. Drafted /\ Carried
  BY <1>1, <1>2, <1>4, <1>5, NoJobFields DEF Drafted, Carried, JobRuns
<1>8. InOrder /\ Owed
  BY <1>1, <1>4, <1>5, NoJobFields DEF InOrder, Owed, Publishes, JobRuns
<1> QED BY <1>6, <1>7, <1>8 DEF EditorInv

\* Where none of them moves, jobs and requests are what they were.
LEMMA TypeKeeps == ASSUME EditorInv, Type PROVE EditorInv'
<1>1. /\ EditorTypeOK /\ Drafted /\ Carried /\ InOrder /\ Owed
      /\ doing \in {"editing", "closing", "trashing", "deleting"} /\ typed < MaxTyped
      /\ typed' = typed + 1 /\ dirty' = TRUE /\ timer' = TRUE
      /\ UNCHANGED <<queue, job, creating, known, image, doing, ahead, content, server, failed, astray>>
  BY DEF EditorInv, Type
<1>2. typed \in Nat /\ job.text \in Nat /\ creating.text \in Nat /\ server.text \in Nat /\ content \in Nat
  BY <1>1, EditorFields
<1>3. typed' \in 0..MaxTyped
  BY <1>1, <1>2, PageEditorAssumption
<1>4. EditorTypeOK'
  BY <1>1, <1>3 DEF EditorTypeOK
<1>5. Drafted' /\ Carried'
  <2>1. job.text <= typed' /\ creating.text <= typed' /\ server.text <= typed' /\ content <= typed'
    BY <1>1, <1>2 DEF Carried
  <2> QED BY <1>1, <2>1 DEF Drafted, Carried, JobRuns
<1>6. InOrder' /\ Owed'
  BY <1>1 DEF InOrder, Owed, Publishes
<1> QED BY <1>4, <1>5, <1>6 DEF EditorInv

LEMMA TimeoutKeeps == ASSUME EditorInv, Timeout PROVE EditorInv'
<1>1. /\ EditorTypeOK /\ Drafted /\ Carried /\ InOrder /\ Owed
      /\ timer /\ timer' = FALSE /\ queue' = queue + 1
      /\ UNCHANGED <<typed, dirty, job, creating, known, image, doing, ahead, content, server, failed, astray>>
  BY DEF EditorInv, Timeout, Flush
<1>2. queue \in Nat /\ queue' \in Nat
  BY <1>1, EditorFields
<1>4. EditorTypeOK'
  BY <1>1, <1>2, ZenonT(60) DEF EditorTypeOK
<1>5. Drafted' /\ Carried'
  <2>1. Drafted'
    BY <1>1 DEF Drafted
  <2>2. Carried'
    BY <1>1 DEF Carried, JobRuns
  <2> QED BY <2>1, <2>2
<1>6. InOrder'
  BY <1>1 DEF InOrder, Publishes, JobRuns
<1>7. Owed'
  BY <1>1 DEF Owed, JobRuns
<1> QED BY <1>4, <1>5, <1>6, <1>7 DEF EditorInv

\* The end of a job lets one of those who wait on.
LEMMA JobEnds ==
  ASSUME EditorTypeOK, EndJob, queue' = queue
  PROVE  /\ job' \in [pc : {"none", "create", "wait", "save"}, text : 0..MaxTyped] /\ ahead' \in Nat
         /\ job'.pc = "none" /\ job'.text = 0 /\ ~JobRuns'
         /\ Behind' = queue /\ (JobRuns => Behind = queue + 1)
         /\ ahead = 0 => ahead' = 0
         /\ ahead > 0 => ahead' = ahead - 1
<1>1. job' = NoJob /\ ahead' = IF ahead > 0 THEN ahead - 1 ELSE 0
  BY DEF EndJob
<1>2. ahead \in Nat /\ queue \in Nat
  BY EditorFields
<1>3. ~JobRuns'
  BY <1>1 DEF JobRuns
<1>4. Behind' = queue /\ (JobRuns => Behind = queue + 1)
  BY <1>2, <1>3 DEF Behind
<1> QED BY <1>1, <1>2, <1>3, <1>4, NoJobFields

LEMMA StartJobKeeps == ASSUME EditorInv, StartJob PROVE EditorInv'
<1>1. /\ EditorTypeOK /\ Drafted /\ Carried /\ InOrder /\ Owed
      /\ queue > 0 /\ ~JobRuns /\ queue' = queue - 1 /\ dirty' = FALSE
      /\ IF ~dirty \/ (~known /\ typed = 0) THEN EndJob /\ UNCHANGED creating
         ELSE /\ UNCHANGED ahead
              /\ job' = [pc |-> IF known THEN "save" ELSE IF creating = NobodyCreates THEN "create" ELSE "wait",
                         text |-> typed]
              /\ creating' = IF known \/ creating # NobodyCreates THEN creating
                             ELSE [by |-> "job", text |-> typed]
      /\ UNCHANGED <<typed, timer, known, image, doing, content, server, failed, astray>>
  BY DEF EditorInv, StartJob
<1>2. /\ typed \in 0..MaxTyped /\ typed \in Nat /\ queue \in Nat /\ ahead \in Nat /\ job.text \in Nat /\ creating.text \in Nat
      /\ server.text \in Nat /\ queue' \in Nat /\ Behind = queue /\ queue = queue' + 1
  BY <1>1, EditorFields, PageEditorAssumption
<1>3. CASE ~dirty \/ (~known /\ typed = 0)
  <2>1. job' = NoJob /\ ahead' = (IF ahead > 0 THEN ahead - 1 ELSE 0) /\ creating' = creating
    BY <1>1, <1>3 DEF EndJob
  <2>2. ~JobRuns' /\ Behind' = queue' /\ ahead' \in Nat /\ job'.pc = "none" /\ job'.text = 0
    <3>1. ~JobRuns'
      BY <2>1 DEF JobRuns
    <3>2. Behind' = queue'
      <4>1. PICK q : q \in Nat /\ queue' = q
        BY <1>2
      <4>2. Behind' = q
        BY <3>1, <4>1 DEF Behind
      <4> QED BY <4>1, <4>2, Zenon
    <3>3. ahead' \in Nat
      BY <1>2, <2>1
    <3> QED BY <2>1, <3>1, <3>2, <3>3, NoJobFields
  <2>3. EditorTypeOK'
    BY <1>1, <1>2, <2>1, <2>2, NoJobFields DEF EditorTypeOK
  <2>4. Drafted' /\ Carried'
    BY <1>1, <1>2, <2>1, <2>2 DEF Drafted, Carried
  <2>5. InOrder'
    BY <1>1, <1>2, <2>1, <2>2 DEF InOrder, Publishes
  <2>6. Owed'
    BY <1>1, <1>2, <1>3, <2>2 DEF Owed, Carried
  <2> QED BY <2>3, <2>4, <2>5, <2>6 DEF EditorInv
<1>4. CASE dirty /\ ~(~known /\ typed = 0)
  <2>1. PICK pc \in {"save", "create", "wait"} :
          pc = IF known THEN "save" ELSE IF creating = NobodyCreates THEN "create" ELSE "wait"
    OBVIOUS
  <2>2. PICK j : j = [pc |-> pc, text |-> typed]
    OBVIOUS
  <2>3. PICK c : c = [by |-> "job", text |-> typed]
    OBVIOUS
  <2>4. j.pc = pc /\ j.text = typed /\ j \in [pc : {"none", "create", "wait", "save"}, text : 0..MaxTyped]
    BY <1>2, <2>1, <2>2
  <2>5. c.by = "job" /\ c.text = typed /\ c \in [by : {"nobody", "job", "image", "publish"}, text : 0..MaxTyped]
    BY <1>2, <2>3
  <2>6. job' = j /\ ahead' = ahead /\ creating' = IF known \/ creating # NobodyCreates THEN creating ELSE c
    BY <1>1, <1>4, <2>1, <2>2, <2>3
  <2>7. c # NobodyCreates /\ j # NoJob
    <3>1. NobodyCreates.by = "nobody"
      BY DEF NobodyCreates
    <3> QED BY <2>1, <2>4, <2>5, <3>1, NoJobFields
  <2>8. JobRuns' /\ Behind' = Behind
    <3>1. JobRuns'
      BY <2>6, <2>7 DEF JobRuns
    <3> QED BY <1>1, <1>2, <3>1 DEF Behind
  <2>9. EditorTypeOK'
    BY <1>1, <1>2, <2>4, <2>5, <2>6 DEF EditorTypeOK
  <2>10. Drafted'
    BY <1>1, <2>6, <2>7 DEF Drafted
  <2>11. Carried'
    BY <1>1, <1>2, <2>1, <2>4, <2>5, <2>6, <2>7, <2>8 DEF Carried, Drafted
  <2>12. InOrder'
    BY <1>1, <1>2, <2>1, <2>4, <2>6, <2>8 DEF InOrder, Publishes, Carried
  <2>13. Owed'
    BY <1>1, <2>4, <2>6, <2>8 DEF Owed
  <2> QED BY <2>9, <2>10, <2>11, <2>12, <2>13 DEF EditorInv
<1> QED BY <1>3, <1>4

\* What the server holds after it created the page.
LEMMA ServerCreates ==
  ASSUME EditorTypeOK, NEW s, s = [server EXCEPT !.made = @ + 1, !.text = creating.text]
  PROVE  /\ s \in [made : Nat, text : 0..MaxTyped, live : BOOLEAN]
         /\ s.made = server.made + 1 /\ s.text = creating.text /\ s.live = server.live
<1>1. PICK m, t : m = server.made + 1 /\ t = creating.text
  OBVIOUS
<1>2. m \in Nat /\ t \in 0..MaxTyped /\ server \in [made : Nat, text : 0..MaxTyped, live : BOOLEAN]
  BY <1>1, EditorFields DEF EditorTypeOK
<1>3. s = [server EXCEPT !.made = m, !.text = t]
  BY <1>1
<1> QED BY <1>1, <1>2, <1>3

\* What it holds after it wrote a text.
LEMMA ServerWrites ==
  ASSUME EditorTypeOK, NEW t \in 0..MaxTyped, NEW s, s = [server EXCEPT !.text = t]
  PROVE  /\ s \in [made : Nat, text : 0..MaxTyped, live : BOOLEAN]
         /\ s.made = server.made /\ s.text = t /\ s.live = server.live
BY DEF EditorTypeOK

\* The page is created: who waited for it goes on to save.
LEMMA CreatedWell ==
  ASSUME EditorInv, creating # NobodyCreates, creating' = NobodyCreates,
         server' = [server EXCEPT !.made = @ + 1, !.text = creating.text], known' = TRUE,
         CASE job.pc = "create" -> EndJob
           [] job.pc = "wait" -> job' = [job EXCEPT !.pc = "save"] /\ UNCHANGED ahead
           [] OTHER -> UNCHANGED <<job, ahead>>,
         image' = IF image = "ensure" THEN "upload" ELSE image,
         UNCHANGED <<dirty, doing, failed, astray, typed, timer, queue, content>>
  PROVE  EditorInv'
<1>1. EditorTypeOK /\ Drafted /\ Carried /\ InOrder /\ Owed
  BY DEF EditorInv
<1>2. /\ typed \in Nat /\ queue \in Nat /\ ahead \in Nat /\ job.text \in Nat /\ creating.text \in Nat /\ server.text \in Nat
      /\ server.made \in Nat /\ job.pc \in {"none", "create", "wait", "save"}
  BY <1>1, EditorFields
<1>3. /\ server' \in [made : Nat, text : 0..MaxTyped, live : BOOLEAN] /\ server'.made = server.made + 1
      /\ server'.text = creating.text /\ server'.live = server.live
  BY <1>1, ServerCreates
<1>4. /\ ~known /\ job.pc # "save" /\ doing # "sending" /\ server.text <= creating.text /\ creating.text <= typed
      /\ image' = "no" <=> image = "no"
  BY <1>1 DEF Drafted, Carried
<1>5. /\ job' \in [pc : {"none", "create", "wait", "save"}, text : 0..MaxTyped] /\ ahead' \in Nat
      /\ \/ job.pc = "create" /\ job'.pc = "none" /\ job'.text = 0 /\ JobRuns /\ ~JobRuns' /\ Behind' = queue /\ Behind = queue + 1
            /\ (ahead = 0 => ahead' = 0) /\ (ahead > 0 => ahead' = ahead - 1)
         \/ job.pc = "wait" /\ job'.pc = "save" /\ job'.text = job.text /\ JobRuns /\ JobRuns' /\ Behind' = Behind /\ ahead' = ahead
         \/ job.pc = "none" /\ job' = job /\ ~JobRuns /\ ~JobRuns' /\ Behind' = Behind /\ ahead' = ahead
  <2>1. CASE job.pc = "create"
    <3>1. EndJob
      BY <2>1
    <3>2. JobRuns
      BY <1>1, <2>1 DEF Carried
    <3> QED BY <1>1, <2>1, <3>1, <3>2, JobEnds
  <2>2. CASE job.pc = "wait"
    <3>1. PICK j : j = job
      OBVIOUS
    <3>2. j \in [pc : {"none", "create", "wait", "save"}, text : 0..MaxTyped]
      BY <1>1, <3>1 DEF EditorTypeOK
    <3>3. PICK k : k = [j EXCEPT !.pc = "save"]
      OBVIOUS
    <3>4. k.pc = "save" /\ k.text = j.text /\ k \in [pc : {"none", "create", "wait", "save"}, text : 0..MaxTyped]
      BY <3>2, <3>3
    <3>5. job' = k /\ ahead' = ahead
      BY <2>2, <3>1, <3>3
    <3>6. JobRuns /\ JobRuns'
      BY <1>1, <2>2, <3>4, <3>5, NoJobFields DEF Carried, JobRuns
    <3>7. Behind' = Behind
      BY <3>6 DEF Behind
    <3> QED BY <1>2, <2>2, <3>1, <3>4, <3>5, <3>6, <3>7
  <2>3. CASE job.pc = "none"
    <3>1. job' = job /\ ahead' = ahead
      BY <2>3
    <3>2. ~JobRuns /\ ~JobRuns'
      BY <1>1, <2>3, <3>1 DEF Carried, JobRuns
    <3>3. Behind' = Behind
      BY <3>2 DEF Behind
    <3>4. job' \in [pc : {"none", "create", "wait", "save"}, text : 0..MaxTyped] /\ ahead' \in Nat
      BY <1>1, <3>1 DEF EditorTypeOK
    <3> QED BY <2>3, <3>1, <3>2, <3>3, <3>4
  <2> QED BY <1>2, <1>4, <2>1, <2>2, <2>3
<1>6. EditorTypeOK'
  BY <1>1, <1>3, <1>5, NoJobFields DEF EditorTypeOK
<1>7. Drafted'
  BY <1>1, <1>2, <1>3, <1>4 DEF Drafted
<1>8. Carried'
  BY <1>1, <1>2, <1>3, <1>4, <1>5, NoJobFields DEF Carried
<1>9. InOrder'
  <2> SUFFICES ASSUME "image" \notin astray
               PROVE  /\ job'.pc = "save" => server'.text <= job'.text
                      /\ Publishes /\ (timer \/ Behind' > ahead') => image' = "no"
                      /\ doing = "ensuring" => ahead' = 0
                      /\ Publishes /\ ahead' = 0 /\ JobRuns' => job'.text = typed
    BY <1>4 DEF InOrder, Publishes
  <2> QED BY <1>1, <1>2, <1>3, <1>4, <1>5 DEF InOrder, Carried
<1>10. Owed'
  BY <1>1, <1>2, <1>3, <1>4, <1>5 DEF Owed, Carried
<1> QED BY <1>6, <1>7, <1>8, <1>9, <1>10 DEF EditorInv

\* The page is not created, or the answer is lost: a job that needed it has failed.
LEMMA CreatedIll ==
  ASSUME EditorInv, creating # NobodyCreates, creating' = NobodyCreates, Fails,
         \/ UNCHANGED <<server, astray>>
         \/ /\ server' = [server EXCEPT !.made = @ + 1, !.text = creating.text]
            /\ astray' = astray \cup {"answer"},
         IF job.pc \in {"create", "wait"} THEN dirty' = TRUE /\ EndJob ELSE UNCHANGED <<dirty, job, ahead>>,
         image' = IF image = "ensure" THEN "no" ELSE image,
         doing' = IF doing = "ensuring" THEN "editing" ELSE doing,
         UNCHANGED <<known, typed, timer, queue, content>>
  PROVE  EditorInv'
<1>1. EditorTypeOK /\ Drafted /\ Carried /\ InOrder /\ Owed
  BY DEF EditorInv
<1>2. /\ typed \in Nat /\ queue \in Nat /\ ahead \in Nat /\ job.text \in Nat /\ creating.text \in Nat /\ server.text \in Nat
      /\ server.made \in Nat /\ job.pc \in {"none", "create", "wait", "save"}
  BY <1>1, EditorFields
<1>3. /\ server' \in [made : Nat, text : 0..MaxTyped, live : BOOLEAN] /\ server'.live = server.live
      /\ \/ server'.made = server.made /\ server'.text = server.text /\ astray' = astray
         \/ server'.text = creating.text /\ astray' = astray \cup {"answer"}
  <2>1. CASE UNCHANGED <<server, astray>>
    BY <1>1, <2>1 DEF EditorTypeOK
  <2>2. CASE server' = [server EXCEPT !.made = @ + 1, !.text = creating.text] /\ astray' = astray \cup {"answer"}
    BY <1>1, <2>2, ServerCreates
  <2> QED BY <2>1, <2>2
<1>4. ~known /\ job.pc # "save" /\ doing # "sending" /\ server.text <= creating.text /\ creating.text <= typed
  BY <1>1 DEF Drafted, Carried
<1>5. /\ job' \in [pc : {"none", "create", "wait", "save"}, text : 0..MaxTyped] /\ ahead' \in Nat
      /\ job'.pc = "none" /\ job'.text \in Nat /\ job'.text <= typed /\ ~JobRuns'
      /\ \/ JobRuns /\ dirty' = TRUE /\ Behind' = queue /\ Behind = queue + 1
            /\ (ahead = 0 => ahead' = 0) /\ (ahead > 0 => ahead' = ahead - 1)
         \/ ~JobRuns /\ dirty' = dirty /\ Behind' = Behind /\ ahead' = ahead
  <2>1. CASE job.pc \in {"create", "wait"}
    <3>1. EndJob /\ dirty' = TRUE
      BY <2>1
    <3>2. JobRuns
      BY <1>1, <2>1 DEF Carried
    <3> QED BY <1>1, <1>2, <3>1, <3>2, JobEnds
  <2>2. CASE job.pc \notin {"create", "wait"}
    <3>1. job' = job /\ ahead' = ahead /\ dirty' = dirty
      BY <2>2
    <3>2. job.pc = "none"
      BY <1>2, <1>4, <2>2
    <3>3. ~JobRuns /\ ~JobRuns'
      BY <1>1, <3>1, <3>2 DEF Carried, JobRuns
    <3>4. Behind' = Behind
      BY <3>3 DEF Behind
    <3>5. job' \in [pc : {"none", "create", "wait", "save"}, text : 0..MaxTyped] /\ ahead' \in Nat
      BY <1>1, <3>1 DEF EditorTypeOK
    <3>6. job.text <= typed
      BY <1>1 DEF Carried
    <3> QED BY <1>2, <3>1, <3>2, <3>3, <3>4, <3>5, <3>6
  <2> QED BY <2>1, <2>2
<1>6. EditorTypeOK'
  <2>1. dirty' \in BOOLEAN /\ failed' \in 0..MaxFailures
    <3>1. dirty' \in BOOLEAN
      BY <1>1, <1>5 DEF EditorTypeOK
    <3>2. failed' \in 0..MaxFailures
      BY <1>1, PageEditorAssumption DEF EditorTypeOK, Fails
    <3> QED BY <3>1, <3>2
  <2>2. /\ image' \in {"no", "ensure", "upload"} /\ astray' \subseteq {"answer", "image", "delete"}
        /\ doing' \in {"editing", "publishing", "ensuring", "sending", "closing", "trashing", "deleting", "left"}
    BY <1>1, <1>3 DEF EditorTypeOK
  <2> QED BY <1>1, <1>3, <1>5, <2>1, <2>2, NoJobFields DEF EditorTypeOK
<1>7. Drafted'
  BY <1>1, <1>3 DEF Drafted
<1>8. Carried'
  BY <1>1, <1>2, <1>3, <1>4, <1>5, NoJobFields DEF Carried
<1>9. InOrder'
  <2>1. Publishes' => doing' = "publishing" /\ doing = "publishing"
    BY <1>4 DEF Publishes
  <2>2. "image" \notin astray' => "image" \notin astray
    BY <1>3
  <2>3. "image" \notin astray' /\ Publishes' /\ (timer \/ Behind' > ahead') => image' = "no"
    BY <1>1, <1>2, <1>5, <2>1, <2>2 DEF InOrder, Publishes
  <2>4. doing' \notin {"ensuring", "sending"}
    BY <1>4
  <2> QED BY <1>5, <2>3, <2>4 DEF InOrder
<1>10. Owed'
  <2> SUFFICES ASSUME astray' = {}, ~dirty', server'.live, doing' \notin {"trashing", "deleting"}
               PROVE  server'.text = typed
    BY DEF Owed
  <2>1. astray = {} /\ server'.text = server.text /\ ~JobRuns /\ ~dirty
    BY <1>3, <1>5
  <2> QED BY <1>1, <1>3, <2>1 DEF Owed
<1> QED BY <1>6, <1>7, <1>8, <1>9, <1>10 DEF EditorInv

LEMMA CreatedKeeps == ASSUME EditorInv, Created PROVE EditorInv'
BY CreatedWell, CreatedIll DEF Created

LEMMA SavedKeeps == ASSUME EditorInv, Saved PROVE EditorInv'
<1>1. /\ EditorTypeOK /\ Drafted /\ Carried /\ InOrder /\ Owed
      /\ job.pc = "save" /\ EndJob
      /\ UNCHANGED <<typed, timer, queue, creating, known, image, doing, content, astray>>
  BY DEF EditorInv, Saved
<1>2. /\ typed \in Nat /\ queue \in Nat /\ ahead \in Nat /\ job.text \in 0..MaxTyped /\ job.text \in Nat
      /\ creating.text \in Nat /\ server.text \in Nat /\ server.made \in Nat
  BY <1>1, EditorFields
<1>3. /\ server' \in [made : Nat, text : 0..MaxTyped, live : BOOLEAN]
      /\ server'.made = server.made /\ server'.live = server.live
      /\ server'.text = server.text \/ server'.text = job.text
      /\ server'.text = job.text \/ dirty' = TRUE \/ ~server.live
      /\ dirty' = dirty \/ dirty' = TRUE
  <2>1. CASE server.live /\ server' = [server EXCEPT !.text = job.text] /\ dirty' = dirty
    BY <1>1, <1>2, <2>1, ServerWrites
  <2>2. CASE dirty' = TRUE /\ server' = server
    BY <1>1, <2>2 DEF EditorTypeOK
  <2>3. CASE dirty' = TRUE /\ server' = [server EXCEPT !.text = job.text]
    BY <1>1, <1>2, <2>3, ServerWrites
  <2> QED BY <2>1, <2>2, <2>3 DEF Saved
<1>4. dirty' \in BOOLEAN /\ failed' \in 0..MaxFailures
  <2>1. dirty' \in BOOLEAN
    BY <1>1, <1>3 DEF EditorTypeOK
  <2>2. failed' = failed \/ Fails
    BY DEF Saved
  <2>3. failed' \in 0..MaxFailures
    BY <1>1, <2>2, PageEditorAssumption DEF EditorTypeOK, Fails
  <2> QED BY <2>1, <2>3
<1>5. JobRuns /\ known /\ creating = NobodyCreates
  BY <1>1 DEF Carried, Drafted
<1>6. /\ job' \in [pc : {"none", "create", "wait", "save"}, text : 0..MaxTyped] /\ ahead' \in Nat
      /\ job'.pc = "none" /\ job'.text = 0 /\ ~JobRuns' /\ Behind' = queue /\ Behind = queue + 1
      /\ ahead = 0 => ahead' = 0
      /\ ahead > 0 => ahead' = ahead - 1
  BY <1>1, <1>5, JobEnds
<1>7. EditorTypeOK'
  BY <1>1, <1>3, <1>4, <1>6 DEF EditorTypeOK
<1>8. Drafted'
  BY <1>1, <1>3 DEF Drafted
<1>9. Carried'
  BY <1>1, <1>2, <1>3, <1>5, <1>6 DEF Carried
<1>10. InOrder'
  BY <1>1, <1>2, <1>6 DEF InOrder, Publishes
<1>11. Owed'
  <2> SUFFICES ASSUME astray = {}, ~dirty', server.live, doing \notin {"trashing", "deleting"}
               PROVE  server'.text = typed
    BY <1>1, <1>3 DEF Owed
  <2>1. server'.text = job.text /\ ~dirty
    BY <1>3
  <2>2. server.text = typed \/ job.text = typed
    BY <1>1, <2>1 DEF Owed
  <2>3. server.text <= job.text /\ job.text <= typed
    BY <1>1 DEF InOrder, Carried
  <2> QED BY <1>2, <2>1, <2>2, <2>3
<1> QED BY <1>7, <1>8, <1>9, <1>10, <1>11 DEF EditorInv

LEMMA PickImageKeeps == ASSUME EditorInv, PickImage PROVE EditorInv'
<1>1. /\ EditorTypeOK /\ Drafted /\ Carried /\ InOrder /\ Owed
      /\ image = "no" /\ doing = "editing" /\ dirty' = TRUE
      /\ image' = IF known THEN "upload" ELSE "ensure"
      /\ creating' = IF known \/ creating # NobodyCreates THEN creating ELSE [by |-> "image", text |-> typed]
      /\ UNCHANGED <<typed, timer, queue, job, known, doing, ahead, content, server, failed, astray>>
  BY DEF EditorInv, PickImage
<1>2. /\ typed \in Nat /\ typed \in 0..MaxTyped /\ job.text \in Nat /\ creating.text \in Nat /\ server.text \in Nat
  BY <1>1, EditorFields, PageEditorAssumption
<1>3. PICK c : c = [by |-> "image", text |-> typed]
  OBVIOUS
<1>4. c.text = typed /\ c # NobodyCreates /\ c \in [by : {"nobody", "job", "image", "publish"}, text : 0..MaxTyped]
  BY <1>2, <1>3 DEF NobodyCreates
<1>5. /\ creating' = IF known \/ creating # NobodyCreates THEN creating ELSE c
  BY <1>1, <1>3
<1>6. EditorTypeOK'
  <2>1. image' \in {"no", "ensure", "upload"}
    BY <1>1
  <2>2. creating' \in [by : {"nobody", "job", "image", "publish"}, text : 0..MaxTyped]
    BY <1>1, <1>4, <1>5 DEF EditorTypeOK
  <2> QED BY <1>1, <2>1, <2>2 DEF EditorTypeOK
<1>7. Drafted'
  BY <1>1, <1>4, <1>5 DEF Drafted
<1>8. Carried'
  BY <1>1, <1>2, <1>4, <1>5 DEF Carried, JobRuns
<1>9. InOrder'
  BY <1>1 DEF InOrder, Publishes
<1>10. Owed'
  BY <1>1 DEF Owed
<1> QED BY <1>6, <1>7, <1>8, <1>9, <1>10 DEF EditorInv

LEMMA UploadedKeeps == ASSUME EditorInv, Uploaded PROVE EditorInv'
<1>1. /\ EditorTypeOK /\ Drafted /\ Carried /\ InOrder /\ Owed
      /\ image = "upload" /\ image' = "no"
      /\ UNCHANGED <<queue, job, creating, known, doing, ahead, content, server>>
  BY DEF EditorInv, Uploaded
<1>2. /\ typed \in Nat /\ job.text \in Nat /\ creating.text \in Nat /\ server.text \in Nat /\ content \in Nat
  BY <1>1, EditorFields
<1>3. CASE UNCHANGED <<typed, dirty, timer, astray>>
  <2>1. failed' = failed \/ Fails
    BY <1>3 DEF Uploaded
  <2>2. failed' \in 0..MaxFailures
    BY <1>1, <2>1, PageEditorAssumption DEF EditorTypeOK, Fails
  <2>3. EditorTypeOK'
    BY <1>1, <1>3, <2>2 DEF EditorTypeOK
  <2>4. Drafted' /\ Carried'
    BY <1>1, <1>3 DEF Drafted, Carried, JobRuns
  <2>5. InOrder'
    BY <1>1, <1>3 DEF InOrder, Publishes, JobRuns, Behind
  <2>6. Owed'
    BY <1>1, <1>3 DEF Owed, JobRuns
  <2> QED BY <2>3, <2>4, <2>5, <2>6 DEF EditorInv
<1>4. CASE /\ typed < MaxTyped /\ typed' = typed + 1 /\ dirty' = TRUE /\ timer' = TRUE /\ failed' = failed
           /\ astray' = IF doing = "sending" THEN astray \cup {"image"} ELSE astray
  <2>1. typed' \in 0..MaxTyped /\ astray' \subseteq {"answer", "image", "delete"}
    BY <1>1, <1>2, <1>4, PageEditorAssumption DEF EditorTypeOK
  <2>2. EditorTypeOK'
    BY <1>1, <1>4, <2>1 DEF EditorTypeOK
  <2>3. Drafted' /\ Carried'
    BY <1>1, <1>2, <1>4 DEF Drafted, Carried, JobRuns
  <2>4. InOrder'
    <3> SUFFICES ASSUME "image" \notin astray'
                 PROVE  /\ job.pc = "save" => server.text <= job.text
                        /\ doing # "sending"
                        /\ doing = "ensuring" => ahead = 0
                        /\ Publishes /\ ahead = 0 /\ JobRuns => job.text = typed'
      BY <1>1 DEF InOrder, Publishes, JobRuns
    <3>1. doing # "sending" /\ "image" \notin astray
      BY <1>4
    <3>2. Publishes => ~(Behind > ahead)
      BY <1>1, <3>1 DEF InOrder
    <3>3. JobRuns => Behind > 0
      BY <1>1, EditorFields
    <3> QED BY <1>1, <3>1, <3>2, <3>3 DEF InOrder
  <2>5. Owed'
    BY <1>4 DEF Owed
  <2> QED BY <2>2, <2>3, <2>4, <2>5 DEF EditorInv
<1> QED BY <1>3, <1>4 DEF Uploaded

LEMMA PressPublishKeeps == ASSUME EditorInv, PressPublish PROVE EditorInv'
<1>1. /\ EditorTypeOK /\ Drafted /\ Carried /\ InOrder /\ Owed
      /\ doing = "editing" /\ doing' = "publishing" /\ dirty' = (dirty \/ ~known)
      /\ timer' = FALSE /\ queue' = queue + 1 /\ ahead' = Behind + 1
      /\ UNCHANGED <<typed, job, creating, known, image, content, server, failed, astray>>
  BY DEF EditorInv, PressPublish, Flush
<1>2. queue \in Nat /\ queue' \in Nat /\ Behind \in Nat /\ ahead' \in Nat /\ ahead' > 0
  BY <1>1, EditorFields
<1>3. Behind' = Behind + 1
  BY <1>1, <1>2 DEF Behind, JobRuns
<1>4. EditorTypeOK'
  <2>1. dirty' \in BOOLEAN
    BY <1>1
  <2> QED BY <1>1, <1>2, <2>1 DEF EditorTypeOK
<1>5. Drafted' /\ Carried'
  BY <1>1 DEF Drafted, Carried, JobRuns
<1>6. InOrder'
  BY <1>1, <1>2, <1>3 DEF InOrder, Publishes
<1>7. Owed'
  BY <1>1 DEF Owed, JobRuns
<1> QED BY <1>4, <1>5, <1>6, <1>7 DEF EditorInv

LEMMA EnsureKeeps == ASSUME EditorInv, Ensure PROVE EditorInv'
<1>1. /\ EditorTypeOK /\ Drafted /\ Carried /\ InOrder /\ Owed
      /\ doing = "publishing" /\ ahead = 0 /\ doing' = "ensuring"
      /\ creating' = IF known \/ creating # NobodyCreates THEN creating ELSE [by |-> "publish", text |-> typed]
      /\ UNCHANGED <<typed, dirty, timer, queue, job, known, image, ahead, content, server, failed, astray>>
  BY DEF EditorInv, Ensure
<1>2. /\ typed \in Nat /\ typed \in 0..MaxTyped /\ job.text \in Nat /\ creating.text \in Nat /\ server.text \in Nat
  BY <1>1, EditorFields, PageEditorAssumption
<1>3. PICK c : c = [by |-> "publish", text |-> typed]
  OBVIOUS
<1>4. c.text = typed /\ c # NobodyCreates /\ c \in [by : {"nobody", "job", "image", "publish"}, text : 0..MaxTyped]
  BY <1>2, <1>3 DEF NobodyCreates
<1>5. creating' = IF known \/ creating # NobodyCreates THEN creating ELSE c
  BY <1>1, <1>3
<1>6. EditorTypeOK'
  <2>1. creating' \in [by : {"nobody", "job", "image", "publish"}, text : 0..MaxTyped]
    BY <1>1, <1>4, <1>5 DEF EditorTypeOK
  <2> QED BY <1>1, <2>1 DEF EditorTypeOK
<1>7. Drafted'
  BY <1>1, <1>4, <1>5 DEF Drafted
<1>8. Carried'
  BY <1>1, <1>2, <1>4, <1>5 DEF Carried, JobRuns
<1>9. InOrder'
  BY <1>1 DEF InOrder, Publishes, JobRuns, Behind
<1>10. Owed'
  BY <1>1 DEF Owed, JobRuns
<1> QED BY <1>6, <1>7, <1>8, <1>9, <1>10 DEF EditorInv

LEMMA SendPublishKeeps == ASSUME EditorInv, SendPublish PROVE EditorInv'
<1>1. /\ EditorTypeOK /\ Drafted /\ Carried /\ InOrder /\ Owed
      /\ doing = "ensuring" /\ known /\ doing' = "sending" /\ timer' = FALSE /\ content' = typed
      /\ UNCHANGED <<typed, dirty, queue, job, creating, known, image, ahead, server, failed, astray>>
  BY DEF EditorInv, SendPublish
<1>2. EditorTypeOK'
  BY <1>1 DEF EditorTypeOK
<1>3. Drafted' /\ Carried'
  <2>1. typed <= typed
    BY <1>1, EditorFields
  <2> QED BY <1>1, <2>1 DEF Drafted, Carried, JobRuns
<1>4. InOrder'
  BY <1>1 DEF InOrder, Publishes, JobRuns, Behind
<1>5. Owed'
  BY <1>1 DEF Owed, JobRuns
<1> QED BY <1>2, <1>3, <1>4, <1>5 DEF EditorInv

\* What is published is the newest there is, and so is what may still fly.
LEMMA PublishedKeeps == ASSUME EditorInv, Published PROVE EditorInv'
<1>1. /\ EditorTypeOK /\ Drafted /\ Carried /\ InOrder /\ Owed /\ doing = "sending"
      /\ UNCHANGED <<typed, job, creating, known, image, ahead, content, astray>>
  BY DEF EditorInv, Published
<1>2. /\ typed \in Nat /\ queue \in Nat /\ content \in Nat /\ content \in 0..MaxTyped
      /\ job.text \in Nat /\ creating.text \in Nat /\ server.text \in Nat
  BY <1>1, EditorFields DEF EditorTypeOK
<1>3. /\ server' \in [made : Nat, text : 0..MaxTyped, live : BOOLEAN]
      /\ server'.made = server.made /\ server'.live = server.live
      /\ \/ server'.text = content /\ doing' = "left" /\ dirty' = FALSE
         \/ server'.text \in {server.text, content} /\ doing' = "editing" /\ dirty' = dirty
  <2>1. CASE server' = [server EXCEPT !.text = content]
    BY <1>1, <1>2, <2>1, ServerWrites DEF Published
  <2>2. CASE server' = server
    BY <1>1, <1>2, <2>2, ServerWrites DEF Published, EditorTypeOK
  <2> QED BY <2>1, <2>2 DEF Published
<1>4. failed' \in 0..MaxFailures /\ dirty' \in BOOLEAN /\ timer' \in BOOLEAN /\ queue' \in Nat
  <2>1. failed' = failed \/ Fails
    BY DEF Published
  <2>2. failed' \in 0..MaxFailures
    BY <1>1, <2>1, PageEditorAssumption DEF EditorTypeOK, Fails
  <2>3. timer' \in BOOLEAN /\ queue' \in Nat
    <3>1. (timer' = FALSE /\ queue' = queue + 1) \/ (timer' = timer /\ queue' = queue)
      BY DEF Published, Flush
    <3>2. queue + 1 \in Nat
      BY <1>2
    <3> QED BY <1>1, <1>2, <3>1, <3>2, Zenon DEF EditorTypeOK
  <2>4. dirty' \in BOOLEAN
    BY <1>1, <1>3 DEF EditorTypeOK
  <2> QED BY <2>2, <2>3, <2>4
<1>5. EditorTypeOK'
  BY <1>1, <1>3, <1>4 DEF EditorTypeOK
<1>6. Drafted'
  BY <1>1, <1>3 DEF Drafted
<1>7. known /\ creating = NobodyCreates /\ job.pc \notin {"create", "wait"}
  BY <1>1 DEF Carried, Drafted
<1>8. "image" \notin astray =>
        content = typed /\ server.text <= typed /\ (JobRuns => job.text = typed) /\ (job.pc = "save" => JobRuns)
  BY <1>1 DEF InOrder, Publishes, Carried
<1>9. Carried'
  <2>1. server'.text <= typed
    BY <1>1, <1>2, <1>3, <1>8 DEF Carried
  <2> QED BY <1>1, <1>3, <1>7, <2>1 DEF Carried, JobRuns
<1>10. InOrder'
  BY <1>1, <1>2, <1>3, <1>8 DEF InOrder, Publishes
<1>11. Owed'
  BY <1>1, <1>3, <1>8 DEF Owed, JobRuns
<1> QED BY <1>5, <1>6, <1>9, <1>10, <1>11 DEF EditorInv

\* Whoever leaves or throws away waits in no order that matters.
LEMMA CloseKeeps == ASSUME EditorInv, Close \/ Closed PROVE EditorInv'
<1>1. /\ EditorTypeOK /\ Drafted /\ Carried /\ InOrder /\ Owed
      /\ doing \in {"editing", "closing"} /\ doing' \in {"closing", "left"} /\ timer' = FALSE /\ queue' = queue + 1
      /\ ahead' = ahead \/ ahead' = Behind + 1
      /\ UNCHANGED <<typed, dirty, job, creating, known, image, content, server, failed, astray>>
  BY DEF EditorInv, Close, Closed, Flush
<1>2. queue \in Nat /\ queue' \in Nat /\ Behind \in Nat /\ ahead' \in Nat
  BY <1>1, EditorFields
<1>3. EditorTypeOK'
  BY <1>1, <1>2 DEF EditorTypeOK
<1>4. Drafted' /\ Carried'
  BY <1>1 DEF Drafted, Carried, JobRuns
<1>5. InOrder' /\ Owed'
  BY <1>1 DEF InOrder, Publishes, Owed, JobRuns
<1> QED BY <1>3, <1>4, <1>5 DEF EditorInv

LEMMA TrashKeeps == ASSUME EditorInv, PressTrash \/ SendDelete PROVE EditorInv'
<1>1. /\ EditorTypeOK /\ Drafted /\ Carried /\ InOrder /\ Owed
      /\ doing' \in {"trashing", "deleting"} /\ timer' \in BOOLEAN /\ dirty' \in BOOLEAN
      /\ ahead' = ahead \/ ahead' = Behind
      /\ UNCHANGED <<typed, queue, job, creating, known, image, content, server, failed, astray>>
  BY DEF EditorInv, EditorTypeOK, PressTrash, SendDelete
<1>2. Behind \in Nat /\ ahead' \in Nat
  BY <1>1, EditorFields
<1>3. EditorTypeOK'
  BY <1>1, <1>2 DEF EditorTypeOK
<1>4. Drafted' /\ Carried'
  BY <1>1 DEF Drafted, Carried, JobRuns
<1>5. InOrder' /\ Owed'
  BY <1>1 DEF InOrder, Publishes, Owed
<1> QED BY <1>3, <1>4, <1>5 DEF EditorInv

LEMMA DeletedKeeps == ASSUME EditorInv, Deleted PROVE EditorInv'
<1>1. /\ EditorTypeOK /\ Drafted /\ Carried /\ InOrder /\ Owed /\ doing = "deleting"
      /\ UNCHANGED <<typed, dirty, job, creating, known, image, ahead, content>>
  BY DEF EditorInv, Deleted
<1>2. PICK s : s = [server EXCEPT !.live = FALSE]
  OBVIOUS
<1>3. s \in [made : Nat, text : 0..MaxTyped, live : BOOLEAN] /\ s.made = server.made /\ s.text = server.text /\ s.live = FALSE
  BY <1>1, <1>2 DEF EditorTypeOK
<1>4. /\ server' \in [made : Nat, text : 0..MaxTyped, live : BOOLEAN] /\ server'.made = server.made /\ server'.text = server.text
      /\ \/ server'.live = FALSE /\ doing' = "left" /\ astray' = astray
         \/ doing' = "editing" /\ astray' = astray \cup {"delete"}
  <2>1. CASE server' = s
    BY <1>2, <1>3, <2>1 DEF Deleted
  <2>2. CASE server' = server /\ doing' = "editing" /\ astray' = astray \cup {"delete"}
    BY <1>1, <2>2 DEF EditorTypeOK
  <2> QED BY <1>2, <2>1, <2>2 DEF Deleted
<1>5. failed' \in 0..MaxFailures /\ timer' \in BOOLEAN /\ queue' \in Nat
  <2>1. failed' = failed \/ Fails
    BY DEF Deleted
  <2>2. failed' \in 0..MaxFailures
    BY <1>1, <2>1, PageEditorAssumption DEF EditorTypeOK, Fails
  <2>3. timer' \in BOOLEAN /\ queue' \in Nat
    <3>1. (timer' = FALSE /\ queue' = queue + 1) \/ (timer' = timer /\ queue' = queue)
      BY DEF Deleted, Flush
    <3>2. queue \in Nat /\ queue + 1 \in Nat
      BY <1>1, EditorFields
    <3> QED BY <1>1, <3>1, <3>2, Zenon DEF EditorTypeOK
  <2> QED BY <2>2, <2>3
<1>6. EditorTypeOK'
  BY <1>1, <1>4, <1>5 DEF EditorTypeOK
<1>7. Drafted' /\ Carried'
  BY <1>1, <1>4 DEF Drafted, Carried, JobRuns
<1>8. InOrder' /\ Owed'
  BY <1>1, <1>4 DEF InOrder, Publishes, Owed, JobRuns
<1> QED BY <1>6, <1>7, <1>8 DEF EditorInv

LEMMA EditorStep == EditorInv /\ [EditorNext]_editorVars => EditorInv'
<1> SUFFICES ASSUME EditorInv, [EditorNext]_editorVars PROVE EditorInv'
  OBVIOUS
<1>1. CASE Type \/ Timeout \/ StartJob \/ Created \/ Saved
  BY <1>1, TypeKeeps, TimeoutKeeps, StartJobKeeps, CreatedKeeps, SavedKeeps
<1>2. CASE Ensure \/ SendPublish \/ Published \/ SendDelete \/ Deleted
  BY <1>2, EnsureKeeps, SendPublishKeeps, PublishedKeeps, TrashKeeps, DeletedKeeps
<1>3. CASE Uploaded \/ PickImage \/ PressPublish \/ Close \/ PressTrash \/ Closed
  BY <1>3, UploadedKeeps, PickImageKeeps, PressPublishKeeps, CloseKeeps, TrashKeeps
<1>4. CASE UNCHANGED editorVars
  BY <1>4 DEF EditorInv, EditorTypeOK, Drafted, Carried, InOrder, Owed, Publishes, JobRuns, Behind, editorVars
<1> QED BY <1>1, <1>2, <1>3, <1>4 DEF EditorNext, Settle, Proceed

\* Jobs, requests and what the author does stay in step.
THEOREM EditorInvariant == EditorSpec => []EditorInv
<1>1. EditorSpec => EditorInit /\ [][EditorNext]_editorVars
  BY DEF EditorSpec
<1> QED BY <1>1, EditorStart, EditorStep, PTL

\* The editor's types.
THEOREM EditorTypes == EditorSpec => []EditorTypeOK
<1>1. EditorInv => EditorTypeOK
  BY DEF EditorInv
<1> QED BY <1>1, EditorInvariant, PTL

\* At rest there is one page, with what was typed.
THEOREM EditorRests == EditorSpec => []RestsWell
<1>1. EditorInv => RestsWell
  <2> SUFFICES ASSUME EditorInv PROVE RestsWell
    OBVIOUS
  <2>1. EditorTypeOK /\ Drafted /\ Carried /\ Owed
    BY DEF EditorInv
  <2>2. OneDraft
    BY <2>1 DEF Drafted, OneDraft
  <2>3. RestsSaved
    BY <2>1 DEF Owed, RestsSaved
  <2> QED BY <2>2, <2>3 DEF RestsWell
<1> QED BY <1>1, EditorInvariant, PTL

\* The server never goes back to an older revision.
THEOREM NeverSetBack == EditorSpec => NeverBack
<1>1. EditorInv /\ [EditorNext]_editorVars => [server'.text < server.text => "image" \in astray]_editorVars
  <2>0. ASSUME EditorInv, server'.text < server.text PROVE server' # server
    <3>1. server.text \in Nat
      BY <2>0, EditorFields DEF EditorInv
    <3>2. ~(server.text < server.text)
      BY <3>1
    <3> QED BY <2>0, <3>2
  <2> SUFFICES ASSUME EditorInv, EditorNext, "image" \notin astray, server' # server
               PROVE  ~(server'.text < server.text)
    BY <2>0 DEF editorVars
  <2>1. /\ EditorTypeOK /\ Drafted /\ Carried /\ InOrder /\ typed \in Nat /\ server.text \in Nat /\ job.text \in 0..MaxTyped
        /\ job.text \in Nat /\ creating.text \in Nat /\ content \in 0..MaxTyped /\ content \in Nat
    BY EditorFields DEF EditorInv, EditorTypeOK
  <2>2. CASE Created
    <3>1. server' = [server EXCEPT !.made = @ + 1, !.text = creating.text] /\ creating # NobodyCreates
      BY <2>2 DEF Created
    <3>2. server'.text = creating.text /\ server.text <= creating.text
      BY <2>1, <3>1, ServerCreates DEF Carried
    <3> QED BY <2>1, <3>2
  <2>3. CASE Saved
    <3>1. server' = [server EXCEPT !.text = job.text] /\ job.pc = "save"
      BY <2>3 DEF Saved
    <3>2. server'.text = job.text /\ server.text <= job.text
      BY <2>1, <3>1, ServerWrites DEF InOrder
    <3> QED BY <2>1, <3>2
  <2>4. CASE Published
    <3>1. server' = [server EXCEPT !.text = content] /\ doing = "sending"
      BY <2>4 DEF Published
    <3>2. server'.text = content /\ server.text <= content
      BY <2>1, <3>1, ServerWrites DEF InOrder, Carried
    <3> QED BY <2>1, <3>2
  <2>5. CASE Deleted
    <3>1. PICK s : s = [server EXCEPT !.live = FALSE]
      OBVIOUS
    <3>2. server' = s
      BY <2>5, <3>1 DEF Deleted
    <3>3. s.text = server.text
      BY <2>1, <3>1 DEF EditorTypeOK
    <3> QED BY <2>1, <3>2, <3>3
  <2>6. ~Type /\ ~Timeout /\ ~StartJob /\ ~Ensure /\ ~SendPublish /\ ~SendDelete /\ ~Closed /\ ~Uploaded
        /\ ~PickImage /\ ~PressPublish /\ ~Close /\ ~PressTrash
    BY DEF Type, Timeout, StartJob, Ensure, SendPublish, SendDelete, Closed, Uploaded, PickImage, PressPublish, Close, PressTrash
  <2> QED BY <2>2, <2>3, <2>4, <2>5, <2>6 DEF EditorNext, Settle, Proceed
<1>2. EditorSpec => [][EditorNext]_editorVars
  BY DEF EditorSpec
<1> QED BY <1>1, <1>2, EditorInvariant, PTL DEF NeverBack

-----------------------------------------------------------------------------
(***************************************************************************)
(* Realtime.  What a tab shows and what is on its way to it: no answer and *)
(* no page is newer than the issue, no connection speaks or sits in a room *)
(* that its tab has yet to open, and what is spoken on either side is of   *)
(* the kinds the other side knows.                                         *)
(***************************************************************************)
SpokenWords == [type : {"join", "leave"}, issue : Issues]
ToldNews == [type : {"update", "presence"}, issue : Issues, users : SUBSET Tabs]
Copies == [issue : Issues \cup {Nowhere}, version : Nat]

NoNewer(a) == a.issue # Nowhere => a.version <= version[a.issue]
PagesTyped ==
  /\ url \in [Tabs -> Issues \cup {Nowhere}] /\ listed \subseteq Issues /\ viewers \in [Tabs -> SUBSET Tabs]
  /\ fetched \in [Tabs -> Copies] /\ answers \in [Tabs -> SUBSET Copies] /\ version \in [Issues -> Nat]
  /\ told \in [Issues -> Nat] /\ \A i \in Issues : told[i] <= version[i]
  /\ \A t \in Tabs : NoNewer(fetched[t]) /\ \A a \in answers[t] : NoNewer(a)
Dialled ==
  /\ sock \in [Tabs -> {"none", "opening", "open"}] /\ conn \in [Tabs -> 0..MaxTurns]
  /\ turns \in 0..MaxTurns /\ \A t \in Tabs : conn[t] <= turns
SpeechTyped ==
  /\ spoken \in [Conns -> Seq(SpokenWords)]
  /\ \A c \in Conns : spoken[c] # <<>> => c[2] <= conn[c[1]]
RoomsTyped ==
  /\ rooms \subseteq Conns \X Issues /\ IsFiniteSet(rooms)
  /\ \A r \in rooms : r[1][2] <= conn[r[1][1]]
NewsTyped == news \in [Tabs -> Seq(ToldNews)]
RealtimeInv == PagesTyped /\ Dialled /\ SpeechTyped /\ RoomsTyped /\ NewsTyped

\* A tab shows one of the issues, or none; so it does after another address or answer.
LEMMA ShownTyped ==
  ASSUME PagesTyped, NEW a \in Issues \cup {Nowhere}, NEW f \in Copies
  PROVE  ShownFrom(a, f) \in Issues \cup {Nowhere}
BY DEF PagesTyped, ShownFrom, Copies

LEMMA WordsTyped ==
  ASSUME NEW t \in Tabs, NEW a \in Issues \cup {Nowhere}, NEW b \in Issues \cup {Nowhere}
  PROVE  Words(t, a, b) \in Seq(SpokenWords)
<1> DEFINE L == IF a = Nowhere THEN <<>> ELSE <<Leave(a)>>
           J == IF b = Nowhere THEN <<>> ELSE <<Join(b)>>
<1>e. <<>> \in Seq(SpokenWords)
  BY EmptySeq
<1>1. L \in Seq(SpokenWords)
  <2>1. ASSUME a # Nowhere PROVE Leave(a) \in SpokenWords
    BY <2>1 DEF SpokenWords, Leave
  <2> QED BY <1>e, <2>1
<1>2. J \in Seq(SpokenWords)
  <2>1. ASSUME b # Nowhere PROVE Join(b) \in SpokenWords
    BY <2>1 DEF SpokenWords, Join
  <2> QED BY <1>e, <2>1
<1>3. L \o J \in Seq(SpokenWords)
  BY <1>1, <1>2, ConcatProperties
<1> QED BY <1>e, <1>3 DEF Words

LEMMA LiveConn ==
  ASSUME Dialled, NEW t \in Tabs
  PROVE  Live(t) \in Conns /\ Live(t)[1] = t /\ Live(t)[2] = conn[t] /\ conn[t] \in Nat
BY RealtimeAssumption DEF Dialled, Live, Conns

\* A tab speaks on the connection it has.
LEMMA SpeechAdded ==
  ASSUME Dialled, SpeechTyped, NEW t \in Tabs, NEW w \in Seq(SpokenWords), conn' = conn,
         spoken' = [spoken EXCEPT ![Live(t)] = @ \o w] \/ spoken' = [spoken EXCEPT ![Live(t)] = w]
  PROVE  SpeechTyped'
<1>1. /\ Live(t) \in Conns /\ Live(t)[1] = t /\ Live(t)[2] = conn[t] /\ conn[t] \in Nat
      /\ spoken \in [Conns -> Seq(SpokenWords)]
  BY LiveConn DEF SpeechTyped
<1>2. PICK x \in Seq(SpokenWords) : spoken' = [spoken EXCEPT ![Live(t)] = x]
  <2>1. spoken[Live(t)] \o w \in Seq(SpokenWords)
    BY <1>1, ConcatProperties
  <2> QED BY <2>1
<1>3. spoken' \in [Conns -> Seq(SpokenWords)]
  BY <1>1, <1>2
<1>4. ASSUME NEW c \in Conns, spoken'[c] # <<>> PROVE c[2] <= conn[c[1]]
  BY <1>1, <1>2, <1>4 DEF SpeechTyped
<1> QED BY <1>3, <1>4 DEF SpeechTyped

\* A page that turns to another issue says so, or dials.
LEMMA TurnToKeeps ==
  ASSUME RealtimeInv, NEW t \in Tabs, TurnTo(t), listed' = listed,
         url'[t] \in Issues \cup {Nowhere}, fetched'[t] \in Copies,
         turns' \in 0..MaxTurns, turns <= turns'
  PROVE  Dialled' /\ SpeechTyped' /\ RoomsTyped' /\ NewsTyped'
<1> DEFINE next == ShownFrom(url'[t], fetched'[t])
<1>1. Shown(t) \in Issues \cup {Nowhere} /\ next \in Issues \cup {Nowhere}
  BY ShownTyped DEF RealtimeInv, PagesTyped, Shown
<1>2. /\ spoken' = [spoken EXCEPT ![Live(t)] = @ \o Words(t, Shown(t), next)]
      /\ sock' = [sock EXCEPT ![t] = IF @ = "none" /\ next # Nowhere THEN "opening" ELSE @]
      /\ UNCHANGED <<conn, news, rooms>>
  BY DEF TurnTo
<1>3. Words(t, Shown(t), next) \in Seq(SpokenWords)
  BY <1>1, WordsTyped
<1> HIDE DEF next
<1>4. SpeechTyped'
  BY <1>2, <1>3, SpeechAdded DEF RealtimeInv
<1>5. Dialled'
  <2>1. sock' \in [Tabs -> {"none", "opening", "open"}]
    BY <1>2 DEF RealtimeInv, Dialled
  <2>2. \A u \in Tabs : conn[u] \in Nat /\ conn[u] <= turns
    BY RealtimeAssumption DEF RealtimeInv, Dialled
  <2>3. turns \in Nat /\ turns' \in Nat
    BY RealtimeAssumption DEF RealtimeInv, Dialled
  <2> QED BY <1>2, <2>1, <2>2, <2>3 DEF RealtimeInv, Dialled
<1> QED BY <1>2, <1>4, <1>5 DEF RealtimeInv, RoomsTyped, NewsTyped

\* Pages whose issues, copies and answers are as they were, but for one copy or answer.
LEMMA PagesRest ==
  ASSUME PagesTyped, UNCHANGED <<listed, fetched, answers, version, told>>,
         url' \in [Tabs -> Issues \cup {Nowhere}], viewers' \in [Tabs -> SUBSET Tabs]
  PROVE  PagesTyped'
BY DEF PagesTyped, NoNewer

LEMMA VisitKeeps ==
  ASSUME RealtimeInv, NEW t \in Tabs, Visit(t)
  PROVE  RealtimeInv'
<1>1. PICK i \in (Issues \cup {Nowhere}) \ {url[t]} :
        /\ Turn /\ url' = [url EXCEPT ![t] = i] /\ TurnTo(t)
        /\ UNCHANGED <<listed, version, told>>
        /\ \/ /\ fetched' = [fetched EXCEPT ![t] = Nothing] /\ viewers' = [viewers EXCEPT ![t] = {}]
              /\ answers' = [answers EXCEPT ![t] = {}]
           \/ UNCHANGED <<fetched, viewers, answers>>
  BY DEF Visit, Ask, issueVars
<1>2. turns \in Nat /\ turns' \in 0..MaxTurns /\ turns <= turns'
  BY <1>1, RealtimeAssumption DEF Turn, RealtimeInv, Dialled
<1>3. PagesTyped /\ Nothing \in Copies /\ Nothing.issue = Nowhere
  BY DEF RealtimeInv, Nothing, Copies
<1>4. url' \in [Tabs -> Issues \cup {Nowhere}] /\ url'[t] \in Issues \cup {Nowhere}
  BY <1>1, <1>3 DEF PagesTyped
<1>5. PagesTyped' /\ fetched'[t] \in Copies
  <2>1. CASE UNCHANGED <<fetched, viewers, answers>>
    <3>1. viewers' \in [Tabs -> SUBSET Tabs] /\ fetched'[t] \in Copies
      BY <1>3, <2>1 DEF PagesTyped
    <3> QED BY <1>1, <1>3, <1>4, <2>1, <3>1, PagesRest
  <2>2. CASE /\ fetched' = [fetched EXCEPT ![t] = Nothing] /\ viewers' = [viewers EXCEPT ![t] = {}]
             /\ answers' = [answers EXCEPT ![t] = {}]
    <3>1. /\ fetched' \in [Tabs -> Copies] /\ viewers' \in [Tabs -> SUBSET Tabs]
          /\ answers' \in [Tabs -> SUBSET Copies] /\ fetched'[t] \in Copies
      BY <1>3, <2>2 DEF PagesTyped
    <3>2. ASSUME NEW u \in Tabs PROVE NoNewer(fetched[u])' /\ \A a \in answers'[u] : NoNewer(a)'
      BY <1>1, <1>3, <2>2 DEF PagesTyped, NoNewer
    <3> QED BY <1>1, <1>3, <1>4, <3>1, <3>2 DEF PagesTyped
  <2> QED BY <1>1, <2>1, <2>2
<1>6. Dialled' /\ SpeechTyped' /\ RoomsTyped' /\ NewsTyped'
  BY <1>1, <1>2, <1>4, <1>5, TurnToKeeps
<1> QED BY <1>5, <1>6 DEF RealtimeInv

\* Who has not moved keeps its connection, what it says, its rooms and its news.
LEMMA LinksRest ==
  ASSUME RealtimeInv, UNCHANGED <<sock, conn, spoken, news, rooms, turns>>
  PROVE  Dialled' /\ SpeechTyped' /\ RoomsTyped' /\ NewsTyped'
BY DEF RealtimeInv, Dialled, SpeechTyped, RoomsTyped, NewsTyped

LEMMA ServeKeeps ==
  ASSUME RealtimeInv, NEW t \in Tabs, Serve(t)
  PROVE  RealtimeInv'
<1>1. PICK i \in Issues :
        /\ answers' = [answers EXCEPT ![t] = @ \cup {[issue |-> i, version |-> version[i]]}]
        /\ UNCHANGED <<url, listed, fetched, viewers, sock, conn, spoken, news, rooms, version, told, turns>>
  BY DEF Serve, pageVars, linkVars, issueVars
<1>2. PagesTyped /\ version[i] \in Nat
  BY DEF RealtimeInv, PagesTyped
<1> DEFINE new == [issue |-> i, version |-> version[i]]
<1>3. new \in Copies /\ NoNewer(new)
  BY <1>2 DEF Copies, NoNewer
<1> HIDE DEF new
<1>4. answers' \in [Tabs -> SUBSET Copies] /\ \A u \in Tabs : answers'[u] \subseteq answers[u] \cup {new}
  BY <1>1, <1>2, <1>3 DEF PagesTyped, new
<1>5. \A a : NoNewer(a)' <=> NoNewer(a)
  BY <1>1 DEF NoNewer
<1>6. PagesTyped'
  <2>1. ASSUME NEW u \in Tabs PROVE NoNewer(fetched[u])' /\ \A a \in answers'[u] : NoNewer(a)'
    BY <1>1, <1>2, <1>3, <1>4, <1>5 DEF PagesTyped, NoNewer
  <2> QED BY <1>1, <1>2, <1>4, <2>1 DEF PagesTyped
<1> QED BY <1>1, <1>6, LinksRest DEF RealtimeInv

LEMMA AnswerKeeps ==
  ASSUME RealtimeInv, NEW t \in Tabs, Answer(t)
  PROVE  RealtimeInv'
<1>1. PICK a \in answers[t] :
        /\ answers' = [answers EXCEPT ![t] = @ \ {a}] /\ fetched' = [fetched EXCEPT ![t] = a]
        /\ UNCHANGED url /\ TurnTo(t)
        /\ UNCHANGED <<listed, viewers, version, told, turns>>
  BY DEF Answer, issueVars
<1>2. PagesTyped /\ a \in Copies /\ NoNewer(a)
  BY DEF RealtimeInv, PagesTyped
<1>3. /\ answers' \in [Tabs -> SUBSET Copies] /\ fetched' \in [Tabs -> Copies]
      /\ \A u \in Tabs : answers'[u] \subseteq answers[u] /\ fetched'[u] \in {fetched[u], a}
      /\ fetched'[t] = a
  BY <1>1, <1>2 DEF PagesTyped
<1>4. PagesTyped'
  <2>1. ASSUME NEW u \in Tabs PROVE NoNewer(fetched[u])' /\ \A b \in answers'[u] : NoNewer(b)'
    BY <1>1, <1>2, <1>3 DEF PagesTyped, NoNewer
  <2> QED BY <1>1, <1>2, <1>3, <2>1 DEF PagesTyped
<1>5. turns' \in 0..MaxTurns /\ turns <= turns' /\ url'[t] \in Issues \cup {Nowhere}
  BY <1>1, <1>2, RealtimeAssumption DEF RealtimeInv, Dialled, PagesTyped
<1>6. Dialled' /\ SpeechTyped' /\ RoomsTyped' /\ NewsTyped'
  BY <1>1, <1>2, <1>3, <1>5, TurnToKeeps
<1> QED BY <1>4, <1>6 DEF RealtimeInv

LEMMA ReceiveKeeps ==
  ASSUME RealtimeInv, NEW t \in Tabs, Receive(t)
  PROVE  RealtimeInv'
<1> DEFINE m == Head(news[t])
<1>1. /\ news[t] # <<>> /\ news' = [news EXCEPT ![t] = Tail(@)]
      /\ viewers' = IF m.type = "presence" /\ m.issue = Shown(t) THEN [viewers EXCEPT ![t] = m.users] ELSE viewers
      /\ UNCHANGED <<url, listed, fetched, answers, version, told, sock, conn, spoken, rooms, turns>>
  BY DEF Receive, Ask, askVars, issueVars
<1>2. news \in [Tabs -> Seq(ToldNews)] /\ news[t] \in Seq(ToldNews) /\ PagesTyped
  BY DEF RealtimeInv, NewsTyped
<1>3. m \in ToldNews /\ Tail(news[t]) \in Seq(ToldNews)
  BY <1>1, <1>2
<1>4. m.users \in SUBSET Tabs
  BY <1>3 DEF ToldNews
<1>5. news' \in [Tabs -> Seq(ToldNews)]
  BY <1>1, <1>2, <1>3
<1>6. viewers' \in [Tabs -> SUBSET Tabs] /\ url' \in [Tabs -> Issues \cup {Nowhere}]
  BY <1>1, <1>2, <1>4 DEF PagesTyped
<1>7. PagesTyped'
  BY <1>1, <1>2, <1>6, PagesRest
<1> QED BY <1>1, <1>5, <1>7 DEF RealtimeInv, Dialled, SpeechTyped, RoomsTyped, NewsTyped

LEMMA OpenKeeps ==
  ASSUME RealtimeInv, NEW t \in Tabs, Open(t)
  PROVE  RealtimeInv'
<1>1. /\ sock' = [sock EXCEPT ![t] = "open"]
      /\ spoken' = IF Shown(t) = Nowhere THEN spoken ELSE [spoken EXCEPT ![Live(t)] = <<Join(Shown(t))>>]
      /\ UNCHANGED <<url, listed, fetched, viewers, answers, version, told, conn, news, rooms, turns>>
  BY DEF Open, pageVars, askVars, issueVars
<1>2. Shown(t) \in Issues \cup {Nowhere}
  BY ShownTyped DEF RealtimeInv, PagesTyped, Shown
<1>3. SpeechTyped'
  <2>1. CASE Shown(t) = Nowhere
    BY <1>1, <2>1 DEF RealtimeInv, SpeechTyped
  <2>2. CASE Shown(t) # Nowhere
    <3>1. <<Join(Shown(t))>> \in Seq(SpokenWords)
      BY <1>2, <2>2 DEF SpokenWords, Join
    <3> QED BY <1>1, <2>2, <3>1, SpeechAdded DEF RealtimeInv
  <2> QED BY <2>1, <2>2
<1>4. Dialled'
  BY <1>1 DEF RealtimeInv, Dialled
<1>5. PagesTyped'
  BY <1>1, PagesRest DEF RealtimeInv, PagesTyped
<1> QED BY <1>1, <1>3, <1>4, <1>5 DEF RealtimeInv, RoomsTyped, NewsTyped

LEMMA BreakKeeps ==
  ASSUME RealtimeInv, NEW t \in Tabs, Break(t)
  PROVE  RealtimeInv'
<1>1. /\ sock' = [sock EXCEPT ![t] = "opening"] /\ turns < MaxTurns /\ turns' = turns + 1
      /\ conn' = [conn EXCEPT ![t] = @ + 1] /\ news' = [news EXCEPT ![t] = <<>>]
      /\ UNCHANGED <<url, listed, fetched, viewers, answers, version, told, spoken, rooms>>
  BY DEF Break, Turn, pageVars, askVars, issueVars
<1>2. /\ turns \in Nat /\ turns + 1 \in 0..MaxTurns /\ conn \in [Tabs -> 0..MaxTurns]
      /\ \A u \in Tabs : conn[u] \in Nat /\ conn[u] <= turns
  BY <1>1, RealtimeAssumption DEF RealtimeInv, Dialled
<1>3. conn' \in [Tabs -> 0..MaxTurns]
      /\ \A u \in Tabs : conn'[u] <= turns + 1 /\ conn[u] <= conn'[u] /\ conn'[u] \in Nat
  BY <1>1, <1>2, RealtimeAssumption
<1>4. Dialled'
  BY <1>1, <1>2, <1>3 DEF RealtimeInv, Dialled
<1>5. NewsTyped'
  BY <1>1, EmptySeq DEF RealtimeInv, NewsTyped
<1>6. \A c \in Conns : c[1] \in Tabs /\ c[2] \in Nat
  BY DEF Conns
<1>7. SpeechTyped'
  <2>1. ASSUME NEW c \in Conns, spoken[c] # <<>> PROVE c[2] <= conn'[c[1]]
    BY <1>2, <1>3, <1>6, <2>1 DEF RealtimeInv, SpeechTyped
  <2> QED BY <1>1, <2>1 DEF RealtimeInv, SpeechTyped
<1>8. RoomsTyped'
  <2>1. ASSUME NEW r \in rooms PROVE r[1][2] <= conn'[r[1][1]]
    <3>1. r[1] \in Conns
      BY DEF RealtimeInv, RoomsTyped
    <3> QED BY <1>2, <1>3, <1>6, <3>1 DEF RealtimeInv, RoomsTyped
  <2> QED BY <1>1, <2>1 DEF RealtimeInv, RoomsTyped
<1>9. PagesTyped'
  BY <1>1, PagesRest DEF RealtimeInv, PagesTyped
<1> QED BY <1>4, <1>5, <1>7, <1>8, <1>9 DEF RealtimeInv

\* The messages of a finite set, each once, in some order.
LEMMA MessagesListed ==
  ASSUME NEW S, IsFiniteSet(S), NEW T, S \subseteq T
  PROVE  SetToSeq(S) \in Seq(T)
<1>1. Cardinality(S) \in Nat /\ ExistsBijection(1..Cardinality(S), S)
  BY FS_CardinalityType
<1>2. PICK f \in [1..Cardinality(S) -> S] : \A i, j \in 1..Cardinality(S) : f[i] = f[j] => i = j
  BY <1>1 DEF ExistsBijection, Bijection, Injection, IsInjective
<1>3. IsInjective(f)
  BY <1>2 DEF IsInjective
<1>4. SetToSeq(S) \in [1..Cardinality(S) -> S]
  BY <1>3 DEF SetToSeq
<1> QED BY <1>1, <1>4

LEMMA TellKeeps ==
  ASSUME NewsTyped, NEW R, NEW M, IsFiniteSet(M), M \subseteq ToldNews, Tell(R, M)
  PROVE  NewsTyped'
<1> DEFINE For(t) == {m \in M : <<Live(t), m.issue>> \in R}
<1>1. news \in [Tabs -> Seq(ToldNews)]
      /\ news' = [t \in Tabs |-> IF sock[t] # "open" THEN news[t] ELSE news[t] \o SetToSeq(For(t))]
  BY DEF Tell, NewsTyped
<1>2. ASSUME NEW t \in Tabs PROVE news[t] \o SetToSeq(For(t)) \in Seq(ToldNews)
  <2>1. For(t) \in SUBSET M
    OBVIOUS
  <2>2. IsFiniteSet(For(t)) /\ For(t) \subseteq ToldNews
    BY <2>1, FS_Subset
  <2>3. SetToSeq(For(t)) \in Seq(ToldNews)
    BY <2>2, MessagesListed
  <2> QED BY <1>1, <2>3, ConcatProperties
<1> HIDE DEF For
<1> QED BY <1>1, <1>2 DEF NewsTyped

LEMMA HearFromKeeps ==
  ASSUME RealtimeInv, NEW c \in Conns, HearFrom(c)
  PROVE  RealtimeInv'
<1> DEFINE m == Head(spoken[c])
           R == IF m.type = "join" THEN rooms \cup {<<c, m.issue>>} ELSE rooms \ {<<c, m.issue>>}
<1>1. /\ spoken[c] # <<>> /\ spoken' = [spoken EXCEPT ![c] = Tail(@)] /\ rooms' = R
      /\ UNCHANGED news \/ Tell(R, {Presence(m.issue, R)})
      /\ UNCHANGED <<url, listed, fetched, viewers, answers, version, told, sock, conn, turns>>
  BY DEF HearFrom, pageVars, askVars, issueVars
<1>2. spoken[c] \in Seq(SpokenWords) /\ spoken \in [Conns -> Seq(SpokenWords)] /\ c[2] <= conn[c[1]]
  BY <1>1 DEF RealtimeInv, SpeechTyped
<1>3. m \in SpokenWords /\ Tail(spoken[c]) \in Seq(SpokenWords)
  BY <1>1, <1>2
<1>4. m.issue \in Issues
  BY <1>3 DEF SpokenWords
<1>5. SpeechTyped'
  <2>1. spoken' \in [Conns -> Seq(SpokenWords)]
    BY <1>1, <1>2, <1>3
  <2>2. ASSUME NEW d \in Conns, spoken'[d] # <<>> PROVE d[2] <= conn[d[1]]
    BY <1>1, <1>2, <2>2 DEF RealtimeInv, SpeechTyped
  <2> QED BY <1>1, <2>1, <2>2 DEF SpeechTyped
<1> HIDE DEF m
<1>6. RoomsTyped'
  <2>1. R \subseteq rooms \cup {<<c, m.issue>>} /\ <<c, m.issue>> \in Conns \X Issues
    BY <1>4
  <2>2. IsFiniteSet(rooms \cup {<<c, m.issue>>})
    BY FS_AddElement DEF RealtimeInv, RoomsTyped
  <2>3. IsFiniteSet(R)
    BY <2>1, <2>2, FS_Subset
  <2>4. ASSUME NEW r \in R PROVE r[1][2] <= conn[r[1][1]]
    BY <1>2, <2>1 DEF RealtimeInv, RoomsTyped
  <2> HIDE DEF R
  <2> QED BY <1>1, <2>1, <2>3, <2>4 DEF RealtimeInv, RoomsTyped
<1>7. NewsTyped'
  <2>1. Presence(m.issue, R) \in ToldNews
    BY <1>4 DEF Presence, ToldNews
  <2>2. IsFiniteSet({Presence(m.issue, R)})
    BY FS_Singleton
  <2> HIDE DEF R
  <2>3. CASE Tell(R, {Presence(m.issue, R)})
    BY <2>1, <2>2, <2>3, TellKeeps DEF RealtimeInv
  <2>4. CASE UNCHANGED news
    BY <2>4 DEF RealtimeInv, NewsTyped
  <2> QED BY <1>1, <2>3, <2>4
<1>8. PagesTyped' /\ Dialled'
  BY <1>1, PagesRest DEF RealtimeInv, PagesTyped, Dialled
<1> QED BY <1>5, <1>6, <1>7, <1>8 DEF RealtimeInv

LEMMA HangUpKeeps ==
  ASSUME RealtimeInv, NEW c \in Conns, HangUp(c)
  PROVE  RealtimeInv'
<1> DEFINE R == {r \in rooms : r[1] # c}
           f == [r \in rooms \ R |-> Presence(r[2], R)]
           M == {Presence(r[2], R) : r \in rooms \ R}
<1>1. /\ spoken' = [spoken EXCEPT ![c] = <<>>] /\ rooms' = R /\ Tell(R, M)
      /\ UNCHANGED <<url, listed, fetched, viewers, answers, version, told, sock, conn, turns>>
  BY DEF HangUp, pageVars, askVars, issueVars
<1>2. rooms \subseteq Conns \X Issues /\ IsFiniteSet(rooms)
  BY DEF RealtimeInv, RoomsTyped
<1>3. SpeechTyped'
  <2>1. spoken' \in [Conns -> Seq(SpokenWords)]
    BY <1>1, EmptySeq DEF RealtimeInv, SpeechTyped
  <2>2. ASSUME NEW d \in Conns, spoken'[d] # <<>> PROVE d[2] <= conn[d[1]]
    BY <1>1, <2>2 DEF RealtimeInv, SpeechTyped
  <2> QED BY <1>1, <2>1, <2>2 DEF SpeechTyped
<1>4. R \in SUBSET rooms /\ rooms \ R \in SUBSET rooms
  OBVIOUS
<1>5. IsFiniteSet(R) /\ IsFiniteSet(rooms \ R)
  BY <1>2, <1>4, FS_Subset
<1>6. RoomsTyped'
  BY <1>1, <1>2, <1>4, <1>5 DEF RealtimeInv, RoomsTyped
<1>7. M \subseteq ToldNews
  <2>1. ASSUME NEW r \in rooms \ R PROVE Presence(r[2], R) \in ToldNews
    <3>1. r[2] \in Issues
      BY <1>2
    <3> QED BY <3>1 DEF Presence, ToldNews
  <2> HIDE DEF R
  <2> QED BY <2>1
<1>8. IsFiniteSet(M)
  <2>1. f \in Surjection(rooms \ R, M)
    <3> HIDE DEF R
    <3>1. f \in [rooms \ R -> M]
      OBVIOUS
    <3>2. \A x \in M : \E r \in rooms \ R : f[r] = x
      OBVIOUS
    <3> QED BY <3>1, <3>2, Zenon DEF Surjection
  <2> HIDE DEF f, M, R
  <2> QED BY <1>5, <2>1, FS_Surjection
<1>9. NewsTyped'
  <2> HIDE DEF M, R
  <2> QED BY <1>1, <1>7, <1>8, TellKeeps DEF RealtimeInv
<1>10. PagesTyped' /\ Dialled'
  BY <1>1, PagesRest DEF RealtimeInv, PagesTyped, Dialled
<1> QED BY <1>3, <1>6, <1>9, <1>10 DEF RealtimeInv

LEMMA WriteKeeps ==
  ASSUME RealtimeInv, NEW i \in Issues, Write(i) \/ WriteSilently(i)
  PROVE  RealtimeInv'
<1>1. /\ turns < MaxTurns /\ turns' = turns + 1 /\ version' = [version EXCEPT ![i] = @ + 1] /\ told' = told
      /\ UNCHANGED <<url, listed, fetched, viewers, answers, sock, conn, spoken, news, rooms>>
  BY DEF Write, WriteSilently, Turn, pageVars, askVars, linkVars
<1>2. PagesTyped
  BY DEF RealtimeInv
<1>3. version' \in [Issues -> Nat] /\ \A j \in Issues : version[j] \in Nat /\ version[j] <= version'[j]
  BY <1>1, <1>2 DEF PagesTyped
<1>4. ASSUME NEW a \in Copies, NoNewer(a) PROVE NoNewer(a)'
  <2>1. a.version \in Nat /\ a.issue \in Issues \cup {Nowhere}
    BY DEF Copies
  <2> QED BY <1>3, <1>4, <2>1 DEF NoNewer
<1>5. PagesTyped'
  <2>1. ASSUME NEW u \in Tabs PROVE NoNewer(fetched[u])' /\ \A a \in answers'[u] : NoNewer(a)'
    <3>1. fetched[u] \in Copies /\ answers[u] \subseteq Copies /\ fetched' = fetched /\ answers' = answers
      BY <1>1, <1>2 DEF PagesTyped
    <3>2. NoNewer(fetched[u]) /\ \A a \in answers[u] : NoNewer(a)
      BY <1>2 DEF PagesTyped
    <3>3. \A a \in answers[u] : NoNewer(a)'
      BY <1>4, <3>1, <3>2
    <3>4. NoNewer(fetched[u])'
      BY <1>3, <3>1, <3>2 DEF NoNewer, Copies
    <3> QED BY <3>1, <3>3, <3>4
  <2> QED BY <1>1, <1>2, <1>3, <2>1 DEF PagesTyped
<1>6. Dialled'
  <2>1. turns \in Nat /\ turns + 1 \in 0..MaxTurns /\ \A u \in Tabs : conn[u] \in Nat /\ conn[u] <= turns
    BY <1>1, RealtimeAssumption DEF RealtimeInv, Dialled
  <2> QED BY <1>1, <2>1 DEF RealtimeInv, Dialled
<1> QED BY <1>1, <1>5, <1>6 DEF RealtimeInv, SpeechTyped, RoomsTyped, NewsTyped

LEMMA PublishKeeps ==
  ASSUME RealtimeInv, NEW i \in Issues, Publish(i)
  PROVE  RealtimeInv'
<1>1. /\ Tell(rooms, {Update(i)}) /\ told' = [told EXCEPT ![i] = version[i]]
      /\ UNCHANGED <<url, listed, fetched, viewers, answers, version, sock, conn, spoken, rooms, turns>>
  BY DEF Publish, pageVars, askVars
<1>2. Update(i) \in ToldNews /\ IsFiniteSet({Update(i)})
  BY FS_Singleton DEF Update, ToldNews
<1>3. NewsTyped'
  BY <1>1, <1>2, TellKeeps DEF RealtimeInv
<1>4. PagesTyped' /\ Dialled'
  BY <1>1 DEF RealtimeInv, PagesTyped, NoNewer, Dialled
<1> QED BY <1>1, <1>3, <1>4 DEF RealtimeInv, SpeechTyped, RoomsTyped

LEMMA FailKeeps ==
  ASSUME RealtimeInv, NEW i \in Issues, Fail(i)
  PROVE  RealtimeInv'
<1>1. UNCHANGED <<url, listed, fetched, viewers, answers, version, told, sock, conn, spoken, news, rooms, turns>>
  BY DEF Fail, pageVars, askVars, linkVars
<1> QED BY <1>1, LinksRest, PagesRest DEF RealtimeInv, PagesTyped

LEMMA RealtimeStep ==
  ASSUME RealtimeInv, [RealtimeNext]_realtimeVars
  PROVE  RealtimeInv'
<1>1. ASSUME NEW t \in Tabs, Serve(t) \/ Answer(t) \/ Receive(t) \/ Open(t) \/ Visit(t) \/ Break(t)
      PROVE  RealtimeInv'
  BY <1>1, ServeKeeps, AnswerKeeps, ReceiveKeeps, OpenKeeps, VisitKeeps, BreakKeeps
<1>2. ASSUME NEW c \in Conns, HearFrom(c) \/ HangUp(c) PROVE RealtimeInv'
  BY <1>2, HearFromKeeps, HangUpKeeps
<1>3. ASSUME NEW i \in Issues, Publish(i) \/ Write(i) \/ WriteSilently(i) \/ Fail(i)
      PROVE  RealtimeInv'
  BY <1>3, PublishKeeps, WriteKeeps, FailKeeps
<1>4. CASE UNCHANGED realtimeVars
  <2>1. UNCHANGED <<url, listed, fetched, viewers, answers, version, told, sock, conn, spoken, news, rooms, turns>>
    BY <1>4 DEF realtimeVars, pageVars, askVars, linkVars, issueVars
  <2> QED BY <2>1, LinksRest, PagesRest DEF RealtimeInv, PagesTyped
<1> QED BY <1>1, <1>2, <1>3, <1>4 DEF RealtimeNext, Carry

LEMMA RealtimeStart ==
  ASSUME RealtimeInit
  PROVE  RealtimeInv
<1>1. Nothing \in Copies /\ Nothing.issue = Nowhere /\ 0 \in 0..MaxTurns
  BY RealtimeAssumption DEF Nothing, Copies
<1>2. PagesTyped
  BY <1>1 DEF RealtimeInit, PagesTyped, NoNewer
<1>3. Dialled
  BY <1>1 DEF RealtimeInit, Dialled
<1>4. SpeechTyped /\ NewsTyped
  BY EmptySeq DEF RealtimeInit, SpeechTyped, NewsTyped
<1>5. RoomsTyped
  BY FS_EmptySet DEF RealtimeInit, RoomsTyped
<1> QED BY <1>2, <1>3, <1>4, <1>5 DEF RealtimeInv

\* Pages, sockets, rooms and what is on its way keep their types, and no page is
\* newer than its issue.
THEOREM RealtimeInvariant == RealtimeSpec => []RealtimeInv
<1> QED BY RealtimeStart, RealtimeStep, PTL DEF RealtimeSpec

LEMMA RealtimeTyped ==
  ASSUME RealtimeInv
  PROVE  RealtimeTypeOK
BY DEF RealtimeInv, PagesTyped, Dialled, RoomsTyped, NoNewer, RealtimeTypeOK

\* Only connections a tab has had are in rooms, and what a page has fetched is not
\* newer than the issue (realtime.js, realtimeClient.js, IssueDetailPage.jsx).
THEOREM RealtimeTypes == RealtimeSpec => []RealtimeTypeOK
<1> QED BY RealtimeInvariant, RealtimeTyped, PTL

-----------------------------------------------------------------------------
(***************************************************************************)
(* What goes on by itself, put together (MCServices): a step of the whole  *)
(* is a step of one part, and the others rest.                             *)
(***************************************************************************)
AllKept == HookInv /\ DigestInv /\ RuleInv /\ ThrottleInv /\ EditorInv /\ RealtimeInv

LEMMA ServicesStart ==
  ASSUME Init
  PROVE  AllKept
BY HookStart, DigestStart, RuleStart, ThrottleStart, EditorStart, RealtimeStart DEF Init, AllKept

LEMMA ServicesStep ==
  ASSUME AllKept, [Next]_serviceVars
  PROVE  AllKept'
<1>1. /\ [HookNext]_hookVars /\ [DigestNext]_digestVars /\ [RuleNext]_ruleVars
      /\ [ThrottleNext]_throttleVars /\ [EditorNext]_editorVars /\ [RealtimeNext]_realtimeVars
  <2>1. CASE UNCHANGED serviceVars
    BY <2>1 DEF serviceVars
  <2>2. CASE Next
    BY <2>2, Zenon DEF Next
  <2> QED BY <2>1, <2>2
<1>2. HookInv' /\ DigestInv' /\ RuleInv'
  BY <1>1, HookStep, DigestStep, RuleStep DEF AllKept
<1>3. ThrottleInv' /\ EditorInv' /\ RealtimeInv'
  BY <1>1, ThrottleStep, EditorStep, RealtimeStep DEF AllKept
<1> QED BY <1>2, <1>3 DEF AllKept

\* Each part keeps in the composition what it keeps alone.
THEOREM ServicesInvariant == Spec => []AllKept
<1> QED BY ServicesStart, ServicesStep, PTL DEF Spec

\* Every part of what goes on by itself keeps its types, at rest and at work.
THEOREM ServicesTypes == Spec => []ServicesTypeOK
<1>1. AllKept => ServicesTypeOK
  <2> SUFFICES ASSUME AllKept PROVE ServicesTypeOK
    OBVIOUS
  <2>1. HookTypeOK /\ ThrottleTypeOK /\ EditorTypeOK
    BY DEF AllKept, HookInv, ThrottleInv, EditorInv
  <2>2. RuleTypeOK
    BY DEF AllKept, RuleInv, RuleRowsTyped, RunSound, RunRecords, RuleTypeOK
  <2>3. DigestTypeOK /\ RealtimeTypeOK
    BY DigestTyped, RealtimeTyped DEF AllKept
  <2> QED BY <2>1, <2>2, <2>3 DEF ServicesTypeOK
<1> QED BY <1>1, ServicesInvariant, PTL
=============================================================================
