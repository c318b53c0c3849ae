------------------------------ MODULE Digests -------------------------------
(***************************************************************************)
(* Notifications and the mail about them: the immediate mail of a user who *)
(* takes no digest, and the digests the scheduler sends                    *)
(* (services/notificationDigest.js, services/scheduler.js,                 *)
(* routes/notifications.js, utils/mailer.js).                              *)
(*                                                                         *)
(* Time is kept as ages: days since a watermark, which stop counting at    *)
(* the longest cadence.  A timestamp that notifications are compared with  *)
(* is the set of notifications created no later than it.                   *)
(***************************************************************************)
EXTENDS Integers, FiniteSets

CONSTANTS
  Users,        \* notification_preferences.user_email
  Modes,        \* the values of email_digest that are used
  Notes,        \* notifications.id, from 1 on
  Ticks,        \* digest runs that may be in progress at once
  Rejects,      \* whether a mail may be rejected
  MaxUpsets     \* restarts of the process and changes of a preference

ASSUME DigestsAssumption == Notes \subseteq Nat /\ Modes \subseteq {"off", "daily", "weekly"} /\ Rejects \in BOOLEAN
                             /\ MaxUpsets \in Nat

VARIABLES
  mode,         \* email_digest
  age,          \* days since last_digest_sent_at
  mark,         \* the notifications created no later than last_digest_sent_at
  note,         \* the notifications: recipient and state
  tick,         \* the digest runs
  handed,       \* history: digests that carried a notification, up to 2
  mailed,       \* history: notifications that a mail has reached
  smooth,       \* history: runs never overlapped and none was cut off
  upsets        \* restarts and changes of preference so far

digestVars == <<mode, age, mark, note, tick, handed, mailed, smooth, upsets>>

Cadence == [off |-> 3, daily |-> 1, weekly |-> 2]     \* cadenceMs
Longest == IF "weekly" \in Modes THEN 2 ELSE 1
Older(a) == IF a < Longest THEN a + 1 ELSE a
Resting == [pc |-> "rest", age |-> 0, upto |-> {}, due |-> {}, user |-> "none", batch |-> {}]
Born == {n \in Notes : note[n].state # "unborn"}

DigestInit ==
  /\ mode \in [Users -> Modes]
  /\ age = [u \in Users |-> Longest] /\ mark = [u \in Users |-> {}]
  /\ note = [n \in Notes |-> [to |-> "none", state |-> "unborn"]]
  /\ tick = [t \in Ticks |-> Resting]
  /\ handed = [n \in Notes |-> 0] /\ mailed = {} /\ smooth = TRUE
  /\ upsets = 0

\* createNotification; maybeSendNotificationEmail mails it at once only when
\* the digest is off, and only to a user who has turned mail on.
Notify == \E n \in Notes, u \in Users, arrives \in {TRUE, ~Rejects} :
  /\ note[n].state = "unborn" /\ \A k \in Notes : k < n => note[k].state # "unborn"
  /\ note' = [note EXCEPT ![n] = [to |-> u, state |-> "unread"]]
  /\ mailed' = IF mode[u] = "off" /\ arrives THEN mailed \cup {n} ELSE mailed
  /\ UNCHANGED <<mode, age, mark, tick, handed, smooth, upsets>>

\* PATCH /:id/read and DELETE /:id, alike to a digest (PATCH /read-all does as
\* much for each notification of the user).
ReadNote == \E n \in Notes :
  /\ note[n].state = "unread"
  /\ note' = [note EXCEPT ![n].state = "read"]
  /\ UNCHANGED <<mode, age, mark, tick, handed, mailed, smooth, upsets>>

\* PUT /preferences: the watermark stays as it is.
Prefer == \E u \in Users, m \in Modes :
  /\ mode[u] # m /\ upsets < MaxUpsets
  /\ mode' = [mode EXCEPT ![u] = m]
  /\ upsets' = upsets + 1
  /\ UNCHANGED <<age, mark, note, tick, handed, mailed, smooth>>

\* A day passes.
Day ==
  /\ age' = [u \in Users |-> Older(age[u])]
  /\ tick' = [t \in Ticks |-> IF tick[t].pc = "rest" THEN tick[t] ELSE [tick[t] EXCEPT !.age = Older(@)]]
  /\ UNCHANGED <<mode, mark, note, handed, mailed, smooth, upsets>>

\* The interval fires whether or not the last run has ended: `now` is taken and
\* the preferences are read, once for the run (isDigestDue, dueDigestPrefs).
\* mutated: only who never got a digest is due
DueFirst(u) == age[u] >= Cadence[mode[u]] /\ mark[u] = {}
Due(u) == age[u] >= Cadence[mode[u]]
Slot == CHOOSE t \in Ticks : tick[t].pc = "rest" \/ \A s \in Ticks : tick[s].pc # "rest"
FireDigest(t) ==
  /\ t = Slot /\ tick[t].pc = "rest" /\ \E u \in Users : Due(u)
  /\ tick' = [tick EXCEPT ![t] = [Resting EXCEPT !.pc = "next", !.upto = Born,
                                    !.due = {[user |-> u, mark |-> mark[u]] : u \in {u \in Users : Due(u)}}]]
  /\ smooth' = (smooth /\ \A s \in Ticks : tick[s].pc = "rest")
  /\ UNCHANGED <<mode, age, mark, note, handed, mailed, upsets>>

\* The unread notifications after the watermark that the run has read, up to its
\* `now`; a user without any is passed over.
Onward(q) == IF q.due = {} THEN Resting ELSE [q EXCEPT !.pc = "next", !.batch = {}]
NextUser(t) == \E d \in tick[t].due :
  LET unread == {n \in tick[t].upto \ d.mark : note[n] = [to |-> d.user, state |-> "unread"]}
      taken == [tick[t] EXCEPT !.due = @ \ {d}] IN
  /\ tick[t].pc = "next"
  /\ tick' = [tick EXCEPT ![t] = IF unread = {} THEN Onward(taken)
                                  ELSE [taken EXCEPT !.user = d.user, !.batch = unread, !.pc = "mail"]]
  /\ UNCHANGED <<mode, age, mark, note, handed, mailed, smooth, upsets>>

\* sendMail reports a failure in its result, which runDigests does not look at.
Mail(t) == \E arrives \in {TRUE, ~Rejects} :
  /\ tick[t].pc = "mail"
  /\ handed' = [n \in Notes |-> IF n \in tick[t].batch /\ handed[n] < 2 THEN handed[n] + 1 ELSE handed[n]]
  /\ mailed' = IF arrives THEN mailed \cup tick[t].batch ELSE mailed
  /\ tick' = [tick EXCEPT ![t].pc = "stamp"]
  /\ UNCHANGED <<mode, age, mark, note, smooth, upsets>>

\* mutated: the watermark is the time of the stamp, not that of the run
StampNow(t) ==
  /\ tick[t].pc = "stamp"
  /\ mark' = [mark EXCEPT ![tick[t].user] = Born]
  /\ age' = [age EXCEPT ![tick[t].user] = tick[t].age]
  /\ tick' = [tick EXCEPT ![t] = Onward(@)]
  /\ UNCHANGED <<mode, note, handed, mailed, smooth, upsets>>
Stamp(t) ==
  /\ tick[t].pc = "stamp"
  /\ mark' = [mark EXCEPT ![tick[t].user] = tick[t].upto]
  /\ age' = [age EXCEPT ![tick[t].user] = tick[t].age]
  /\ tick' = [tick EXCEPT ![t] = Onward(@)]
  /\ UNCHANGED <<mode, note, handed, mailed, smooth, upsets>>

DigestCrash ==
  /\ upsets < MaxUpsets /\ \E t \in Ticks : tick[t].pc # "rest"
  /\ upsets' = upsets + 1 /\ smooth' = FALSE
  /\ tick' = [t \in Ticks |-> Resting]
  /\ UNCHANGED <<mode, age, mark, note, handed, mailed>>

RunDigest(t) == NextUser(t) \/ Mail(t) \/ Stamp(t)
DigestNext ==
  \/ Notify \/ ReadNote \/ Prefer \/ Day \/ DigestCrash
  \/ \E t \in Ticks : FireDigest(t) \/ RunDigest(t)

\* Days pass, the interval fires, and a statement or a mail has an end.
DigestFair ==
  /\ WF_digestVars(Day) /\ WF_digestVars(\E t \in Ticks : FireDigest(t))
  /\ \A t \in Ticks : WF_digestVars(RunDigest(t))

DigestSpec == DigestInit /\ [][DigestNext]_digestVars /\ DigestFair

-----------------------------------------------------------------------------
\* The type invariant; no mail is about nothing.
DigestTypeOK ==
  /\ mode \in [Users -> Modes]
  /\ age \in [Users -> 0..2] /\ mark \in [Users -> SUBSET Notes]
  /\ note \in [Notes -> [to : Users \cup {"none"}, state : {"unborn", "unread", "read"}]]
  /\ \A t \in Ticks : /\ tick[t].pc \in {"rest", "next", "mail", "stamp"} /\ tick[t].age \in 0..2
                      /\ tick[t].upto \subseteq Notes /\ tick[t].batch \subseteq Notes
                      /\ tick[t].due \subseteq [user : Users, mark : SUBSET Notes]
                      /\ tick[t].pc \in {"mail", "stamp"} => tick[t].batch # {}
  /\ handed \in [Notes -> 0..2] /\ mailed \subseteq Notes /\ smooth \in BOOLEAN
  /\ upsets \in 0..MaxUpsets

\* "A subsequent run never resends already-digested notifications"
\* (notificationDigest.js:53-54): true while runs do not overlap and none is cut
\* off between its mail and its watermark.
DigestedOnce == smooth => \A n \in Notes : handed[n] <= 1

\* The watermark never passes a notification that no digest carried, whatever
\* overlaps or is cut off: what is still unread behind it has been digested.
NonePassedOver ==
  \A u \in Users : \A n \in mark[u] :
    note[n] = [to |-> u, state |-> "unread"] => handed[n] > 0

\* The watermark is neither behind nor ahead of what was digested.
WatermarkSound == DigestedOnce /\ NonePassedOver

\* Whoever takes digests is sent the notifications that stay unread, across
\* overlapping runs and restarts.
Digested ==
  \A n \in Notes, u \in Users :
    note[n] = [to |-> u, state |-> "unread"] /\ mode[u] # "off"
      ~> handed[n] > 0 \/ note[n].state # "unread" \/ mode[u] = "off"

\* Nobody's notification is digested twice, passed over, or left behind for good.
DigestsSound == []WatermarkSound /\ Digested

\* mailer.js:82-84 bids callers look at the flag that tells a rejected mail
\* ("callers MUST inspect the returned ok flag"): then the watermark would
\* only pass unread notifications that a mail has reached.
WatermarkMailed ==
  \A u \in Users : \A n \in mark[u] :
    note[n] = [to |-> u, state |-> "unread"] => n \in mailed
=============================================================================
