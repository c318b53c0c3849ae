------------------------------ MODULE Realtime ------------------------------
(***************************************************************************)
(* Live updates of the issue page: the hub of rooms on the server          *)
(* (services/realtime.js), the socket each tab keeps to it                 *)
(* (src/services/realtimeClient.js), and the page that joins the room of   *)
(* the issue it shows and fetches the issue again on an update             *)
(* (IssueDetailPage.jsx).                                                  *)
(*                                                                         *)
(* Each tab has a user of its own.  A connection may break at any time:    *)
(* the server finds out later than the tab.  Fetches are answered in any   *)
(* order; what a fetch does that fails is left out, and so are comments    *)
(* and the refusal of a token.                                             *)
(***************************************************************************)
EXTENDS Integers, Sequences, SequencesExt, FiniteSets

CONSTANTS
  Tabs, Issues,
  Nowhere,       \* a tab that shows no issue
  MaxTurns       \* times a tab goes to another page, an issue is changed or a connection breaks

ASSUME RealtimeAssumption == Nowhere \notin Issues /\ MaxTurns \in Nat

VARIABLES
  url,        \* the issue in the address of a tab
  listed,     \* the issues the tabs have in their stores: those made later they have not
  fetched,    \* fetchedIssue: an issue, and how new it is
  viewers,    \* who is said to view it
  asks,       \* fetches on their way to the server
  answers,    \* answers on their way back
  sock,       \* "none", "opening", the wait for the timer of a retry included, or "open"
  conn,       \* the number of the connection a tab has, or will have
  spoken,       \* what each connection has on its way to the server
  news,       \* what is on its way to a tab
  rooms,      \* hub.rooms: <<connection, issue>>
  version,    \* how new an issue is
  due,        \* changes written and not published yet
  told,       \* history variable: how new an issue was when last published
  turns,      \* how often this has happened so far
  missed,     \* history variable: published while the tab was out of the room, or lost with a connection
  overtaken   \* history variable: of the fetches out together an older answer came after a newer one

pageVars == <<url, listed, fetched, viewers>>
askVars == <<asks, answers, overtaken>>
linkVars == <<sock, conn, spoken, news, rooms>>
issueVars == <<version, due, told>>
realtimeVars == <<pageVars, askVars, linkVars, issueVars, turns, missed>>

Nothing == [issue |-> Nowhere, version |-> 0]
Conns == Tabs \X (0..MaxTurns)
Join(i) == [type |-> "join", issue |-> i]
Leave(i) == [type |-> "leave", issue |-> i]
Update(i) == [type |-> "update", issue |-> i, users |-> {}]
Presence(i, R) == [type |-> "presence", issue |-> i, users |-> {t \in Tabs : \E c \in Conns : c[1] = t /\ <<c, i>> \in R}]
Live(t) == <<t, conn[t]>>
Hears(t, i) == sock[t] = "open" /\ <<Live(t), i>> \in rooms

RealtimeInit ==
  /\ url = [t \in Tabs |-> Nowhere] /\ listed \in SUBSET Issues
  /\ fetched = [t \in Tabs |-> Nothing] /\ viewers = [t \in Tabs |-> {}]
  /\ asks = [t \in Tabs |-> [i \in Issues |-> 0]] /\ answers = [t \in Tabs |-> {}]
  /\ sock = [t \in Tabs |-> "none"] /\ conn = [t \in Tabs |-> 0]
  /\ spoken = [c \in Conns |-> <<>>] /\ news = [t \in Tabs |-> <<>>] /\ rooms = {}
  /\ version = [i \in Issues |-> 0] /\ due = [i \in Issues |-> 0]
  /\ told = [i \in Issues |-> 0]
  /\ turns = 0
  /\ missed = [t \in Tabs |-> FALSE] /\ overtaken = [t \in Tabs |-> FALSE]

\* The store's copy decides which issue the page shows, if there is one: a page
\* without one goes on with what was fetched last.
ShownFrom(address, last) == IF address \in listed THEN address ELSE last.issue
Shown(t) == ShownFrom(url[t], fetched[t])

\* The effect of a page whose issue is another one than before: it leaves the
\* room of the old one and joins that of the new one, as far as it has a
\* connection; the first to join opens one.
Words(t, old, new) ==
  IF old = new \/ sock[t] # "open" THEN <<>>
  ELSE (IF old = Nowhere THEN <<>> ELSE <<Leave(old)>>) \o (IF new = Nowhere THEN <<>> ELSE <<Join(new)>>)
TurnTo(t) == LET next == ShownFrom(url'[t], fetched'[t]) IN
  /\ spoken' = [spoken EXCEPT ![Live(t)] = @ \o Words(t, Shown(t), next)]
  /\ sock' = [sock EXCEPT ![t] = IF @ = "none" /\ next # Nowhere THEN "opening" ELSE @]
  /\ UNCHANGED <<conn, news, rooms>>

Asking(t) == answers[t] # {} \/ \E i \in Issues : asks[t][i] > 0
Ask(t, i) ==
  /\ asks' = [asks EXCEPT ![t][i] = @ + 1]
  /\ overtaken' = [overtaken EXCEPT ![t] = @ /\ (Asking(t) \/ i # url'[t])]
  /\ UNCHANGED answers

Turn == turns < MaxTurns /\ turns' = turns + 1

\* Another address.  A page that is left forgets everything, the one that goes
\* on to another issue nothing: it fetches, and nobody calls off the old fetch.
Visit(t) == \E i \in (Issues \cup {Nowhere}) \ {url[t]} :
  /\ Turn
  /\ url' = [url EXCEPT ![t] = i]
  /\ missed' = [missed EXCEPT ![t] = FALSE]
  /\ IF i = Nowhere
     THEN /\ fetched' = [fetched EXCEPT ![t] = Nothing] /\ viewers' = [viewers EXCEPT ![t] = {}]
          /\ asks' = [asks EXCEPT ![t] = [j \in Issues |-> 0]] /\ answers' = [answers EXCEPT ![t] = {}]
          /\ overtaken' = [overtaken EXCEPT ![t] = FALSE]
     ELSE Ask(t, i) /\ UNCHANGED <<fetched, viewers>>
  /\ TurnTo(t)
  /\ UNCHANGED <<listed, issueVars>>

\* GET /issues/:id, and its answer.
Serve(t) == \E i \in Issues :
  /\ asks[t][i] > 0
  /\ asks' = [asks EXCEPT ![t][i] = @ - 1]
  /\ answers' = [answers EXCEPT ![t] = @ \cup {[issue |-> i, version |-> version[i]]}]
  /\ UNCHANGED <<pageVars, linkVars, issueVars, turns, missed, overtaken>>
Answer(t) == \E a \in answers[t] :
  /\ answers' = [answers EXCEPT ![t] = @ \ {a}]
  /\ fetched' = [fetched EXCEPT ![t] = a]
  /\ overtaken' = [overtaken EXCEPT ![t] =
       @ \/ (fetched[t].issue = url[t] /\ (a.issue # url[t] \/ a.version < fetched[t].version))]
  /\ UNCHANGED url /\ TurnTo(t)
  /\ UNCHANGED <<listed, viewers, asks, issueVars, turns, missed>>

\* The listener of the page, for the room of the issue it shows.
Receive(t) == LET m == Head(news[t]) IN
  /\ news[t] # <<>> /\ news' = [news EXCEPT ![t] = Tail(@)]
  /\ UNCHANGED url
  /\ viewers' = IF m.type = "presence" /\ m.issue = Shown(t) THEN [viewers EXCEPT ![t] = m.users] ELSE viewers
  /\ IF m.type = "update" /\ m.issue = Shown(t) THEN Ask(t, m.issue) ELSE UNCHANGED askVars
  /\ UNCHANGED <<listed, fetched, sock, conn, spoken, rooms, issueVars, turns, missed>>

\* mutated: a connection that is back joins no room
OpenOnly(t) ==
  /\ sock[t] = "opening" /\ sock' = [sock EXCEPT ![t] = "open"]
  /\ UNCHANGED <<pageVars, askVars, conn, spoken, news, rooms, issueVars, turns, missed>>
\* onopen: the rooms the client is in are joined, again or at last.
Open(t) ==
  /\ sock[t] = "opening" /\ sock' = [sock EXCEPT ![t] = "open"]
  /\ spoken' = IF Shown(t) = Nowhere THEN spoken ELSE [spoken EXCEPT ![Live(t)] = <<Join(Shown(t))>>]
  /\ UNCHANGED <<pageVars, askVars, conn, news, rooms, issueVars, turns, missed>>
\* onclose, and the timer of the next try: what was on its way to the tab is lost.
Break(t) ==
  /\ sock[t] = "open" /\ sock' = [sock EXCEPT ![t] = "opening"]
  /\ Turn
  /\ conn' = [conn EXCEPT ![t] = @ + 1]
  /\ news' = [news EXCEPT ![t] = <<>>]
  /\ missed' = [missed EXCEPT ![t] = @ \/ \E i \in Issues : Update(i) \in ToSet(news[t]) /\ asks[t][i] = 0]
  /\ UNCHANGED <<pageVars, askVars, spoken, rooms, issueVars>>

\* Who is in one of these rooms, and still there, is spoken its messages.
Tell(R, messages) ==
  news' = [t \in Tabs |-> IF sock[t] # "open" THEN news[t]
                          ELSE news[t] \o SetToSeq({m \in messages : <<Live(t), m.issue>> \in R})]

\* hub.join and hub.leave tell those in the room who is in it.
HearFrom(c) == LET m == Head(spoken[c])
                   R == IF m.type = "join" THEN rooms \cup {<<c, m.issue>>} ELSE rooms \ {<<c, m.issue>>} IN
  /\ spoken[c] # <<>> /\ spoken' = [spoken EXCEPT ![c] = Tail(@)]
  /\ rooms' = R
  /\ IF m.type = "leave" /\ R = rooms THEN UNCHANGED news ELSE Tell(R, {Presence(m.issue, R)})
  /\ UNCHANGED <<pageVars, askVars, sock, conn, issueVars, turns, missed>>
\* The close of a broken connection reaches the server: hub.leaveAll.
HangUp(c) == LET R == {r \in rooms : r[1] # c} IN
  /\ c[2] < conn[c[1]] /\ (spoken[c] # <<>> \/ R # rooms)
  /\ spoken' = [spoken EXCEPT ![c] = <<>>]
  /\ rooms' = R
  /\ Tell(R, {Presence(r[2], R) : r \in rooms \ R})
  /\ UNCHANGED <<pageVars, askVars, sock, conn, issueVars, turns, missed>>

\* PATCH of an issue, of its status, or the bulk route: the issue is written, and
\* published at the end of the request.
Write(i) ==
  /\ Turn
  /\ version' = [version EXCEPT ![i] = @ + 1] /\ due' = [due EXCEPT ![i] = @ + 1]
  /\ UNCHANGED <<pageVars, askVars, linkVars, told, missed>>
Publish(i) ==
  /\ due[i] > 0 /\ due' = [due EXCEPT ![i] = @ - 1]
  /\ Tell(rooms, {Update(i)})
  /\ told' = [told EXCEPT ![i] = version[i]]
  /\ missed' = [t \in Tabs |-> IF url[t] # i \/ asks[t][i] > 0 THEN missed[t] ELSE ~Hears(t, i)]
  /\ UNCHANGED <<pageVars, askVars, sock, conn, spoken, rooms, version, turns>>
\* An error or the end of the process between the two: nothing is published.
Fail(i) ==
  /\ due[i] > 0 /\ due' = [due EXCEPT ![i] = @ - 1]
  /\ UNCHANGED <<pageVars, askVars, linkVars, version, told, turns, missed>>
\* Everybody else who writes issues tells no room: the end of a sprint, rules on a
\* schedule, commits, releases.
WriteSilently(i) ==
  /\ Turn
  /\ version' = [version EXCEPT ![i] = @ + 1]
  /\ UNCHANGED <<pageVars, askVars, linkVars, due, told, missed>>

\* What goes on by itself.
Carry ==
  \/ \E t \in Tabs : Serve(t) \/ Answer(t) \/ Receive(t) \/ Open(t)
  \/ \E c \in Conns : HearFrom(c) \/ HangUp(c)
  \/ \E i \in Issues : Publish(i)
RealtimeNext ==
  \/ Carry
  \/ \E t \in Tabs : Visit(t) \/ Break(t)
  \/ \E i \in Issues : Write(i) \/ WriteSilently(i) \/ Fail(i)

\* Messages arrive, fetches are answered and timers fire; nothing else need happen.
RealtimeFair == WF_realtimeVars(Carry)
RealtimeSpec == RealtimeInit /\ [][RealtimeNext]_realtimeVars /\ RealtimeFair

-----------------------------------------------------------------------------
\* The type invariant; only connections a tab has had are in rooms.
RealtimeTypeOK ==
  /\ url \in [Tabs -> Issues \cup {Nowhere}] /\ listed \subseteq Issues /\ viewers \in [Tabs -> SUBSET Tabs]
  /\ sock \in [Tabs -> {"none", "opening", "open"}] /\ conn \in [Tabs -> 0..MaxTurns]
  /\ rooms \subseteq Conns \X Issues /\ \A r \in rooms : r[1][2] <= conn[r[1][1]]
  /\ \A t \in Tabs : fetched[t].issue # Nowhere => fetched[t].version <= version[fetched[t].issue]
  /\ \A i \in Issues : told[i] <= version[i]

\* "the app keeps working — callbacks simply stop firing until the connection
\* recovers" (realtimeClient.js:5-7): once everybody stays where they are, each
\* tab is in the room of the issue it shows and in no other, nobody who is gone
\* is, and every tab names exactly those who view its issue.
InRoom(t) ==
  /\ \A r \in rooms : r[1][1] = t => r = <<Live(t), Shown(t)>>
  /\ Shown(t) # Nowhere => Hears(t, Shown(t)) /\ viewers[t] = Presence(Shown(t), rooms).users
\* Its page shows all that was written before the issue was last published, unless
\* that was while the tab was out of the room, or was lost with the connection; or
\* an older answer came after a newer one.  What is written and not published stays
\* unseen until the next fetch.
UpToDate(t) == url[t] # Nowhere /\ ~overtaken[t] =>
  fetched[t].issue = url[t] /\ (missed[t] \/ fetched[t].version >= told[url[t]])
Converges == <>[](\A t \in Tabs : InRoom(t) /\ UpToDate(t))
=============================================================================
