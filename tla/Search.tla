------------------------------- MODULE Search -------------------------------
(***************************************************************************)
(* Searching issues: the compiler of server/services/jqlSearch.js, the     *)
(* list handler of server/routes/issues.js that adds the caller's scope    *)
(* and drops what issue security hides, and the second parser, of          *)
(* server/routes/filters.js.                                               *)
(*                                                                         *)
(* A query is typed clause by clause, as groups joined by OR of clauses    *)
(* joined by AND.  SQL is a list of fragments with connectives; a fragment *)
(* takes as many parameters as it has placeholders, from left to right.    *)
(***************************************************************************)
EXTENDS Integers, Sequences, SequencesExt

CONSTANTS
  Null,          \* SQL's NULL
  MaxClauses,    \* clauses of a query
  MaxFiltered    \* clauses of one that comes with a status or a text besides

ASSUME SearchAssumption ==
  /\ MaxClauses \in Nat /\ MaxFiltered \in 0..MaxClauses
  /\ Null \notin {"Open", "Done", "me", "you", 1, 2}

VARIABLES
  query,     \* the JQL typed so far
  status,    \* the status parameter, "" if there is none
  q,         \* the text parameter, "" if there is none
  asker      \* "admin", "member" of project 1, or a "stranger" to every project

searchVars == <<query, status, q, asker>>

\* The issues: every field that a clause below tells apart.
Issues == [status : {"Open", "Done"}, assignee : {Null, "me", "you"}, title : {"login", "logout"},
           past : {{}, {<<"Open", "Done">>}, {<<"Open", "Done">>, <<"Done", "Open">>}},
           project : {Null, 1, 2}, secured : BOOLEAN]
\* resolveFunctions: the names behind membersOf(role), none for a role nobody has.
MembersOf == [Admin |-> <<"you">>, Nobody |-> <<>>]

Scalar(col, op, v) == [kind |-> "CURRENT", col |-> col, op |-> op, fn |-> "none", value |-> v]
Function(col, op, fn, arg) == [kind |-> "CURRENT", col |-> col, op |-> op, fn |-> fn, value |-> arg]
Past(kind, values) == [kind |-> kind, col |-> "status", op |-> "none", fn |-> "none", value |-> values]
\* What either parser takes, and what only the first does.
Common == {Scalar("status", "=", "Open"), Scalar("assignee", "!=", "you"), Scalar("title", "~", "log")}
Clauses == Common \cup {Function("assignee", "=", "currentUser", ""),
                        Function("assignee", "IN", "membersOf", "Admin"),
                        Function("assignee", "!=", "membersOf", "Nobody"),
                        Function("assignee", "NOT_IN", "membersOf", "Admin"),
                        Past("WAS", <<"Done", "Review">>), Past("CHANGED", <<>>)}
\* ILIKE '%log%' and its like
Like == [log |-> {"login", "logout"}, in |-> {"login"}, swallowed |-> {}]

(***************************************************************************)
(* Evaluating SQL.                                                         *)
(***************************************************************************)
Frag(t, col, n) == [t |-> t, col |-> col, n |-> n, body |-> <<>>]
\* Where the parameters of each fragment begin (convertPlaceholders numbers them).
Starts(frags) ==
  LET start[k \in 1..(Len(frags) + 1)] == IF k = 1 THEN 0 ELSE start[k - 1] + frags[k - 1].n IN start
ParamsOf(frags, params, k) == SubSeq(params, Starts(frags)[k] + 1, Starts(frags)[k] + frags[k].n)

\* TRUE only if SQL says TRUE: a comparison with NULL is not.
Holds(f, ps, row) ==
  CASE f.t = "=" -> row[f.col] # Null /\ row[f.col] = ps[1]
    [] f.t = "!=" -> row[f.col] # Null /\ row[f.col] # ps[1]
    [] f.t = "IN" -> row[f.col] # Null /\ \E k \in DOMAIN ps : row[f.col] = ps[k]
    [] f.t = "NOT_IN" -> row[f.col] # Null /\ \A k \in DOMAIN ps : row[f.col] # ps[k]
    [] f.t = "IS_NULL" -> row[f.col] = Null
    [] f.t = "ILIKE" -> \E k \in DOMAIN ps : row[f.col] \in Like[ps[k]]
    [] f.t = "EXISTS" -> ps[1] = f.col /\ row.past # {}
    [] f.t = "WAS" -> LET n == (f.n - 1) \div 2 IN
         ps[1] = f.col /\ \E h \in row.past, k \in 1..n : h[1] = ps[1 + k] \/ h[2] = ps[1 + n + k]
    [] f.t = "1=1" -> TRUE
    [] OTHER -> FALSE

\* AND binds tighter than OR: some run of fragments between two ORs is all TRUE.
SomeRun(conns, n, True(_)) ==
  \E a \in 1..n : /\ a = 1 \/ conns[a - 1] = "OR"
                  /\ \A b \in a..n : (\A c \in a..(b - 1) : conns[c] = "AND") => True(b)
GroupHolds(body, params, row) ==
  LET True(k) == Holds(body.frags[k], ParamsOf(body.frags, params, k), row)
  IN SomeRun(body.conns, Len(body.frags), True)
WhereHolds(where, params, row) ==
  LET True(k) == LET ps == ParamsOf(where.frags, params, k) IN
        IF where.frags[k].t = "group" THEN GroupHolds(where.frags[k].body, ps, row)
        ELSE Holds(where.frags[k], ps, row)
  IN where.frags = <<>> \/ SomeRun(where.conns, Len(where.frags), True)

(***************************************************************************)
(* jqlSearch.js                                                            *)
(***************************************************************************)
\* mutated: the values are bound once, for both columns
PastOnce(c) ==
  IF c.kind = "CHANGED" THEN [frag |-> Frag("EXISTS", c.col, 1), params |-> <<c.col>>]
  ELSE [frag |-> Frag("WAS", c.col, 1 + 2 * Len(c.value)), params |-> <<c.col>> \o c.value]
buildHistoryExists(c) ==
  IF c.kind = "CHANGED" THEN [frag |-> Frag("EXISTS", c.col, 1), params |-> <<c.col>>]
  ELSE [frag |-> Frag("WAS", c.col, 1 + 2 * Len(c.value)), params |-> <<c.col>> \o c.value \o c.value]

buildInClause(col, op, list) ==
  LET negate == op \in {"!=", "NOT_IN"} IN
  IF list = <<>> THEN [frag |-> Frag(IF negate THEN "1=1" ELSE "1=0", col, 0), params |-> <<>>]
  ELSE [frag |-> Frag(IF negate THEN "NOT_IN" ELSE "IN", col, Len(list)), params |-> list]

compileClause(c) ==
  CASE c.kind # "CURRENT" -> buildHistoryExists(c)
    [] c.fn = "currentUser" -> [frag |-> Frag(c.op, c.col, 1), params |-> <<"me">>]
    [] c.fn = "membersOf" -> buildInClause(c.col, c.op, MembersOf[c.value])
    [] OTHER -> [frag |-> Frag(IF c.op = "~" THEN "ILIKE" ELSE c.op, c.col, 1), params |-> <<c.value>>]

\* scanQuery keeps the clauses and, between two of them, whether there was an OR.
scanQuery(groups) ==
  [clauses |-> FlattenSeq(groups),
   connectives |-> Tail(FlattenSeq([g \in DOMAIN groups |-> [k \in DOMAIN groups[g] |-> IF k = 1 THEN "OR" ELSE "AND"]]))]
compileScanned(scanned) ==
  LET parts == [k \in DOMAIN scanned.clauses |-> compileClause(scanned.clauses[k])] IN
  [frags |-> [k \in DOMAIN parts |-> parts[k].frag], conns |-> scanned.connectives,
   params |-> FlattenSeq([k \in DOMAIN parts |-> parts[k].params])]

Ands(frags) == [k \in 1..(Len(frags) - 1) |-> "AND"]
\* mutated: the query is not put in parentheses
JqlBare(jql) == [frags |-> jql.frags, conns |-> jql.conns]
JqlGroup(jql) ==
  [frags |-> <<[t |-> "group", col |-> "none", n |-> Len(jql.params), body |-> jql]>>, conns |-> <<>>]
baseConditions ==
  [frags |-> (IF status = "" THEN <<>> ELSE <<Frag("=", "status", 1)>>)
             \o (IF q = "" THEN <<>> ELSE <<Frag("ILIKE", "title", 3)>>),
   params |-> (IF status = "" THEN <<>> ELSE <<status>>) \o (IF q = "" THEN <<>> ELSE <<q, q, q>>)]
\* AND between two lists of conditions
Both(a, b) ==
  [frags |-> a.frags \o b.frags,
   conns |-> a.conns \o (IF a.frags = <<>> \/ b.frags = <<>> THEN <<>> ELSE <<"AND">>) \o b.conns]
buildIssueSearch ==
  LET base == baseConditions
      jql == compileScanned(scanQuery(query))
      plain == [frags |-> base.frags, conns |-> Ands(base.frags)]
  IN IF query = <<>> THEN [sql |-> plain, params |-> base.params]
     ELSE [sql |-> Both(plain, JqlGroup(jql)), params |-> base.params \o jql.params]

(***************************************************************************)
(* The handlers.                                                           *)
(***************************************************************************)
ScopeIds == IF asker = "member" THEN <<1>> ELSE <<>>
\* Whoever is no admin gets the projects of theirs and what belongs to none.
ScopeClause ==
  LET ids == IF ScopeIds = <<>> THEN Frag("1=0", "project", 0) ELSE Frag("IN", "project", Len(ScopeIds))
      body == [frags |-> <<ids, Frag("IS_NULL", "project", 0)>>, conns |-> <<"OR">>]
  IN [frags |-> <<[t |-> "group", col |-> "none", n |-> Len(ScopeIds), body |-> body]>>, conns |-> <<>>]
canViewIssue(i) == ~i.secured \/ asker = "admin" \/ i.assignee = "me"

GetIssues ==
  LET built == buildIssueSearch
      sql == IF asker = "admin" THEN built.sql ELSE Both(built.sql, ScopeClause)
      params == built.params \o (IF asker = "admin" THEN <<>> ELSE ScopeIds)
  IN {i \in Issues : WhereHolds(sql, params, i) /\ canViewIssue(i)}

\* filters.js splits at AND only: what follows an OR is swallowed by the value of
\* the clause before it, which becomes a text that no issue has.
FilterClause(c, more) ==
  [frag |-> Frag(IF c.op = "~" THEN "ILIKE" ELSE c.op, c.col, 1),
   params |-> IF more THEN <<"swallowed">> ELSE <<c.value>>]
InOrder(S) == CHOOSE s \in SetToSeqs(S) : \A a, b \in DOMAIN s : a < b => s[a] < s[b]
PostFilter ==
  LET scanned == scanQuery(query)
      n == Len(scanned.clauses)
      heads == InOrder({k \in 1..n : k = 1 \/ scanned.connectives[k - 1] = "AND"})
      parts == [h \in DOMAIN heads |->
        FilterClause(scanned.clauses[heads[h]], heads[h] < n /\ scanned.connectives[heads[h]] = "OR")]
      sql == [frags |-> [k \in DOMAIN parts |-> parts[k].frag], conns |-> Ands(parts)]
      params == FlattenSeq([k \in DOMAIN parts |-> parts[k].params])
  IN {i \in Issues : WhereHolds(sql, params, i) /\ canViewIssue(i)}

(***************************************************************************)
(* Typing.                                                                 *)
(***************************************************************************)
Typed == Len(FlattenSeq(query))
And(c) == query # <<>> /\ query' = [query EXCEPT ![Len(query)] = Append(@, c)]
Or(c) == query' = Append(query, <<c>>)
SearchInit ==
  /\ query = <<>> /\ status \in {"", "Open"} /\ q \in {"", "in"}
  /\ asker \in {"admin", "member", "stranger"}
SearchNext ==
  /\ Typed < (IF status = "" /\ q = "" THEN MaxClauses ELSE MaxFiltered)
  /\ \E c \in Clauses : And(c) \/ Or(c)
  /\ UNCHANGED <<status, q, asker>>
SearchSpec == SearchInit /\ [][SearchNext]_searchVars

(***************************************************************************)
(* What a query means.                                                     *)
(***************************************************************************)
\* A clause in words: != and NOT IN ask for a value that is another, WAS and CHANGED
\* ask the history for any value it has been taken to or from.
Means(c, i) ==
  CASE c.kind = "CHANGED" -> i.past # {}
    [] c.kind = "WAS" -> \E h \in i.past : {h[1], h[2]} \cap {c.value[k] : k \in DOMAIN c.value} # {}
    [] c.fn = "currentUser" -> i.assignee = "me"
    [] c.fn = "membersOf" ->
         LET those == {MembersOf[c.value][k] : k \in DOMAIN MembersOf[c.value]} IN
         IF c.op \in {"=", "IN"} THEN i.assignee \in those
         ELSE those = {} \/ i.assignee \notin those \cup {Null}
    [] c.fn = "none" /\ c.op = "~" -> i[c.col] \in Like[c.value]
    [] c.fn = "none" /\ c.op = "=" -> i[c.col] = c.value
    [] OTHER -> i[c.col] \notin {c.value, Null}
Asked(i) ==
  /\ status # "" => i.status = status
  /\ q # "" => i.title \in Like[q]
  /\ query # <<>> => \E g \in DOMAIN query : \A k \in DOMAIN query[g] : Means(query[g][k], i)
Reachable(i) == asker = "admin" \/ i.project = Null \/ (asker = "member" /\ i.project = 1)

\* The list answers with exactly the issues that the query, the status and the text
\* ask for, that belong to a project of the caller's or to none, and that issue
\* security does not hide, whatever clauses the query joins by AND and OR: none of
\* them takes another's parameter or reaches past the caller's scope
\* (jqlSearch.js:316-394, 500-534; issues.js:347-390).
SearchExact == GetIssues = {i \in Issues : Asked(i) /\ Reachable(i) /\ canViewIssue(i)}

\* The search of the filters page and the list agree, within the caller's scope, on
\* every query both understand: = != and ~ joined by AND, as the page's help says
\* (filters.js:32-106, FiltersPage.jsx:372-389).
Understood == status = "" /\ q = "" /\ Len(query) = 1 /\ \A k \in DOMAIN query[1] : query[1][k] \in Common
ParsersAgree == Understood => {i \in PostFilter : Reachable(i)} = GetIssues

\* What is found is what was asked for, on either page.
SearchSound == SearchExact /\ ParsersAgree

SearchTypeOK ==
  /\ Typed <= MaxClauses
  /\ \A g \in DOMAIN query : query[g] # <<>> /\ \A k \in DOMAIN query[g] : query[g][k] \in Clauses
=============================================================================
