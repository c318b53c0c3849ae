---------------------------- MODULE Dependencies ----------------------------
(***************************************************************************)
(* Links between issues (routes/issueLinks.js), the dependency graph of a  *)
(* project (routes/dependencies.js) and the dependencies between epics     *)
(* (routes/advancedRoadmap.js).                                            *)
(*                                                                         *)
(* The graph is computed from two reads, the issues first and the links    *)
(* later: `seen` is what the first of them has brought.  Titles, dates and *)
(* the capacity of teams are left out.                                     *)
(***************************************************************************)
EXTENDS Integers, FiniteSets, Sequences, SequencesExt

CONSTANTS
  Nodes,             \* issues.id
  LinkTypes,         \* of LINK_TYPES
  Linkers,           \* slots for the requests in progress
  MaxLinkAsks,       \* requests of a behaviour whose requests come one at a time
  MaxLinkAsksAtOnce  \* requests of one in which they overlap

ASSUME DependenciesAssumption ==
  /\ Nodes \subseteq Nat /\ LinkTypes \subseteq {"blocks", "is blocked by", "relates to"}
  /\ MaxLinkAsks \in Nat /\ MaxLinkAsksAtOnce \in Nat

VARIABLES
  node,      \* issues: [project, done, epic], or NoNode
  links,     \* issue_links, in the order of their ids
  deps,      \* roadmap_dependencies, in the order of their ids
  seen,      \* the issues an open report has read
  linker,    \* the requests in progress
  linked,    \* requests so far
  inTurns    \* history: no two requests overlapped

linkVars == <<node, links, deps, seen, linker, linked, inTurns>>

NoNode == [project |-> 0, done |-> FALSE, epic |-> FALSE]
NoLink == [source |-> 0, target |-> 0, type |-> "none"]
Present(i) == node[i] # NoNode
Rows(s) == {s[k] : k \in DOMAIN s}
\* The rows at the places K, in their order.
RowsAt(s, K) == [n \in 1..Cardinality(K) |-> s[CHOOSE k \in K : Cardinality({m \in K : m <= k}) = n]]

DependencyInit ==
  /\ \E far \in SUBSET Nodes : Cardinality(far) <= 1 /\
       node = [i \in Nodes |-> [project |-> IF i \in far THEN 2 ELSE 1, done |-> FALSE, epic |-> TRUE]]
  /\ links = <<>> /\ deps = <<>> /\ seen = [i \in Nodes |-> NoNode]
  /\ linker = [l \in Linkers |-> NoLink] /\ linked = 0 /\ inTurns = TRUE

Call(l, q) ==
  /\ l = CHOOSE m \in Linkers : linker[m] = NoLink \/ \A n \in Linkers : linker[n] # NoLink
  /\ linker[l] = NoLink
  /\ inTurns' = (inTurns /\ \A m \in Linkers : linker[m] = NoLink)
  /\ linked < IF inTurns' THEN MaxLinkAsks ELSE MaxLinkAsksAtOnce
  /\ linked' = linked + 1
  /\ linker' = [linker EXCEPT ![l] = q]
Close(l) == linker' = [linker EXCEPT ![l] = NoLink] /\ UNCHANGED <<linked, inTurns>>

INVERSE(type) == CASE type = "blocks" -> "is blocked by"
                   [] type = "is blocked by" -> "blocks"
                   [] OTHER -> type
Link(s, t, type) == [source |-> s, target |-> t, type |-> type]

\* mutated: only the same direction is looked up
PostLinkOneWay(l) == \E s, t \in Nodes, type \in LinkTypes :
  /\ Present(s) /\ Present(t) /\ s # t
  /\ Link(s, t, type) \notin Rows(links)
  /\ Call(l, Link(s, t, type))
  /\ UNCHANGED <<node, links, deps, seen>>
\* POST /issues/:issueId/links: neither the link nor its mirror image is there.
PostLink(l) == \E s, t \in Nodes, type \in LinkTypes :
  /\ Present(s) /\ Present(t) /\ s # t
  /\ {Link(s, t, type), Link(t, s, INVERSE(type))} \cap Rows(links) = {}
  /\ Call(l, Link(s, t, type))
  /\ UNCHANGED <<node, links, deps, seen>>
\* UNIQUE(source, target, type) refuses what came meanwhile, and foreign keys an
\* issue that has gone.
InsertLink(l) == LET q == linker[l] IN
  /\ q.type \in LinkTypes
  /\ links' = IF Present(q.source) /\ Present(q.target) /\ q \notin Rows(links)
              THEN Append(links, q) ELSE links
  /\ Close(l)
  /\ UNCHANGED <<node, deps, seen>>
DeleteLink(l) == \E k \in DOMAIN links :
  /\ Call(l, NoLink)
  /\ links' = RemoveAt(links, k)
  /\ UNCHANGED <<node, deps, seen>>

\* POST /roadmap-dependencies: both are epics; ON CONFLICT DO NOTHING.
PostDependency(l) == \E f, t \in Nodes :
  /\ f # t /\ node[f].epic /\ node[t].epic
  /\ Call(l, Link(f, t, "finish_to_start"))
  /\ UNCHANGED <<node, links, deps, seen>>
InsertDependency(l) == LET q == linker[l] IN
  /\ q.type = "finish_to_start"
  /\ deps' = IF Present(q.source) /\ Present(q.target) /\ q \notin Rows(deps)
             THEN Append(deps, q) ELSE deps
  /\ Close(l)
  /\ UNCHANGED <<node, links, seen>>
DeleteDependency(l) == \E k \in DOMAIN deps :
  /\ Call(l, NoLink)
  /\ deps' = RemoveAt(deps, k)
  /\ UNCHANGED <<node, links, seen>>

\* The places of the rows that do not name issue i.
Spared(s, i) == {k \in DOMAIN s : i \notin {s[k].source, s[k].target}}
\* Other handlers finish, retype and delete issues; the rows of both tables
\* go with an issue.
EditNode(l) == \E i \in Nodes :
  /\ Present(i) /\ Call(l, NoLink)
  /\ \/ node' = [node EXCEPT ![i].done = ~@]
     \/ node' = [node EXCEPT ![i].epic = ~@]
  /\ UNCHANGED <<links, deps, seen>>
DeleteNode(l) == \E i \in Nodes :
  /\ Present(i) /\ Call(l, NoLink)
  /\ node' = [node EXCEPT ![i] = NoNode]
  /\ links' = RowsAt(links, Spared(links, i)) /\ deps' = RowsAt(deps, Spared(deps, i))
  /\ UNCHANGED seen

\* GET /projects/:id/dependencies, the first read.
ReadNodes ==
  /\ seen # node /\ seen' = node
  /\ UNCHANGED <<node, links, deps, linker, linked, inTurns>>

DependencyNext ==
  \/ \E l \in Linkers :
       \/ PostLink(l) \/ InsertLink(l) \/ DeleteLink(l)
       \/ PostDependency(l) \/ InsertDependency(l) \/ DeleteDependency(l)
       \/ EditNode(l) \/ DeleteNode(l)
  \/ ReadNodes
DependencySpec == DependencyInit /\ [][DependencyNext]_linkVars

-----------------------------------------------------------------------------
\* The link list of an issue, as GET /issues/:issueId/links shows it.
LinkList(i) == {[type |-> r.type, issue |-> r.target] : r \in {x \in Rows(links) : x.source = i}}
  \cup {[type |-> INVERSE(r.type), issue |-> r.source] : r \in {x \in Rows(links) : x.target = i}}

(***************************************************************************)
(* buildDependencyGraph, over the issues of project p that were read and   *)
(* the links found between issues of the project now.                      *)
(***************************************************************************)
Known(p) == {i \in Nodes : seen[i].project = p}
normalizeEdge(r) == IF r.type = "blocks" THEN <<r.source, r.target>> ELSE <<r.target, r.source>>
\* The edges in the order in which links first give them.
Blocks(p) == {k \in DOMAIN links :
  /\ links[k].type \in {"blocks", "is blocked by"}
  /\ {node[links[k].source].project, node[links[k].target].project} = {p}
  /\ {links[k].source, links[k].target} \subseteq Known(p)}
Firsts(p) == {k \in Blocks(p) :
  \A m \in Blocks(p) : m < k => normalizeEdge(links[m]) # normalizeEdge(links[k])}
Edges(p) ==
  LET rows == RowsAt(links, Firsts(p)) IN [n \in DOMAIN rows |-> normalizeEdge(rows[n])]
blockedBy(p, i) == {e[1] : e \in {x \in Rows(Edges(p)) : x[2] = i}}
isBlocked(p, i) == \E b \in blockedBy(p, i) : ~seen[b].done

\* detectCycles: Tarjan's algorithm.  t holds indices, low links, the stack and
\* the components found so far.
Tarjan0(p) == [index |-> [i \in Known(p) |-> -1], low |-> [i \in Known(p) |-> -1], next |-> 0,
               stack |-> <<>>, cycles |-> <<>>]
Searches(p) == [index : [Known(p) -> Int], low : [Known(p) -> Int], next : Nat,
                stack : Seq(Nodes), cycles : Seq(Seq(Nodes))]
Smaller(a, b) == IF a < b THEN a ELSE b
Opened(v, t) == [t EXCEPT !.index[v] = t.next, !.low[v] = t.next, !.next = @ + 1,
                          !.stack = Append(@, v)]
Closed(v, t) ==
  LET at == CHOOSE k \in DOMAIN t.stack : t.stack[k] = v
      component == SubSeq(t.stack, at, Len(t.stack))
  IN IF t.low[v] # t.index[v] THEN t
     ELSE [t EXCEPT !.stack = SubSeq(@, 1, at - 1),
                    !.cycles = IF Len(component) > 1 THEN Append(@, component) ELSE @]
\* The search from edge k on, of those that leave v.
visit(p) ==
  LET es == Edges(p)
      from[x \in Nat \X Known(p) \X Searches(p)] ==
        LET k == x[1]
            v == x[2]
            t == x[3]
            w == es[k][2]
            u == Closed(w, from[<<1, w, Opened(w, t)>>])
        IN IF k > Len(es) THEN t
           ELSE from[<<k + 1, v,
                  IF es[k][1] # v THEN t
                  ELSE IF t.index[w] = -1 THEN [u EXCEPT !.low[v] = Smaller(@, u.low[w])]
                  ELSE IF w \in Rows(t.stack) THEN [t EXCEPT !.low[v] = Smaller(@, t.index[w])] ELSE t>>]
  IN from
strongconnect(p, v, t) == Closed(v, visit(p)[<<1, v, Opened(v, t)>>])
detectCycles(p) ==
  LET order == SetToSortSeq(Known(p), <)
  IN FoldLeft(LAMBDA t, v : IF t.index[v] = -1 THEN strongconnect(p, v, t) ELSE t,
              Tarjan0(p), order).cycles

(***************************************************************************)
(* topoOrderEpics, over all epics.                                         *)
(***************************************************************************)
EpicNodes == {i \in Nodes : node[i].epic}
Between == {r \in Rows(deps) : {r.source, r.target} \subseteq EpicNodes}
kahn[x \in Seq(Nodes) \X Seq(Nodes)] ==
  LET queue == x[1]
      done == Append(x[2], Head(queue))
      ready == {i \in EpicNodes : /\ \E r \in Between : r.source = Head(queue) /\ r.target = i
                               /\ \A r \in Between : r.target = i => r.source \in Rows(done)}
  IN IF queue = <<>> THEN x[2] ELSE kahn[<<Tail(queue) \o SetToSortSeq(ready, <), done>>]
topoOrderEpics ==
  kahn[<<SetToSortSeq({i \in EpicNodes : \A r \in Between : r.target # i}, <), <<>>>>]

-----------------------------------------------------------------------------
\* The type invariant.
DependencyTypeOK ==
  /\ node \in [Nodes -> [project : 0..2, done : BOOLEAN, epic : BOOLEAN]]
  /\ seen \in [Nodes -> [project : 0..2, done : BOOLEAN, epic : BOOLEAN]]
  /\ \A r \in Rows(links) : {r.source, r.target} \subseteq {i \in Nodes : Present(i)} /\ r.type \in LinkTypes
  /\ \A r \in Rows(deps) : {r.source, r.target} \subseteq {i \in Nodes : Present(i)}
  /\ linked \in Nat /\ inTurns \in BOOLEAN

\* a reaches b over pairs es.
Reaches(es, a, b) ==
  LET after[k \in 0..Cardinality(Nodes)] ==
        IF k = 0 THEN {e[2] : e \in {x \in es : x[1] = a}}
        ELSE after[k-1] \cup {e[2] : e \in {x \in es : x[1] \in after[k-1]}}
  IN b \in after[Cardinality(Nodes)]

\* The cycles reported are the sets of issues that block one another, each of
\* them once, whatever the links and their order (detectCycles).
CyclesFound == \A p \in {1, 2} :
  LET es == Rows(Edges(p))
      ring(i) == {j \in Known(p) : Reaches(es, i, j) /\ Reaches(es, j, i)}
      found == detectCycles(p)
  IN /\ {Rows(c) : c \in Rows(found)} = {ring(i) : i \in {j \in Known(p) : Reaches(es, j, j)}}
     /\ \A k \in DOMAIN found : \A m \in 1..(k-1) : Rows(found[k]) # Rows(found[m])

\* What the graph says blocks an issue is what the issue's own link list says of
\* issues of its project, once the report has read it.
GraphTellsLinks == seen = node => \A p \in {1, 2} : \A i \in Known(p) :
  /\ blockedBy(p, i) = {l.issue : l \in {x \in LinkList(i) :
                         x.type = "is blocked by" /\ node[x.issue].project = p}}
  /\ isBlocked(p, i) = \E l \in LinkList(i) :
       l.type = "is blocked by" /\ node[l.issue].project = p /\ ~node[l.issue].done

\* A link is not there twice, seen from either end, as long as requests come one
\* at a time: "Prevent duplicate links in either direction" (issueLinks.js:81).
NoMirrors == inTurns => \A i \in Nodes : \A j, k \in DOMAIN links :
  j # k => ~(links[j].source = i /\ links[k].target = i /\ links[j].target = links[k].source
             /\ links[j].type = INVERSE(links[k].type))

\* topoOrderEpics orders every epic behind those it depends on, and leaves out
\* exactly those that depend on a cycle.
OrderSound ==
  LET es == {<<r.source, r.target>> : r \in Between}
      order == topoOrderEpics
  IN /\ \A j, k \in DOMAIN order : j < k => <<order[k], order[j]>> \notin es /\ order[j] # order[k]
     /\ EpicNodes \ Rows(order) = {i \in EpicNodes : \E j \in EpicNodes :
                                 Reaches(es, j, j) /\ (i = j \/ Reaches(es, j, i))}

\* The graph and the order are what the links and dependencies say.
DependenciesSound == CyclesFound /\ GraphTellsLinks /\ NoMirrors /\ OrderSound
=============================================================================
