----------------------------- MODULE MCRecords ------------------------------
(***************************************************************************)
(* The records that outlive a request: members and invitations, sessions,  *)
(* password resets, wiki pages, documents, the structure of issues, their  *)
(* links and dependencies, their history as reports tell it, and the       *)
(* workflow of a project.  They share no state, so a behaviour is one of   *)
(* theirs, chosen by `part`, with the others at rest: the instances are    *)
(* explored one after the other, not multiplied.                           *)
(***************************************************************************)
EXTENDS Membership, Sessions, PasswordReset, Wiki, IssueTree, WorkflowConfig, Documents, Dependencies, FlowReports, TLC

VARIABLE part
recordVars == <<part, memberVars, sessionVars, resetVars, wikiVars, treeVars, configVars, documentVars, linkVars, reportVars>>

\* Links and roadmap dependencies read nothing of each other: they are explored
\* apart, with the issues' types at rest under links and no report open under
\* dependencies.
LinksAlone ==
  /\ UNCHANGED deps /\ \A l \in Linkers : linker'[l].type # "finish_to_start"
  /\ \A i \in Nodes : node'[i] # NoNode => node'[i].epic
DepsAlone == UNCHANGED <<links, seen>> /\ \A l \in Linkers : linker'[l].type \in {"none", "finish_to_start"}

\* Whoever reads first and second after the last change reads what is there now.
SomethingToMiss == first' # first /\ first = NoRead => caseMoves < MaxCaseMoves \/ \E m \in Shifters : moving[m] # NoMove
\* Requests differ in nothing: the first that is free begins.
InTurn == \A m \in Shifters : moving[m] = NoMove /\ moving'[m] # NoMove => \A n \in 1..(m-1) : moving[n] # NoMove

\* Texts differ or not, and that is all: a page begins with one as its title and
\* its body, and who sends both sends one.
Alike(t) == Cardinality({t[k] : k \in Parts} \ {NoText}) < 2
AlikeAtFirst ==
  /\ \A p \in Pages : ~Exists(p) => Alike(page'[p].text)
  /\ \A e \in Editors : Alike(edit'[e].sent)

\* No author and no text is preferred: the first page is of one of each.
FirstPage == (\A p \in Pages : ~Exists(p)) => \A p \in Pages : page'[p].state # "none" =>
  /\ page'[p].author = (CHOOSE u \in Authors : TRUE)
  /\ page'[p].text["title"] = (CHOOSE x \in Texts : TRUE)

Init ==
  /\ part \in {"members", "sessions", "resets", "wiki", "tree", "config", "documents", "links", "deps", "reports"}
  /\ MemberInit /\ SessionInit /\ ResetInit /\ WikiInit /\ TreeInit /\ ConfigInit
  /\ DocumentInit /\ DependencyInit /\ ReportInit
  /\ part # "members" => members = {}
  /\ part # "config" => made
  /\ part \notin {"links", "deps"} => \A i \in Nodes : node[i].project = 1

Next ==
  \/ /\ part = "members" /\ MemberNext
     /\ UNCHANGED <<part, sessionVars, resetVars, wikiVars, treeVars, configVars, documentVars, linkVars, reportVars>>
  \/ /\ part = "sessions" /\ SessionNext
     /\ UNCHANGED <<part, memberVars, resetVars, wikiVars, treeVars, configVars, documentVars, linkVars, reportVars>>
  \/ /\ part = "resets" /\ ResetNext
     /\ UNCHANGED <<part, memberVars, sessionVars, wikiVars, treeVars, configVars, documentVars, linkVars, reportVars>>
  \/ /\ part = "wiki" /\ WikiNext /\ AlikeAtFirst /\ FirstPage
     /\ UNCHANGED <<part, memberVars, sessionVars, resetVars, treeVars, configVars, documentVars, linkVars, reportVars>>
  \/ /\ part = "tree" /\ TreeNext
     /\ UNCHANGED <<part, memberVars, sessionVars, resetVars, wikiVars, configVars, documentVars, linkVars, reportVars>>
  \/ /\ part = "config" /\ ConfigNext
     /\ UNCHANGED <<part, memberVars, sessionVars, resetVars, wikiVars, treeVars, documentVars, linkVars, reportVars>>
  \/ /\ part = "documents" /\ DocumentNext
     /\ UNCHANGED <<part, memberVars, sessionVars, resetVars, wikiVars, treeVars, configVars, linkVars, reportVars>>
  \/ /\ part = "links" /\ DependencyNext /\ LinksAlone
     /\ UNCHANGED <<part, memberVars, sessionVars, resetVars, wikiVars, treeVars, configVars, documentVars, reportVars>>
  \/ /\ part = "deps" /\ DependencyNext /\ DepsAlone
     /\ UNCHANGED <<part, memberVars, sessionVars, resetVars, wikiVars, treeVars, configVars, documentVars, reportVars>>
  \/ /\ part = "reports" /\ ReportNext /\ SomethingToMiss /\ InTurn
     /\ UNCHANGED <<part, memberVars, sessionVars, resetVars, wikiVars, treeVars, configVars, documentVars, linkVars>>

\* Every part keeps its types, at rest and at work.
RecordsTypeOK ==
  /\ MemberTypeOK /\ SessionTypeOK /\ ResetTypeOK /\ WikiTypeOK /\ TreeTypeOK /\ ConfigTypeOK
  /\ DocumentTypeOK /\ DependencyTypeOK /\ ReportTypeOK

Spec == Init /\ [][Next]_recordVars

\* No handler prefers an address.
Symmetry == Permutations(Addresses)
=============================================================================
