-------------------------------- MODULE Wiki --------------------------------
(***************************************************************************)
(* Wiki pages: the tree, the drafts, the trash and the version history     *)
(* under the handlers of routes/wiki.js.                                   *)
(*                                                                         *)
(* A page's text has two parts, a title and a body, and a request may send *)
(* one of them.  A move to another space shows here as what it does to the *)
(* parent.  A request is a program counter and what it has read: its reads *)
(* are one step, each statement that writes is another, and the requests   *)
(* of other users come in between.                                         *)
(***************************************************************************)
EXTENDS Integers, Sequences, FiniteSets

CONSTANTS
  Pages,           \* wiki_pages.id, handed out in order
  Authors,         \* users with the Member role
  Texts,           \* what a title or a body may be
  Editors,         \* slots for the requests in progress
  MaxHops,         \* 64: how far wouldCycle walks up
  MaxSaves,        \* requests of a behaviour that come one at a time
  MaxSavesAtOnce   \* requests of one in which they overlap

ASSUME WikiAssumption ==
  /\ Pages \subseteq Nat \ {0}
  /\ MaxHops \in Nat /\ MaxSaves \in Nat /\ MaxSavesAtOnce \in Nat

VARIABLES
  page,       \* wiki_pages; `kept` is a history variable: per part, a request that
              \* writes a version with it as well wrote it, or left it as it was
  versions,   \* wiki_page_versions of each page, in the order of their ids
  edit,       \* the requests in progress
  saves,      \* requests so far
  inTurn,     \* history: no two requests overlapped
  whole       \* history: no request was cut off

wikiVars == <<page, versions, edit, saves, inTurn, whole>>

Root == 0
Keep == -1
NoText == "none"
Parts == {"title", "body"}
FullTexts == [Parts -> Texts]
SentTexts == [Parts -> Texts \cup {NoText}]
Blank == [k \in Parts |-> NoText]
\* What is sent, and where nothing is the other.
Fill(sent, other) == [k \in Parts |-> IF sent[k] = NoText THEN other[k] ELSE sent[k]]
Unwritten == [state |-> "none", status |-> "draft", parent |-> Root, text |-> Blank,
              pending |-> Blank, author |-> "none", kept |-> [k \in Parts |-> FALSE]]
NoEdit == [pc |-> "rest", page |-> 0, sent |-> Blank, text |-> Blank, parent |-> Keep,
           status |-> "keep", next |-> 0]

WikiInit ==
  /\ page = [p \in Pages |-> Unwritten]
  /\ versions = [p \in Pages |-> <<>>]
  /\ edit = [e \in Editors |-> NoEdit]
  /\ saves = 0 /\ inTurn = TRUE /\ whole = TRUE

Exists(p) == page[p].state # "none"
Live(p) == page[p].state = "live"
\* A draft is seen by its author alone, and only who sees a page may change it:
\* there is always somebody who does.
CanSee(u, p) == Exists(p) /\ (page[p].status = "published" \/ page[p].author = u)

\* currentVersion
CurrentVersion(p) ==
  IF versions[p] = <<>> THEN 0
  ELSE CHOOSE n \in {v.num : v \in {versions[p][i] : i \in DOMAIN versions[p]}} :
         \A i \in DOMAIN versions[p] : versions[p][i].num <= n

\* mutated: only the new parent itself is compared
WouldMeetItself(p, next) == next = p
\* The ways up from a page, k parents long.
Ways(q, k) == {w \in [0..k -> Pages] : w[0] = q /\ \A j \in 0..(k-1) : w[j+1] = page[w[j]].parent}
WouldCycle(p, next) == \E k \in 0..MaxHops : \E w \in Ways(next, k) : w[k] = p

Busy == \E e \in Editors : edit[e] # NoEdit
\* A request takes the first free slot.
FreeSlot == CHOOSE e \in Editors : edit[e] = NoEdit \/ \A d \in Editors : edit[d] # NoEdit
Open(e, q) ==
  /\ e = FreeSlot /\ edit[e] = NoEdit
  /\ inTurn' = (inTurn /\ ~Busy)
  /\ saves < IF inTurn' THEN MaxSaves ELSE MaxSavesAtOnce
  /\ saves' = saves + 1
  /\ edit' = [edit EXCEPT ![e] = q]
  /\ UNCHANGED whole
Go(e, q) == edit' = [edit EXCEPT ![e] = q] /\ UNCHANGED <<saves, inTurn, whole>>
Done(e) == Go(e, NoEdit)
At(e, pc) == [edit[e] EXCEPT !.pc = pc]

NewVersion(p, n, x) == versions' = [versions EXCEPT ![p] = Append(@, [num |-> n, text |-> x])]

\* POST /: the parent is taken as sent.  A draft has no version yet.
Create(e) ==
  \E p \in Pages, u \in Authors, x \in FullTexts, s \in {"draft", "published"} :
  \E up \in {q \in Pages : Exists(q)} \cup {Root} :
    /\ ~Exists(p) /\ \A q \in Pages : q < p => Exists(q)
    /\ page' = [page EXCEPT ![p] = [Unwritten EXCEPT !.state = "live", !.status = s, !.parent = up,
                                      !.text = x, !.author = u, !.kept = [k \in Parts |-> s = "published"]]]
    /\ Open(e, IF s = "draft" THEN NoEdit ELSE [NoEdit EXCEPT !.pc = "insert", !.page = p,
                                                            !.text = x, !.next = 1])
    /\ UNCHANGED versions

\* The version of a POST, of a PATCH and of a restored version.
InsertVersion(e) == LET q == edit[e] IN
  /\ q.pc = "insert"
  /\ NewVersion(q.page, q.next, q.text)
  /\ IF q.status = "restore" THEN Go(e, At(e, "rewrite")) ELSE Done(e)
  /\ UNCHANGED page

\* PATCH /:id, the reads: a page in the trash is not refused.  An edit that names
\* a version goes on only if it is the current one, and a move only if it makes
\* no cycle.  The page gets what was sent; the version gets the part that was not
\* from the row read here.
Patch(e) ==
  \E p \in Pages, x \in SentTexts, s \in {"keep", "draft", "published"} :
  \E up \in {q \in Pages : Exists(q)} \cup {Root, Keep} :
    /\ Exists(p)
    /\ up \in Pages => ~WouldCycle(p, up)
    /\ <<x, s, up>> # <<Blank, "keep", Keep>>
    /\ Open(e, [NoEdit EXCEPT !.pc = "update", !.page = p, !.sent = x, !.text = Fill(x, page[p].text),
                              !.status = s, !.parent = up])
    /\ UNCHANGED <<page, versions>>
Update(e) == LET q == edit[e] old == page[q.page] new == Fill(q.sent, old.text) IN
  /\ q.pc = "update"
  /\ page' = [page EXCEPT ![q.page] =
       [old EXCEPT !.text = new,
                   !.kept = [k \in Parts |-> old.kept[k] \/ (q.sent # Blank /\ q.text[k] = new[k])],
                   !.status = IF q.status = "keep" THEN old.status ELSE q.status,
                   !.parent = IF q.parent = Keep THEN old.parent ELSE q.parent]]
  /\ IF q.sent = Blank THEN Done(e) ELSE Go(e, [At(e, "number") EXCEPT !.sent = Blank])
  /\ UNCHANGED versions
Number(e) ==
  /\ edit[e].pc = "number"
  /\ Go(e, [At(e, "insert") EXCEPT !.next = CurrentVersion(edit[e].page) + 1])
  /\ UNCHANGED <<page, versions>>

\* POST /:id/versions/:versionId/restore: the version, then the page.
RestoreVersion(e) == \E p \in Pages : \E i \in DOMAIN versions[p] :
  /\ Live(p)
  /\ Open(e, [NoEdit EXCEPT !.pc = "insert", !.page = p, !.text = versions[p][i].text,
                            !.status = "restore", !.next = CurrentVersion(p) + 1])
  /\ UNCHANGED <<page, versions>>
Rewrite(e) == LET q == edit[e] IN
  /\ q.pc = "rewrite"
  /\ page' = [page EXCEPT ![q.page].text = q.text, ![q.page].kept = [k \in Parts |-> TRUE]]
  /\ Done(e)
  /\ UNCHANGED versions

\* PUT /:id/draft: a draft is written in place, a published page gets a pending
\* draft; which of them is decided by the status that was read.
\* mutated: every page is written in place
AutosaveInPlace(e) == \E p \in Pages, x \in SentTexts \ {Blank} :
  /\ Live(p)
  /\ Open(e, [NoEdit EXCEPT !.pc = "save", !.page = p, !.sent = x, !.status = "draft"])
  /\ UNCHANGED <<page, versions>>
Autosave(e) == \E p \in Pages, x \in SentTexts \ {Blank} :
  /\ Live(p)
  /\ Open(e, [NoEdit EXCEPT !.pc = "save", !.page = p, !.sent = x, !.status = page[p].status])
  /\ UNCHANGED <<page, versions>>
Save(e) == LET q == edit[e] old == page[q.page] IN
  /\ q.pc = "save"
  /\ page' = [page EXCEPT ![q.page] =
       IF q.status = "draft"
       THEN [old EXCEPT !.text = Fill(q.sent, old.text),
                        !.kept = [k \in Parts |-> old.kept[k] /\ q.sent[k] = NoText]]
       ELSE [old EXCEPT !.pending = Fill(q.sent, Fill(old.pending, old.text))]]
  /\ Done(e)
  /\ UNCHANGED versions

\* POST /:id/publish: what was sent, else the pending draft, else the page's own;
\* the transaction that writes page and version comes later.
Publish(e) == \E p \in Pages, u \in Authors, x \in SentTexts :
  \E up \in {q \in Pages : Live(q) /\ CanSee(u, q) /\ ~WouldCycle(p, q)} \cup {Root} :
    /\ Live(p) /\ CanSee(u, p)
    /\ Open(e, [NoEdit EXCEPT !.pc = "publish", !.page = p, !.parent = up,
                              !.text = Fill(x, Fill(page[p].pending, page[p].text))])
    /\ UNCHANGED <<page, versions>>
PublishTx(e) == LET q == edit[e] IN
  /\ q.pc = "publish"
  /\ page' = [page EXCEPT ![q.page] = [@ EXCEPT !.text = q.text, !.kept = [k \in Parts |-> TRUE],
                                         !.parent = q.parent, !.status = "published", !.pending = Blank]]
  /\ NewVersion(q.page, CurrentVersion(q.page) + 1, q.text)
  /\ Done(e)

\* DELETE /:id: the children go to the root, then the page to the trash.
Delete(e) == \E p \in Pages :
  /\ Live(p)
  /\ Open(e, [NoEdit EXCEPT !.pc = "trash", !.page = p])
  /\ page' = [c \in Pages |-> IF page[c].parent = p THEN [page[c] EXCEPT !.parent = Root] ELSE page[c]]
  /\ UNCHANGED versions
Trash(e) ==
  /\ edit[e].pc = "trash"
  /\ page' = [page EXCEPT ![edit[e].page].state = "trash"]
  /\ Done(e)
  /\ UNCHANGED versions

\* POST /:id/restore: under its parent if that is live, else at the root.
Restore(e) == \E p \in Pages : LET up == page[p].parent IN
  /\ page[p].state = "trash"
  /\ Open(e, [NoEdit EXCEPT !.pc = "revive", !.page = p,
                !.parent = IF up # Root /\ Live(up) THEN up ELSE Root])
  /\ UNCHANGED <<page, versions>>
Revive(e) ==
  /\ edit[e].pc = "revive"
  /\ page' = [page EXCEPT ![edit[e].page].state = "live", ![edit[e].page].parent = edit[e].parent]
  /\ Done(e)
  /\ UNCHANGED versions

\* The process stops: requests end where they are.
WikiCrash ==
  /\ Busy /\ whole' = FALSE
  /\ edit' = [e \in Editors |-> NoEdit]
  /\ UNCHANGED <<page, versions, saves, inTurn>>

\* Open's guard: nothing is read for a request that cannot begin.
MayEdit(e) ==
  edit[e] = NoEdit /\ saves < IF inTurn /\ ~Busy THEN MaxSaves ELSE MaxSavesAtOnce

WikiNext ==
  \/ \E e \in Editors :
       \/ /\ MayEdit(e)
          /\ \/ Create(e) \/ Patch(e) \/ RestoreVersion(e) \/ Autosave(e) \/ Publish(e)
             \/ Delete(e) \/ Restore(e)
       \/ InsertVersion(e) \/ Update(e) \/ Number(e) \/ Rewrite(e) \/ Save(e) \/ PublishTx(e)
       \/ Trash(e) \/ Revive(e)
  \/ WikiCrash

WikiSpec == WikiInit /\ [][WikiNext]_wikiVars

-----------------------------------------------------------------------------
\* The type invariant; a page that exists has a text.
WikiTypeOK ==
  /\ \A p \in Pages :
       /\ page[p].state \in {"none", "live", "trash"} /\ page[p].status \in {"draft", "published"}
       /\ page[p].parent \in Pages \cup {Root} /\ page[p].kept \in [Parts -> BOOLEAN]
       /\ page[p].text \in SentTexts /\ page[p].pending \in SentTexts
       /\ Exists(p) => page[p].text \in FullTexts /\ page[p].author \in Authors
       /\ versions[p] \in Seq([num : Nat \ {0}, text : FullTexts])
  /\ \A e \in Editors : edit[e].page \in Pages \cup {0}
  /\ saves \in 0..MaxSaves \cup 0..MaxSavesAtOnce /\ inTurn \in BOOLEAN /\ whole \in BOOLEAN

\* The tree a user is shown: a page whose parent is not among those the user may
\* see stands at the root; everything else hangs from its parent.  What grows
\* from the roots is what every set has that holds them and what hangs from it.
Visible(u) == {p \in Pages : Live(p) /\ CanSee(u, p)}
Hangs(u, S) == \A p \in Visible(u) : page[p].parent \notin Visible(u) \ S => p \in S
Tree(u) == {p \in Visible(u) : \A S \in SUBSET Visible(u) : Hangs(u, S) => p \in S}

\* No page disappears from the tree of a user who may see it, wherever its
\* parents are, trash and drafts of others included (wiki.js:96-105, 222-240):
\* moves come one at a time and each looks for the cycle it would close.
TreeShowsAll == inTurn => \A u \in Authors : Tree(u) = Visible(u)

\* The versions of a page are numbered from 1 on without a gap, even when
\* requests overlap or are cut off; two of them get one number only when they
\* overlap (no index makes (page_id, version_number) unique).
Numbered ==
  \A p \in Pages : LET nums == {versions[p][i].num : i \in DOMAIN versions[p]} IN
    /\ nums = 1..CurrentVersion(p)
    /\ inTurn => Cardinality(nums) = Len(versions[p])

\* No title and no body that a save with a version put on a page is ever missing
\* from the history, or it is about to be there: this is what makes a save over
\* another's recoverable (wiki.js:511-520), however saves overlap.  The two of a
\* page may be missing together: of two edits that overlap, one of the title and
\* one of the body, each gets a version with the other's part as it was before
\* (wiki.js:737), and no version has both.
Recorded ==
  whole => \A p \in Pages, k \in Parts : page[p].kept[k] =>
    \/ \E i \in DOMAIN versions[p] : versions[p][i].text[k] = page[p].text[k]
    \/ \E e \in Editors : /\ edit[e].pc \in {"number", "insert"}
                          /\ edit[e].page = p /\ edit[e].text[k] = page[p].text[k]

\* Between requests that came one at a time, the last version of a page is what
\* its readers see, its title and its body.
LatestShown ==
  inTurn /\ whole /\ ~Busy =>
    \A p \in Pages, k \in Parts : page[p].kept[k] =>
      /\ versions[p] # <<>> /\ versions[p][Len(versions[p])].text[k] = page[p].text[k]

\* The history of a page can be trusted: no title or body is missing, and while
\* requests came one at a time nothing is there twice or behind.
HistorySound == Numbered /\ Recorded /\ LatestShown

\* What is shown of the pages and of their past is what was written.
WikiSound == TreeShowsAll /\ HistorySound

\* Autosave never touches what readers see: the text of a published page changes
\* along with its history (WikiPageEditor.jsx:57-58 "readers keep the published
\* text until Publish").  An autosave that read the status before a publish does.
ReadersUndisturbed ==
  [][inTurn' => \A p \in Pages, k \in Parts :
       page[p].status = "published" /\ page'[p].text[k] # page[p].text[k] => page'[p].kept[k]]_wikiVars
=============================================================================
