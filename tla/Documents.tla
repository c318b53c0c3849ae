----------------------------- MODULE Documents ------------------------------
(***************************************************************************)
(* The documents of one Space: folders, uploads, versions and the quota    *)
(* under routes/documents.js, and what archiving or deleting the Space     *)
(* (routes/spaces.js) does to them.                                        *)
(*                                                                         *)
(* Bytes are objects of the store, named by the order they are put there.  *)
(* A request's reads are one step and each statement that writes is        *)
(* another.  Roles, tags and the checks of a file's type are left out:     *)
(* somebody may always send what is sent.                                  *)
(***************************************************************************)
EXTENDS Integers, FiniteSets, Sequences, FiniteSetsExt

CONSTANTS
  Docs, Folders,    \* ids, handed out in order
  FileNames,
  Sizes,            \* bytes of a file
  Quota,            \* quotaFor(space)
  MaxLift,          \* 64: how far isDescendant walks up
  Uploaders,        \* slots for the requests in progress
  MaxDocAsks,       \* requests of a behaviour whose requests come one at a time
  MaxDocAsksAtOnce, \* requests of one in which they overlap
  MaxHalts          \* crashes of the process

ASSUME DocumentsAssumption ==
  /\ Docs \subseteq Nat \ {0} /\ Folders \subseteq Nat \ {0} /\ Sizes \subseteq Nat \ {0}
  /\ Quota \in Nat /\ MaxLift \in Nat \ {0} /\ MaxDocAsks \in Nat /\ MaxDocAsksAtOnce \in Nat /\ MaxHalts \in Nat

VARIABLES
  space,     \* the row of spaces: "open", "archived" or "gone"
  folder,    \* document_folders, by id
  doc,       \* documents, by id; those of a deleted Space are gone
  revision,  \* document_versions
  object,    \* the sizes of what was put into storage; nothing is ever removed
  paper,     \* the requests in progress
  filed,     \* requests so far
  halts,     \* crashes so far
  current,   \* history: the objects that ever were the contents of a document
  oneByOne   \* history: no two requests overlapped

documentVars == <<space, folder, doc, revision, object, paper, filed, halts, current, oneByOne>>

Top == 0          \* NULL: the root of the Space
Stay == -1        \* the request does not say
NoFolder == [state |-> "none", up |-> Top, name |-> "none"]
NoDoc == [state |-> "none", folder |-> Top, name |-> "none", key |-> 0, num |-> 1]
NoPaper == [pc |-> "rest", id |-> 0, place |-> Stay, name |-> "none", size |-> 0, key |-> 0, num |-> 1]

DocumentInit ==
  /\ space = "open"
  /\ folder = [f \in Folders |-> NoFolder]
  /\ doc = [d \in Docs |-> NoDoc]
  /\ revision = {} /\ object = <<>>
  /\ paper = [u \in Uploaders |-> NoPaper] /\ filed = 0 /\ halts = 0
  /\ current = {} /\ oneByOne = TRUE

Standing(f) == f # Top => folder[f].state = "live"
LiveDocs == {d \in Docs : doc[d].state = "live"}
\* The rows a request may still find after its Space is deleted: none.
Kept(d) == doc[d].state \in {"live", "deleted"}

Working == \E u \in Uploaders : paper[u] # NoPaper
TakeUp(u, q) ==
  /\ u = CHOOSE v \in Uploaders : paper[v] = NoPaper \/ \A w \in Uploaders : paper[w] # NoPaper
  /\ paper[u] = NoPaper
  /\ oneByOne' = (oneByOne /\ ~Working)
  /\ filed < IF oneByOne' THEN MaxDocAsks ELSE MaxDocAsksAtOnce
  /\ filed' = filed + 1
  /\ paper' = [paper EXCEPT ![u] = q]
  /\ UNCHANGED halts
Continue(u, q) == paper' = [paper EXCEPT ![u] = q] /\ UNCHANGED <<filed, halts, oneByOne>>
Finished(u) == Continue(u, NoPaper)
AtStep(u, pc) == [paper[u] EXCEPT !.pc = pc]
RowsStay == UNCHANGED <<space, folder, doc, revision, object, current>>
Waits(u, pc) == paper[u].pc = pc

(***************************************************************************)
(* Folders.  Two partial unique indexes keep the names of one place apart: *)
(* a statement they refuse, or one whose parent has gone, is an error 500. *)
(***************************************************************************)
NameTaken(f, up, n) == \E g \in Folders \ {f} :
  folder[g].state = "live" /\ folder[g].up = up /\ folder[g].name = n

PostFolder(u) == \E up \in Folders \cup {Top}, n \in FileNames :
  /\ space # "gone" /\ Standing(up) /\ ~NameTaken(0, up, n)
  /\ TakeUp(u, [NoPaper EXCEPT !.pc = "insertFolder", !.place = up, !.name = n])
  /\ RowsStay
InsertFolder(u) == LET q == paper[u] IN
  /\ Waits(u, "insertFolder")
  /\ LET free == {f \in Folders : folder[f].state = "none"} IN
     IF space # "gone" /\ Standing(q.place) /\ ~NameTaken(0, q.place, q.name) /\ free # {}
     THEN folder' = [folder EXCEPT ![Min(free)] = [state |-> "live", up |-> q.place, name |-> q.name]]
     ELSE UNCHANGED folder
  /\ Finished(u)
  /\ UNCHANGED <<space, doc, revision, object, current>>

\* The ways up from a folder, k parents long.
Lifts(f, k) == {w \in [0..k -> Folders] : w[0] = f /\ \A j \in 0..(k-1) : w[j+1] = folder[w[j]].up}
\* isDescendant
Within(candidate, root) == \E k \in 0..(MaxLift-1) : \E w \in Lifts(candidate, k) : w[k] = root
\* PUT /folders/:folderId: a rename asks nothing of the other names.
PutFolder(u) == \E f \in Folders, up \in Folders \cup {Top, Stay}, n \in FileNames \cup {"none"} :
  /\ folder[f].state = "live" /\ <<up, n>> # <<Stay, "none">>
  /\ up # f /\ (up \in Folders => Standing(up) /\ ~Within(up, f))
  /\ TakeUp(u, [NoPaper EXCEPT !.pc = "updateFolder", !.id = f, !.place = up, !.name = n])
  /\ RowsStay
UpdateFolder(u) ==
  LET q == paper[u]
      row == [folder[q.id] EXCEPT !.up = IF q.place = Stay THEN @ ELSE q.place,
                                  !.name = IF q.name = "none" THEN @ ELSE q.name]
  IN
  /\ Waits(u, "updateFolder")
  /\ folder' = IF row.state = "live" /\ Standing(row.up) /\ ~NameTaken(q.id, row.up, row.name)
               THEN [folder EXCEPT ![q.id] = row] ELSE folder
  /\ Finished(u)
  /\ UNCHANGED <<space, doc, revision, object, current>>

\* mutated: only sub-folders are in the way
DeleteFolderOfDocs(u) == \E f \in Folders :
  /\ folder[f].state = "live"
  /\ ~\E g \in Folders : folder[g].state = "live" /\ folder[g].up = f
  /\ TakeUp(u, [NoPaper EXCEPT !.pc = "dropFolder", !.id = f])
  /\ RowsStay
\* DELETE /folders/:folderId: refused while it holds a document or a folder.
DeleteFolder(u) == \E f \in Folders :
  /\ folder[f].state = "live"
  /\ ~\E d \in LiveDocs : doc[d].folder = f
  /\ ~\E g \in Folders : folder[g].state = "live" /\ folder[g].up = f
  /\ TakeUp(u, [NoPaper EXCEPT !.pc = "dropFolder", !.id = f])
  /\ RowsStay
\* Folders below go along; documents fall back to the root.
Downward(S) == \A g \in Folders : folder[g].state = "live" /\ folder[g].up \in S => g \in S
Subtree(f) == {g \in Folders : \A S \in SUBSET Folders : f \in S /\ Downward(S) => g \in S}
DropFolder(u) == LET gone == Subtree(paper[u].id) IN
  /\ Waits(u, "dropFolder")
  /\ folder' = [f \in Folders |-> IF f \in gone /\ folder[f].state = "live"
                                  THEN [NoFolder EXCEPT !.state = "gone"] ELSE folder[f]]
  /\ doc' = [d \in Docs |-> IF doc[d].folder \in gone THEN [doc[d] EXCEPT !.folder = Top] ELSE doc[d]]
  /\ Finished(u)
  /\ UNCHANGED <<space, revision, object, current>>

(***************************************************************************)
(* Documents.                                                              *)
(***************************************************************************)
SizeOf(key) == object[key]
\* usedBytes: what live documents hold, and every version that is not current.
UsedBytes ==
  MapThenSumSet(LAMBDA d : SizeOf(doc[d].key), LiveDocs)
  + MapThenSumSet(LAMBDA v : SizeOf(v.key),
                  {v \in revision : v.doc \in LiveDocs /\ v.num # doc[v.doc].num})
FitsQuota(size) == UsedBytes + size <= Quota

\* POST /spaces/:spaceId/documents: refused in an archived Space, where a live
\* document has the name, and above the quota.
Upload(u) == \E f \in Folders \cup {Top}, n \in FileNames, s \in Sizes :
  /\ space = "open" /\ Standing(f) /\ FitsQuota(s)
  /\ ~\E d \in LiveDocs : doc[d].folder = f /\ doc[d].name = n
  /\ \E d \in Docs : doc[d].state = "none"
  /\ TakeUp(u, [NoPaper EXCEPT !.pc = "put", !.place = f, !.name = n, !.size = s])
  /\ RowsStay
\* POST /documents/:documentId/versions
Replace(u) == \E d \in LiveDocs, n \in FileNames, s \in Sizes :
  /\ FitsQuota(s)
  /\ TakeUp(u, [NoPaper EXCEPT !.pc = "put", !.id = d, !.name = n, !.size = s, !.num = doc[d].num + 1])
  /\ RowsStay
\* acceptUpload puts the bytes before any row names them.
PutObject(u) ==
  /\ Waits(u, "put")
  /\ object' = Append(object, paper[u].size)
  /\ Continue(u, [paper[u] EXCEPT !.key = Len(object) + 1,
                              !.pc = IF paper[u].id = 0 THEN "insertDoc" ELSE "insertVersion"])
  /\ UNCHANGED <<space, folder, doc, revision, current>>
InsertDoc(u) ==
  LET q == paper[u]
      free == {d \in Docs : doc[d].state = "none"}
  IN
  /\ Waits(u, "insertDoc")
  /\ IF space # "gone" /\ Standing(q.place) /\ free # {}
     THEN /\ doc' = [doc EXCEPT ![Min(free)] = [state |-> "live", folder |-> q.place, name |-> q.name,
                                                key |-> q.key, num |-> 1]]
          /\ current' = current \cup {<<Min(free), q.key>>}
          /\ Continue(u, [q EXCEPT !.pc = "insertVersion", !.id = Min(free)])
     ELSE Finished(u) /\ UNCHANGED <<doc, current>>
  /\ UNCHANGED <<space, folder, revision, object>>

\* POST /documents/:documentId/restore/:versionId: the bytes of the version become
\* the next one; nothing is copied and the quota is not asked.
RestoreRevision(u) == \E v \in revision :
  /\ v.doc \in LiveDocs
  /\ TakeUp(u, [NoPaper EXCEPT !.pc = "insertVersion", !.id = v.doc, !.name = v.name, !.key = v.key,
                             !.num = doc[v.doc].num + 1])
  /\ RowsStay
\* document_versions has a unique (document_id, version_number).
InsertRevision(u) ==
  LET q == paper[u]
      taken == \E v \in revision : v.doc = q.id /\ v.num = q.num
  IN
  /\ Waits(u, "insertVersion")
  /\ IF Kept(q.id) /\ ~taken
     THEN /\ revision' = revision \cup {[doc |-> q.id, num |-> q.num, key |-> q.key, name |-> q.name]}
          /\ IF q.num = 1 THEN Finished(u) ELSE Continue(u, AtStep(u, "updateDoc"))
     ELSE UNCHANGED revision /\ Finished(u)
  /\ UNCHANGED <<space, folder, doc, object, current>>
\* The second statement of a replacement and of a restored version.
UpdateDoc(u) == LET q == paper[u] IN
  /\ Waits(u, "updateDoc")
  /\ doc' = IF Kept(q.id) THEN [doc EXCEPT ![q.id].name = q.name, ![q.id].key = q.key, ![q.id].num = q.num]
            ELSE doc
  /\ current' = IF Kept(q.id) THEN current \cup {<<q.id, q.key>>} ELSE current
  /\ Finished(u)
  /\ UNCHANGED <<space, folder, revision, object>>

\* PUT /documents/:documentId: neither a rename nor a move looks for the name.
PutDoc(u) == \E d \in LiveDocs, f \in Folders \cup {Top, Stay}, n \in FileNames \cup {"none"} :
  /\ <<f, n>> # <<Stay, "none">> /\ (f \in Folders => Standing(f))
  /\ TakeUp(u, [NoPaper EXCEPT !.pc = "moveDoc", !.id = d, !.place = f, !.name = n])
  /\ RowsStay
MoveDoc(u) == LET q == paper[u] IN
  /\ Waits(u, "moveDoc")
  /\ doc' = IF Kept(q.id) /\ (q.place = Stay \/ Standing(q.place))
            THEN [doc EXCEPT ![q.id].folder = IF q.place = Stay THEN @ ELSE q.place,
                             ![q.id].name = IF q.name = "none" THEN @ ELSE q.name]
            ELSE doc
  /\ Finished(u)
  /\ UNCHANGED <<space, folder, revision, object, current>>
\* DELETE /documents/:documentId marks the row; nothing brings it back.
DeleteDoc(u) == \E d \in LiveDocs :
  /\ TakeUp(u, NoPaper)
  /\ doc' = [doc EXCEPT ![d].state = "deleted"]
  /\ UNCHANGED <<space, folder, revision, object, current>>

\* PATCH /spaces/:idOrKey.
ArchiveSpace(u) ==
  /\ space # "gone"
  /\ TakeUp(u, NoPaper)
  /\ space' = IF space = "open" THEN "archived" ELSE "open"
  /\ UNCHANGED <<folder, doc, revision, object, current>>
\* DELETE /spaces/:idOrKey: no live page is in the way; the documents are not
\* asked about, and every row goes along.
DeleteSpace(u) ==
  /\ space # "gone"
  /\ TakeUp(u, NoPaper)
  /\ space' = "gone"
  /\ folder' = [f \in Folders |-> IF folder[f].state = "live" THEN [NoFolder EXCEPT !.state = "gone"]
                                  ELSE folder[f]]
  /\ doc' = [d \in Docs |-> IF Kept(d) THEN [doc[d] EXCEPT !.state = "gone", !.folder = Top] ELSE doc[d]]
  /\ revision' = {}
  /\ UNCHANGED <<object, current>>

\* The process ends; its requests are never taken up again.
Halt ==
  /\ Working /\ halts < MaxHalts /\ halts' = halts + 1
  /\ paper' = [u \in Uploaders |-> NoPaper]
  /\ UNCHANGED <<filed, oneByOne>> /\ RowsStay

DocumentNext ==
  \/ \E u \in Uploaders :
       \/ PostFolder(u) \/ InsertFolder(u) \/ PutFolder(u) \/ UpdateFolder(u)
       \/ DeleteFolder(u) \/ DropFolder(u)
       \/ Upload(u) \/ Replace(u) \/ PutObject(u) \/ InsertDoc(u)
       \/ RestoreRevision(u) \/ InsertRevision(u) \/ UpdateDoc(u)
       \/ PutDoc(u) \/ MoveDoc(u) \/ DeleteDoc(u)
       \/ ArchiveSpace(u) \/ DeleteSpace(u)
  \/ Halt
DocumentSpec == DocumentInit /\ [][DocumentNext]_documentVars

-----------------------------------------------------------------------------
\* The type invariant.
DocumentTypeOK ==
  /\ space \in {"open", "archived", "gone"}
  /\ folder \in [Folders -> [state : {"none", "live", "gone"}, up : Folders \cup {Top},
                             name : FileNames \cup {"none"}]]
  /\ doc \in [Docs -> [state : {"none", "live", "deleted", "gone"}, folder : Folders \cup {Top},
                       name : FileNames \cup {"none"}, key : 0..Len(object), num : Nat]]
  /\ \A v \in revision : v.doc \in Docs /\ v.num \in Nat /\ v.key \in DOMAIN object
  /\ object \in Seq(Sizes) /\ filed \in Nat /\ halts \in 0..MaxHalts
  /\ current \subseteq (Docs \X DOMAIN object) /\ oneByOne \in BOOLEAN

\* What a Space keeps for its live documents stays within its quota, versions
\* that were restored or replaced included, as long as requests come one at a
\* time (usedBytes and acceptUpload: the quota is read before the bytes are put).
WithinQuota ==
  oneByOne => MapThenSumSet(SizeOf, {doc[d].key : d \in LiveDocs}
                                    \cup {v.key : v \in {w \in revision : w.doc \in LiveDocs}}) <= Quota

\* A document at rest is the last of its versions, which are numbered without a
\* gap, and no bytes it ever had are lost to its history: "replacing must not
\* overwrite" (documents.js:632-637).  A crash between the two statements of a
\* replacement leaves a version that is not the document's.
VersionsTell == \A d \in Docs :
  Kept(d) /\ halts = 0 /\ (\A u \in Uploaders : paper[u].id # d) =>
    LET mine == {v \in revision : v.doc = d} IN
    /\ {v.num : v \in mine} = 1..doc[d].num
    /\ \E v \in mine : v.num = doc[d].num /\ v.key = doc[d].key
    /\ \A k \in DOMAIN object : <<d, k>> \in current => \E v \in mine : v.key = k

\* Every folder is reached from the root, and its parent is there, as long as
\* requests come one at a time (isDescendant, PUT /folders).
FoldersReached ==
  oneByOne => \A f \in Folders : folder[f].state = "live" =>
    /\ Standing(folder[f].up)
    /\ \A S \in SUBSET Folders : Downward({Top} \cup S) => f \in S

\* A live document leaves its folder by a move alone: deleting a folder never
\* tips what it holds into the root (documents.js:381-387).
NeverTipped ==
  [][oneByOne' => \A d \in LiveDocs :
       doc'[d].state = "live" /\ doc'[d].folder # doc[d].folder
       => \E u \in Uploaders : paper[u].pc = "moveDoc" /\ paper[u].id = d]_documentVars

\* The quota, the history and the places of documents hold.
DocumentsSound == [](WithinQuota /\ VersionsTell /\ FoldersReached) /\ NeverTipped
=============================================================================
