----------------------------- MODULE PageEditor -----------------------------
(***************************************************************************)
(* The page editor of the wiki in the browser: autosave, publish, move to  *)
(* trash, and an image whose upload runs beside them                       *)
(* (src/pages/WikiHomePage/WikiPageEditor.jsx).                            *)
(*                                                                         *)
(* Revisions of the text are numbered as they are typed.  The server is    *)
(* what its answers tell: the newest revision it holds, a page that was    *)
(* created, published or put in the trash.  Any request may fail, before   *)
(* or after the server has acted on it.                                    *)
(***************************************************************************)
EXTENDS Integers

CONSTANTS
  MaxTyped,      \* revisions of a sitting
  MaxFailures    \* requests that fail

ASSUME PageEditorAssumption == MaxTyped \in Nat /\ MaxFailures \in Nat

VARIABLES
  typed,      \* latest.current
  dirty,      \* dirty.current
  timer,      \* the autosave timer is running
  queue,      \* flushes chained behind the one in progress
  job,        \* the flush in progress, and the revision it carries
  creating,   \* the POST that creates the page: who sent it, and the revision in it
  known,      \* pageIdRef.current is set
  image,      \* handleFile: "no", "ensure" or "upload"
  doing,      \* what the author is doing
  ahead,      \* flushes that `doing` still waits for
  content,    \* the revision in the publish request
  server,     \* pages made, the newest revision held, whether the page is live
  failed,     \* requests that failed so far
  astray      \* history: what failed or came at a moment nothing guards

editorVars == <<typed, dirty, timer, queue, job, creating, known, image, doing, ahead,
                content, server, failed, astray>>

NoJob == [pc |-> "none", text |-> 0]
NobodyCreates == [by |-> "nobody", text |-> 0]

EditorInit ==
  /\ typed = 0 /\ dirty = FALSE /\ timer = FALSE
  /\ queue = 0 /\ job = NoJob /\ creating = NobodyCreates
  /\ known \in BOOLEAN          \* a new page, or one opened by its address
  /\ image = "no" /\ doing = "editing" /\ ahead = 0 /\ content = 0
  /\ server = [made |-> IF known THEN 1 ELSE 0, text |-> 0, live |-> TRUE]
  /\ failed = 0 /\ astray = {}

JobRuns == job # NoJob
Fails == failed < MaxFailures /\ failed' = failed + 1

\* flush: the timer is stopped and a job joins the chain.
Flush == timer' = FALSE /\ queue' = queue + 1
Behind == queue + IF JobRuns THEN 1 ELSE 0

\* onUpdate and markDirty.  No dialog is open while a page goes to the trash.
Type ==
  /\ doing \in {"editing", "closing", "trashing", "deleting"} /\ typed < MaxTyped
  /\ typed' = typed + 1 /\ dirty' = TRUE /\ timer' = TRUE
  /\ UNCHANGED <<queue, job, creating, known, image, doing, ahead, content, server, failed, astray>>

\* mutated: the timer flushes nothing
TimeoutIdle ==
  /\ timer /\ timer' = FALSE
  /\ UNCHANGED <<typed, dirty, queue, job, creating, known, image, doing, ahead, content, server, failed, astray>>
Timeout ==
  /\ timer /\ Flush
  /\ UNCHANGED <<typed, dirty, job, creating, known, image, doing, ahead, content, server, failed, astray>>

\* The end of a job lets go whoever waits for it.
EndJob == job' = NoJob /\ ahead' = IF ahead > 0 THEN ahead - 1 ELSE 0

\* A job has nothing to do, or takes the newest revision; ensurePage creates the
\* page unless it is there or on its way.
StartJob ==
  /\ queue > 0 /\ ~JobRuns
  /\ queue' = queue - 1
  /\ dirty' = FALSE
  /\ IF ~dirty \/ (~known /\ typed = 0) THEN EndJob /\ UNCHANGED creating
     ELSE /\ UNCHANGED ahead
          /\ job' = [pc |-> IF known THEN "save" ELSE IF creating = NobodyCreates THEN "create" ELSE "wait",
                     text |-> typed]
          /\ creating' = IF known \/ creating # NobodyCreates THEN creating
                         ELSE [by |-> "job", text |-> typed]
  /\ UNCHANGED <<typed, timer, known, image, doing, content, server, failed, astray>>

\* POST /api/wiki: who sent it has the page saved with it, who waited has not.
Created ==
  /\ creating # NobodyCreates /\ creating' = NobodyCreates
  /\ \/ /\ server' = [server EXCEPT !.made = @ + 1, !.text = creating.text]
        /\ known' = TRUE
        /\ CASE job.pc = "create" -> EndJob
             [] job.pc = "wait" -> job' = [job EXCEPT !.pc = "save"] /\ UNCHANGED ahead
             [] OTHER -> UNCHANGED <<job, ahead>>
        /\ image' = IF image = "ensure" THEN "upload" ELSE image
        /\ UNCHANGED <<dirty, doing, failed, astray>>
     \/ /\ Fails
        /\ \/ UNCHANGED <<server, astray>>
           \/ /\ server' = [server EXCEPT !.made = @ + 1, !.text = creating.text]
              /\ astray' = astray \cup {"answer"}
        /\ IF job.pc \in {"create", "wait"} THEN dirty' = TRUE /\ EndJob
           ELSE UNCHANGED <<dirty, job, ahead>>
        /\ image' = IF image = "ensure" THEN "no" ELSE image
        /\ doing' = IF doing = "ensuring" THEN "editing" ELSE doing
        /\ UNCHANGED known
  /\ UNCHANGED <<typed, timer, queue, content>>

\* PUT /api/wiki/:id/draft, refused for a page in the trash.
Saved ==
  /\ job.pc = "save"
  /\ \/ /\ server.live
        /\ server' = [server EXCEPT !.text = job.text]
        /\ UNCHANGED <<dirty, failed>>
     \/ /\ \/ Fails /\ server' \in {server, [server EXCEPT !.text = job.text]} /\ server.live
           \/ ~server.live /\ UNCHANGED <<server, failed>>
        /\ dirty' = TRUE
  /\ EndJob
  /\ UNCHANGED <<typed, timer, queue, creating, known, image, doing, content, astray>>

\* handleFile goes past the chain; the image ends up in the text.
PickImage ==
  /\ image = "no" /\ doing = "editing" /\ typed < MaxTyped
  /\ dirty' = TRUE
  /\ image' = IF known THEN "upload" ELSE "ensure"
  /\ creating' = IF known \/ creating # NobodyCreates THEN creating ELSE [by |-> "image", text |-> typed]
  /\ UNCHANGED <<typed, timer, queue, job, known, doing, ahead, content, server, failed, astray>>
Uploaded ==
  /\ image = "upload" /\ image' = "no"
  /\ \/ /\ doing # "left" /\ typed < MaxTyped
        /\ typed' = typed + 1 /\ dirty' = TRUE /\ timer' = TRUE
        /\ astray' = IF doing = "sending" THEN astray \cup {"image"} ELSE astray
        /\ UNCHANGED failed
     \/ Fails /\ UNCHANGED <<typed, dirty, timer, astray>>
     \/ (doing = "left" \/ typed = MaxTyped) /\ UNCHANGED <<typed, dirty, timer, astray, failed>>
  /\ UNCHANGED <<queue, job, creating, known, doing, ahead, content, server>>

\* handlePublish: what is pending is saved first, then the newest revision is sent.
PressPublish ==
  /\ doing = "editing" /\ doing' = "publishing"
  /\ dirty' = (dirty \/ ~known)
  /\ Flush /\ ahead' = Behind + 1
  /\ UNCHANGED <<typed, job, creating, known, image, content, server, failed, astray>>
\* mutated: what is pending is not waited for
EnsureAtOnce ==
  /\ doing = "publishing"
  /\ doing' = "ensuring"
  /\ creating' = IF known \/ creating # NobodyCreates THEN creating ELSE [by |-> "publish", text |-> typed]
  /\ UNCHANGED <<typed, dirty, timer, queue, job, known, image, ahead, content, server, failed, astray>>
Ensure ==
  /\ doing = "publishing" /\ ahead = 0
  /\ doing' = "ensuring"
  /\ creating' = IF known \/ creating # NobodyCreates THEN creating ELSE [by |-> "publish", text |-> typed]
  /\ UNCHANGED <<typed, dirty, timer, queue, job, known, image, ahead, content, server, failed, astray>>
SendPublish ==
  /\ doing = "ensuring" /\ known
  /\ doing' = "sending" /\ timer' = FALSE /\ content' = typed
  /\ UNCHANGED <<typed, dirty, queue, job, creating, known, image, ahead, server, failed, astray>>
\* The answer drops what is dirty and leaves; an error stays in the dialog.
Published ==
  /\ doing = "sending"
  /\ \/ /\ server' = [server EXCEPT !.text = content]
        /\ dirty' = FALSE /\ doing' = "left" /\ Flush /\ UNCHANGED failed
     \/ /\ Fails /\ server' \in {server, [server EXCEPT !.text = content]}
        /\ doing' = "editing" /\ UNCHANGED <<dirty, timer, queue>>
  /\ UNCHANGED <<typed, job, creating, known, image, ahead, content, astray>>

\* handleClose, and any other way out inside the application: the unmount flushes.
Close ==
  /\ doing = "editing" /\ doing' = "closing"
  /\ Flush /\ ahead' = Behind + 1
  /\ UNCHANGED <<typed, dirty, job, creating, known, image, content, server, failed, astray>>
Closed ==
  /\ \/ doing = "closing" /\ ahead = 0
     \/ doing = "editing"
  /\ doing' = "left" /\ Flush
  /\ UNCHANGED <<typed, dirty, job, creating, known, image, ahead, content, server, failed, astray>>

\* useTrashPage with the editor's beforeDelete: what is pending is dropped.
PressTrash ==
  /\ doing = "editing" /\ known /\ doing' = "trashing"
  /\ timer' = FALSE /\ dirty' = FALSE /\ ahead' = Behind
  /\ UNCHANGED <<typed, queue, job, creating, known, image, content, server, failed, astray>>
SendDelete ==
  /\ doing = "trashing" /\ ahead = 0 /\ doing' = "deleting"
  /\ UNCHANGED <<typed, dirty, timer, queue, job, creating, known, image, ahead, content, server, failed, astray>>
Deleted ==
  /\ doing = "deleting"
  /\ \/ server' = [server EXCEPT !.live = FALSE] /\ doing' = "left" /\ Flush /\ UNCHANGED <<failed, astray>>
     \/ /\ Fails /\ server' \in {server, [server EXCEPT !.live = FALSE]}
        /\ doing' = "editing" /\ astray' = astray \cup {"delete"}
        /\ UNCHANGED <<timer, queue>>
  /\ UNCHANGED <<typed, dirty, job, creating, known, image, ahead, content>>

\* What goes on by itself.
Settle == StartJob \/ Created \/ Saved
Proceed == Ensure \/ SendPublish \/ Published \/ SendDelete \/ Deleted \/ (doing = "closing" /\ Closed)
EditorNext ==
  \/ Type \/ Timeout \/ Settle \/ Proceed \/ Uploaded
  \/ PickImage \/ PressPublish \/ Close \/ PressTrash \/ Closed

\* Timers fire and requests end; the author need not do anything.
EditorFair ==
  /\ WF_editorVars(Timeout) /\ WF_editorVars(StartJob) /\ WF_editorVars(Created)
  /\ WF_editorVars(Saved) /\ WF_editorVars(Proceed)
EditorSpec == EditorInit /\ [][EditorNext]_editorVars /\ EditorFair

-----------------------------------------------------------------------------
\* The type invariant.
EditorTypeOK ==
  /\ typed \in 0..MaxTyped /\ queue \in Nat /\ ahead \in Nat /\ content \in 0..MaxTyped
  /\ dirty \in BOOLEAN /\ timer \in BOOLEAN /\ known \in BOOLEAN
  /\ job \in [pc : {"none", "create", "wait", "save"}, text : 0..MaxTyped]
  /\ creating \in [by : {"nobody", "job", "image", "publish"}, text : 0..MaxTyped]
  /\ image \in {"no", "ensure", "upload"} /\ failed \in 0..MaxFailures
  /\ doing \in {"editing", "publishing", "ensuring", "sending", "closing", "trashing", "deleting", "left"}
  /\ server \in [made : Nat, text : 0..MaxTyped, live : BOOLEAN]
  /\ astray \subseteq {"answer", "image", "delete"}

\* The first keystroke, an image and Publish may each be the one that creates the
\* page: together they create one, unless its answer is lost on the way
\* (ensurePage, WikiPageEditor.jsx).
OneDraft == "answer" \notin astray => server.made <= 1

\* "Saves are chained, never concurrent, so a slow request cannot land after a
\* later one and overwrite it" (WikiPageEditor.jsx:57-58): the server never goes
\* back to an older revision, failed or not.  Only an image that arrives while
\* the publish request is out can be saved and then published over.
NeverBack == [][server'.text < server.text => "image" \in astray]_editorVars

\* Whenever the editor is at rest and says so, the server has what was typed;
\* what failed is dirty again.  A delete that fails has dropped the keystrokes
\* that it cancelled.
RestsSaved ==
  (/\ doing \in {"editing", "left"} /\ ~dirty /\ queue = 0 /\ ~JobRuns
   /\ creating = NobodyCreates /\ image = "no" /\ server.live /\ astray = {})
  => server.text = typed

\* At rest there is one page, with what was typed.
RestsWell == OneDraft /\ RestsSaved

\* What is typed reaches the server without another keystroke, wherever the
\* author goes meanwhile, as long as no request fails and no image comes in
\* while publishing: "Leaving the editor inside the app saves what is pending".
Autosaves ==
  typed > server.text ~> typed = server.text \/ failed > 0 \/ ~server.live \/ astray # {}

\* One page, never set back, at rest with what was typed, and there in the end.
EditorSound == []RestsWell /\ NeverBack /\ Autosaves
=============================================================================
