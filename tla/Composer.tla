------------------------------ MODULE Composer ------------------------------
(* The mobile upload flow: the tray of photos, the uploads that run behind   *)
(* it, the photo editor over one of them, and the post that is made of the   *)
(* tray.  A photo in the tray is known by its key; `attempt` tells its       *)
(* uploads apart.  What an upload sends and what the editor works on are     *)
(* pixels: the photo they come from and the attempt that made them.          *)
(*                                                                           *)
(* React renders and runs the scheduler's effect before the next event, so   *)
(* every change of the tray is followed by it in the same step.              *)
EXTENDS Naturals, Sequences, FiniteSets, SequencesExt

CONSTANTS
  Photos,         \* what the user may pick (keys are never reused)
  Videos,         \* those of them that are videos and cannot be edited
  UploadSlots,    \* UPLOAD_CONCURRENCY
  MaxAttempt,     \* bound: edits and retries of one photo
  MaxPosts        \* bound: posts the backend has made

ASSUME ComposerAssumption ==
  /\ Videos \subseteq Photos
  /\ UploadSlots \in Nat \ {0} /\ MaxAttempt \in Nat /\ MaxPosts \in Nat

VARIABLES
  tray,       \* media: sequence of items
  uploads,    \* runUpload calls that have not returned
  editor,     \* [index, work, loads, op]: PhotoEditor and editingIndex
  post,       \* [step, attach, ids]: stage, and post()'s attachment and locals
  posts,      \* posts the backend has made: sequence of [ids, kind]
  picked,     \* keys used
  strayed     \* history: the editor was closed or moved while it worked

composerVars == <<tray, uploads, editor, post, posts, picked, strayed>>

NoPixels == <<>>
Statuses == {"queued", "uploading", "ready", "failed"}

Settled(item) == item.status \in {"ready", "failed"}
Token(item) == <<item.photo, item.attempt>>
Busy == post.step \in {"finishing", "market", "publish", "order"}

NoEditor == [index |-> 0, work |-> NoPixels, loads |-> FALSE, op |-> {}]
Unsent == [step |-> "idle", attach |-> "none", ids |-> <<>>]

ComposerInit ==
  /\ tray = <<>> /\ uploads = {} /\ editor = NoEditor /\ post = Unsent
  /\ posts = <<>> /\ picked = {} /\ strayed = FALSE

-----------------------------------------------------------------------------
(* The upload engine. *)

(* The scheduler's effect: the first queued items take the free slots.       *)
Starting(items) ==
  LET active == Cardinality({i \in DOMAIN items : items[i].status = "uploading"})
      before(i) == Cardinality({j \in 1 .. i - 1 : items[j].status = "queued"})
  IN {i \in DOMAIN items : items[i].status = "queued" /\ active + before(i) < UploadSlots}

(* runUpload returns at once for a token that is in flight. *)
Started(items, running) ==
  running \cup
    {[photo |-> items[i].photo, attempt |-> items[i].attempt, pixels |-> items[i].pixels,
      aborted |-> FALSE] :
       i \in {i \in Starting(items) : \A u \in running : Token(u) # Token(items[i])}}

(* The tray becomes `items`, the calls in `running` go on, the effect runs.  *)
Render(items, running) ==
  /\ tray' = [i \in DOMAIN items |->
                IF i \in Starting(items) THEN [items[i] EXCEPT !.status = "uploading"] ELSE items[i]]
  /\ uploads' = Started(items, running)

Aborted(running, token) ==
  {IF Token(u) = token THEN [u EXCEPT !.aborted = TRUE] ELSE u : u \in running}

(* The result of an attempt is for the item that still has that attempt.     *)
LiveAnyAttempt(item, u) == item.photo = u.photo
Live(item, u) == Token(item) = Token(u)

Patched(items, u, status, id) ==
  [i \in DOMAIN items |->
     IF Live(items[i], u) THEN [items[i] EXCEPT !.status = status, !.id = id] ELSE items[i]]

(* api.uploadMedia resolves or rejects: what was superseded is ignored.      *)
UploadEnds(u, ok) ==
  /\ IF u.aborted THEN Render(tray, uploads \ {u})
     ELSE Render(Patched(tray, u, IF ok THEN "ready" ELSE "failed",
                         IF ok THEN u.pixels ELSE NoPixels), uploads \ {u})
  /\ UNCHANGED <<editor, post, posts, picked, strayed>>

-----------------------------------------------------------------------------
(* The tray. *)

Pick(p) ==
  /\ editor.index = 0 /\ p \notin picked /\ picked' = picked \cup {p}
  /\ Render(Append(tray, [photo |-> p, attempt |-> 0, pixels |-> <<p, 0>>,
                          video |-> p \in Videos, status |-> "queued", id |-> NoPixels]), uploads)
  /\ UNCHANGED <<editor, post, posts, strayed>>

(* moveItem, one place at a time; removeAt. *)
Move(i) ==
  /\ editor.index = 0 /\ i \in 1 .. Len(tray) - 1
  /\ Render([tray EXCEPT ![i] = tray[i + 1], ![i + 1] = tray[i]], uploads)
  /\ strayed' = (strayed \/ editor.op # {})
  /\ UNCHANGED <<editor, post, posts, picked>>

TakeOut(i) ==
  /\ editor.index = 0 /\ i \in DOMAIN tray
  /\ Render(RemoveAt(tray, i), Aborted(uploads, Token(tray[i])))
  /\ strayed' = (strayed \/ editor.op # {})
  /\ UNCHANGED <<editor, post, posts, picked>>

Retry(i) ==
  /\ editor.index = 0 /\ i \in DOMAIN tray
  /\ tray[i].status = "failed" /\ tray[i].attempt < MaxAttempt
  /\ Render([tray EXCEPT ![i].status = "queued", ![i].attempt = @ + 1], uploads)
  /\ UNCHANGED <<editor, post, posts, picked, strayed>>

-----------------------------------------------------------------------------
(* The editor. *)

Open(i) ==
  /\ editor.index = 0 /\ i \in DOMAIN tray /\ ~ tray[i].video
  /\ editor' = [editor EXCEPT !.index = i, !.loads = TRUE]
  /\ UNCHANGED <<tray, uploads, post, posts, picked, strayed>>

(* The first manipulate of an open: its effect is canceled when it closes.   *)
EditorLoads ==
  /\ editor.loads
  /\ editor' = [editor EXCEPT !.loads = FALSE, !.work = tray[editor.index].pixels]
  /\ UNCHANGED <<tray, uploads, post, posts, picked, strayed>>

(* Cancel is not disabled while the editor works, and stops nothing.         *)
Cancel ==
  /\ editor.index # 0
  /\ editor' = [NoEditor EXCEPT !.op = editor.op]
  /\ strayed' = (strayed \/ editor.op # {})
  /\ UNCHANGED <<tray, uploads, post, posts, picked>>

(* applyOp and done keep the render they were pressed in: the index, the     *)
(* working image, and the token of the item.  Bound: a photo is not edited   *)
(* while a post with a market is on its way.                                 *)
Press(kind) ==
  /\ post.attach = "none" /\ editor.index # 0 /\ editor.work # NoPixels /\ editor.op = {}
  /\ editor' = [editor EXCEPT !.op =
       {[kind |-> kind, index |-> editor.index, work |-> editor.work,
         token |-> Token(tray[editor.index])]}]
  /\ UNCHANGED <<tray, uploads, post, posts, picked, strayed>>

(* Rotate and flip: the result becomes the working image of whatever the     *)
(* editor shows; a closed editor keeps it for its next open, until the load. *)
ImageTurned ==
  /\ \E o \in editor.op :
       /\ o.kind = "turn"
       /\ \E ok \in BOOLEAN :
            editor' = [editor EXCEPT !.op = {}, !.work = IF ok THEN o.work ELSE @]
  /\ UNCHANGED <<tray, uploads, post, posts, picked, strayed>>

(* applyEdit: abort by the token of the press, replace by its index.         *)
EditedKeepsAttempt(item, work) ==
  [item EXCEPT !.pixels = <<work[1], item.attempt + 1>>, !.video = FALSE,
               !.status = "queued", !.id = NoPixels]
Edited(item, work) ==
  [item EXCEPT !.pixels = <<work[1], item.attempt + 1>>, !.video = FALSE,
               !.attempt = item.attempt + 1, !.status = "queued", !.id = NoPixels]

Done ==
  /\ \E o \in editor.op :
       /\ o.kind = "done"
       /\ o.index \in DOMAIN tray => tray[o.index].attempt < MaxAttempt
       /\ Render(IF o.index \in DOMAIN tray
                 THEN [tray EXCEPT ![o.index] = Edited(@, o.work)] ELSE tray,
                 Aborted(uploads, o.token))
  /\ editor' = NoEditor
  /\ UNCHANGED <<post, posts, picked, strayed>>

-----------------------------------------------------------------------------
(* The post. *)

Ids(items) == [i \in DOMAIN items |-> items[i].id]

(* post() after the wait, if it had to wait: any failed upload is an error.  *)
Gather(attach, items) ==
  post' = IF \E i \in DOMAIN items : items[i].status = "failed" THEN Unsent
          ELSE [step |-> IF attach = "new" THEN "market" ELSE "publish",
                attach |-> attach, ids |-> Ids(items)]

(* The attachment is the one of the press.  Bound: nothing is posted once    *)
(* the editor has strayed.                                                   *)
PostPressed(attach) ==
  /\ ~ strayed /\ editor.index = 0 /\ tray # <<>> /\ ~ Busy
  /\ IF \A i \in DOMAIN tray : Settled(tray[i])
     THEN Gather(attach, tray)
     ELSE post' = [Unsent EXCEPT !.step = "finishing", !.attach = attach]
  /\ UNCHANGED <<tray, uploads, editor, posts, picked, strayed>>

(* waitForUploads looks at the tray every 120 ms. *)
WaitEnds ==
  /\ post.step = "finishing" /\ \A i \in DOMAIN tray : Settled(tray[i])
  /\ Gather(post.attach, tray)
  /\ UNCHANGED <<tray, uploads, editor, posts, picked, strayed>>

(* Any request of post() may fail: what came before it stays done, and the   *)
(* button is there again.                                                    *)
PostFails ==
  /\ post.step \in {"market", "publish", "order"} /\ post' = Unsent
  /\ UNCHANGED <<tray, uploads, editor, posts, picked, strayed>>

MarketMade ==
  /\ post.step = "market" /\ post' = [post EXCEPT !.step = "publish"]
  /\ UNCHANGED <<tray, uploads, editor, posts, picked, strayed>>

(* reset: every upload is aborted, the tray and the editor are emptied.      *)
Reset ==
  /\ tray' = <<>> /\ uploads' = {[u EXCEPT !.aborted = TRUE] : u \in uploads}
  /\ editor' = [NoEditor EXCEPT !.op = editor.op]
  /\ strayed' = (strayed \/ editor.op # {})
  /\ post' = Unsent

(* POST /v1/posts takes 1 to 10 media that no post has yet; the kind is that *)
(* of the first item the tray has now.                                       *)
Acceptable(ids) ==
  /\ ids # <<>>
  /\ ToSet(ids) \cap UNION {ToSet(posts[i].ids) : i \in DOMAIN posts} = {}

Published ==
  /\ post.step = "publish" /\ Len(posts) < MaxPosts /\ Acceptable(post.ids)
  /\ posts' = Append(posts, [ids |-> post.ids, video |-> tray # <<>> /\ tray[1].video])
  /\ IF post.attach = "existing"
     THEN /\ post' = [post EXCEPT !.step = "order"]
          /\ UNCHANGED <<tray, uploads, editor, strayed>>
     ELSE Reset
  /\ UNCHANGED picked

OrderPlaced ==
  /\ post.step = "order" /\ Reset /\ UNCHANGED <<posts, picked>>

-----------------------------------------------------------------------------
ComposerNext ==
  \/ \E u \in uploads, ok \in BOOLEAN : UploadEnds(u, ok)
  \/ \E p \in Photos : Pick(p)
  \/ \E i \in 1 .. Cardinality(Photos) : Move(i) \/ TakeOut(i) \/ Retry(i) \/ Open(i)
  \/ EditorLoads \/ Cancel \/ Press("turn") \/ Press("done") \/ ImageTurned \/ Done
  \/ \E attach \in {"none", "new", "existing"} : PostPressed(attach)
  \/ WaitEnds \/ PostFails \/ MarketMade \/ Published \/ OrderPlaced

(* A request ends, and the poll runs. *)
ComposerSpec ==
  /\ ComposerInit /\ [][ComposerNext]_composerVars
  /\ WF_composerVars(\E u \in uploads, ok \in BOOLEAN : UploadEnds(u, ok))
  /\ WF_composerVars(WaitEnds)

-----------------------------------------------------------------------------
(* The post is made of what the tray shows: a ready item was uploaded from   *)
(* its own latest pixels, whatever was edited, retried, moved or removed     *)
(* while uploads ran.  Unless the editor was left while it worked, or a post *)
(* emptied the tray under it, an item that is uploading has an upload that   *)
(* will tell it, and no photo shows or is posted as the pixels of another.   *)
TraySound ==
  /\ \A i \in DOMAIN tray : tray[i].status = "ready" => tray[i].id = tray[i].pixels
  /\ ~ strayed =>
       /\ \A i \in DOMAIN tray :
            /\ tray[i].pixels[1] = tray[i].photo
            /\ tray[i].status = "uploading" =>
                 \E u \in uploads : Token(tray[i]) = Token(u) /\ ~ u.aborted
       /\ \A k \in DOMAIN posts :
            Cardinality({id[1] : id \in ToSet(posts[k].ids)}) = Len(posts[k].ids)

(* "It only ever waits for uploads still in flight": the wait of a pressed   *)
(* post ends, however often photos are edited, moved or removed meanwhile,   *)
(* with the same exception.                                                  *)
FinishingEnds == post.step = "finishing" ~> post.step # "finishing" \/ strayed
=============================================================================
