--------------------------- MODULE MessagesProofs ---------------------------
(***************************************************************************)
(* Of what a client writes and follows: the composer with its tray and     *)
(* photo editor, the searches as it types, the stories it watches, the     *)
(* threads it talks in and the lists it scrolls, for any number of photos, *)
(* edits, answers, pages and events.                                       *)
(***************************************************************************)
EXTENDS Screens, Composer, FiniteSetTheorems, TLAPS

-----------------------------------------------------------------------------
(* The composer.  Uploads are matched to items by a token, the photo and the *)
(* attempt.  The invariant says why that is enough: the keys of the tray     *)
(* differ (KeyedTray), no upload is ahead of its item, and one with the      *)
(* token of an item sends the pixels the item shows (Fresh).  Until the      *)
(* editor is left while it works, what it holds is of the photo at its index *)
(* (EditorAt), so an edit replaces a photo by its own pixels.                *)

(* An item of the tray, a call of runUpload and an operation of the editor.  *)
Pixels == Photos \X Nat
Item == [photo : Photos, attempt : Nat, pixels : Pixels, video : BOOLEAN,
         status : Statuses, id : Pixels \cup {NoPixels}]
Upload == [photo : Photos, attempt : Nat, pixels : Pixels, aborted : BOOLEAN]
Op == [kind : {"turn", "done"}, index : Nat, work : Pixels, token : Photos \X Nat]
Made == [ids : Seq(Pixels), video : BOOLEAN]

(* The keys of the tray are different and no upload is ahead of its item: a  *)
(* queued item has an attempt no upload was ever started with, and an upload *)
(* with the token of an item sends the pixels the item shows.                *)
Fresh(items, running) ==
  \A i \in DOMAIN items, u \in running :
    u.photo = items[i].photo =>
      /\ u.attempt <= items[i].attempt
      /\ u.attempt = items[i].attempt =>
           u.pixels = items[i].pixels /\ items[i].status # "queued"

KeyedTray(items, running, keys) ==
  /\ items \in Seq(Item) /\ running \subseteq Upload /\ keys \subseteq Photos
  /\ \A i, j \in DOMAIN items : i # j => items[i].photo # items[j].photo
  /\ \A i \in DOMAIN items : items[i].photo \in keys
  /\ \A u \in running : u.photo \in keys

OwnId(items) ==
  \A i \in DOMAIN items : items[i].status = "ready" => items[i].id = items[i].pixels

Sane(items, running, keys) ==
  KeyedTray(items, running, keys) /\ Fresh(items, running) /\ OwnId(items)

(* An item that is uploading has an upload that will tell it.                *)
Served(items, running) ==
  \A i \in DOMAIN items : items[i].status = "uploading" =>
    \E u \in running : Token(items[i]) = Token(u) /\ ~ u.aborted

OwnPixels(items) == \A i \in DOMAIN items : items[i].pixels[1] = items[i].photo

EditorTypes(ed, items) ==
  /\ ed \in [index : Nat, work : Pixels \cup {NoPixels}, loads : BOOLEAN, op : SUBSET Op]
  /\ ed.index # 0 => ed.index \in DOMAIN items
  /\ ed.loads => ed.index # 0

(* What the editor shows and works on is the photo at its index.             *)
EditorAt(ed, items) ==
  /\ ed.index = 0 => ed.op = {} /\ ed.work = NoPixels
  /\ ed.index # 0 /\ ed.work # NoPixels => ed.work[1] = items[ed.index].photo
  /\ \A o \in ed.op : /\ ed.index # 0 /\ o.index = ed.index
                      /\ o.token = Token(items[ed.index])
                      /\ o.work[1] = items[ed.index].photo

(* The media of a post come from different photos.                           *)
OfMany(ids) ==
  ids \in Seq(Pixels) /\ \A i, j \in DOMAIN ids : i # j => ids[i][1] # ids[j][1]

PostsSound ==
  /\ post.step \in {"market", "publish", "order"} => OfMany(post.ids)
  /\ posts \in Seq(Made) /\ \A k \in DOMAIN posts : OfMany(posts[k].ids)

ComposerInv ==
  /\ Sane(tray, uploads, picked) /\ EditorTypes(editor, tray)
  /\ ~ strayed => /\ Served(tray, uploads) /\ OwnPixels(tray) /\ EditorAt(editor, tray)
                  /\ PostsSound
(* d is a followed by b. *)
JoinOf(S, a, b, d) ==
  /\ d \in Seq(S) /\ Len(d) = Len(a) + Len(b)
  /\ \A k \in 1 .. Len(a) : d[k] = a[k]
  /\ \A k \in 1 .. Len(b) : d[Len(a) + k] = b[k]

(* An item added at the end of a sequence.                                   *)
LEMMA Joined ==
  ASSUME NEW S, NEW a \in Seq(S), NEW b \in Seq(S)
  PROVE  JoinOf(S, a, b, a \o b)
BY DEF JoinOf

(* A part of a sequence. *)
LEMMA Cut ==
  ASSUME NEW S, NEW s \in Seq(S), NEW a \in 1 .. Len(s) + 1, NEW z \in 0 .. Len(s), a <= z + 1
  PROVE  /\ SubSeq(s, a, z) \in Seq(S) /\ Len(SubSeq(s, a, z)) = z - a + 1
         /\ \A j \in 1 .. z - a + 1 : SubSeq(s, a, z)[j] = s[a + j - 1]
<1>1. Len(s) \in Nat /\ a \in Nat /\ z \in Nat
  OBVIOUS
<1>2. /\ Len(SubSeq(s, a, z)) = z - a + 1
      /\ \A j \in 1 .. z - a + 1 : SubSeq(s, a, z)[j] = s[a + j - 1]
  BY <1>1
<1>3. \A j \in a .. z : s[j] \in S
  BY <1>1
<1>4. SubSeq(s, a, z) \in Seq(S)
  BY <1>1, <1>3
<1> QED BY <1>2, <1>4

(* A sequence without the element at i. *)
LEMMA Gone ==
  ASSUME NEW S, NEW s \in Seq(S), NEW i \in 1 .. Len(s)
  PROVE  /\ RemoveAt(s, i) \in Seq(S) /\ Len(RemoveAt(s, i)) = Len(s) - 1
         /\ \A j \in 1 .. i - 1 : RemoveAt(s, i)[j] = s[j]
         /\ \A j \in i .. Len(s) - 1 : RemoveAt(s, i)[j] = s[j + 1]
<1> DEFINE b == SubSeq(s, 1, i - 1)
           c == SubSeq(s, i + 1, Len(s))
<1>3. PICK n \in Nat : n = Len(s) /\ i \in 1 .. n
  OBVIOUS
<1>4. b \in Seq(S) /\ Len(b) = i - 1 /\ \A j \in 1 .. i - 1 : b[j] = s[j]
  BY <1>3, Cut
<1>5. c \in Seq(S) /\ Len(c) = n - i /\ \A j \in 1 .. n - i : c[j] = s[i + j]
  BY <1>3, Cut
<1>6. RemoveAt(s, i) = b \o c
  BY DEF RemoveAt
<1> HIDE DEF b, c
<1>7. /\ RemoveAt(s, i) \in Seq(S) /\ Len(RemoveAt(s, i)) = Len(b) + Len(c)
      /\ \A k \in 1 .. Len(b) : RemoveAt(s, i)[k] = b[k]
      /\ \A k \in 1 .. Len(c) : RemoveAt(s, i)[Len(b) + k] = c[k]
  <2>0. b \in Seq(S) /\ c \in Seq(S)
    BY <1>4, <1>5
  <2>1. JoinOf(S, b, c, b \o c)
    BY <2>0, Joined
  <2> QED BY <1>6, <2>1 DEF JoinOf
<1>8. ASSUME NEW j \in i .. Len(s) - 1 PROVE RemoveAt(s, i)[j] = s[j + 1]
  <2>1. j \in i .. n - 1
    BY <1>3
  <2>2. /\ j - (i - 1) \in 1 .. n - i /\ i - 1 + (j - (i - 1)) = j
        /\ i + (j - (i - 1)) = j + 1
    BY <1>3, <2>1
  <2>3. /\ j - (i - 1) \in 1 .. Len(c) /\ Len(b) + (j - (i - 1)) = j
        /\ c[j - (i - 1)] = s[j + 1]
    BY <1>4, <1>5, <2>2
  <2>4. RemoveAt(s, i)[Len(b) + (j - (i - 1))] = c[j - (i - 1)]
    BY <1>7, <2>3
  <2> QED BY <2>3, <2>4
<1>9. Len(RemoveAt(s, i)) = Len(s) - 1
  <2>1. i - 1 + (n - i) = n - 1
    BY <1>3
  <2> QED BY <1>3, <1>4, <1>5, <1>7, <2>1
<1> QED BY <1>4, <1>7, <1>8, <1>9

-----------------------------------------------------------------------------
(* Facts about records and sequences. *)

(* An item as the fields it is made of.                                      *)
LEMMA ItemFields ==
  ASSUME NEW x \in Item
  PROVE  /\ x.photo \in Photos /\ x.attempt \in Nat /\ x.pixels \in Pixels
         /\ x.video \in BOOLEAN /\ x.status \in Statuses /\ x.id \in Pixels \cup {NoPixels}
         /\ DOMAIN x = {"photo", "attempt", "pixels", "video", "status", "id"}
  BY DEF Item

(* A call of runUpload as the fields it is made of.                          *)
LEMMA UploadFields ==
  ASSUME NEW u \in Upload
  PROVE  /\ u.photo \in Photos /\ u.attempt \in Nat /\ u.pixels \in Pixels
         /\ u.aborted \in BOOLEAN
  BY DEF Upload

(* Tokens are equal when the photos and the attempts are. *)
LEMMA SameToken ==
  ASSUME NEW a, NEW b
  PROVE  Token(a) = Token(b) <=> a.photo = b.photo /\ a.attempt = b.attempt
  BY DEF Token

LEMMA StatusSet ==
  ASSUME NEW x \in Item, NEW st \in Statuses, NEW y, y = [x EXCEPT !.status = st]
  PROVE  /\ y \in Item /\ y.photo = x.photo /\ y.attempt = x.attempt /\ y.pixels = x.pixels
         /\ y.status = st /\ y.id = x.id
  BY DEF Item

(* An item written with one new status, attempt or picture.                  *)
LEMMA EditFields ==
  ASSUME NEW x \in Item, NEW w \in Pixels, NEW y, y = Edited(x, w)
  PROVE  /\ y \in Item /\ y.photo = x.photo /\ y.attempt = x.attempt + 1
         /\ y.pixels = <<w[1], x.attempt + 1>> /\ y.status = "queued"
<1> DEFINE v == <<w[1], x.attempt + 1>>
<1>1. v \in Pixels /\ x.attempt + 1 \in Nat
  <2>1. w[1] \in Photos /\ x.attempt + 1 \in Nat
    BY DEF Pixels, Item
  <2> QED
    BY <2>1 DEF Pixels
<1>2. PICK n \in Nat : n = x.attempt + 1
  BY <1>1
<1>3. y = [[[x EXCEPT !.pixels = v, !.video = FALSE] EXCEPT !.attempt = n]
              EXCEPT !.status = "queued", !.id = NoPixels]
  BY <1>2 DEF Edited
<1> HIDE DEF v
<1>4. PICK a : a = [[x EXCEPT !.pixels = v] EXCEPT !.video = FALSE]
  OBVIOUS
<1>5. a \in Item /\ a.photo = x.photo /\ a.pixels = v
  BY <1>1, <1>4 DEF Item
<1>6. PICK b : b = [a EXCEPT !.attempt = n]
  OBVIOUS
<1>7. b \in Item /\ b.photo = x.photo /\ b.pixels = v /\ b.attempt = n
  BY <1>5, <1>6 DEF Item
<1>8. PICK c : c = [b EXCEPT !.status = "queued"]
  OBVIOUS
<1>9. c \in Item /\ c.photo = x.photo /\ c.pixels = v /\ c.attempt = n /\ c.status = "queued"
  BY <1>7, <1>8, StatusSet DEF Statuses
<1>10. y = [c EXCEPT !.id = NoPixels]
  BY <1>3, <1>4, <1>6, <1>8
<1>11. y \in Item /\ y.photo = x.photo /\ y.attempt = n /\ y.pixels = v /\ y.status = "queued"
  BY <1>9, <1>10 DEF Item
<1> QED
  BY <1>2, <1>11 DEF v

-----------------------------------------------------------------------------
(* The scheduler. *)

(* What the effect starts was queued. *)
LEMMA StartingQueued ==
  ASSUME NEW items, NEW i \in Starting(items)
  PROVE  i \in DOMAIN items /\ items[i].status = "queued"
  BY DEF Starting

(* After the effect the tray holds the items it was given; those that were   *)
(* started have an upload of their own, which is new.                        *)
RenderedFrom(items, running) ==
  /\ tray' \in Seq(Item) /\ DOMAIN tray' = DOMAIN items
  /\ \A i \in DOMAIN items :
       /\ tray'[i].photo = items[i].photo /\ tray'[i].attempt = items[i].attempt
       /\ tray'[i].pixels = items[i].pixels /\ tray'[i].id = items[i].id
       /\ \/ tray'[i].status = items[i].status
          \/ /\ items[i].status = "queued" /\ tray'[i].status = "uploading"
             /\ \E u \in uploads' : Token(tray'[i]) = Token(u) /\ ~ u.aborted
  /\ running \subseteq uploads' /\ uploads' \subseteq Upload
  /\ \A u \in uploads' \ running : \E i \in DOMAIN items :
       /\ tray'[i].status = "uploading"
       /\ u.photo = items[i].photo /\ u.attempt = items[i].attempt
       /\ u.pixels = items[i].pixels

(* What a render does to each item: a queued one starts.                     *)
LEMMA RenderedItems ==
  ASSUME NEW items, NEW running, NEW keys, KeyedTray(items, running, keys), Fresh(items, running),
         Render(items, running)
  PROVE  RenderedFrom(items, running)
<1> DEFINE S == Starting(items)
           up(i) == [photo |-> items[i].photo, attempt |-> items[i].attempt,
                     pixels |-> items[i].pixels, aborted |-> FALSE]
           F == {i \in S : \A u \in running : Token(u) # Token(items[i])}
<1>1. /\ tray' = [i \in DOMAIN items |->
                    IF i \in S THEN [items[i] EXCEPT !.status = "uploading"] ELSE items[i]]
      /\ uploads' = running \cup {up(i) : i \in F}
  BY DEF Render, Started
<1>2. \A i \in S : i \in DOMAIN items /\ items[i].status = "queued"
  BY StartingQueued
<1>3. items \in Seq(Item) /\ running \subseteq Upload /\ \A i \in DOMAIN items : items[i] \in Item
  BY DEF KeyedTray
<1>4. \A i \in S : i \in F
  <2> SUFFICES ASSUME NEW i \in S, NEW u \in running, Token(u) = Token(items[i])
               PROVE  FALSE
    OBVIOUS
  <2>1. u.photo = items[i].photo /\ u.attempt = items[i].attempt
    BY SameToken
  <2> QED
    BY <1>2, <2>1 DEF Fresh
<1>5. \A i \in DOMAIN items : up(i) \in Upload
  BY <1>3, ItemFields DEF Upload
<1> HIDE DEF S, F
<1>6. ASSUME NEW i \in DOMAIN items
      PROVE  /\ tray'[i] \in Item
             /\ tray'[i].photo = items[i].photo /\ tray'[i].attempt = items[i].attempt
             /\ tray'[i].pixels = items[i].pixels /\ tray'[i].id = items[i].id
             /\ \/ tray'[i].status = items[i].status
                \/ /\ items[i].status = "queued" /\ tray'[i].status = "uploading"
                   /\ \E u \in uploads' : Token(tray'[i]) = Token(u) /\ ~ u.aborted
             /\ i \in S => tray'[i].status = "uploading"
  <2>1. CASE i \notin S
    BY <1>1, <1>3, <2>1
  <2>2. CASE i \in S
    <3>1. tray'[i] = [items[i] EXCEPT !.status = "uploading"]
      BY <1>1, <2>2
    <3>2. /\ tray'[i] \in Item /\ tray'[i].photo = items[i].photo
          /\ tray'[i].attempt = items[i].attempt /\ tray'[i].status = "uploading"
          /\ tray'[i].pixels = items[i].pixels /\ tray'[i].id = items[i].id
      BY <1>3, <3>1, StatusSet DEF Statuses
    <3>3. up(i) \in uploads' /\ Token(tray'[i]) = Token(up(i)) /\ ~ up(i).aborted
      BY <1>1, <1>4, <2>2, <3>2 DEF Token
    <3> QED
      BY <1>2, <2>2, <3>2, <3>3
  <2> QED
    BY <2>1, <2>2
<1>7. tray' \in Seq(Item) /\ DOMAIN tray' = DOMAIN items
  <2>1. DOMAIN tray' = DOMAIN items /\ DOMAIN items = 1 .. Len(items) /\ Len(items) \in Nat
    BY <1>1, <1>3
  <2>2. tray' = [i \in 1 .. Len(items) |-> tray'[i]]
    BY <1>1, <2>1
  <2> QED
    BY <1>6, <2>1, <2>2
<1>8. ASSUME NEW u \in uploads' \ running
      PROVE  \E i \in DOMAIN items :
               /\ tray'[i].status = "uploading"
               /\ u.photo = items[i].photo /\ u.attempt = items[i].attempt
               /\ u.pixels = items[i].pixels
  <2>1. PICK i \in F : u = up(i)
    BY <1>1
  <2>2. i \in S
    BY <2>1 DEF F
  <2> QED
    BY <1>2, <1>6, <2>1, <2>2
<1>9. running \subseteq uploads' /\ uploads' \subseteq Upload
  <2>1. ASSUME NEW i \in F PROVE up(i) \in Upload
    BY <1>2, <1>5 DEF F
  <2> QED
    BY <1>1, <1>3, <2>1
<1> QED
  BY <1>6, <1>7, <1>8, <1>9 DEF RenderedFrom

(* The effect disturbs nothing the tray promises. *)
LEMMA RenderKeeps ==
  ASSUME NEW items, NEW running, Sane(items, running, picked'), Render(items, running)
  PROVE  /\ RenderedFrom(items, running)
         /\ Sane(tray, uploads, picked)'
         /\ Served(items, running) => Served(tray, uploads)'
         /\ OwnPixels(items) => OwnPixels(tray)'
<1> USE DEF Sane
<1>1. RenderedFrom(items, running)
  BY RenderedItems
<1>2. KeyedTray(tray, uploads, picked)'
  <2>1. tray' \in Seq(Item) /\ uploads' \subseteq Upload /\ picked' \subseteq Photos
    BY <1>1 DEF RenderedFrom, KeyedTray
  <2>2. \A i, j \in DOMAIN tray' : i # j => tray'[i].photo # tray'[j].photo
    BY <1>1 DEF RenderedFrom, KeyedTray
  <2>3. \A i \in DOMAIN tray' : tray'[i].photo \in picked'
    BY <1>1 DEF RenderedFrom, KeyedTray
  <2>4. \A u \in uploads' : u.photo \in picked'
    BY <1>1 DEF RenderedFrom, KeyedTray
  <2> QED
    BY <2>1, <2>2, <2>3, <2>4 DEF KeyedTray
<1>3. Fresh(tray, uploads)'
  <2> SUFFICES ASSUME NEW i \in DOMAIN tray', NEW u \in uploads', u.photo = tray'[i].photo
               PROVE  /\ u.attempt <= tray'[i].attempt
                      /\ u.attempt = tray'[i].attempt =>
                           u.pixels = tray'[i].pixels /\ tray'[i].status # "queued"
    BY DEF Fresh
  <2>1. /\ i \in DOMAIN items /\ tray'[i].photo = items[i].photo
        /\ tray'[i].attempt = items[i].attempt /\ tray'[i].pixels = items[i].pixels
        /\ tray'[i].status = items[i].status \/ tray'[i].status = "uploading"
        /\ items[i].attempt \in Nat
    BY <1>1, ItemFields DEF RenderedFrom, KeyedTray
  <2>2. CASE u \in running
    BY <2>1, <2>2 DEF Fresh
  <2>3. CASE u \notin running
    <3>1. PICK j \in DOMAIN items :
            /\ tray'[j].status = "uploading"
            /\ u.photo = items[j].photo /\ u.attempt = items[j].attempt
            /\ u.pixels = items[j].pixels
      BY <1>1, <2>3 DEF RenderedFrom
    <3>2. i = j
      BY <2>1, <3>1 DEF KeyedTray
    <3> QED
      BY <2>1, <3>1, <3>2
  <2> QED
    BY <2>2, <2>3
<1>4. OwnId(tray)'
  <2> SUFFICES ASSUME NEW i \in DOMAIN tray', tray'[i].status = "ready"
               PROVE  tray'[i].id = tray'[i].pixels
    BY DEF OwnId
  <2> QED
    BY <1>1 DEF RenderedFrom, OwnId
<1>5. ASSUME Served(items, running) PROVE Served(tray, uploads)'
  <2> SUFFICES ASSUME NEW i \in DOMAIN tray', tray'[i].status = "uploading"
               PROVE  \E u \in uploads' : Token(tray'[i]) = Token(u) /\ ~ u.aborted
    BY DEF Served
  <2>1. CASE tray'[i].status = items[i].status
    <3>1. i \in DOMAIN items /\ items[i].status = "uploading"
          /\ Token(tray'[i]) = Token(items[i])
      BY <1>1, <2>1, SameToken DEF RenderedFrom
    <3>2. PICK u \in running : Token(items[i]) = Token(u) /\ ~ u.aborted
      BY <1>5, <3>1 DEF Served
    <3> QED
      BY <1>1, <3>1, <3>2 DEF RenderedFrom
  <2>2. CASE tray'[i].status # items[i].status
    BY <1>1, <2>2 DEF RenderedFrom
  <2> QED
    BY <2>1, <2>2
<1>6. ASSUME OwnPixels(items) PROVE OwnPixels(tray)'
  BY <1>1, <1>6 DEF RenderedFrom, OwnPixels
<1> QED
  BY <1>1, <1>2, <1>3, <1>4, <1>5, <1>6

-----------------------------------------------------------------------------
(* Steps that change the tray. *)

(* The tray becomes `items` and the effect runs: what is to be shown of a    *)
(* step is about `items`.                                                    *)
LEMMA TrayStep ==
  ASSUME NEW items, NEW running, Sane(items, running, picked'), Render(items, running),
         EditorTypes(editor', items),
         ~ strayed' => /\ Served(items, running) /\ OwnPixels(items)
                       /\ EditorAt(editor', items) /\ PostsSound'
  PROVE  ComposerInv'
<1>1. /\ RenderedFrom(items, running) /\ Sane(tray, uploads, picked)'
      /\ Served(items, running) => Served(tray, uploads)'
      /\ OwnPixels(items) => OwnPixels(tray)'
  BY RenderKeeps
<1>2. EditorTypes(editor', tray')
  BY <1>1 DEF RenderedFrom, EditorTypes
<1>3. ASSUME EditorAt(editor', items) PROVE EditorAt(editor', tray')
  <2>1. ASSUME editor'.index # 0
        PROVE  /\ tray'[editor'.index].photo = items[editor'.index].photo
               /\ Token(tray'[editor'.index]) = Token(items[editor'.index])
    BY <1>1, <2>1 DEF RenderedFrom, EditorTypes, Token
  <2> QED
    BY <1>3, <2>1 DEF EditorAt
<1> QED
  BY <1>1, <1>2, <1>3 DEF ComposerInv

(* Types that the invariant holds. *)
LEMMA Typed ==
  ASSUME ComposerInv
  PROVE  /\ tray \in Seq(Item) /\ uploads \subseteq Upload /\ picked \subseteq Photos
         /\ \A i \in DOMAIN tray : tray[i] \in Item
         /\ DOMAIN tray = 1 .. Len(tray) /\ Len(tray) \in Nat
         /\ editor \in [index : Nat, work : Pixels \cup {NoPixels}, loads : BOOLEAN,
                        op : SUBSET Op]
  BY DEF ComposerInv, Sane, KeyedTray, EditorTypes

(* The result of an upload. *)
LEMMA UploadEndsInv ==
  ASSUME ComposerInv, NEW u \in uploads, NEW ok \in BOOLEAN, UploadEnds(u, ok)
  PROVE  ComposerInv'
<1> USE DEF Sane
<1>0. UNCHANGED <<editor, post, posts, picked, strayed>>
  BY DEF UploadEnds
<1>1. /\ Sane(tray, uploads, picked) /\ EditorTypes(editor, tray)
      /\ ~ strayed => /\ Served(tray, uploads) /\ OwnPixels(tray) /\ EditorAt(editor, tray)
                      /\ PostsSound
  BY DEF ComposerInv
<1>2. PostsSound => PostsSound'
  BY <1>0 DEF PostsSound
<1> DEFINE running == uploads \ {u}
<1>3. CASE u.aborted
  <2>1. Render(tray, running)
    BY <1>3 DEF UploadEnds
  <2>2. Sane(tray, running, picked')
    BY <1>0, <1>1 DEF KeyedTray, Fresh
  <2>3. Served(tray, uploads) => Served(tray, running)
    BY <1>3 DEF Served
  <2> QED
    BY <1>0, <1>1, <1>2, <2>1, <2>2, <2>3, TrayStep
<1>4. CASE ~ u.aborted
  <2> DEFINE st == IF ok THEN "ready" ELSE "failed"
             n == IF ok THEN u.pixels ELSE NoPixels
             items == Patched(tray, u, st, n)
  <2>1. Render(items, running)
    BY <1>4 DEF UploadEnds
  <2>2. u \in Upload /\ u.pixels \in Pixels
    BY Typed, UploadFields
  <2>3. st \in Statuses /\ n \in Pixels \cup {NoPixels}
    BY <2>2 DEF Statuses
  <2>4. /\ items = [i \in DOMAIN tray |-> IF Live(tray[i], u)
                       THEN [tray[i] EXCEPT !.status = st, !.id = n] ELSE tray[i]]
        /\ st = "ready" => n = u.pixels
        /\ st \notin {"queued", "uploading"}
    BY DEF Patched
  <2> HIDE DEF items, st, n, running
  <2>5. ASSUME NEW i \in DOMAIN tray
        PROVE  /\ items[i] \in Item
               /\ items[i].photo = tray[i].photo /\ items[i].attempt = tray[i].attempt
               /\ items[i].pixels = tray[i].pixels
               /\ Live(tray[i], u) => items[i].status = st /\ items[i].id = n
               /\ ~ Live(tray[i], u) => items[i] = tray[i]
    <3>1. CASE Live(tray[i], u)
      <4>1. items[i] = [tray[i] EXCEPT !.status = st, !.id = n] /\ tray[i] \in Item
        BY <2>4, <3>1, Typed
      <4>2. items[i] = [[tray[i] EXCEPT !.status = st] EXCEPT !.id = n]
        BY <4>1
      <4>3. PICK a : a = [tray[i] EXCEPT !.status = st]
        OBVIOUS
      <4>4. /\ a \in Item /\ a.photo = tray[i].photo /\ a.attempt = tray[i].attempt
            /\ a.pixels = tray[i].pixels /\ a.status = st
        BY <2>3, <4>1, <4>3, StatusSet
      <4>5. items[i] = [a EXCEPT !.id = n]
        BY <4>2, <4>3
      <4> QED
        BY <2>3, <3>1, <4>4, <4>5 DEF Item
    <3>2. CASE ~ Live(tray[i], u)
      BY <2>4, <3>2, Typed
    <3> QED
      BY <3>1, <3>2
  <2>6. DOMAIN items = DOMAIN tray /\ items \in Seq(Item)
    <3>1. DOMAIN items = DOMAIN tray /\ items = [i \in 1 .. Len(tray) |-> items[i]]
      BY <2>4, Typed
    <3> QED
      BY <2>5, <3>1, Typed
  <2>7. KeyedTray(items, running, picked')
    BY <1>0, <1>1, <2>5, <2>6 DEF KeyedTray, running
  <2>8. Fresh(items, running)
    <3> SUFFICES ASSUME NEW i \in DOMAIN items, NEW w \in running, w.photo = items[i].photo
                 PROVE  /\ w.attempt <= items[i].attempt
                        /\ w.attempt = items[i].attempt =>
                             w.pixels = items[i].pixels /\ items[i].status # "queued"
      BY DEF Fresh
    <3>1. /\ i \in DOMAIN tray /\ w \in uploads /\ w.photo = tray[i].photo
          /\ items[i].attempt = tray[i].attempt /\ items[i].pixels = tray[i].pixels
      BY <2>5, <2>6 DEF running
    <3>2. /\ w.attempt <= tray[i].attempt
          /\ w.attempt = tray[i].attempt => w.pixels = tray[i].pixels /\ tray[i].status # "queued"
      BY <1>1, <3>1 DEF Fresh
    <3>3. tray[i].status # "queued" => items[i].status # "queued"
      BY <2>4, <2>5, <3>1
    <3> QED
      BY <3>1, <3>2, <3>3
  <2>9. OwnId(items)
    <3> SUFFICES ASSUME NEW i \in DOMAIN items, items[i].status = "ready"
                 PROVE  items[i].id = items[i].pixels
      BY DEF OwnId
    <3>1. CASE Live(tray[i], u)
      <4>1. u.photo = tray[i].photo /\ u.attempt = tray[i].attempt
        BY <3>1, SameToken DEF Live
      <4>2. u.pixels = tray[i].pixels
        BY <1>1, <2>6, <4>1 DEF Fresh
      <4> QED
        BY <2>4, <2>5, <2>6, <3>1, <4>2
    <3>2. CASE ~ Live(tray[i], u)
      BY <1>1, <2>5, <2>6, <3>2 DEF OwnId
    <3> QED
      BY <3>1, <3>2
  <2>10. ASSUME Served(tray, uploads) PROVE Served(items, running)
    <3> SUFFICES ASSUME NEW i \in DOMAIN items, items[i].status = "uploading"
                 PROVE  \E w \in running : Token(items[i]) = Token(w) /\ ~ w.aborted
      BY DEF Served
    <3>1. ~ Live(tray[i], u) /\ items[i] = tray[i] /\ i \in DOMAIN tray
      BY <2>4, <2>5, <2>6
    <3>2. PICK w \in uploads : Token(tray[i]) = Token(w) /\ ~ w.aborted
      BY <2>10, <3>1 DEF Served
    <3>3. w # u
      BY <3>1, <3>2 DEF Live
    <3> QED
      BY <3>1, <3>2, <3>3 DEF running
  <2>11. OwnPixels(tray) => OwnPixels(items)
    BY <2>5, <2>6 DEF OwnPixels
  <2>12. EditorTypes(editor', items)
    BY <1>0, <1>1, <2>6 DEF EditorTypes
  <2>13. ASSUME EditorAt(editor, tray) PROVE EditorAt(editor', items)
    <3>1. ASSUME editor.index # 0
          PROVE  /\ items[editor.index].photo = tray[editor.index].photo
                 /\ Token(items[editor.index]) = Token(tray[editor.index])
      BY <1>1, <2>5, <3>1 DEF EditorTypes, Token
    <3> QED
      BY <1>0, <2>13, <3>1 DEF EditorAt
  <2> QED
    BY <1>0, <1>1, <1>2, <2>1, <2>7, <2>8, <2>9, <2>10, <2>11, <2>12, <2>13, TrayStep
<1> QED
  BY <1>3, <1>4

(* A tray whose items are items of the old one, each at most once.           *)
Rearranged(items) ==
  \E pi \in [DOMAIN items -> DOMAIN tray] :
    /\ \A i, j \in DOMAIN items : i # j => pi[i] # pi[j]
    /\ \A i \in DOMAIN items : items[i] = tray[pi[i]]

(* The calls that go on are the old ones, some of them aborted.              *)
SameCalls(running) ==
  /\ running \subseteq Upload
  /\ \A w \in running : \E u \in uploads :
       u.photo = w.photo /\ u.attempt = w.attempt /\ u.pixels = w.pixels

(* Aborting the calls of a token leaves the others as they were.             *)
LEMMA AbortedCalls ==
  ASSUME uploads \subseteq Upload, NEW t
  PROVE  /\ SameCalls(Aborted(uploads, t))
         /\ \A u \in uploads : Token(u) # t => u \in Aborted(uploads, t)
<1> DEFINE ab(u) == IF Token(u) = t THEN [u EXCEPT !.aborted = TRUE] ELSE u
<1>1. Aborted(uploads, t) = {ab(u) : u \in uploads}
  BY DEF Aborted
<1>2. ASSUME NEW u \in uploads
      PROVE  /\ ab(u) \in Upload /\ ab(u).photo = u.photo /\ ab(u).attempt = u.attempt
             /\ ab(u).pixels = u.pixels /\ (Token(u) # t => ab(u) = u)
  BY DEF Upload
<1> HIDE DEF ab
<1> QED
  BY <1>1, <1>2 DEF SameCalls

(* Moving and removing items, and aborting uploads, keeps the tray sane.     *)
LEMMA RearrangedSane ==
  ASSUME NEW items \in Seq(Item), NEW running, Sane(tray, uploads, picked),
         Rearranged(items), SameCalls(running)
  PROVE  /\ Sane(items, running, picked)
         /\ OwnPixels(tray) => OwnPixels(items)
<1>1. PICK pi \in [DOMAIN items -> DOMAIN tray] :
        /\ \A i, j \in DOMAIN items : i # j => pi[i] # pi[j]
        /\ \A i \in DOMAIN items : items[i] = tray[pi[i]]
  BY DEF Rearranged
<1>2. \A i \in DOMAIN items : pi[i] \in DOMAIN tray /\ items[i] = tray[pi[i]]
  BY <1>1
<1>3. KeyedTray(items, running, picked)
  <2>1. running \subseteq Upload /\ picked \subseteq Photos
    BY DEF Sane, KeyedTray, SameCalls
  <2>2. \A i, j \in DOMAIN items : i # j => items[i].photo # items[j].photo
    BY <1>1, <1>2 DEF Sane, KeyedTray
  <2>3. \A i \in DOMAIN items : items[i].photo \in picked
    BY <1>2 DEF Sane, KeyedTray
  <2>4. \A u \in running : u.photo \in picked
    BY DEF Sane, KeyedTray, SameCalls
  <2> QED
    BY <2>1, <2>2, <2>3, <2>4 DEF KeyedTray
<1>4. Fresh(items, running)
  <2> SUFFICES ASSUME NEW i \in DOMAIN items, NEW w \in running, w.photo = items[i].photo
               PROVE  /\ w.attempt <= items[i].attempt
                      /\ w.attempt = items[i].attempt =>
                           w.pixels = items[i].pixels /\ items[i].status # "queued"
    BY DEF Fresh
  <2>1. PICK u \in uploads : u.photo = w.photo /\ u.attempt = w.attempt /\ u.pixels = w.pixels
    BY DEF SameCalls
  <2> QED
    BY <1>2, <2>1 DEF Sane, Fresh
<1>5. OwnId(items)
  BY <1>2 DEF Sane, OwnId
<1>6. OwnPixels(tray) => OwnPixels(items)
  BY <1>2 DEF OwnPixels
<1> QED
  BY <1>3, <1>4, <1>5, <1>6 DEF Sane

(* Dragging an item to another place.                                        *)
LEMMA MoveInv ==
  ASSUME ComposerInv, NEW i \in Nat, Move(i)
  PROVE  ComposerInv'
<1>1. PICK n \in Nat : n = Len(tray) /\ DOMAIN tray = 1 .. n /\ i \in 1 .. n - 1
  BY Typed DEF Move
<1>2. /\ i \in DOMAIN tray /\ i + 1 \in DOMAIN tray /\ tray \in Seq(Item)
      /\ tray[i] \in Item /\ tray[i + 1] \in Item
  BY <1>1, Typed
<1>3. PICK k \in DOMAIN tray : k = i + 1 /\ k # i
  BY <1>1, <1>2
<1> DEFINE items == [[tray EXCEPT ![i] = tray[k]] EXCEPT ![k] = tray[i]]
<1>4. Render(items, uploads)
  BY <1>3 DEF Move
<1>5. /\ editor.index = 0 /\ strayed' = (strayed \/ editor.op # {})
      /\ UNCHANGED <<editor, post, posts, picked>>
  BY DEF Move
<1>6. /\ items \in Seq(Item) /\ DOMAIN items = DOMAIN tray
      /\ items[i] = tray[k] /\ items[k] = tray[i]
      /\ \A j \in DOMAIN tray : j # i /\ j # k => items[j] = tray[j]
  BY <1>2, <1>3
<1> HIDE DEF items
<1>7. Rearranged(items)
  <2> DEFINE pi == [j \in DOMAIN items |-> IF j = i THEN k ELSE IF j = k THEN i ELSE j]
  <2>1. pi \in [DOMAIN items -> DOMAIN tray]
    BY <1>2, <1>3, <1>6
  <2>2. \A a, b \in DOMAIN items : a # b => pi[a] # pi[b]
    BY <1>3
  <2>3. \A a \in DOMAIN items : items[a] = tray[pi[a]]
    BY <1>6
  <2> HIDE DEF pi
  <2> QED
    BY <2>1, <2>2, <2>3 DEF Rearranged
<1>8. SameCalls(uploads)
  BY Typed DEF SameCalls
<1>9. Sane(items, uploads, picked') /\ (OwnPixels(tray) => OwnPixels(items))
  BY <1>5, <1>6, <1>7, <1>8, RearrangedSane DEF ComposerInv
<1>10. EditorTypes(editor', items)
  BY <1>5 DEF ComposerInv, EditorTypes
<1>11. ASSUME ~ strayed'
       PROVE  /\ Served(items, uploads) /\ OwnPixels(items)
              /\ EditorAt(editor', items) /\ PostsSound'
  <2>1. ~ strayed /\ editor.op = {}
    BY <1>5, <1>11
  <2>2. Served(tray, uploads) /\ OwnPixels(tray) /\ EditorAt(editor, tray) /\ PostsSound
    BY <2>1 DEF ComposerInv
  <2>3. Served(items, uploads)
    BY <1>2, <1>3, <1>6, <2>2 DEF Served
  <2>4. EditorAt(editor', items) /\ PostsSound'
    BY <1>5, <2>1, <2>2 DEF EditorAt, PostsSound
  <2> QED
    BY <1>9, <2>2, <2>3, <2>4
<1> QED
  BY <1>4, <1>9, <1>10, <1>11, TrayStep

(* Removing an item, which aborts its upload.                                *)
LEMMA TakeOutInv ==
  ASSUME ComposerInv, NEW i \in Nat, TakeOut(i)
  PROVE  ComposerInv'
<1> DEFINE items == RemoveAt(tray, i)
           running == Aborted(uploads, Token(tray[i]))
<1>1. PICK n \in Nat : n = Len(tray) /\ DOMAIN tray = 1 .. n /\ i \in 1 .. n
  BY Typed DEF TakeOut
<1>2. /\ Render(items, running) /\ editor.index = 0 /\ strayed' = (strayed \/ editor.op # {})
      /\ UNCHANGED <<editor, post, posts, picked>>
  BY DEF TakeOut
<1>3. /\ items \in Seq(Item) /\ Len(items) = n - 1
      /\ \A j \in 1 .. i - 1 : items[j] = tray[j]
      /\ \A j \in i .. n - 1 : items[j] = tray[j + 1]
  BY <1>1, Typed, Gone
<1>4. SameCalls(running) /\ \A u \in uploads : Token(u) # Token(tray[i]) => u \in running
  BY Typed, AbortedCalls
<1> HIDE DEF items, running
<1>5. DOMAIN items = 1 .. n - 1
  BY <1>3
<1> DEFINE pi == [j \in 1 .. n - 1 |-> IF j < i THEN j ELSE j + 1]
<1>6. /\ pi \in [DOMAIN items -> DOMAIN tray]
      /\ \A a, b \in DOMAIN items : a # b => pi[a] # pi[b]
      /\ \A a \in DOMAIN items : pi[a] # i
  BY <1>1, <1>5
<1>7. \A a \in DOMAIN items : items[a] = tray[pi[a]]
  BY <1>1, <1>3, <1>5
<1> HIDE DEF pi
<1>8. Rearranged(items)
  BY <1>6, <1>7 DEF Rearranged
<1>9. Sane(items, running, picked') /\ (OwnPixels(tray) => OwnPixels(items))
  BY <1>2, <1>3, <1>4, <1>8, RearrangedSane DEF ComposerInv
<1>10. EditorTypes(editor', items)
  BY <1>2 DEF ComposerInv, EditorTypes
<1>11. ASSUME ~ strayed'
       PROVE  /\ Served(items, running) /\ OwnPixels(items)
              /\ EditorAt(editor', items) /\ PostsSound'
  <2>1. ~ strayed /\ editor.op = {}
    BY <1>2, <1>11
  <2>2. Served(tray, uploads) /\ OwnPixels(tray) /\ EditorAt(editor, tray) /\ PostsSound
    BY <2>1 DEF ComposerInv
  <2>3. ASSUME NEW a \in DOMAIN items, items[a].status = "uploading"
        PROVE  \E u \in running : Token(items[a]) = Token(u) /\ ~ u.aborted
    <3>1. items[a] = tray[pi[a]] /\ pi[a] \in DOMAIN tray /\ pi[a] # i
      BY <1>6, <1>7
    <3>2. PICK u \in uploads : Token(items[a]) = Token(u) /\ ~ u.aborted
      BY <2>2, <2>3, <3>1 DEF Served
    <3>3. tray[pi[a]].photo # tray[i].photo
      BY <1>1, <3>1 DEF ComposerInv, Sane, KeyedTray
    <3>4. Token(u) # Token(tray[i])
      BY <3>1, <3>2, <3>3, SameToken
    <3> QED
      BY <1>4, <3>2, <3>4
  <2>4. EditorAt(editor', items) /\ PostsSound'
    BY <1>2, <2>1, <2>2 DEF EditorAt, PostsSound
  <2> QED
    BY <1>9, <2>2, <2>3, <2>4 DEF Served
<1> QED
  BY <1>2, <1>9, <1>10, <1>11, TrayStep

(* A photo that is picked has no uploads yet. *)
LEMMA PickInv ==
  ASSUME ComposerInv, NEW p \in Photos, Pick(p)
  PROVE  ComposerInv'
<1> DEFINE x == [photo |-> p, attempt |-> 0, pixels |-> <<p, 0>>,
                 video |-> p \in Videos, status |-> "queued", id |-> NoPixels]
           items == Append(tray, x)
<1>1. /\ Render(items, uploads) /\ editor.index = 0 /\ p \notin picked
      /\ picked' = picked \cup {p} /\ UNCHANGED <<editor, post, posts, strayed>>
  BY DEF Pick
<1>2. PICK n \in Nat : n = Len(tray) /\ DOMAIN tray = 1 .. n
  BY Typed
<1>3. /\ x \in Item /\ x.photo = p /\ x.status = "queued" /\ x.attempt = 0
      /\ x.pixels = <<p, 0>> /\ x.pixels[1] = p
  BY DEF Item, Pixels, Statuses
<1> HIDE DEF x
<1>4. /\ items \in Seq(Item) /\ DOMAIN items = 1 .. n + 1
      /\ \A j \in 1 .. n : items[j] = tray[j]
      /\ items[n + 1] = x
  BY <1>2, <1>3, Typed
<1> HIDE DEF items
<1>5. /\ KeyedTray(tray, uploads, picked) /\ Fresh(tray, uploads) /\ OwnId(tray)
  BY DEF ComposerInv, Sane
<1>6. ASSUME NEW i \in DOMAIN items
      PROVE  (i \in DOMAIN tray /\ items[i] = tray[i]) \/ (i = n + 1 /\ items[i] = x)
  <2>1. i = n + 1 \/ i \in 1 .. n
    BY <1>2, <1>4
  <2> QED
    BY <1>2, <1>4, <2>1
<1>7. KeyedTray(items, uploads, picked')
  <2>1. picked' \subseteq Photos /\ uploads \subseteq Upload
    BY <1>1, <1>5 DEF KeyedTray
  <2>2. ASSUME NEW i \in DOMAIN items, NEW j \in DOMAIN items, i # j
        PROVE  items[i].photo # items[j].photo
    BY <1>1, <1>3, <1>5, <1>6, <2>2 DEF KeyedTray
  <2>3. \A i \in DOMAIN items : items[i].photo \in picked'
    BY <1>1, <1>3, <1>5, <1>6 DEF KeyedTray
  <2>4. \A u \in uploads : u.photo \in picked'
    BY <1>1, <1>5 DEF KeyedTray
  <2> QED
    BY <1>4, <2>1, <2>2, <2>3, <2>4 DEF KeyedTray
<1>8. Fresh(items, uploads)
  <2> SUFFICES ASSUME NEW i \in DOMAIN items, NEW w \in uploads, w.photo = items[i].photo
               PROVE  /\ w.attempt <= items[i].attempt
                      /\ w.attempt = items[i].attempt =>
                           w.pixels = items[i].pixels /\ items[i].status # "queued"
    BY DEF Fresh
  <2>1. w.photo # p
    BY <1>1, <1>5 DEF KeyedTray
  <2>2. i \in DOMAIN tray /\ items[i] = tray[i]
    BY <1>3, <1>6, <2>1
  <2> QED
    BY <1>5, <2>2 DEF Fresh
<1>9. OwnId(items)
  BY <1>3, <1>5, <1>6 DEF OwnId
<1>10. EditorTypes(editor', items)
  BY <1>1 DEF ComposerInv, EditorTypes
<1>11. ASSUME ~ strayed'
       PROVE  /\ Served(items, uploads) /\ OwnPixels(items)
              /\ EditorAt(editor', items) /\ PostsSound'
  <2>1. Served(tray, uploads) /\ OwnPixels(tray) /\ EditorAt(editor, tray) /\ PostsSound
    BY <1>1, <1>11 DEF ComposerInv
  <2>2. Served(items, uploads)
    BY <1>3, <1>6, <2>1 DEF Served
  <2>3. OwnPixels(items)
    BY <1>3, <1>6, <2>1 DEF OwnPixels
  <2>4. EditorAt(editor', items) /\ PostsSound'
    BY <1>1, <2>1 DEF EditorAt, PostsSound
  <2> QED
    BY <2>2, <2>3, <2>4
<1> QED
  BY <1>1, <1>7, <1>8, <1>9, <1>10, <1>11, TrayStep DEF Sane

(* An item of the tray gets its next attempt, which no upload has.           *)
LEMMA NextAttempt ==
  ASSUME ComposerInv, NEW k \in DOMAIN tray, NEW y \in Item, NEW running, NEW items,
         y.photo = tray[k].photo, y.attempt = tray[k].attempt + 1, y.status = "queued",
         items = [tray EXCEPT ![k] = y], SameCalls(running)
  PROVE  /\ items \in Seq(Item) /\ DOMAIN items = DOMAIN tray
         /\ items[k] = y /\ \A i \in DOMAIN tray : i # k => items[i] = tray[i]
         /\ Sane(items, running, picked)
<1>1. /\ items \in Seq(Item) /\ DOMAIN items = DOMAIN tray
      /\ items[k] = y /\ \A i \in DOMAIN tray : i # k => items[i] = tray[i]
  BY Typed
<1>2. KeyedTray(tray, uploads, picked) /\ Fresh(tray, uploads) /\ OwnId(tray)
  BY DEF ComposerInv, Sane
<1>3. \A i \in DOMAIN items : items[i].photo = tray[i].photo
  BY <1>1
<1>4. KeyedTray(items, running, picked)
  <2>1. running \subseteq Upload /\ picked \subseteq Photos
    BY <1>2 DEF KeyedTray, SameCalls
  <2>2. \A i, j \in DOMAIN items : i # j => items[i].photo # items[j].photo
    BY <1>1, <1>2, <1>3 DEF KeyedTray
  <2>3. \A i \in DOMAIN items : items[i].photo \in picked
    BY <1>1, <1>2, <1>3 DEF KeyedTray
  <2>4. \A u \in running : u.photo \in picked
    BY <1>2 DEF KeyedTray, SameCalls
  <2> QED
    BY <1>1, <2>1, <2>2, <2>3, <2>4 DEF KeyedTray
<1>5. Fresh(items, running)
  <2> SUFFICES ASSUME NEW i \in DOMAIN items, NEW w \in running, w.photo = items[i].photo
               PROVE  /\ w.attempt <= items[i].attempt
                      /\ w.attempt = items[i].attempt =>
                           w.pixels = items[i].pixels /\ items[i].status # "queued"
    BY DEF Fresh
  <2>1. PICK u \in uploads : u.photo = w.photo /\ u.attempt = w.attempt /\ u.pixels = w.pixels
    BY DEF SameCalls
  <2>2. /\ i \in DOMAIN tray /\ u.photo = tray[i].photo
        /\ u.attempt \in Nat /\ tray[i].attempt \in Nat
    BY <1>1, <1>3, <2>1, Typed, UploadFields, ItemFields
  <2>3. /\ u.attempt <= tray[i].attempt
        /\ u.attempt = tray[i].attempt =>
             u.pixels = tray[i].pixels /\ tray[i].status # "queued"
    BY <1>2, <2>2 DEF Fresh
  <2>4. CASE i = k
    BY <1>1, <2>1, <2>2, <2>3, <2>4
  <2>5. CASE i # k
    BY <1>1, <2>1, <2>2, <2>3, <2>5
  <2> QED
    BY <2>4, <2>5
<1>6. OwnId(items)
  BY <1>1, <1>2 DEF OwnId
<1> QED
  BY <1>1, <1>4, <1>5, <1>6 DEF Sane

(* Retrying a failed upload gives the item a new attempt.                    *)
LEMMA RetryInv ==
  ASSUME ComposerInv, NEW i \in Nat, Retry(i)
  PROVE  ComposerInv'
<1>1. /\ i \in DOMAIN tray /\ editor.index = 0 /\ tray[i] \in Item
      /\ UNCHANGED <<editor, post, posts, picked, strayed>>
  BY Typed DEF Retry
<1>2. tray[i].attempt \in Nat
  BY <1>1, ItemFields
<1>3. PICK a : a = [tray[i] EXCEPT !.status = "queued"]
  OBVIOUS
<1>4. /\ a \in Item /\ a.photo = tray[i].photo /\ a.attempt = tray[i].attempt
      /\ a.pixels = tray[i].pixels /\ a.status = "queued"
  BY <1>1, <1>3, StatusSet DEF Statuses
<1>5. PICK y : y = [a EXCEPT !.attempt = tray[i].attempt + 1]
  OBVIOUS
<1>6. /\ y \in Item /\ y.photo = tray[i].photo /\ y.attempt = tray[i].attempt + 1
      /\ y.pixels = tray[i].pixels /\ y.status = "queued"
  BY <1>2, <1>4, <1>5 DEF Item
<1>7. PICK items : items = [tray EXCEPT ![i] = y]
  OBVIOUS
<1>8. Render(items, uploads)
  <2>1. [tray EXCEPT ![i].status = "queued", ![i].attempt = @ + 1]
          = [tray EXCEPT ![i] = [a EXCEPT !.attempt = a.attempt + 1]]
    BY <1>1, <1>3, Typed
  <2>2. items = [tray EXCEPT ![i].status = "queued", ![i].attempt = @ + 1]
    BY <1>4, <1>5, <1>7, <2>1
  <2> QED
    BY <2>2 DEF Retry
<1>9. SameCalls(uploads)
  BY Typed DEF SameCalls
<1>10. /\ items \in Seq(Item) /\ DOMAIN items = DOMAIN tray
       /\ items[i] = y /\ \A j \in DOMAIN tray : j # i => items[j] = tray[j]
       /\ Sane(items, uploads, picked')
  BY <1>1, <1>6, <1>7, <1>9, NextAttempt
<1>11. EditorTypes(editor', items)
  BY <1>1 DEF ComposerInv, EditorTypes
<1>12. ASSUME ~ strayed'
       PROVE  /\ Served(items, uploads) /\ OwnPixels(items)
              /\ EditorAt(editor', items) /\ PostsSound'
  <2>1. Served(tray, uploads) /\ OwnPixels(tray) /\ EditorAt(editor, tray) /\ PostsSound
    BY <1>1, <1>12 DEF ComposerInv
  <2>2. Served(items, uploads)
    BY <1>6, <1>10, <2>1 DEF Served
  <2>3. OwnPixels(items)
    BY <1>1, <1>6, <1>10, <2>1 DEF OwnPixels
  <2>4. EditorAt(editor', items) /\ PostsSound'
    BY <1>1, <2>1 DEF EditorAt, PostsSound
  <2> QED
    BY <2>2, <2>3, <2>4
<1> QED
  BY <1>8, <1>10, <1>11, <1>12, TrayStep

(* The edit that is done replaces the item at the index of the press and     *)
(* aborts the upload of the press.                                           *)
LEMMA DoneInv ==
  ASSUME ComposerInv, Done
  PROVE  ComposerInv'
<1>1. PICK o \in editor.op :
        Render(IF o.index \in DOMAIN tray
               THEN [tray EXCEPT ![o.index] = Edited(@, o.work)] ELSE tray,
               Aborted(uploads, o.token))
  BY DEF Done
<1>2. editor' = NoEditor /\ UNCHANGED <<post, posts, picked, strayed>>
  BY DEF Done
<1>3. o \in Op /\ o.work \in Pixels /\ o.work[1] \in Photos
  <2>1. o \in Op
    BY Typed
  <2> QED
    BY <2>1 DEF Op, Pixels
<1> DEFINE running == Aborted(uploads, o.token)
<1>4. SameCalls(running) /\ \A u \in uploads : Token(u) # o.token => u \in running
  BY Typed, AbortedCalls
<1> HIDE DEF running
<1>5. \A items : EditorTypes(editor', items) /\ EditorAt(editor', items)
  BY <1>2 DEF EditorTypes, EditorAt, NoEditor
<1>6. PostsSound => PostsSound'
  BY <1>2 DEF PostsSound
<1>7. CASE o.index \notin DOMAIN tray
  <2>1. Render(tray, running)
    BY <1>1, <1>7 DEF running
  <2>2. Rearranged(tray)
    <3> DEFINE pi == [i \in DOMAIN tray |-> i]
    <3>1. /\ pi \in [DOMAIN tray -> DOMAIN tray]
          /\ \A i, j \in DOMAIN tray : i # j => pi[i] # pi[j]
          /\ \A i \in DOMAIN tray : tray[i] = tray[pi[i]]
      OBVIOUS
    <3> HIDE DEF pi
    <3> QED
      BY <3>1 DEF Rearranged
  <2>3. Sane(tray, running, picked')
    BY <1>2, <1>4, <2>2, Typed, RearrangedSane DEF ComposerInv
  <2>4. strayed'
    <3> SUFFICES ASSUME ~ strayed PROVE FALSE
      BY <1>2
    <3> QED
      BY <1>1, <1>7 DEF ComposerInv, EditorAt, EditorTypes
  <2> QED
    BY <1>5, <2>1, <2>3, <2>4, TrayStep
<1>8. CASE o.index \in DOMAIN tray
  <2>0. PICK k \in DOMAIN tray : k = o.index /\ tray[k] \in Item
    BY <1>8, Typed
  <2>1. PICK y : y = Edited(tray[k], o.work)
    OBVIOUS
  <2>2. /\ y \in Item /\ y.photo = tray[k].photo /\ y.attempt = tray[k].attempt + 1
        /\ y.pixels = <<o.work[1], tray[k].attempt + 1>> /\ y.status = "queued"
    BY <1>3, <2>0, <2>1, EditFields
  <2>3. PICK items : items = [tray EXCEPT ![k] = y]
    OBVIOUS
  <2>4. Render(items, running)
    BY <1>1, <2>0, <2>1, <2>3 DEF running
  <2>5. /\ items \in Seq(Item) /\ DOMAIN items = DOMAIN tray
        /\ items[k] = y /\ \A j \in DOMAIN tray : j # k => items[j] = tray[j]
        /\ Sane(items, running, picked')
    <3>1. Sane(items, running, picked)
      BY <1>4, <2>2, <2>3, NextAttempt
    <3> QED
      BY <1>2, <2>2, <2>3, <3>1, Typed
  <2>6. ASSUME ~ strayed'
        PROVE  Served(items, running) /\ OwnPixels(items) /\ PostsSound'
    <3>1. Served(tray, uploads) /\ OwnPixels(tray) /\ EditorAt(editor, tray) /\ PostsSound
      BY <1>2, <2>6 DEF ComposerInv
    <3>2. o.token = Token(tray[k]) /\ o.work[1] = tray[k].photo
      BY <1>1, <2>0, <3>1 DEF EditorAt
    <3>3. ASSUME NEW i \in DOMAIN items, items[i].status = "uploading"
          PROVE  \E u \in running : Token(items[i]) = Token(u) /\ ~ u.aborted
      <4>1. i # k /\ i \in DOMAIN tray /\ items[i] = tray[i]
        BY <2>2, <2>5, <3>3
      <4>2. PICK u \in uploads : Token(items[i]) = Token(u) /\ ~ u.aborted
        BY <3>1, <3>3, <4>1 DEF Served
      <4>3. items[i].photo # tray[k].photo
        BY <4>1 DEF ComposerInv, Sane, KeyedTray
      <4>4. Token(u) # o.token
        BY <3>2, <4>2, <4>3, SameToken
      <4> QED
        BY <1>4, <4>2, <4>4
    <3>4. OwnPixels(items)
      BY <2>2, <2>5, <3>1, <3>2 DEF OwnPixels
    <3> QED
      BY <1>6, <3>1, <3>3, <3>4 DEF Served
  <2> QED
    BY <1>5, <2>4, <2>5, <2>6, TrayStep
<1> QED
  BY <1>7, <1>8

-----------------------------------------------------------------------------
(* Steps that leave the tray alone. *)

(* A step of the editor alone leaves the tray sane.                          *)
LEMMA EditorStep ==
  ASSUME ComposerInv, UNCHANGED <<tray, uploads, picked>>, EditorTypes(editor', tray),
         ~ strayed' => ~ strayed /\ EditorAt(editor', tray) /\ PostsSound'
  PROVE  ComposerInv'
BY DEF ComposerInv, Sane, KeyedTray, Fresh, OwnId, Served, OwnPixels

(* A copy of the editor with other fields. *)
LEMMA EditorFields ==
  ASSUME ComposerInv
  PROVE  /\ editor.index \in Nat /\ editor.work \in Pixels \cup {NoPixels}
         /\ editor.loads \in BOOLEAN /\ editor.op \subseteq Op
         /\ editor.index # 0 => editor.index \in DOMAIN tray /\ tray[editor.index] \in Item
         /\ editor.loads => editor.index # 0
  BY Typed DEF ComposerInv, EditorTypes

(* Opening, turning and leaving the editor.                                  *)
LEMMA EditorMoves ==
  ASSUME ComposerInv, EditorLoads \/ Cancel \/ Press("turn") \/ Press("done") \/ ImageTurned
                        \/ \E i \in Nat : Open(i)
  PROVE  ComposerInv'
<1>0. /\ EditorTypes(editor, tray)
      /\ ~ strayed => EditorAt(editor, tray) /\ OwnPixels(tray) /\ PostsSound
  BY DEF ComposerInv
<1>1. ASSUME UNCHANGED <<post, posts>>, PostsSound PROVE PostsSound'
  BY <1>1 DEF PostsSound
<1>2. ASSUME NEW i \in Nat, Open(i) PROVE ComposerInv'
  <2>1. /\ editor.index = 0 /\ i \in DOMAIN tray /\ i # 0
        /\ editor' = [editor EXCEPT !.index = i, !.loads = TRUE]
        /\ UNCHANGED <<tray, uploads, post, posts, picked, strayed>>
    <3>1. i \in DOMAIN tray
      BY <1>2 DEF Open
    <3>2. i # 0
      BY <3>1, Typed
    <3> QED
      BY <1>2, <3>1, <3>2 DEF Open
  <2>2. /\ editor' \in [index : Nat, work : Pixels \cup {NoPixels}, loads : BOOLEAN,
                        op : SUBSET Op]
        /\ editor'.index = i /\ editor'.work = editor.work /\ editor'.op = editor.op
    BY <2>1, Typed
  <2> QED
    BY <1>0, <1>1, <2>1, <2>2, EditorStep DEF EditorTypes, EditorAt
<1>3. ASSUME EditorLoads PROVE ComposerInv'
  <2>1. /\ editor.loads /\ UNCHANGED <<tray, uploads, post, posts, picked, strayed>>
        /\ editor' = [editor EXCEPT !.loads = FALSE, !.work = tray[editor.index].pixels]
    BY <1>3 DEF EditorLoads
  <2>2. /\ editor.index # 0 /\ editor.index \in DOMAIN tray
        /\ tray[editor.index].pixels \in Pixels
    BY <2>1, EditorFields, ItemFields
  <2>3. /\ editor' \in [index : Nat, work : Pixels \cup {NoPixels}, loads : BOOLEAN,
                        op : SUBSET Op]
        /\ editor'.index = editor.index /\ editor'.work = tray[editor.index].pixels
        /\ editor'.op = editor.op /\ editor'.loads = FALSE
    BY <2>1, <2>2, Typed
  <2>4. EditorTypes(editor', tray)
    BY <2>2, <2>3 DEF EditorTypes
  <2>5. ~ strayed => EditorAt(editor', tray)
    BY <1>0, <2>2, <2>3 DEF EditorAt, OwnPixels
  <2> QED
    BY <1>0, <1>1, <2>1, <2>4, <2>5, EditorStep
<1>4. ASSUME Cancel PROVE ComposerInv'
  <2>1. /\ editor' = [NoEditor EXCEPT !.op = editor.op]
        /\ strayed' = (strayed \/ editor.op # {})
        /\ UNCHANGED <<tray, uploads, post, posts, picked>>
    BY <1>4 DEF Cancel
  <2>2. editor' = [index |-> 0, work |-> NoPixels, loads |-> FALSE, op |-> editor.op]
    BY <2>1 DEF NoEditor
  <2>3. EditorTypes(editor', tray)
    BY <2>2, EditorFields DEF EditorTypes
  <2>4. ~ strayed' => ~ strayed /\ EditorAt(editor', tray)
    <3>1. ~ strayed' => ~ strayed /\ editor.op = {}
      BY <2>1, Zenon
    <3>2. editor.op = {} => EditorAt(editor', tray)
      BY <2>2 DEF EditorAt
    <3> QED
      BY <3>1, <3>2
  <2> QED
    BY <1>0, <1>1, <2>1, <2>3, <2>4, EditorStep
<1>5. ASSUME NEW kind \in {"turn", "done"}, Press(kind) PROVE ComposerInv'
  <2> DEFINE o == [kind |-> kind, index |-> editor.index, work |-> editor.work,
                   token |-> Token(tray[editor.index])]
  <2>1. /\ editor.index # 0 /\ editor.work # NoPixels /\ editor.op = {}
        /\ editor' = [editor EXCEPT !.op = {o}]
        /\ UNCHANGED <<tray, uploads, post, posts, picked, strayed>>
    BY <1>5 DEF Press
  <2>2. Token(tray[editor.index]) \in Photos \X Nat
    BY <2>1, EditorFields, ItemFields DEF Token
  <2>3. /\ o \in Op /\ o.index = editor.index /\ o.work = editor.work
        /\ o.token = Token(tray[editor.index])
    BY <2>1, <2>2, EditorFields DEF Op
  <2> HIDE DEF o
  <2>4. /\ editor' \in [index : Nat, work : Pixels \cup {NoPixels}, loads : BOOLEAN,
                        op : SUBSET Op]
        /\ editor'.index = editor.index /\ editor'.work = editor.work
        /\ editor'.op = {o} /\ editor'.loads = editor.loads
    BY <2>1, <2>3, Typed
  <2>5. EditorTypes(editor', tray)
    BY <1>0, <2>4 DEF EditorTypes
  <2>6. ~ strayed => EditorAt(editor', tray)
    BY <1>0, <2>1, <2>3, <2>4 DEF EditorAt
  <2> QED
    BY <1>0, <1>1, <2>1, <2>5, <2>6, EditorStep
<1>6. ASSUME ImageTurned PROVE ComposerInv'
  <2>1. PICK o \in editor.op : \E ok \in BOOLEAN :
          editor' = [editor EXCEPT !.op = {}, !.work = IF ok THEN o.work ELSE @]
    BY <1>6 DEF ImageTurned
  <2>2. UNCHANGED <<tray, uploads, post, posts, picked, strayed>>
    BY <1>6 DEF ImageTurned
  <2>3. o.work \in Pixels
    BY EditorFields DEF Op
  <2>4. PICK w \in {o.work, editor.work} : editor' = [editor EXCEPT !.op = {}, !.work = w]
    BY <2>1
  <2>5. /\ editor' \in [index : Nat, work : Pixels \cup {NoPixels}, loads : BOOLEAN,
                        op : SUBSET Op]
        /\ editor'.index = editor.index /\ editor'.work = w
        /\ editor'.op = {} /\ editor'.loads = editor.loads
    BY <2>3, <2>4, Typed
  <2>6. EditorTypes(editor', tray)
    BY <1>0, <2>5 DEF EditorTypes
  <2>7. ~ strayed => EditorAt(editor', tray)
    BY <1>0, <2>5 DEF EditorAt
  <2> QED
    BY <1>0, <1>1, <2>2, <2>6, <2>7, EditorStep
<1> QED
  BY <1>2, <1>3, <1>4, <1>5, <1>6

-----------------------------------------------------------------------------
(* The post. *)

(* What a settled tray without failures is posted as. *)
LEMMA Gathered ==
  ASSUME ComposerInv, ~ strayed, NEW attach, Gather(attach, tray),
         \A i \in DOMAIN tray : Settled(tray[i])
  PROVE  post'.step \in {"market", "publish", "order"} => OfMany(post'.ids)
<1>1. /\ Sane(tray, uploads, picked) /\ OwnPixels(tray)
  BY DEF ComposerInv
<1>2. SUFFICES ASSUME post'.step \in {"market", "publish", "order"} PROVE OfMany(post'.ids)
  OBVIOUS
<1>3. /\ post'.ids = Ids(tray) /\ \A i \in DOMAIN tray : tray[i].status # "failed"
  <2>1. CASE \E i \in DOMAIN tray : tray[i].status = "failed"
    BY <1>2, <2>1 DEF Gather, Unsent
  <2>2. CASE ~ \E i \in DOMAIN tray : tray[i].status = "failed"
    BY <2>2 DEF Gather
  <2> QED
    BY <2>1, <2>2
<1>4. ASSUME NEW i \in DOMAIN tray
      PROVE  Ids(tray)[i] \in Pixels /\ Ids(tray)[i][1] = tray[i].photo
  <2>1. tray[i].status = "ready"
    BY <1>3 DEF Settled
  <2>2. tray[i].id = tray[i].pixels /\ tray[i].pixels[1] = tray[i].photo
    BY <1>1, <2>1 DEF Sane, OwnId, OwnPixels
  <2>3. tray[i].pixels \in Pixels
    BY Typed, ItemFields
  <2> QED
    BY <2>2, <2>3 DEF Ids
<1>5. DOMAIN Ids(tray) = DOMAIN tray /\ Ids(tray) \in Seq(Pixels)
  <2>1. /\ DOMAIN Ids(tray) = DOMAIN tray
        /\ Ids(tray) = [i \in 1 .. Len(tray) |-> Ids(tray)[i]]
    BY Typed DEF Ids
  <2> QED
    BY <1>4, <2>1, Typed
<1>6. \A i, j \in DOMAIN tray : i # j => Ids(tray)[i][1] # Ids(tray)[j][1]
  BY <1>1, <1>4 DEF Sane, KeyedTray
<1> QED
  BY <1>3, <1>5, <1>6 DEF OfMany

(* Gathering, asking and failing, up to the post.                            *)
LEMMA PostMoves ==
  ASSUME ComposerInv,
         (\E attach : PostPressed(attach)) \/ WaitEnds \/ PostFails \/ MarketMade
  PROVE  ComposerInv'
<1>1. UNCHANGED <<tray, uploads, editor, posts, picked, strayed>>
  BY DEF PostPressed, WaitEnds, PostFails, MarketMade
<1>2. EditorTypes(editor', tray) /\ (~ strayed => EditorAt(editor', tray) /\ PostsSound)
  BY <1>1 DEF ComposerInv
<1>3. ASSUME ~ strayed
      PROVE  post'.step \in {"market", "publish", "order"} => OfMany(post'.ids)
  <2>1. ASSUME NEW attach, PostPressed(attach)
        PROVE  post'.step \in {"market", "publish", "order"} => OfMany(post'.ids)
    <3>1. CASE \A i \in DOMAIN tray : Settled(tray[i])
      BY <1>3, <2>1, <3>1, Gathered DEF PostPressed
    <3>2. CASE ~ \A i \in DOMAIN tray : Settled(tray[i])
      <4>1. post' = [Unsent EXCEPT !.step = "finishing", !.attach = attach]
        BY <2>1, <3>2 DEF PostPressed
      <4>2. post'.step = "finishing"
        BY <4>1 DEF Unsent
      <4> QED
        BY <4>2
    <3> QED
      BY <3>1, <3>2
  <2>2. CASE WaitEnds
    BY <1>3, <2>2, Gathered DEF WaitEnds
  <2>3. CASE PostFails
    BY <2>3 DEF PostFails, Unsent
  <2>4. CASE MarketMade
    <3>1. post.step = "market" /\ post' = [post EXCEPT !.step = "publish"]
      BY <2>4 DEF MarketMade
    <3>2. OfMany(post.ids) /\ post'.ids = post.ids
      BY <1>2, <1>3, <3>1 DEF PostsSound
    <3> QED
      BY <3>2
  <2> QED
    BY <2>1, <2>2, <2>3, <2>4
<1>4. ~ strayed => PostsSound'
  BY <1>1, <1>2, <1>3 DEF PostsSound
<1> QED
  BY <1>1, <1>2, <1>4, EditorStep

(* reset empties the tray and keeps the operation of the editor.             *)
LEMMA ResetInv ==
  ASSUME ComposerInv, Reset, UNCHANGED picked, ~ strayed => PostsSound'
  PROVE  ComposerInv'
<1>1. /\ tray' = <<>> /\ uploads' = {[u EXCEPT !.aborted = TRUE] : u \in uploads}
      /\ editor' = [NoEditor EXCEPT !.op = editor.op]
      /\ strayed' = (strayed \/ editor.op # {})
  BY DEF Reset
<1>2. editor' = [index |-> 0, work |-> NoPixels, loads |-> FALSE, op |-> editor.op]
  BY <1>1 DEF NoEditor
<1>3. ASSUME NEW w \in uploads' PROVE w \in Upload /\ w.photo \in picked
  <2>1. PICK u \in uploads : w = [u EXCEPT !.aborted = TRUE]
    BY <1>1
  <2>2. u \in Upload /\ u.photo \in picked
    BY DEF ComposerInv, Sane, KeyedTray
  <2> QED
    BY <2>1, <2>2 DEF Upload
<1>4. DOMAIN tray' = {} /\ tray' \in Seq(Item)
  BY <1>1
<1>5. Sane(tray, uploads, picked)'
  BY <1>3, <1>4, Typed DEF Sane, KeyedTray, Fresh, OwnId
<1>6. EditorTypes(editor', tray')
  BY <1>2, EditorFields DEF EditorTypes
<1>7. ASSUME ~ strayed'
      PROVE  Served(tray, uploads)' /\ OwnPixels(tray)' /\ EditorAt(editor, tray)' /\ PostsSound'
  <2>1. ~ strayed /\ editor.op = {}
    BY <1>1, <1>7, Zenon
  <2>2. EditorAt(editor, tray)'
    BY <1>2, <2>1 DEF EditorAt
  <2>3. Served(tray, uploads)' /\ OwnPixels(tray)'
    BY <1>4 DEF Served, OwnPixels
  <2> QED
    BY <2>1, <2>2, <2>3
<1> QED
  BY <1>5, <1>6, <1>7 DEF ComposerInv

(* The post made of what was gathered.                                       *)
LEMMA PublishedInv ==
  ASSUME ComposerInv, Published \/ OrderPlaced
  PROVE  ComposerInv'
<1>0. ~ strayed => PostsSound
  BY DEF ComposerInv
<1>1. CASE OrderPlaced
  <2>1. Reset /\ UNCHANGED <<posts, picked>>
    BY <1>1 DEF OrderPlaced
  <2>2. post'.step = "idle"
    BY <2>1 DEF Reset, Unsent
  <2>3. ~ strayed => PostsSound'
    BY <1>0, <2>1, <2>2 DEF PostsSound
  <2> QED
    BY <2>1, <2>3, ResetInv
<1>2. CASE Published
  <2>1. /\ post.step = "publish" /\ UNCHANGED picked
        /\ posts' = Append(posts, [ids |-> post.ids, video |-> tray # <<>> /\ tray[1].video])
        /\ \/ /\ post' = [post EXCEPT !.step = "order"]
              /\ UNCHANGED <<tray, uploads, editor, strayed>>
           \/ Reset
    BY <1>2 DEF Published
  <2>2. post'.step = "idle" \/ post'.ids = post.ids
    <3>1. CASE Reset
      BY <3>1 DEF Reset, Unsent
    <3>2. CASE post' = [post EXCEPT !.step = "order"]
      BY <3>2
    <3> QED
      BY <2>1, <3>1, <3>2
  <2>3. ASSUME ~ strayed PROVE PostsSound'
    <3>1. /\ OfMany(post.ids) /\ posts \in Seq(Made)
          /\ \A k \in DOMAIN posts : OfMany(posts[k].ids)
      BY <1>0, <2>1, <2>3 DEF PostsSound
    <3> DEFINE made == [ids |-> post.ids, video |-> tray # <<>> /\ tray[1].video]
    <3>2. (tray # <<>> /\ tray[1].video) \in BOOLEAN
      OBVIOUS
    <3>3. made \in Made /\ made.ids = post.ids
      BY <3>1, <3>2 DEF Made, OfMany
    <3>4. posts' = Append(posts, made)
      BY <2>1
    <3> HIDE DEF made
    <3>5. PICK n \in Nat : n = Len(posts) /\ DOMAIN posts = 1 .. n
      BY <3>1
    <3>6. /\ posts' \in Seq(Made) /\ DOMAIN posts' = 1 .. n + 1
          /\ \A k \in 1 .. n : posts'[k] = posts[k]
          /\ posts'[n + 1] = made
      BY <3>1, <3>3, <3>4, <3>5
    <3>7. ASSUME NEW k \in DOMAIN posts' PROVE OfMany(posts'[k].ids)
      <4>1. k = n + 1 \/ k \in 1 .. n
        BY <3>5, <3>6
      <4> QED
        BY <3>1, <3>3, <3>5, <3>6, <4>1
    <3> QED
      BY <2>2, <3>1, <3>6, <3>7 DEF PostsSound
  <2>4. CASE Reset
    BY <2>1, <2>3, <2>4, ResetInv
  <2>5. CASE UNCHANGED <<tray, uploads, editor, strayed>>
    BY <1>0, <2>1, <2>3, <2>5, EditorStep DEF ComposerInv
  <2> QED
    BY <2>1, <2>4, <2>5
<1> QED
  BY <1>1, <1>2

-----------------------------------------------------------------------------
LEMMA ComposerInvInit == ComposerInit => ComposerInv
<1> SUFFICES ASSUME ComposerInit PROVE ComposerInv
  OBVIOUS
<1>1. /\ DOMAIN tray = {} /\ tray \in Seq(Item) /\ uploads = {} /\ picked = {}
      /\ DOMAIN posts = {} /\ posts \in Seq(Made)
  BY DEF ComposerInit
<1>2. Sane(tray, uploads, picked)
  BY <1>1 DEF Sane, KeyedTray, Fresh, OwnId
<1>3. editor = [index |-> 0, work |-> NoPixels, loads |-> FALSE, op |-> {}]
  BY DEF ComposerInit, NoEditor
<1>4. EditorTypes(editor, tray) /\ EditorAt(editor, tray)
  BY <1>3 DEF EditorTypes, EditorAt
<1>5. Served(tray, uploads) /\ OwnPixels(tray)
  BY <1>1 DEF Served, OwnPixels
<1>6. post.step = "idle"
  BY DEF ComposerInit, Unsent
<1>7. PostsSound
  BY <1>1, <1>6 DEF PostsSound
<1> QED
  BY <1>2, <1>4, <1>5, <1>7 DEF ComposerInv

LEMMA ComposerInvNext == ComposerInv /\ [ComposerNext]_composerVars => ComposerInv'
<1> SUFFICES ASSUME ComposerInv, [ComposerNext]_composerVars PROVE ComposerInv'
  OBVIOUS
<1>1. ASSUME NEW u \in uploads, NEW ok \in BOOLEAN, UploadEnds(u, ok) PROVE ComposerInv'
  BY <1>1, UploadEndsInv
<1>2. ASSUME NEW p \in Photos, Pick(p) PROVE ComposerInv'
  BY <1>2, PickInv
<1>3. ASSUME NEW i \in 1 .. Cardinality(Photos), Move(i) \/ TakeOut(i) \/ Retry(i) \/ Open(i)
      PROVE  ComposerInv'
  <2>1. i \in Nat
    <3>1. i \in Int /\ i >= 1
      BY <1>3
    <3> QED
      BY <3>1
  <2> QED
    BY <1>3, <2>1, MoveInv, TakeOutInv, RetryInv, EditorMoves
<1>4. CASE EditorLoads \/ Cancel \/ Press("turn") \/ Press("done") \/ ImageTurned
  BY <1>4, EditorMoves
<1>5. CASE Done
  BY <1>5, DoneInv
<1>6. CASE (\E attach \in {"none", "new", "existing"} : PostPressed(attach))
             \/ WaitEnds \/ PostFails \/ MarketMade
  BY <1>6, PostMoves
<1>7. CASE Published \/ OrderPlaced
  BY <1>7, PublishedInv
<1>8. CASE UNCHANGED composerVars
  <2>1. UNCHANGED <<tray, uploads, editor, post, posts, picked, strayed>>
    BY <1>8 DEF composerVars
  <2> QED
    BY <2>1, EditorStep DEF ComposerInv, PostsSound
<1> QED
  BY <1>1, <1>2, <1>3, <1>4, <1>5, <1>6, <1>7, <1>8 DEF ComposerNext

(* Pixels of different photos are as many photos as there are pixels.        *)
LEMMA ManyPhotos ==
  ASSUME NEW ids, OfMany(ids)
  PROVE  Cardinality({id[1] : id \in ToSet(ids)}) = Len(ids)
<1> DEFINE T == {id[1] : id \in ToSet(ids)}
           f == [i \in 1 .. Len(ids) |-> ids[i][1]]
<1>1. /\ ids \in Seq(Pixels) /\ Len(ids) \in Nat /\ DOMAIN ids = 1 .. Len(ids)
      /\ \A i, j \in DOMAIN ids : i # j => ids[i][1] # ids[j][1]
  BY DEF OfMany
<1>2. ToSet(ids) = {ids[i] : i \in 1 .. Len(ids)}
  BY <1>1 DEF ToSet
<1>3. T = {ids[i][1] : i \in 1 .. Len(ids)}
  BY <1>2
<1> HIDE DEF T
<1>4. f \in Bijection(1 .. Len(ids), T)
  <2>1. f \in [1 .. Len(ids) -> T]
    BY <1>3
  <2>2. \A a, b \in 1 .. Len(ids) : f[a] = f[b] => a = b
    BY <1>1
  <2>3. \A t \in T : \E a \in 1 .. Len(ids) : f[a] = t
    BY <1>3
  <2> HIDE DEF f
  <2>4. f \in Injection(1 .. Len(ids), T)
    BY <2>1, <2>2 DEF Injection, IsInjective
  <2>5. f \in Surjection(1 .. Len(ids), T)
    BY <2>1, <2>3 DEF Surjection
  <2> QED
    BY <2>4, <2>5 DEF Bijection
<1> HIDE DEF f
<1>5. ExistsBijection(1 .. Len(ids), T)
  BY <1>4 DEF ExistsBijection
<1>6. IsFiniteSet(1 .. Len(ids)) /\ Cardinality(1 .. Len(ids)) = Len(ids)
  BY <1>1, FS_Interval
<1>7. Cardinality(T) = Cardinality(1 .. Len(ids))
  BY <1>5, <1>6, FS_Bijection
<1> QED
  BY <1>6, <1>7 DEF T

(* The post is made of what the tray shows: in every state of the composer a *)
(* ready item has the id of its own latest pixels, and unless the editor was *)
(* left while it worked, an uploading item has an upload that will tell it   *)
(* and no photo shows or is posted as the pixels of another.                 *)
THEOREM PostIsTheTray == ComposerSpec => []TraySound
<1>1. ComposerInv => TraySound
  <2> SUFFICES ASSUME ComposerInv PROVE TraySound
    OBVIOUS
  <2>1. \A i \in DOMAIN tray : tray[i].status = "ready" => tray[i].id = tray[i].pixels
    BY DEF ComposerInv, Sane, OwnId
  <2>2. ASSUME ~ strayed
        PROVE  /\ \A i \in DOMAIN tray :
                    /\ tray[i].pixels[1] = tray[i].photo
                    /\ tray[i].status = "uploading" =>
                         \E u \in uploads : Token(tray[i]) = Token(u) /\ ~ u.aborted
               /\ \A k \in DOMAIN posts :
                    Cardinality({id[1] : id \in ToSet(posts[k].ids)}) = Len(posts[k].ids)
    <3>1. Served(tray, uploads) /\ OwnPixels(tray) /\ PostsSound
      BY <2>2 DEF ComposerInv
    <3>2. \A i \in DOMAIN tray :
            /\ tray[i].pixels[1] = tray[i].photo
            /\ tray[i].status = "uploading" =>
                 \E u \in uploads : Token(tray[i]) = Token(u) /\ ~ u.aborted
      BY <3>1 DEF Served, OwnPixels
    <3>3. ASSUME NEW k \in DOMAIN posts
          PROVE  Cardinality({id[1] : id \in ToSet(posts[k].ids)}) = Len(posts[k].ids)
      <4>1. OfMany(posts[k].ids)
        BY <3>1 DEF PostsSound
      <4> QED
        BY <4>1, ManyPhotos
    <3> QED
      BY <3>2, <3>3
  <2> QED
    BY <2>1, <2>2 DEF TraySound
<1> QED
  BY <1>1, ComposerInvInit, ComposerInvNext, PTL DEF ComposerSpec

-----------------------------------------------------------------------------
(* A step of the screens is one of each, or leaves it alone. *)

LEMMA OthersRest ==
  ASSUME NEW name, OnlyOn(name)
  PROVE  /\ name # Searching => UNCHANGED lookupVars
         /\ name # Watch => UNCHANGED storyVars
         /\ name # Talking => UNCHANGED threadVars
         /\ name # Listing => UNCHANGED pagingVars
BY DEF OnlyOn, RestUnless

LEMMA OneMoves ==
  ASSUME Next
  PROVE  /\ LookupNext \/ \E name : name # Searching /\ OnlyOn(name)
         /\ StoriesNext \/ \E name : name # Watch /\ OnlyOn(name)
         /\ ConversationNext \/ \E name : name # Talking /\ OnlyOn(name)
         /\ PagingNext \/ \E name : name # Listing /\ OnlyOn(name)
<1>1. \/ OnlyOn(Searching) /\ LookupNext
      \/ OnlyOn(Watch) /\ StoriesNext
      \/ OnlyOn(Talking) /\ ConversationNext
      \/ OnlyOn(Listing) /\ PagingNext
      \/ \E name \in {Toggling, Caching, SigningIn, Betting, Naming, Queueing,
                      Trading, Mentioning} : OnlyOn(name)
  BY DEF Next
<1> QED
  BY <1>1 DEF Caching, Talking, Toggling, Listing, SigningIn, Mentioning, Searching, Betting,
              Watch, Naming, Queueing, Trading

LEMMA ScreenMoves ==
  [Next]_screenVars =>
         /\ [LookupNext]_lookupVars /\ [StoriesNext]_storyVars
         /\ [ConversationNext]_threadVars /\ [PagingNext]_pagingVars
<1> SUFFICES ASSUME [Next]_screenVars
    PROVE  /\ [LookupNext]_lookupVars /\ [StoriesNext]_storyVars
           /\ [ConversationNext]_threadVars /\ [PagingNext]_pagingVars
  OBVIOUS
<1>1. CASE UNCHANGED screenVars
  BY <1>1 DEF screenVars
<1>2. CASE Next
  BY <1>2, OneMoves, OthersRest
<1> QED BY <1>1, <1>2

-----------------------------------------------------------------------------
(* Searches as you type *)

SearchBoxes ==
  {MobileAttach, MobileAdmin, MobileMention, WebAttach, WebAdmin, WebReservations, WebMention}
Calls == [text : Texts, seen : Int, since : Int]
SeenInTime(c) == c.since \in 0 .. saved /\ (c.seen = Missing \/ c.seen \in c.since .. version)
InTime == \A i \in DOMAIN asked : SeenInTime(asked[i])

LookupTypes ==
  /\ box \in SearchBoxes
  /\ typed \in Texts /\ settled \in Texts /\ timers \in {<<>>, <<typed>>}
  /\ asked \in Seq(Calls)
  /\ known \in [Texts -> Int] /\ outdated \subseteq Texts
  /\ searching \in BOOLEAN /\ overtaken \in BOOLEAN
  /\ version \in Nat /\ saved \in 0 .. version
  /\ InTime
  /\ \A t \in Texts : known[t] = Missing \/ known[t] \in 0 .. version
  /\ box.for # "reservation" => version = 0 /\ outdated = {}
  /\ ~box.waits => timers = <<>>
  /\ box.for # "market" => choice # "attached" /\ generating = Nothing

(* What the effect shows when all of it came to an end. *)
FoundRight ==
  \/ found = IF Asks(typed) THEN typed ELSE Nothing
  \/ failed # {} /\ (box.clears => found = Nothing)
  \/ found = Generated

(* Of an effect no call overtook, the timer or the one call is for the text. *)
EffectInv ==
  Effect =>
    /\ searching => asked # <<>>
    /\ timers # <<>> => Asks(typed)
    /\ ~overtaken =>
         /\ \A i, j \in DOMAIN asked : i = j
         /\ \A i \in DOMAIN asked : asked[i].text = typed /\ Asks(typed)
         /\ timers # <<>> => asked = <<>>
         /\ timers = <<>> /\ asked = <<>> /\ choice # "attached" => FoundRight

(* A keyed query has a call under way for what it looks at, or has it.       *)
KeyedInv ==
  ~Effect =>
    /\ ~searching
    /\ timers = <<>> => settled = typed
    /\ \A i, j \in DOMAIN asked : asked[i].text = asked[j].text => i = j
    /\ Asks(settled) /\ choice # "attached" =>
         known[settled] # Missing \/ CalledFor(settled) \/ settled \in failed
    /\ \A t \in Texts :
         t \in raced \cup failed \cup outdated \/ known[t] \in {Missing} \cup saved .. version
    /\ settled \in outdated => CalledFor(settled) \/ settled \in failed

LookupInv == LookupTypes /\ EffectInv /\ KeyedInv

LEMMA BoxIs ==
  ASSUME box \in SearchBoxes
  PROVE  /\ box.style \in {"effect", "keyed"} /\ box.asksShort \in BOOLEAN
         /\ box.waits \in BOOLEAN /\ (Effect => box.waits)
         /\ Effect => ~box.asksShort /\ box.for # "reservation"
         /\ box.for = "reservation" => box.asksShort
         /\ box.clears => box.for # "market"
<1>1. /\ MobileAttach.style = "effect" /\ MobileAttach.asksShort = FALSE /\ MobileAttach.waits = TRUE
      /\ MobileAttach.for = "market" /\ MobileAttach.clears = FALSE
  BY DEF MobileAttach
<1>2. /\ MobileAdmin.style = "effect" /\ MobileAdmin.asksShort = FALSE /\ MobileAdmin.waits = TRUE
      /\ MobileAdmin.for = "user"
  BY DEF MobileAdmin
<1>3. /\ MobileMention.style = "keyed" /\ MobileMention.asksShort = FALSE /\ MobileMention.waits = FALSE
      /\ MobileMention.for = "mention" /\ MobileMention.clears = FALSE
  BY DEF MobileMention
<1>4. /\ WebAttach.style = "keyed" /\ WebAttach.asksShort = FALSE /\ WebAttach.waits = TRUE
      /\ WebAttach.for = "market" /\ WebAttach.clears = FALSE
  BY DEF WebAttach
<1>5. /\ WebAdmin.style = "keyed" /\ WebAdmin.asksShort = FALSE /\ WebAdmin.waits = TRUE
      /\ WebAdmin.for = "user" /\ WebAdmin.clears = FALSE
  BY DEF WebAdmin
<1>6. /\ WebReservations.style = "keyed" /\ WebReservations.asksShort = TRUE /\ WebReservations.waits = TRUE
      /\ WebReservations.for = "reservation" /\ WebReservations.clears = FALSE
  BY DEF WebReservations
<1>7. /\ WebMention.style = "keyed" /\ WebMention.asksShort = FALSE /\ WebMention.waits = TRUE
      /\ WebMention.for = "mention" /\ WebMention.clears = FALSE
  BY DEF WebMention
<1> QED BY <1>1, <1>2, <1>3, <1>4, <1>5, <1>6, <1>7 DEF SearchBoxes, Effect

(* The call that ends is gone and the others stay. *)
LEMMA CallRemoved ==
  ASSUME NEW i \in DOMAIN asked, asked \in Seq(Calls)
  PROVE  /\ RemoveAt(asked, i) \in Seq(Calls)
         /\ \A j \in DOMAIN RemoveAt(asked, i) :
              \E k \in DOMAIN asked \ {i} : RemoveAt(asked, i)[j] = asked[k]
         /\ \A k \in DOMAIN asked \ {i} :
              \E j \in DOMAIN RemoveAt(asked, i) : RemoveAt(asked, i)[j] = asked[k]
         /\ (\A a, b \in DOMAIN asked : asked[a].text = asked[b].text => a = b) =>
              \A a, b \in DOMAIN RemoveAt(asked, i) :
                RemoveAt(asked, i)[a].text = RemoveAt(asked, i)[b].text => a = b
         /\ (\A a, b \in DOMAIN asked : a = b) => RemoveAt(asked, i) = <<>>
<1> DEFINE gone == RemoveAt(asked, i)
           n == Len(asked)
           spot(j) == IF j < i THEN j ELSE j + 1
<1>1. n \in Nat /\ DOMAIN asked = 1 .. n /\ i \in 1 .. n
  OBVIOUS
<1>2. /\ gone \in Seq(Calls) /\ Len(gone) = n - 1
      /\ \A j \in 1 .. i - 1 : gone[j] = asked[j]
      /\ \A j \in i .. n - 1 : gone[j] = asked[j + 1]
  BY <1>1, Gone
<1> HIDE DEF gone, n
<1>3. DOMAIN gone = 1 .. n - 1
  BY <1>1, <1>2
<1>4. ASSUME NEW j \in DOMAIN gone
      PROVE  spot(j) \in DOMAIN asked \ {i} /\ gone[j] = asked[spot(j)]
  <2>1. CASE j < i
    BY <1>1, <1>2, <1>3, <2>1
  <2>2. CASE ~(j < i)
    BY <1>1, <1>2, <1>3, <2>2
  <2> QED BY <2>1, <2>2
<1>5. ASSUME NEW k \in DOMAIN asked \ {i} PROVE \E j \in DOMAIN gone : spot(j) = k
  <2>1. CASE k < i
    BY <1>1, <1>3, <2>1
  <2>2. CASE k > i
    <3>1. k - 1 \in DOMAIN gone /\ ~(k - 1 < i) /\ k - 1 + 1 = k
      BY <1>1, <1>3, <2>2
    <3> QED BY <3>1
  <2> QED BY <1>1, <2>1, <2>2
<1>6. ASSUME NEW a \in DOMAIN gone, NEW b \in DOMAIN gone, spot(a) = spot(b) PROVE a = b
  BY <1>1, <1>3, <1>6
<1>7. ASSUME \A a, b \in DOMAIN asked : a = b PROVE gone = <<>>
  <2>1. 1 \in DOMAIN asked /\ n \in DOMAIN asked
    BY <1>1
  <2>2. n = 1
    BY <1>7, <2>1
  <2> QED BY <1>2, <2>2
<1> HIDE DEF spot
<1> QED BY <1>2, <1>4, <1>5, <1>6, <1>7 DEF gone

(* A call is sent after those in flight. *)
LEMMA CallAdded ==
  ASSUME NEW s \in Seq(Calls), NEW c \in Calls
  PROVE  /\ Append(s, c) \in Seq(Calls) /\ Append(s, c) # <<>>
         /\ DOMAIN Append(s, c) = DOMAIN s \cup {Len(s) + 1} /\ Len(s) + 1 \notin DOMAIN s
         /\ \A i \in DOMAIN s : Append(s, c)[i] = s[i]
         /\ Append(s, c)[Len(s) + 1] = c
<1>1. Len(s) \in Nat /\ DOMAIN s = 1 .. Len(s)
  OBVIOUS
<1>2. DOMAIN Append(s, c) = 1 .. Len(s) + 1
  OBVIOUS
<1> QED BY <1>1, <1>2

\* No two calls in flight are about one text.
OneEach(s) == \A i, j \in DOMAIN s : s[i].text = s[j].text => i = j

(* What a keyed query that looks at a text does to the calls in flight. *)
LEMMA LookMoves ==
  ASSUME LookupInv, NEW t \in Texts, NEW enabled \in BOOLEAN, Look(t, enabled), ~Effect
  PROVE  /\ settled' = t /\ asked' \in Seq(Calls)
         /\ \A i \in DOMAIN asked' : SeenInTime(asked'[i])
         /\ OneEach(asked')
         /\ Asks(t) /\ enabled => /\ known[t] # Missing \/ CalledFor(t)'
                                  /\ t \in outdated => CalledFor(t)'
<1> DEFINE c == Call(t, saved)
<1>1. /\ asked \in Seq(Calls) /\ \A i \in DOMAIN asked : SeenInTime(asked[i])
      /\ OneEach(asked) /\ saved \in 0 .. version /\ version \in Nat
  BY DEF LookupInv, LookupTypes, KeyedInv, OneEach, InTime
<1>2. c \in Calls /\ c.text = t /\ SeenInTime(c)
  BY <1>1 DEF Call, Calls, SeenInTime, Missing
<1>3. CASE asked' = asked /\ (~enabled \/ ~Asks(t) \/ CalledFor(t) \/ ~(known[t] = Missing \/ t \in outdated))
  BY <1>1, <1>3 DEF Look, CalledFor, OneEach
<1>4. CASE asked' = Append(asked, c) /\ ~CalledFor(t)
  <2> HIDE DEF c
  <2>1. /\ asked' \in Seq(Calls) /\ DOMAIN asked' = DOMAIN asked \cup {Len(asked) + 1}
        /\ \A i \in DOMAIN asked : asked'[i] = asked[i]
        /\ asked'[Len(asked) + 1] = c
    BY <1>1, <1>2, <1>4, CallAdded
  <2>2. \A i \in DOMAIN asked' : SeenInTime(asked'[i])
    BY <1>1, <1>2, <2>1
  <2>3. \A i \in DOMAIN asked : asked[i].text # t
    BY <1>4 DEF CalledFor
  <2>4. OneEach(asked')
    BY <1>1, <1>2, <2>1, <2>3 DEF OneEach
  <2>5. CalledFor(t)'
    BY <1>2, <2>1 DEF CalledFor
  <2> QED BY <2>1, <2>2, <2>4, <2>5 DEF Look
<1> QED BY <1>3, <1>4 DEF Look

(* What the effect does when it is scheduled for the text typed. *)
LEMMA ScheduleMoves ==
  ASSUME LookupInv, NEW t \in Texts, Schedule(t), typed' = t, Effect,
         UNCHANGED <<box, asked, searching, failed>>
  PROVE  EffectInv' /\ KeyedInv' /\ timers' \in {<<>>, <<typed'>>}
<1>1. /\ timers' = IF Asks(t) THEN <<t>> ELSE <<>>
      /\ found' = IF Asks(t) THEN found ELSE Nothing
      /\ overtaken' = (asked # <<>>)
  BY DEF Schedule, Cleared
<1>2. Effect' /\ (Asks(t)' <=> Asks(t))
  BY DEF Effect, Asks
<1>3. searching' => asked' # <<>>
  BY DEF LookupInv, EffectInv
<1>4. timers' # <<>> => Asks(typed)'
  BY <1>1, <1>2 DEF Asks
<1>5. ~overtaken' => asked' = <<>>
  BY <1>1
<1>6. timers' = <<>> => FoundRight'
  <2>1. timers' = <<>> => ~Asks(t) /\ found' = Nothing
    BY <1>1
  <2> QED BY <1>2, <2>1 DEF FoundRight, Asks
<1>7. EffectInv'
  BY <1>2, <1>3, <1>4, <1>5, <1>6 DEF EffectInv
<1> QED BY <1>1, <1>2, <1>7 DEF KeyedInv

(* The facts on the calls in flight that a keyed query keeps. *)
LEMMA KeyedFacts ==
  ASSUME LookupInv
  PROVE  /\ asked \in Seq(Calls) /\ version \in Nat /\ saved \in 0 .. version
         /\ \A i \in DOMAIN asked : SeenInTime(asked[i])
         /\ ~Effect => OneEach(asked)
BY DEF LookupInv, LookupTypes, KeyedInv, OneEach, InTime

(* A query that looks at another text, or at its own again, stays right. *)
LEMMA LookKeeps ==
  ASSUME LookupInv, NEW t \in Texts, NEW enabled \in BOOLEAN, Look(t, enabled), ~Effect,
         choice' # "attached" => enabled, box.for = "reservation" => enabled,
         timers' = <<>> => t = typed',
         UNCHANGED <<box, known, outdated, searching, version, saved, failed, raced>>
  PROVE  /\ asked' \in Seq(Calls) /\ InTime'
         /\ EffectInv' /\ KeyedInv'
<1>1. /\ settled' = t /\ asked' \in Seq(Calls)
      /\ \A i \in DOMAIN asked' : SeenInTime(asked'[i])
      /\ OneEach(asked')
      /\ Asks(t) /\ enabled => /\ known[t] # Missing \/ CalledFor(t)'
                               /\ t \in outdated => CalledFor(t)'
  BY LookMoves
<1>2. ~Effect' /\ \A u : Asks(u)' <=> Asks(u)
  BY DEF Effect, Asks
<1>3. InTime'
  BY <1>1 DEF SeenInTime, InTime
<1>4. CalledFor(settled)' <=> CalledFor(t)'
  BY <1>1 DEF CalledFor
<1>5. Asks(settled)' => Asks(t)
  BY <1>1 DEF Asks
<1>6. Asks(settled)' /\ choice' # "attached" =>
        known'[settled'] # Missing \/ CalledFor(settled)' \/ settled' \in failed'
  BY <1>1, <1>4, <1>5
<1>7. settled' \in outdated' => CalledFor(settled)' \/ settled' \in failed'
  <2>1. outdated # {} => box.for = "reservation" /\ box \in SearchBoxes
    BY DEF LookupInv, LookupTypes
  <2>2. outdated # {} => Asks(t) /\ enabled
    BY <2>1, BoxIs DEF Asks
  <2> QED BY <1>1, <1>4, <2>2
<1>8. KeyedInv'
  <2>1. \A u \in Texts : \/ u \in (raced \cup failed \cup outdated)'
                         \/ known'[u] \in {Missing} \cup saved' .. version'
    BY <1>2 DEF LookupInv, KeyedInv, Effect
  <2>2. searching' = FALSE
    BY DEF LookupInv, KeyedInv, LookupTypes
  <2>3. \A i, j \in DOMAIN asked' : asked'[i].text = asked'[j].text => i = j
    BY <1>1 DEF OneEach
  <2> QED BY <1>1, <1>6, <1>7, <2>1, <2>2, <2>3 DEF KeyedInv
<1> QED BY <1>1, <1>2, <1>3, <1>8 DEF EffectInv

LEMMA TypeTextKeeps == ASSUME LookupInv, NEW t \in Texts, TypeText(t) PROVE LookupInv'
<1>1. /\ Choosing /\ t # typed /\ typed' = t
      /\ UNCHANGED <<box, known, outdated, searching, generating, candidates, choice, version,
                     saved, failed, raced>>
  BY DEF TypeText
<1>2. box \in SearchBoxes /\ box.waits \in BOOLEAN /\ (Effect => box.waits)
  BY BoxIs DEF LookupInv, LookupTypes
<1>3. /\ Effect => Schedule(t) /\ UNCHANGED <<settled, asked>>
      /\ ~Effect /\ box.waits =>
           timers' = <<t>> /\ UNCHANGED <<settled, asked, found, overtaken>>
      /\ ~box.waits => Look(t, TRUE) /\ UNCHANGED <<timers, found, overtaken>>
  <2>1. Append(<<>>, t) = <<t>>
    OBVIOUS
  <2>2. CASE Effect
    BY <1>2, <2>2 DEF TypeText
  <2>3. CASE ~Effect /\ box.waits
    BY <2>1, <2>3 DEF TypeText, Cleared
  <2>4. CASE ~Effect /\ ~box.waits
    BY <2>4 DEF TypeText
  <2> QED BY <1>2, <2>2, <2>3, <2>4
<1>4. /\ timers' \in {<<>>, <<typed'>>} /\ settled' \in Texts /\ overtaken' \in BOOLEAN
      /\ ~box.waits => timers' = <<>>
      /\ asked' \in Seq(Calls) /\ InTime'
      /\ EffectInv' /\ KeyedInv'
  <2>1. CASE Effect
    <3>1. EffectInv' /\ KeyedInv' /\ timers' \in {<<>>, <<typed'>>}
      BY <1>1, <1>3, <2>1, ScheduleMoves
    <3>2. settled' \in Texts /\ overtaken' \in BOOLEAN
      BY <1>3, <2>1 DEF Schedule, LookupInv, LookupTypes
    <3>3. asked' \in Seq(Calls) /\ InTime'
      BY <1>1, <1>3, <2>1, KeyedFacts DEF SeenInTime, InTime
    <3> QED BY <1>2, <2>1, <3>1, <3>2, <3>3
  <2>2. CASE ~Effect /\ box.waits
    <3>1. ~Effect' /\ timers' # <<>>
      BY <1>1, <1>3, <2>2 DEF Effect
    <3>2. KeyedInv'
      BY <1>1, <1>3, <2>2, <3>1 DEF LookupInv, KeyedInv, CalledFor, Asks
    <3>3. EffectInv'
      BY <3>1 DEF EffectInv
    <3>4. asked' \in Seq(Calls) /\ InTime'
      BY <1>1, <1>3, <2>2, KeyedFacts DEF SeenInTime, InTime
    <3> QED BY <1>1, <1>3, <2>2, <3>2, <3>3, <3>4 DEF LookupInv, LookupTypes
  <2>3. CASE ~box.waits
    <3>1. ~Effect /\ Look(t, TRUE) /\ timers' = <<>> /\ settled' = t
      BY <1>2, <1>3, <2>3 DEF LookupInv, LookupTypes, Look
    <3>2. /\ asked' \in Seq(Calls) /\ InTime'
          /\ EffectInv' /\ KeyedInv'
      BY <1>1, <3>1, LookKeeps
    <3> QED BY <1>3, <2>3, <3>1, <3>2 DEF LookupInv, LookupTypes
  <2> QED BY <1>2, <2>1, <2>2, <2>3
<1>5. \A u \in Texts : known'[u] = Missing \/ known'[u] \in 0 .. version'
  BY <1>1 DEF LookupInv, LookupTypes
<1>6. LookupTypes'
  BY <1>1, <1>4, <1>5 DEF LookupInv, LookupTypes
<1> QED BY <1>4, <1>6 DEF LookupInv

LEMMA TimerKeeps == ASSUME LookupInv, TimerFires PROVE LookupInv'
<1>1. /\ timers # <<>>
      /\ UNCHANGED <<box, typed, found, known, outdated, generating, candidates, choice,
                     version, saved, overtaken, failed, raced>>
  BY DEF TimerFires
<1>2. timers = <<typed>> /\ timers' = <<>> /\ Head(timers) = typed /\ typed \in Texts
  <2>1. timers = <<typed>> /\ typed \in Texts
    BY <1>1 DEF LookupInv, LookupTypes
  <2>2. Head(<<typed>>) = typed /\ Tail(<<typed>>) = <<>>
    OBVIOUS
  <2> QED BY <2>1, <2>2 DEF TimerFires
<1>3. /\ settled' \in Texts /\ searching' \in BOOLEAN
      /\ asked' \in Seq(Calls) /\ InTime'
      /\ EffectInv' /\ KeyedInv'
  <2>1. CASE Effect
    <3> DEFINE c == Call(typed, saved)
    <3>1. asked' = Append(asked, c) /\ searching' = TRUE /\ UNCHANGED settled
      BY <1>2, <2>1 DEF TimerFires
    <3>2. c \in Calls /\ c.text = typed /\ SeenInTime(c)
      BY <1>2, KeyedFacts DEF Call, Calls, SeenInTime, Missing
    <3> HIDE DEF c
    <3>3. /\ asked' \in Seq(Calls) /\ asked' # <<>>
          /\ DOMAIN asked' = DOMAIN asked \cup {Len(asked) + 1}
          /\ \A i \in DOMAIN asked : asked'[i] = asked[i]
          /\ asked'[Len(asked) + 1] = c
      BY <3>1, <3>2, KeyedFacts, CallAdded
    <3>4. \A i \in DOMAIN asked' : SeenInTime(asked'[i])
      BY <3>2, <3>3, KeyedFacts
    <3>5. InTime'
      BY <1>1, <3>4 DEF SeenInTime, InTime
    <3>6. Effect' /\ (Asks(typed)' <=> Asks(typed))
      BY <1>1, <2>1 DEF Effect, Asks
    <3>7. ~overtaken => asked = <<>> /\ Asks(typed)
      BY <1>1, <2>1 DEF LookupInv, EffectInv
    <3>8. ~overtaken => /\ \A i, j \in DOMAIN asked' : i = j
                        /\ \A i \in DOMAIN asked' : asked'[i].text = typed
      <4>1. ~overtaken => DOMAIN asked = {}
        BY <3>7
      <4> QED BY <3>2, <3>3, <4>1
    <3>9. EffectInv'
      BY <1>1, <1>2, <3>3, <3>6, <3>7, <3>8 DEF EffectInv
    <3> QED BY <3>1, <3>3, <3>5, <3>6, <3>9 DEF KeyedInv, LookupInv, LookupTypes
  <2>2. CASE ~Effect /\ typed = settled
    <3>1. UNCHANGED <<asked, settled, searching>> /\ ~Effect'
      BY <1>1, <1>2, <2>2 DEF TimerFires, Effect
    <3>2. KeyedInv'
      BY <1>1, <2>2, <3>1 DEF LookupInv, KeyedInv, CalledFor, Asks
    <3>3. asked' \in Seq(Calls) /\ InTime'
      BY <1>1, <3>1, KeyedFacts DEF SeenInTime, InTime
    <3> QED BY <3>1, <3>2, <3>3 DEF EffectInv, LookupInv, LookupTypes
  <2>3. CASE ~Effect /\ typed # settled
    <3>1. Look(typed, choice # "attached") /\ UNCHANGED searching
      BY <1>2, <2>3 DEF TimerFires
    <3>2. settled' = typed
      BY <3>1 DEF Look
    <3>3. box.for = "reservation" => choice # "attached"
      BY DEF LookupInv, LookupTypes
    <3>4. (choice # "attached") \in BOOLEAN
      OBVIOUS
    <3>5. /\ asked' \in Seq(Calls) /\ InTime'
          /\ EffectInv' /\ KeyedInv'
      BY <1>1, <1>2, <2>3, <3>1, <3>3, <3>4, LookKeeps
    <3> QED BY <1>2, <3>1, <3>2, <3>5 DEF LookupInv, LookupTypes
  <2> QED BY <2>1, <2>2, <2>3
<1>4. \A u \in Texts : known'[u] = Missing \/ known'[u] \in 0 .. version'
  BY <1>1 DEF LookupInv, LookupTypes
<1>5. LookupTypes'
  BY <1>1, <1>2, <1>3, <1>4 DEF LookupInv, LookupTypes
<1> QED BY <1>3, <1>5 DEF LookupInv

LEMMA AnswerCallKeeps ==
  ASSUME LookupInv, NEW i \in DOMAIN asked, AnswerCall(i) PROVE LookupInv'
<1>1. /\ asked[i].seen = Missing /\ asked' = [asked EXCEPT ![i].seen = version]
      /\ UNCHANGED <<box, typed, timers, settled, found, known, outdated, searching,
                     generating, candidates, choice, version, saved, overtaken, failed, raced>>
  BY DEF AnswerCall
<1> DEFINE c == [text |-> asked[i].text, seen |-> version, since |-> asked[i].since]
<1>2. asked \in Seq(Calls) /\ asked[i] \in Calls /\ version \in Nat /\ SeenInTime(asked[i])
      /\ saved \in 0 .. version
  BY KeyedFacts
<1>3. asked' = [asked EXCEPT ![i] = c]
  <2>1. asked[i] = [text |-> asked[i].text, seen |-> asked[i].seen, since |-> asked[i].since]
    BY <1>2 DEF Calls
  <2>2. [asked[i] EXCEPT !.seen = version] = c
    BY <2>1
  <2>3. asked' = [asked EXCEPT ![i] = [asked[i] EXCEPT !.seen = version]]
    BY <1>1
  <2> QED BY <2>2, <2>3
<1>4. c \in Calls /\ SeenInTime(c)
  BY <1>2 DEF Calls, SeenInTime
<1>5. c.text = asked[i].text
  OBVIOUS
<1> HIDE DEF c
<1>6. /\ asked' \in Seq(Calls) /\ DOMAIN asked' = DOMAIN asked
      /\ \A j \in DOMAIN asked : asked'[j] = IF j = i THEN c ELSE asked[j]
  BY <1>2, <1>3, <1>4
<1>7. \A j \in DOMAIN asked : asked'[j].text = asked[j].text /\ SeenInTime(asked'[j])
  BY <1>4, <1>5, <1>6, KeyedFacts
<1>8. InTime'
  BY <1>1, <1>6, <1>7 DEF InTime, SeenInTime
<1>9. \A t : CalledFor(t)' <=> CalledFor(t)
  BY <1>6, <1>7 DEF CalledFor
<1>10. CalledFor(settled)' <=> CalledFor(settled)
  BY <1>1, <1>9 DEF CalledFor
<1>11. (Effect' <=> Effect) /\ (Asks(typed)' <=> Asks(typed)) /\ (Asks(settled)' <=> Asks(settled))
  BY <1>1 DEF Effect, Asks
<1>12. asked # <<>> /\ asked' # <<>>
  BY <1>2, <1>6
<1>13. EffectInv'
  BY <1>1, <1>6, <1>7, <1>11, <1>12 DEF LookupInv, EffectInv
<1>14. KeyedInv'
  BY <1>1, <1>6, <1>7, <1>10, <1>11 DEF LookupInv, KeyedInv
<1>15. LookupTypes'
  BY <1>1, <1>6, <1>8 DEF LookupInv, LookupTypes
<1> QED BY <1>13, <1>14, <1>15 DEF LookupInv

(* What holds of any state a call that ends leaves. *)
LEMMA EndKeeps ==
  ASSUME LookupInv, NEW i \in DOMAIN asked, CallEnds(i)
  PROVE  /\ asked' \in Seq(Calls) /\ InTime' /\ asked[i] \in Calls /\ SeenInTime(asked[i])
         /\ ~Effect => OneEach(asked')
         /\ \A t : t # asked[i].text /\ CalledFor(t) => CalledFor(t)'
         /\ (\A a, b \in DOMAIN asked : a = b) => asked' = <<>>
<1>1. asked' = RemoveAt(asked, i) /\ UNCHANGED <<box, version, saved>>
  BY DEF CallEnds
<1>2. asked \in Seq(Calls) /\ (~Effect => OneEach(asked))
      /\ \A j \in DOMAIN asked : SeenInTime(asked[j])
  BY KeyedFacts
<1>3. /\ asked' \in Seq(Calls)
      /\ \A j \in DOMAIN asked' : \E k \in DOMAIN asked \ {i} : asked'[j] = asked[k]
      /\ \A k \in DOMAIN asked \ {i} : \E j \in DOMAIN asked' : asked'[j] = asked[k]
      /\ (\A a, b \in DOMAIN asked : asked[a].text = asked[b].text => a = b) =>
           \A a, b \in DOMAIN asked' : asked'[a].text = asked'[b].text => a = b
      /\ (\A a, b \in DOMAIN asked : a = b) => asked' = <<>>
  <2> DEFINE r == RemoveAt(asked, i)
  <2>1. /\ r \in Seq(Calls)
        /\ \A j \in DOMAIN r : \E k \in DOMAIN asked \ {i} : r[j] = asked[k]
        /\ \A k \in DOMAIN asked \ {i} : \E j \in DOMAIN r : r[j] = asked[k]
        /\ (\A a, b \in DOMAIN asked : asked[a].text = asked[b].text => a = b) =>
             \A a, b \in DOMAIN r : r[a].text = r[b].text => a = b
        /\ (\A a, b \in DOMAIN asked : a = b) => r = <<>>
    BY <1>2, CallRemoved
  <2> HIDE DEF r
  <2>2. asked' = r
    BY <1>1 DEF r
  <2> QED BY <2>1, <2>2
<1>4. \A j \in DOMAIN asked' : SeenInTime(asked'[j])
  BY <1>2, <1>3
<1>5. InTime'
  BY <1>1, <1>4 DEF InTime, SeenInTime
<1>6. asked[i] \in Calls
  BY <1>2
<1>7. ASSUME NEW t, t # asked[i].text, CalledFor(t) PROVE CalledFor(t)'
  <2>1. PICK k \in DOMAIN asked \ {i} : asked[k].text = t
    BY <1>7 DEF CalledFor
  <2>2. PICK j \in DOMAIN asked' : asked'[j] = asked[k]
    BY <1>3, <2>1
  <2> QED BY <2>1, <2>2 DEF CalledFor
<1>8. ~Effect => OneEach(asked')
  BY <1>2, <1>3 DEF OneEach
<1> QED BY <1>2, <1>3, <1>5, <1>6, <1>7, <1>8

LEMMA MatchedKeeps == ASSUME LookupInv, NEW i \in DOMAIN asked, Matched(i) PROVE LookupInv'
<1> DEFINE c == asked[i]
<1>1. /\ c.seen # Missing /\ CallEnds(i) /\ searching' = FALSE
      /\ UNCHANGED <<box, typed, timers, settled, generating, candidates, choice, version,
                     saved, overtaken>>
  BY DEF Matched, CallEnds
<1>2. /\ asked' \in Seq(Calls) /\ InTime' /\ c \in Calls /\ SeenInTime(c)
      /\ ~Effect => OneEach(asked')
      /\ \A t : t # c.text /\ CalledFor(t) => CalledFor(t)'
      /\ (\A a, b \in DOMAIN asked : a = b) => asked' = <<>>
  BY <1>1, EndKeeps
<1>3. c.text \in Texts /\ c.seen \in c.since .. version /\ c.since \in 0 .. saved
      /\ saved \in 0 .. version /\ version \in Nat /\ known \in [Texts -> Int]
  BY <1>1, <1>2 DEF Calls, SeenInTime, LookupInv, LookupTypes
<1>4. raced' = IF c.since < saved THEN raced \cup {c.text} ELSE raced \ {c.text}
  BY DEF Matched
<1>5. (Effect' <=> Effect) /\ (Asks(typed)' <=> Asks(typed)) /\ (Asks(settled)' <=> Asks(settled))
  BY <1>1 DEF Effect, Asks
<1>6. /\ Effect => found' = c.text /\ UNCHANGED <<known, outdated>>
      /\ ~Effect => /\ known' = [known EXCEPT ![c.text] = c.seen]
                    /\ outdated' = outdated \ {c.text} /\ failed' = failed \ {c.text}
  BY DEF Matched
<1>7. EffectInv'
  <2> SUFFICES ASSUME Effect PROVE EffectInv'
    BY <1>5 DEF EffectInv
  <2>1. ~overtaken => asked' = <<>> /\ c.text = typed /\ Asks(typed)
    BY <1>2 DEF LookupInv, EffectInv
  <2>2. ~overtaken => FoundRight'
    BY <1>1, <1>5, <1>6, <2>1 DEF FoundRight, Asks
  <2>3. timers' # <<>> => Asks(typed)'
    BY <1>1, <1>5 DEF LookupInv, EffectInv
  <2> QED BY <1>1, <2>1, <2>2, <2>3, <1>5 DEF EffectInv
<1>8. KeyedInv'
  <2> SUFFICES ASSUME ~Effect PROVE KeyedInv'
    BY <1>5 DEF KeyedInv
  <2>1. \A t \in Texts : known'[t] = IF t = c.text THEN c.seen ELSE known[t]
    BY <1>3, <1>6
  <2> HIDE DEF c
  <2>2. \A j, k \in DOMAIN asked' : asked'[j].text = asked'[k].text => j = k
    BY <1>2 DEF OneEach
  <2>3. settled \in Texts /\ (timers' = <<>> => settled' = typed')
    BY <1>1 DEF LookupInv, LookupTypes, KeyedInv
  <2>4. settled # c.text /\ CalledFor(settled) => CalledFor(settled)'
    BY <1>1, <1>2 DEF CalledFor
  <2>5. Asks(settled)' /\ choice' # "attached" =>
          known'[settled'] # Missing \/ CalledFor(settled)' \/ settled' \in failed'
    <3>1. CASE settled = c.text
      BY <1>1, <2>1, <2>3, <3>1
    <3>2. CASE settled # c.text
      BY <1>1, <1>5, <1>6, <2>1, <2>3, <2>4, <3>2 DEF LookupInv, KeyedInv
    <3> QED BY <3>1, <3>2
  <2>6. settled' \in outdated' => CalledFor(settled)' \/ settled' \in failed'
    BY <1>1, <1>6, <2>4 DEF LookupInv, KeyedInv
  <2>7. ASSUME NEW t \in Texts
        PROVE  t \in (raced \cup failed \cup outdated)' \/ known'[t] \in {Missing} \cup saved' .. version'
    <3>1. CASE t = c.text
      <4>1. c.since < saved => t \in raced'
        BY <1>4, <3>1
      <4>2. ~(c.since < saved) => c.seen \in saved .. version
        BY <1>3
      <4> QED BY <1>1, <2>1, <3>1, <4>1, <4>2
    <3>2. CASE t # c.text
      <4>1. /\ t \in raced => t \in raced'
            /\ t \in failed => t \in failed'
            /\ t \in outdated => t \in outdated'
        BY <1>4, <1>6, <3>2
      <4>2. t \in raced \cup failed \cup outdated \/ known[t] \in {Missing} \cup saved .. version
        BY DEF LookupInv, KeyedInv
      <4> QED BY <1>1, <2>1, <3>2, <4>1, <4>2
    <3> QED BY <3>1, <3>2
  <2> QED BY <1>1, <2>2, <2>3, <2>5, <2>6, <2>7 DEF KeyedInv
<1>9. /\ known' \in [Texts -> Int] /\ outdated' \subseteq Texts
      /\ \A t \in Texts : known'[t] = Missing \/ known'[t] \in 0 .. version
      /\ outdated' \subseteq outdated
  <2>1. \A t \in Texts : known[t] = Missing \/ known[t] \in 0 .. version
    BY DEF LookupInv, LookupTypes
  <2>2. outdated \subseteq Texts /\ c.seen \in 0 .. version /\ c.seen \in Int
    BY <1>3 DEF LookupInv, LookupTypes
  <2> QED BY <1>3, <1>6, <2>1, <2>2
<1>10. LookupTypes'
  BY <1>1, <1>2, <1>9 DEF LookupInv, LookupTypes
<1> QED BY <1>7, <1>8, <1>10 DEF LookupInv

LEMMA SearchFailsKeeps == ASSUME LookupInv, NEW i \in DOMAIN asked, SearchFails(i) PROVE LookupInv'
<1> DEFINE c == asked[i]
<1>1. /\ CallEnds(i) /\ searching' = FALSE
      /\ failed' = failed \cup {c.text} /\ found' = (IF box.clears THEN Nothing ELSE found)
      /\ UNCHANGED <<box, typed, timers, settled, generating, candidates, choice, version,
                     saved, overtaken, known, outdated, raced>>
  BY DEF SearchFails, CallEnds
<1>2. /\ asked' \in Seq(Calls) /\ InTime' /\ c \in Calls
      /\ ~Effect => OneEach(asked')
      /\ \A t : t # c.text /\ CalledFor(t) => CalledFor(t)'
      /\ (\A a, b \in DOMAIN asked : a = b) => asked' = <<>>
  BY <1>1, EndKeeps
<1> HIDE DEF c
<1>3. (Effect' <=> Effect) /\ (Asks(typed)' <=> Asks(typed)) /\ (Asks(settled)' <=> Asks(settled))
  BY <1>1 DEF Effect, Asks
<1>4. EffectInv'
  <2> SUFFICES ASSUME Effect PROVE EffectInv'
    BY <1>3 DEF EffectInv
  <2>1. ~overtaken => asked' = <<>>
    BY <1>2 DEF LookupInv, EffectInv
  <2>2. FoundRight'
    BY <1>1 DEF FoundRight
  <2>3. timers' # <<>> => Asks(typed)'
    BY <1>1, <1>3 DEF LookupInv, EffectInv
  <2> QED BY <1>1, <2>1, <2>2, <2>3, <1>3 DEF EffectInv
<1>5. KeyedInv'
  <2> SUFFICES ASSUME ~Effect PROVE KeyedInv'
    BY <1>3 DEF KeyedInv
  <2>1. \A j, k \in DOMAIN asked' : asked'[j].text = asked'[k].text => j = k
    BY <1>2 DEF OneEach
  <2>2. CalledFor(settled) => CalledFor(settled)' \/ settled' \in failed'
    BY <1>1, <1>2 DEF CalledFor
  <2>3. ASSUME NEW t \in Texts
        PROVE  t \in (raced \cup failed \cup outdated)' \/ known'[t] \in {Missing} \cup saved' .. version'
    <3>1. t \in raced \cup failed \cup outdated \/ known[t] \in {Missing} \cup saved .. version
      BY DEF LookupInv, KeyedInv
    <3> QED BY <1>1, <3>1
  <2> QED BY <1>1, <1>3, <2>1, <2>2, <2>3 DEF LookupInv, KeyedInv
<1>6. LookupTypes'
  BY <1>1, <1>2 DEF LookupInv, LookupTypes
<1> QED BY <1>4, <1>5, <1>6 DEF LookupInv

(* An action that leaves the texts, the calls and the lists kept alone.      *)
LEMMA OthersKeep ==
  ASSUME LookupInv,
         UNCHANGED <<box, typed, settled, asked, known, outdated, searching, version, saved,
                     overtaken, failed, raced>>,
         timers' \in {timers, <<>>}, ~Effect => timers' = timers,
         choice' # "attached" => choice # "attached" /\ timers' = timers,
         found' \in {found, Generated} \/ choice' = "attached",
         box.for # "market" => choice' # "attached" /\ generating' = Nothing
  PROVE  LookupInv'
<1>1. (Effect' <=> Effect) /\ (Asks(typed)' <=> Asks(typed)) /\ (Asks(settled)' <=> Asks(settled))
      /\ (CalledFor(settled)' <=> CalledFor(settled))
  BY DEF Effect, Asks, CalledFor
<1>2. InTime'
  BY DEF LookupInv, LookupTypes, InTime, SeenInTime
<1>3. LookupTypes'
  BY <1>2 DEF LookupInv, LookupTypes
<1>4. KeyedInv'
  BY <1>1 DEF LookupInv, KeyedInv
<1>5. choice' # "attached" /\ FoundRight => FoundRight'
  BY <1>1 DEF FoundRight, Asks
<1>6. EffectInv'
  <2>1. /\ timers' # <<>> => timers # <<>>
        /\ choice' # "attached" => choice # "attached" /\ timers' = timers
    OBVIOUS
  <2> QED BY <1>1, <1>5, <2>1 DEF LookupInv, EffectInv
<1> QED BY <1>3, <1>4, <1>6 DEF LookupInv

LEMMA ChoosingKeeps ==
  ASSUME LookupInv, Generate \/ GenerateEnds \/ Attach \/ WarpInto \/ WarpChecked
  PROVE  LookupInv'
<1>1. box.for # "market" => choice # "attached" /\ generating = Nothing
  BY DEF LookupInv, LookupTypes
<1>2. CASE Generate
  BY <1>1, <1>2, OthersKeep DEF Generate
<1>3. CASE GenerateEnds
  BY <1>1, <1>3, OthersKeep DEF GenerateEnds
<1>4. CASE Attach
  BY <1>1, <1>4, OthersKeep DEF Attach, Cleared
<1>5. CASE WarpInto
  BY <1>1, <1>5, OthersKeep DEF WarpInto, Choosing, Nothing
<1>6. CASE WarpChecked
  <2>1. choice = "warping" /\ choice' \in {"warped", Nothing, "warped unchecked"}
    BY <1>6 DEF WarpChecked
  <2>2. choice # "attached" /\ choice' # "attached"
    BY <2>1 DEF Nothing
  <2> QED BY <1>1, <1>6, <2>2, OthersKeep DEF WarpChecked
<1> QED BY <1>2, <1>3, <1>4, <1>5, <1>6

LEMMA DetachKeeps == ASSUME LookupInv, Detach PROVE LookupInv'
<1>1. /\ choice = "attached" /\ choice' = Nothing
      /\ UNCHANGED <<box, typed, known, outdated, searching, generating, version, saved,
                     failed, raced>>
      /\ Effect => Schedule(typed) /\ UNCHANGED <<settled, asked>>
      /\ ~Effect => Look(settled, TRUE) /\ UNCHANGED <<timers, found, overtaken>>
  BY DEF Detach
<1>2. choice' # "attached" /\ (box.for # "market" => generating' = Nothing)
  BY <1>1 DEF Nothing, LookupInv, LookupTypes
<1>3. typed \in Texts /\ settled \in Texts /\ box \in SearchBoxes /\ (Effect => box.waits)
  BY BoxIs DEF LookupInv, LookupTypes
<1>4. /\ timers' \in {<<>>, <<typed'>>} /\ settled' \in Texts /\ overtaken' \in BOOLEAN
      /\ ~box.waits => timers' = <<>>
      /\ asked' \in Seq(Calls) /\ InTime'
      /\ EffectInv' /\ KeyedInv'
  <2>1. CASE Effect
    <3>1. EffectInv' /\ KeyedInv' /\ timers' \in {<<>>, <<typed'>>}
      BY <1>1, <1>3, <2>1, ScheduleMoves
    <3>2. overtaken' \in BOOLEAN
      BY <1>1, <2>1 DEF Schedule
    <3>3. asked' \in Seq(Calls) /\ InTime'
      BY <1>1, <2>1, KeyedFacts DEF SeenInTime, InTime
    <3> QED BY <1>1, <1>3, <2>1, <3>1, <3>2, <3>3
  <2>2. CASE ~Effect
    <3>1. timers' = <<>> => settled = typed'
      BY <1>1, <2>2 DEF LookupInv, KeyedInv
    <3>2. /\ asked' \in Seq(Calls) /\ InTime' /\ EffectInv' /\ KeyedInv'
      BY <1>1, <1>3, <2>2, <3>1, LookKeeps
    <3>3. settled' = settled
      BY <1>1, <2>2 DEF Look
    <3> QED BY <1>1, <1>3, <2>2, <3>2, <3>3 DEF LookupInv, LookupTypes
  <2> QED BY <2>1, <2>2
<1>5. \A u \in Texts : known'[u] = Missing \/ known'[u] \in 0 .. version'
  BY <1>1 DEF LookupInv, LookupTypes
<1>6. LookupTypes'
  BY <1>1, <1>2, <1>4, <1>5 DEF LookupInv, LookupTypes
<1> QED BY <1>4, <1>6 DEF LookupInv

LEMMA ChangeReservationKeeps == ASSUME LookupInv, ChangeReservation PROVE LookupInv'
<1>1. /\ box.for = "reservation" /\ version' = version + 1
      /\ UNCHANGED <<box, typed, timers, settled, asked, found, known, outdated, searching,
                     generating, candidates, choice, saved, overtaken, failed, raced>>
  BY DEF ChangeReservation
<1>2. box \in SearchBoxes
  BY DEF LookupInv, LookupTypes
<1>3. ~Effect /\ ~Effect'
  BY <1>1, <1>2, BoxIs DEF Effect
<1>4. version \in Nat /\ saved \in 0 .. version /\ asked \in Seq(Calls)
      /\ \A i \in DOMAIN asked : SeenInTime(asked[i])
  BY KeyedFacts
<1>5. version' \in Nat /\ 0 .. version \subseteq 0 .. version'
      /\ saved .. version \subseteq saved .. version'
  BY <1>1, <1>4
<1>6. InTime'
  <2>1. \A i \in DOMAIN asked : asked[i].since \in Int
    <3>1. \A i \in DOMAIN asked : asked[i] \in Calls
      BY <1>4
    <3> QED BY <3>1 DEF Calls
  <2> QED BY <1>1, <1>4, <2>1 DEF InTime, SeenInTime
<1>7. \A t \in Texts : known'[t] = Missing \/ known'[t] \in 0 .. version'
  BY <1>1, <1>5 DEF LookupInv, LookupTypes
<1>8. LookupTypes'
  BY <1>1, <1>4, <1>5, <1>6, <1>7 DEF LookupInv, LookupTypes
<1>9. \A t \in Texts :
        t \in (raced \cup failed \cup outdated)' \/ known'[t] \in {Missing} \cup saved' .. version'
  BY <1>1, <1>3, <1>5 DEF LookupInv, KeyedInv
<1>10. KeyedInv'
  BY <1>1, <1>3, <1>9 DEF LookupInv, KeyedInv, Asks, CalledFor
<1> QED BY <1>3, <1>8, <1>10 DEF EffectInv, LookupInv

LEMMA InvalidateListsKeeps == ASSUME LookupInv, InvalidateLists PROVE LookupInv'
<1>1. /\ saved < version /\ saved' = version /\ outdated' = Texts
      /\ UNCHANGED <<box, typed, timers, settled, found, known, searching, generating,
                     candidates, choice, version, overtaken, failed, raced>>
  BY DEF InvalidateLists
<1>2. /\ asked \in Seq(Calls) /\ version \in Nat /\ saved \in 0 .. version
      /\ \A i \in DOMAIN asked : SeenInTime(asked[i])
      /\ ~Effect => OneEach(asked)
  BY KeyedFacts
<1>3. box.for = "reservation" /\ box \in SearchBoxes /\ settled \in Texts
  BY <1>1, <1>2 DEF LookupInv, LookupTypes
<1>4. ~Effect /\ ~Effect'
  BY <1>1, <1>3, BoxIs DEF Effect
<1> DEFINE c == Call(settled, version)
<1>5. c \in Calls /\ c.text = settled /\ c.since = version /\ c.seen = Missing
  BY <1>2, <1>3 DEF Call, Calls, Missing
<1> HIDE DEF c
<1>6. /\ asked' \in Seq(Calls) /\ OneEach(asked')
      /\ \A j \in DOMAIN asked' : asked'[j] = c \/ \E i \in DOMAIN asked : asked'[j] = asked[i]
      /\ \E j \in DOMAIN asked' : asked'[j].text = settled
  <2>1. CASE CalledFor(settled) /\ asked' = asked
    BY <1>2, <1>4, <2>1 DEF CalledFor
  <2>2. CASE asked' = Append(OthersOf(settled), c)
    <3>1. PICK r \in Seq(Calls) :
            /\ r = OthersOf(settled) /\ OneEach(r)
            /\ \A j \in DOMAIN r :
                 r[j].text # settled /\ \E i \in DOMAIN asked : r[j] = asked[i]
      <4>1. CASE CalledFor(settled)
        <5>1. PICK i \in DOMAIN asked :
                i = CHOOSE k \in DOMAIN asked : asked[k].text = settled
          BY <4>1 DEF CalledFor
        <5>2. asked[i].text = settled
          BY <4>1, <5>1 DEF CalledFor
        <5>3. OthersOf(settled) = RemoveAt(asked, i)
          BY <4>1, <5>1 DEF OthersOf
        <5> DEFINE r == RemoveAt(asked, i)
        <5>5. /\ r \in Seq(Calls)
              /\ \A j \in DOMAIN r : \E k \in DOMAIN asked \ {i} : r[j] = asked[k]
              /\ (\A a, b \in DOMAIN asked : asked[a].text = asked[b].text => a = b) =>
                   \A a, b \in DOMAIN r : r[a].text = r[b].text => a = b
          BY <1>2, CallRemoved
        <5> HIDE DEF r
        <5>6. OneEach(r)
          BY <1>2, <1>4, <5>5 DEF OneEach
        <5>7. \A k \in DOMAIN asked \ {i} : asked[k].text # settled
          BY <1>2, <1>4, <5>2 DEF OneEach
        <5> QED BY <5>3, <5>5, <5>6, <5>7 DEF r
      <4>2. CASE ~CalledFor(settled)
        BY <1>2, <1>4, <4>2 DEF OthersOf, CalledFor
      <4> QED BY <4>1, <4>2
    <3>2. /\ asked' \in Seq(Calls) /\ DOMAIN asked' = DOMAIN r \cup {Len(r) + 1}
          /\ \A j \in DOMAIN r : asked'[j] = r[j]
          /\ asked'[Len(r) + 1] = c
      BY <1>5, <2>2, <3>1, CallAdded
    <3>3. OneEach(asked')
      BY <1>5, <3>1, <3>2 DEF OneEach
    <3> QED BY <1>5, <3>1, <3>2, <3>3
  <2> QED BY <2>1, <2>2 DEF InvalidateLists, c
<1>7. CalledFor(settled)'
  BY <1>1, <1>6 DEF CalledFor
<1>8. InTime'
  <2>1. ASSUME NEW j \in DOMAIN asked'
        PROVE  /\ asked'[j].since \in 0 .. version
               /\ \/ asked'[j].seen = Missing
                  \/ asked'[j].seen \in asked'[j].since .. version
    BY <1>2, <1>5, <1>6 DEF SeenInTime
  <2> QED BY <1>1, <2>1 DEF InTime, SeenInTime
<1>9. LookupTypes'
  BY <1>1, <1>2, <1>3, <1>6, <1>8 DEF LookupInv, LookupTypes
<1>10. KeyedInv'
  BY <1>1, <1>4, <1>6, <1>7 DEF LookupInv, KeyedInv, OneEach
<1> QED BY <1>4, <1>9, <1>10 DEF EffectInv, LookupInv

LEMMA LookupHolds == LookupInv => LookupSound
<1> SUFFICES ASSUME LookupInv, timers = <<>>, asked = <<>>
             PROVE  /\ ~searching
                    /\ ~Effect =>
                         /\ settled = typed
                         /\ ListShown \in {typed, Nothing}
                         /\ Asks(settled) /\ Choosing /\ settled \notin failed =>
                              ListShown = settled
                         /\ settled \notin raced \cup failed =>
                              known[settled] \in {Missing} \cup saved .. version
                    /\ Effect /\ choice # "attached" /\ ~overtaken => FoundRight
  BY DEF LookupSound, FoundRight
<1>1. ~CalledFor(settled)
  BY DEF CalledFor
<1>2. ASSUME ~Effect
      PROVE  /\ ~searching /\ settled = typed
             /\ Asks(settled) /\ choice # "attached" =>
                  known[settled] # Missing \/ settled \in failed
             /\ settled \notin raced \cup failed =>
                  known[settled] \in {Missing} \cup saved .. version
  <2>1. settled \in Texts
    BY DEF LookupInv, LookupTypes
  <2> QED BY <1>1, <1>2, <2>1 DEF LookupInv, KeyedInv
<1>3. ~Effect => ListShown = IF known[settled] # Missing THEN settled ELSE Nothing
  BY DEF ListShown
<1>4. Choosing => choice # "attached"
  BY DEF Choosing, Nothing
<1>5. Effect => ~searching /\ (choice # "attached" /\ ~overtaken => FoundRight)
  BY DEF LookupInv, EffectInv
<1> QED BY <1>2, <1>3, <1>4, <1>5

LEMMA LookupInitial == LookupInit => LookupInv
<1> SUFFICES ASSUME LookupInit PROVE LookupInv
  OBVIOUS
<1>1. /\ box \in SearchBoxes
      /\ typed = Short /\ settled = Short /\ timers = <<>>
      /\ asked = IF box.asksShort THEN <<Call(Short, 0)>> ELSE <<>>
      /\ found = Nothing /\ known = [t \in Texts |-> Missing] /\ outdated = {}
      /\ searching = FALSE /\ generating = Nothing /\ choice = Nothing
      /\ version = 0 /\ saved = 0 /\ overtaken = FALSE /\ failed = {} /\ raced = {}
  BY DEF LookupInit, SearchBoxes, Call
<1>2. Short \in Texts /\ (Asks(Short) <=> box.asksShort) /\ (Effect => ~box.asksShort)
  BY <1>1, BoxIs DEF Texts, Asks, Short, Long
<1>3. /\ Call(Short, 0) \in Calls /\ Call(Short, 0).text = Short /\ SeenInTime(Call(Short, 0))
  BY <1>1, <1>2 DEF Call, Calls, SeenInTime, Missing
<1>4. asked \in Seq(Calls) /\ InTime /\ (\A i, j \in DOMAIN asked : i = j)
      /\ (box.asksShort => CalledFor(Short)) /\ (~box.asksShort => asked = <<>>)
  <2>1. CASE box.asksShort
    <3> DEFINE c == Call(Short, 0)
    <3> HIDE DEF c
    <3>1. asked = <<c>> /\ c \in Calls /\ c.text = Short /\ SeenInTime(c)
      BY <1>1, <1>3, <2>1 DEF c
    <3>2. asked \in Seq(Calls) /\ DOMAIN asked = {1} /\ asked[1] = c
      BY <3>1
    <3> QED BY <2>1, <3>1, <3>2 DEF InTime, CalledFor
  <2>2. CASE ~box.asksShort
    BY <1>1, <2>2 DEF InTime
  <2> QED BY <2>1, <2>2
<1>5. LookupTypes
  <2>1. /\ box \in SearchBoxes /\ typed \in Texts /\ settled \in Texts
        /\ timers \in {<<>>, <<typed>>} /\ outdated \subseteq Texts
        /\ searching \in BOOLEAN /\ overtaken \in BOOLEAN /\ version \in Nat
        /\ saved \in 0 .. version /\ generating = Nothing
    <3>1. 0 \in 0 .. 0 /\ 0 \in Nat /\ {} \subseteq Texts /\ <<>> \in {<<>>, <<Short>>}
      OBVIOUS
    <3> QED BY <1>1, <1>2, <3>1, Zenon
  <2>2. known \in [Texts -> Int] /\ \A t \in Texts : known[t] = Missing
    BY <1>1 DEF Missing
  <2>3. choice # "attached"
    BY <1>1 DEF Nothing
  <2> QED BY <1>1, <1>4, <2>1, <2>2, <2>3 DEF LookupTypes
<1>6. EffectInv
  BY <1>1, <1>2, <1>4 DEF EffectInv, FoundRight
<1>7. KeyedInv
  BY <1>1, <1>2, <1>4 DEF KeyedInv, Asks
<1> QED BY <1>5, <1>6, <1>7 DEF LookupInv

LEMMA LookupStep == LookupInv /\ [LookupNext]_lookupVars => LookupInv'
<1> SUFFICES ASSUME LookupInv, [LookupNext]_lookupVars PROVE LookupInv'
  OBVIOUS
<1>1. CASE UNCHANGED lookupVars
  BY <1>1 DEF lookupVars, LookupInv, LookupTypes, InTime, SeenInTime, EffectInv, KeyedInv, Effect,
              Asks, CalledFor, FoundRight
<1>2. ASSUME NEW t \in Texts, TypeText(t) PROVE LookupInv'
  BY <1>2, TypeTextKeeps
<1>3. CASE TimerFires
  BY <1>3, TimerKeeps
<1>4. ASSUME NEW i \in DOMAIN asked, AnswerCall(i) \/ Matched(i) \/ SearchFails(i) PROVE LookupInv'
  BY <1>4, AnswerCallKeeps, MatchedKeeps, SearchFailsKeeps
<1>5. CASE Generate \/ GenerateEnds \/ Attach \/ WarpInto \/ WarpChecked
  BY <1>5, ChoosingKeeps
<1>6. CASE Detach
  BY <1>6, DetachKeeps
<1>7. CASE ChangeReservation
  BY <1>7, ChangeReservationKeeps
<1>8. CASE InvalidateLists
  BY <1>8, InvalidateListsKeeps
<1> QED BY <1>1, <1>2, <1>3, <1>4, <1>5, <1>6, <1>7, <1>8 DEF LookupNext

(* When no timer and no call is left, the spinner is gone and the list is    *)
(* about the text typed, in whatever order the answers came in: always for a *)
(* keyed query; for an effect unless the text changed while a call was out,  *)
(* a call failed or a generation put its own matches there; and what the     *)
(* client was told is saved is on the list, unless a call for it was out     *)
(* while another text was looked at (mobile AttachMarket and admin effects,  *)
(* hooks.ts useDebounced, AdminReservations invalidate).                     *)
THEOREM ListAboutText == Spec => []LookupSound
<1>1. Init => LookupInv
  BY LookupInitial DEF Init
<1>2. LookupInv /\ [Next]_screenVars => LookupInv'
  BY ScreenMoves, LookupStep
<1> QED BY <1>1, <1>2, LookupHolds, PTL DEF Spec

-----------------------------------------------------------------------------
(* Stories *)

(* The groups of a rail: none is empty and each author has one.              *)
StoryGroup == [who : {"a", "b"}, first : Nat, last : Nat]
RailSound(gs) ==
  /\ gs \in Seq(StoryGroup) /\ \A i \in DOMAIN gs : Length(gs[i]) >= 1
  /\ \A i, j \in DOMAIN gs : gs[i].who = gs[j].who => i = j

Place == [group : Nat, story : Nat]
Places(gs) == {p \in Place : Stands(gs, p)}
Before(p, q) == p.group < q.group \/ (p.group = q.group /\ p.story < q.story)

(* Between two places watched nothing was skipped. *)
Convex(gs, watched) ==
  \A p, q, r \in Places(gs) :
    /\ Story(gs, p) \in watched /\ Story(gs, r) \in watched
    /\ Before(p, q) /\ Before(q, r)
    => Story(gs, q) \in watched

(* The viewer while every step of the timer was rendered before the next tap *)
(* and its groups are those it was opened with.                              *)
Unhurried == Watching /\ ~tapped /\ ~changed
StoryShown(gs, p, watched) ==
  /\ p \in Places(gs) /\ Story(gs, p) \in watched
  /\ watched \subseteq {Story(gs, q) : q \in Places(gs)} /\ Convex(gs, watched)
Timed ==
  /\ ~held /\ pending = Off => ticking = Closure(groups, at)
  /\ held => ticking = Off
  /\ pending # Off => pending = Closure(groups, at)
  /\ viewing = "mobile" => backs = IF pending # Off /\ Ends(pending) THEN 1 ELSE 0

TimerOfStory ==
  ticking # Off => /\ Watching /\ Stands(groups, at)
                   /\ Story(ticking.groups, ticking.at) = Story(groups, at)

CameraSound ==
  /\ published \in Nat /\ unheard \in Nat /\ published <= 1 + unheard
  /\ camera # "gone" => published <= unheard

ViewerSound ==
  /\ ~Watching => ticking = Off /\ pending = Off /\ visited = {} /\ held = FALSE
  /\ TimerOfStory
  /\ Unhurried => StoryShown(groups, at, visited) /\ Timed
  /\ viewing # "web" => ~changed
  /\ viewing # "mobile" => backs = 0
  /\ ~Watching /\ ~tapped => backs \in {0, 1}

StoryInv ==
  /\ posted \in [{"a", "b"} -> [first : Nat, last : Nat]] /\ RailSound(groups)
  /\ ViewerSound /\ CameraSound

-----------------------------------------------------------------------------
(* Places in the groups. *)

LEMMA PlaceFacts ==
  ASSUME NEW gs, RailSound(gs), NEW p \in Places(gs)
  PROVE  /\ p.group \in Nat /\ p.story \in Nat /\ p.group \in DOMAIN gs /\ p \in Place
         /\ DOMAIN gs = 1 .. Len(gs) /\ Len(gs) \in Nat
         /\ gs[p.group] \in StoryGroup /\ Length(gs[p.group]) \in Nat
         /\ p.story >= 1 /\ p.story <= Length(gs[p.group]) /\ p.group >= 1 /\ p.group <= Len(gs)
         /\ p # Away /\ Stands(gs, p)
         /\ Story(gs, p) = <<gs[p.group].who, gs[p.group].first + p.story - 1>>
         /\ Story(gs, p) # <<>>
<1>1. p \in Place /\ Stands(gs, p) /\ gs \in Seq(StoryGroup)
  BY DEF Places, RailSound
<1>2. p.group \in Nat /\ p.story \in Nat /\ p.group \in DOMAIN gs
  BY <1>1 DEF Stands, Place
<1>3. DOMAIN gs = 1 .. Len(gs) /\ Len(gs) \in Nat /\ gs[p.group] \in StoryGroup
  BY <1>1, <1>2
<1>4. p.group >= 1 /\ p.group <= Len(gs)
  BY <1>2, <1>3
<1>5. /\ gs[p.group].first \in Nat /\ gs[p.group].last \in Nat /\ Length(gs[p.group]) \in Int
      /\ Length(gs[p.group]) >= 1
  BY <1>2, <1>3 DEF StoryGroup, Length, RailSound
<1>6. p.story >= 1 /\ p.story <= Length(gs[p.group])
  BY <1>1, <1>2, <1>5 DEF Stands
<1>7. p # Away
  BY <1>4 DEF Away
<1>8. Story(gs, p) = <<gs[p.group].who, gs[p.group].first + p.story - 1>>
  BY <1>1 DEF Story
<1>9. Story(gs, p) # <<>>
  BY <1>8
<1> QED
  BY <1>1, <1>2, <1>3, <1>4, <1>5, <1>6, <1>7, <1>8, <1>9

LEMMA StoryParts ==
  ASSUME NEW gs, RailSound(gs), NEW p \in Places(gs)
  PROVE  /\ Story(gs, p)[1] = gs[p.group].who
         /\ Story(gs, p)[2] = gs[p.group].first + p.story - 1
<1>1. Story(gs, p) = <<gs[p.group].who, gs[p.group].first + p.story - 1>>
  BY PlaceFacts
<1> QED
  BY <1>1

(* A story is shown at one place. *)
LEMMA OnePlace ==
  ASSUME NEW gs, RailSound(gs), NEW p \in Places(gs), NEW q \in Places(gs),
         Story(gs, p) = Story(gs, q)
  PROVE  p = q
<1>1. gs[p.group].who = gs[q.group].who
  BY StoryParts
<1>2. p.group = q.group
  BY <1>1, PlaceFacts DEF RailSound
<1>3. gs[p.group].first + p.story - 1 = gs[p.group].first + q.story - 1
  BY <1>2, StoryParts
<1>4. gs[p.group].first \in Nat /\ p.story \in Nat /\ q.story \in Nat
  BY PlaceFacts DEF StoryGroup
<1>5. p.story = q.story
  BY <1>3, <1>4
<1>6. p \in Place /\ q \in Place
  BY PlaceFacts
<1> QED
  BY <1>2, <1>5, <1>6 DEF Place

LEMMA EarlierBefore ==
  ASSUME NEW gs, RailSound(gs), NEW p \in Places(gs), NEW q \in Places(gs)
  PROVE  Earlier(gs, Story(gs, p), Story(gs, q)) <=> Before(p, q)
<1> DEFINE place(z) == CHOOSE g \in DOMAIN gs : gs[g].who = z[1]
<1>1. ASSUME NEW r \in Places(gs)
      PROVE  place(Story(gs, r)) = r.group
  <2>1. Story(gs, r)[1] = gs[r.group].who /\ r.group \in DOMAIN gs
    BY PlaceFacts, StoryParts
  <2>2. \A g \in DOMAIN gs : gs[g].who = Story(gs, r)[1] => g = r.group
    BY <2>1 DEF RailSound
  <2> QED
    BY <2>1, <2>2
<1>2. Earlier(gs, Story(gs, p), Story(gs, q))
        <=> \/ place(Story(gs, p)) < place(Story(gs, q))
            \/ Story(gs, p)[1] = Story(gs, q)[1] /\ Story(gs, p)[2] < Story(gs, q)[2]
  BY DEF Earlier
<1> HIDE DEF place
<1>3. /\ Story(gs, p)[1] = gs[p.group].who /\ Story(gs, q)[1] = gs[q.group].who
      /\ Story(gs, p)[2] = gs[p.group].first + p.story - 1
      /\ Story(gs, q)[2] = gs[q.group].first + q.story - 1
  BY StoryParts
<1>4. gs[p.group].who = gs[q.group].who <=> p.group = q.group
  BY PlaceFacts DEF RailSound
<1>5. /\ gs[p.group].first \in Nat /\ gs[q.group].first \in Nat
      /\ p.story \in Nat /\ q.story \in Nat /\ p.group \in Nat /\ q.group \in Nat
  BY PlaceFacts DEF StoryGroup
<1>6. p.group = q.group => (Story(gs, p)[2] < Story(gs, q)[2] <=> p.story < q.story)
  <2> SUFFICES ASSUME p.group = q.group
               PROVE  Story(gs, p)[2] < Story(gs, q)[2] <=> p.story < q.story
    OBVIOUS
  <2>1. PICK f \in Nat : f = gs[p.group].first
    BY <1>5
  <2>2. Story(gs, p)[2] = f + p.story - 1 /\ Story(gs, q)[2] = f + q.story - 1
    BY <1>3, <2>1
  <2>3. f + p.story - 1 < f + q.story - 1 <=> p.story < q.story
    BY <1>5
  <2> QED
    BY <2>2, <2>3
<1>7. place(Story(gs, p)) = p.group /\ place(Story(gs, q)) = q.group
  BY <1>1
<1> QED
  BY <1>2, <1>3, <1>4, <1>6, <1>7 DEF Before

(* Places next to each other. *)
Adjacent(gs, p, n) ==
  /\ p # n
  /\ \A q \in Places(gs) : ~ (Before(p, q) /\ Before(q, n)) /\ ~ (Before(n, q) /\ Before(q, p))

LEMMA MakePlace ==
  ASSUME NEW gs, RailSound(gs), NEW g \in DOMAIN gs, NEW s \in 1 .. Length(gs[g])
  PROVE  /\ [group |-> g, story |-> s] \in Places(gs)
<1>1. gs \in Seq(StoryGroup) /\ g \in Nat /\ gs[g] \in StoryGroup
  BY DEF RailSound
<1>2. Length(gs[g]) \in Int
  BY <1>1 DEF Length, StoryGroup
<1>3. s \in Nat
  BY <1>2
<1>4. [group |-> g, story |-> s] \in Place
  BY <1>1, <1>3 DEF Place
<1> QED
  BY <1>4 DEF Places, Stands

(* One step on, by the groups and the place rendered, is to the next place,  *)
(* and from the last one away.                                               *)
LEMMA OnwardNext ==
  ASSUME NEW gs, RailSound(gs), NEW p \in Places(gs), NEW n, n = Onward(p, Closure(gs, p))
  PROVE  /\ n = Away <=> Ends(Closure(gs, p))
         /\ n # Away => n \in Places(gs) /\ Adjacent(gs, p, n)
<1>1. PICK g \in Nat, s \in Nat, len \in Nat, m \in Nat :
        /\ g = p.group /\ s = p.story /\ len = Length(gs[p.group]) /\ m = Len(gs)
        /\ g >= 1 /\ g <= m /\ s >= 1 /\ s <= len /\ p # Away
  BY PlaceFacts
<1>2. p = [group |-> g, story |-> s]
  BY <1>1, PlaceFacts DEF Place
<1>3. Closure(gs, p).at = p /\ Closure(gs, p).groups = gs
  BY DEF Closure
<1>4. Ends(Closure(gs, p)) <=> s >= len /\ g >= m
  BY <1>1, <1>3 DEF Ends
<1>5. DOMAIN gs = 1 .. m
  BY <1>1, PlaceFacts
<1>6. CASE s < len
  <2>1. n = [p EXCEPT !.story = @ + 1]
    BY <1>1, <1>3, <1>6 DEF Onward
  <2>2. n = [group |-> g, story |-> s + 1]
    BY <1>2, <2>1
  <2>3. n \in Places(gs)
    <3>1. s + 1 \in 1 .. Length(gs[g]) /\ g \in DOMAIN gs
      BY <1>1, <1>5, <1>6
    <3> QED
      BY <2>2, <3>1, MakePlace
  <2>4. Adjacent(gs, p, n)
    <3>1. n.group = g /\ n.story = s + 1 /\ p.group = g /\ p.story = s
      BY <1>2, <2>2
    <3>2. ASSUME NEW q \in Places(gs)
          PROVE  ~ (Before(p, q) /\ Before(q, n)) /\ ~ (Before(n, q) /\ Before(q, p))
      <4>1. q.group \in Nat /\ q.story \in Nat
        BY PlaceFacts
      <4> QED
        BY <3>1, <4>1 DEF Before
    <3>3. p # n
      BY <3>1
    <3> QED
      BY <3>2, <3>3 DEF Adjacent
  <2>5. n # Away /\ ~ (s >= len)
    <3>1. n.group = g /\ g # 0
      BY <1>1, <2>2
    <3> QED
      BY <1>6, <3>1 DEF Away
  <2> QED
    BY <1>4, <2>3, <2>4, <2>5
<1>7. CASE s >= len /\ g < m
  <2>1. n = [group |-> g + 1, story |-> 1]
    BY <1>1, <1>3, <1>7 DEF Onward
  <2>2. n \in Places(gs)
    <3>1. g + 1 \in DOMAIN gs
      BY <1>5, <1>7
    <3>2. Length(gs[g + 1]) >= 1 /\ gs[g + 1] \in StoryGroup
      BY <3>1 DEF RailSound
    <3>3. Length(gs[g + 1]) \in Int
      BY <3>2 DEF Length, StoryGroup
    <3>4. 1 \in 1 .. Length(gs[g + 1])
      BY <3>2, <3>3
    <3> QED
      BY <2>1, <3>1, <3>4, MakePlace
  <2>3. Adjacent(gs, p, n)
    <3>1. n.group = g + 1 /\ n.story = 1 /\ p.group = g /\ p.story = s
      BY <1>2, <2>1
    <3>2. ASSUME NEW q \in Places(gs)
          PROVE  ~ (Before(p, q) /\ Before(q, n)) /\ ~ (Before(n, q) /\ Before(q, p))
      <4>1. q.group \in Nat /\ q.story \in Nat /\ q.story >= 1
            /\ (q.group = g => q.story <= len)
        BY <1>1, PlaceFacts
      <4> QED
        BY <1>7, <3>1, <4>1 DEF Before
    <3>3. p # n
      BY <3>1
    <3> QED
      BY <3>2, <3>3 DEF Adjacent
  <2>4. n # Away /\ ~ (g >= m)
    <3>1. n.group = g + 1 /\ g + 1 # 0
      BY <1>1, <2>1
    <3> QED
      BY <1>7, <3>1 DEF Away
  <2> QED
    BY <1>4, <2>2, <2>3, <2>4
<1>8. CASE s >= len /\ g >= m
  <2>1. n = Away
    BY <1>1, <1>3, <1>8 DEF Onward
  <2> QED
    BY <1>4, <1>8, <2>1
<1> QED
  BY <1>6, <1>7, <1>8

LEMMA BackwardNext ==
  ASSUME NEW gs, RailSound(gs), NEW p \in Places(gs), NEW n, n = Backward(p, Closure(gs, p))
  PROVE  n \in Places(gs) /\ (n = p \/ Adjacent(gs, p, n))
<1>1. PICK g \in Nat, s \in Nat, len \in Nat, m \in Nat :
        /\ g = p.group /\ s = p.story /\ len = Length(gs[p.group]) /\ m = Len(gs)
        /\ g >= 1 /\ g <= m /\ s >= 1 /\ s <= len /\ p # Away
  BY PlaceFacts
<1>2. p = [group |-> g, story |-> s]
  BY <1>1, PlaceFacts DEF Place
<1>3. Closure(gs, p).at = p /\ Closure(gs, p).groups = gs
  BY DEF Closure
<1>4. DOMAIN gs = 1 .. m
  BY <1>1, PlaceFacts
<1>5. CASE s > 1
  <2>1. n = [p EXCEPT !.story = @ - 1]
    BY <1>1, <1>3, <1>5 DEF Backward
  <2>2. n = [group |-> g, story |-> s - 1]
    BY <1>2, <2>1
  <2>3. n \in Places(gs)
    <3>1. s - 1 \in 1 .. Length(gs[g]) /\ g \in DOMAIN gs
      BY <1>1, <1>4, <1>5
    <3> QED
      BY <2>2, <3>1, MakePlace
  <2>4. Adjacent(gs, p, n)
    <3>1. n.group = g /\ n.story = s - 1 /\ p.group = g /\ p.story = s
      BY <1>2, <2>2
    <3>2. ASSUME NEW q \in Places(gs)
          PROVE  ~ (Before(p, q) /\ Before(q, n)) /\ ~ (Before(n, q) /\ Before(q, p))
      <4>1. q.group \in Nat /\ q.story \in Nat
        BY PlaceFacts
      <4> QED
        BY <3>1, <4>1 DEF Before
    <3>3. p # n
      BY <3>1
    <3> QED
      BY <3>2, <3>3 DEF Adjacent
  <2> QED
    BY <2>3, <2>4
<1>6. CASE s <= 1 /\ g > 1
  <2>1. n = [group |-> g - 1, story |-> Length(gs[g - 1])]
    BY <1>1, <1>3, <1>6 DEF Backward
  <2>2. g - 1 \in DOMAIN gs /\ g - 1 \in Nat
    BY <1>1, <1>4, <1>6
  <2>3. Length(gs[g - 1]) >= 1 /\ gs[g - 1] \in StoryGroup
    BY <2>2 DEF RailSound
  <2>4. PICK k \in Nat : k = Length(gs[g - 1]) /\ k >= 1
    BY <2>3 DEF Length, StoryGroup
  <2>5. n \in Places(gs)
    <3>1. k \in 1 .. Length(gs[g - 1])
      BY <2>4
    <3> QED
      BY <2>1, <2>2, <2>4, <3>1, MakePlace
  <2>6. Adjacent(gs, p, n)
    <3>1. n.group = g - 1 /\ n.story = k /\ p.group = g /\ p.story = s
      BY <1>2, <2>1, <2>4
    <3>2. ASSUME NEW q \in Places(gs)
          PROVE  ~ (Before(p, q) /\ Before(q, n)) /\ ~ (Before(n, q) /\ Before(q, p))
      <4>1. q.group \in Nat /\ q.story \in Nat /\ q.story >= 1
            /\ (q.group = g - 1 => q.story <= k)
        BY <2>4, PlaceFacts
      <4> QED
        BY <1>6, <3>1, <4>1 DEF Before
    <3>3. p # n
      BY <1>1, <3>1
    <3> QED
      BY <3>2, <3>3 DEF Adjacent
  <2> QED
    BY <2>5, <2>6
<1>7. CASE s <= 1 /\ ~ (g > 1)
  BY <1>1, <1>3, <1>7 DEF Backward
<1> QED
  BY <1>1, <1>5, <1>6, <1>7

-----------------------------------------------------------------------------
(* A render. *)

(* The timer after a render is of the story it shows. *)
LEMMA RenderTimes ==
  ASSUME TimerOfStory, NEW gs, RailSound(gs), NEW p, NEW h \in BOOLEAN, RenderAs(gs, p, h)
  PROVE  /\ groups' = gs /\ at' = p /\ pending' = Off /\ held' = (h /\ p # Away)
         /\ p = Away => ticking' = Off /\ visited' = {}
         /\ TimerOfStory'
         /\ Stands(gs, p) /\ p # Away =>
              ticking' = IF h THEN Off
                         ELSE IF Story(groups, at) # Story(gs, p) \/ held THEN Closure(gs, p)
                         ELSE ticking
<1> DEFINE before == Story(groups, at)
           after == Story(gs, p)
<1>1. /\ groups' = gs /\ at' = p /\ pending' = Off /\ held' = (h /\ p # Away)
      /\ visited' = IF p = Away THEN {} ELSE visited \cup ({after} \ {<<>>})
      /\ ticking' = CASE p = Away \/ after = <<>> -> Off
                      [] Stands(gs, p) /\ h -> Off
                      [] Stands(gs, p) /\ ~h /\ (Keyed(before, after) \/ held) -> Closure(gs, p)
                      [] OTHER -> ticking
  BY DEF RenderAs
<1>2. Keyed(before, after) <=> before # after
  BY DEF Keyed, NewStory
<1>3. after # <<>> <=> Stands(gs, p)
  <2>1. CASE Stands(gs, p)
    <3>1. after = <<gs[p.group].who, gs[p.group].first + p.story - 1>>
      BY <2>1 DEF Story
    <3>2. after # <<>>
      BY <3>1
    <3> QED
      BY <2>1, <3>2
  <2>2. CASE ~ Stands(gs, p)
    BY <2>2 DEF Story
  <2> QED
    BY <2>1, <2>2
<1> HIDE DEF before, after
<1>4. CASE p = Away \/ ~ Stands(gs, p)
  <2>0. ~ Stands(gs, p) /\ after = <<>>
    <3>1. DOMAIN gs = 1 .. Len(gs) /\ Len(gs) \in Nat
      BY DEF RailSound
    <3>2. ~ Stands(gs, Away)
      BY <3>1 DEF Stands, Away
    <3> QED
      BY <1>3, <1>4, <3>2
  <2>1. ticking' = Off
    BY <1>1, <2>0
  <2>2. TimerOfStory'
    BY <2>1 DEF TimerOfStory
  <2> QED
    BY <1>1, <1>4, <2>1, <2>2
<1>5. CASE p # Away /\ Stands(gs, p) /\ h
  <2>1. ticking' = Off
    BY <1>1, <1>3, <1>5
  <2>2. TimerOfStory'
    BY <2>1 DEF TimerOfStory
  <2> QED
    BY <1>1, <1>5, <2>1, <2>2
<1>6. CASE p # Away /\ Stands(gs, p) /\ ~ h /\ (before # after \/ held)
  <2>1. ticking' = Closure(gs, p)
    BY <1>1, <1>2, <1>3, <1>6
  <2>2. ticking'.groups = gs /\ ticking'.at = p
    BY <2>1 DEF Closure
  <2>3. TimerOfStory'
    BY <1>1, <1>6, <2>2 DEF TimerOfStory, Watching
  <2> QED
    BY <1>1, <1>6, <2>1, <2>3 DEF before, after
<1>7. CASE p # Away /\ Stands(gs, p) /\ ~ h /\ before = after /\ ~ held
  <2>1. ticking' = ticking
    BY <1>1, <1>2, <1>3, <1>7
  <2>2. ASSUME ticking # Off
        PROVE  Story(ticking.groups, ticking.at) = after
    BY <1>7, <2>2 DEF TimerOfStory, before
  <2>3. Story(groups', at') = after
    BY <1>1 DEF after
  <2>4. Watching' /\ Stands(groups', at')
    BY <1>1, <1>7 DEF Watching
  <2>5. TimerOfStory'
    BY <2>1, <2>2, <2>3, <2>4 DEF TimerOfStory
  <2> QED
    BY <1>1, <1>7, <2>1, <2>5 DEF before, after
<1> QED
  BY <1>4, <1>5, <1>6, <1>7

(* What was watched stays without gaps when a place next to the one shown is.   *)
LEMMA ConvexGrows ==
  ASSUME NEW gs, RailSound(gs), NEW p \in Places(gs), NEW n \in Places(gs), NEW watched,
         Story(gs, p) \in watched, Convex(gs, watched), Adjacent(gs, p, n)
  PROVE  Convex(gs, watched \cup {Story(gs, n)})
<1> SUFFICES ASSUME NEW a \in Places(gs), NEW q \in Places(gs), NEW r \in Places(gs),
                    Story(gs, a) \in watched \cup {Story(gs, n)},
                    Story(gs, r) \in watched \cup {Story(gs, n)},
                    Before(a, q), Before(q, r), Story(gs, q) \notin watched
             PROVE  Story(gs, q) = Story(gs, n)
  BY DEF Convex
<1>0. /\ p.group \in Nat /\ p.story \in Nat /\ q.group \in Nat /\ q.story \in Nat
      /\ a.group \in Nat /\ a.story \in Nat /\ r.group \in Nat /\ r.story \in Nat
      /\ n.group \in Nat /\ n.story \in Nat /\ p \in Place /\ q \in Place
  BY PlaceFacts
<1>1. Before(p, q) \/ Before(q, p) \/ p = q
  BY <1>0 DEF Before, Place
<1>2. p # q
  OBVIOUS
<1>3. ASSUME Story(gs, a) \in watched, Story(gs, r) \in watched PROVE FALSE
  BY <1>3 DEF Convex
<1>4. CASE Story(gs, a) \notin watched
  <2>1. a = n
    BY <1>4, OnePlace
  <2>2. ~ Before(q, p)
    BY <2>1 DEF Adjacent
  <2>3. Before(p, q)
    BY <1>1, <1>2, <2>2
  <2>4. Story(gs, r) \notin watched
    BY <2>3 DEF Convex
  <2>5. r = n
    BY <2>4, OnePlace
  <2> QED
    BY <1>0, <2>1, <2>5 DEF Before
<1>5. CASE Story(gs, r) \notin watched
  <2>1. r = n
    BY <1>5, OnePlace
  <2>2. ~ Before(p, q)
    BY <2>1 DEF Adjacent
  <2>3. Before(q, p)
    BY <1>1, <1>2, <2>2
  <2>4. Story(gs, a) \notin watched
    BY <2>3 DEF Convex
  <2>5. a = n
    BY <2>4, OnePlace
  <2> QED
    BY <1>0, <2>1, <2>5 DEF Before
<1> QED
  BY <1>3, <1>4, <1>5

(* In calm viewing a render shows the place it came from or one next to it.  *)
LEMMA CalmRender ==
  ASSUME RailSound(groups), TimerOfStory, StoryShown(groups, at, visited),
         ~ held /\ pending = Off => ticking = Closure(groups, at),
         NEW p \in Places(groups), NEW h \in BOOLEAN, RenderAs(groups, p, h),
         Adjacent(groups, at, p) \/ (p = at /\ pending = Off)
  PROVE  /\ groups' = groups /\ at' = p /\ pending' = Off /\ Watching'
         /\ StoryShown(groups', at', visited')
         /\ ~ held' => ticking' = Closure(groups', at')
         /\ held' => ticking' = Off
<1>1. /\ groups' = groups /\ at' = p /\ pending' = Off /\ held' = (h /\ p # Away)
      /\ Stands(groups, p) /\ p # Away =>
           ticking' = IF h THEN Off
                      ELSE IF Story(groups, at) # Story(groups, p) \/ held
                      THEN Closure(groups, p) ELSE ticking
  BY RenderTimes
<1>2. p # Away /\ Stands(groups, p) /\ Story(groups, p) # <<>>
  BY PlaceFacts
<1>3. /\ at \in Places(groups) /\ Story(groups, at) \in visited
      /\ visited \subseteq {Story(groups, q) : q \in Places(groups)} /\ Convex(groups, visited)
  BY DEF StoryShown
<1>4. visited' = visited \cup {Story(groups, p)}
  BY <1>2 DEF RenderAs
<1>5. Convex(groups, visited')
  <2>1. CASE Adjacent(groups, at, p)
    BY <1>3, <1>4, <2>1, ConvexGrows
  <2>2. CASE p = at
    <3>1. visited' = visited
      BY <1>3, <1>4, <2>2
    <3> QED
      BY <1>3, <3>1
  <2> QED
    BY <2>1, <2>2
<1>6. StoryShown(groups', at', visited')
  BY <1>1, <1>3, <1>4, <1>5 DEF StoryShown
<1>7. ASSUME ~ held' PROVE ticking' = Closure(groups', at')
  <2>1. ~ h
    BY <1>1, <1>2, <1>7
  <2>2. CASE Story(groups, at) # Story(groups, p) \/ held
    BY <1>1, <1>2, <2>1, <2>2
  <2>3. CASE Story(groups, at) = Story(groups, p) /\ ~ held
    <3>1. p = at
      BY <1>3, <2>3, OnePlace
    <3>2. pending = Off
      BY <3>1 DEF Adjacent
    <3> QED
      BY <1>1, <1>2, <2>1, <2>3, <3>1, <3>2
  <2> QED
    BY <2>2, <2>3
<1>8. held' => ticking' = Off
  BY <1>1, <1>2
<1> QED
  BY <1>1, <1>2, <1>6, <1>7, <1>8 DEF Watching

-----------------------------------------------------------------------------
(* The steps of the viewer. *)

LEMMA RailIsSound ==
  ASSUME posted \in [{"a", "b"} -> [first : Nat, last : Nat]]
  PROVE  RailSound(Rail)
<1>1. ASSUME NEW w \in {"a", "b"}
      PROVE  /\ StoriesOf(w) \in Seq(StoryGroup) /\ Len(StoriesOf(w)) \in {0, 1}
             /\ \A i \in 1 .. Len(StoriesOf(w)) :
                  StoriesOf(w)[i].who = w /\ Length(StoriesOf(w)[i]) >= 1
  <2>1. CASE Unexpired(w) > 0
    <3> DEFINE g == [who |-> w, first |-> posted[w].first, last |-> posted[w].last]
    <3>1. g \in StoryGroup /\ g.who = w /\ Length(g) = Unexpired(w)
      BY DEF StoryGroup, Length, Unexpired
    <3>2. Unexpired(w) \in Int
      BY DEF Unexpired
    <3>3. StoriesOf(w) = <<g>>
      BY <2>1 DEF StoriesOf
    <3> HIDE DEF g
    <3>4. Length(g) >= 1
      BY <2>1, <3>1, <3>2
    <3> QED
      BY <3>1, <3>3, <3>4
  <2>2. CASE ~ (Unexpired(w) > 0)
    <3>1. StoriesOf(w) = <<>>
      BY <2>2 DEF StoriesOf
    <3> QED
      BY <3>1
  <2> QED
    BY <2>1, <2>2
<1>2. PICK s, t : s = StoriesOf("a") /\ t = StoriesOf("b") /\ Rail = s \o t
  BY DEF Rail
<1>3. /\ s \in Seq(StoryGroup) /\ Len(s) \in {0, 1}
      /\ \A i \in 1 .. Len(s) : s[i].who = "a" /\ Length(s[i]) >= 1
  BY <1>1, <1>2
<1>4. /\ t \in Seq(StoryGroup) /\ Len(t) \in {0, 1}
      /\ \A i \in 1 .. Len(t) : t[i].who = "b" /\ Length(t[i]) >= 1
  BY <1>1, <1>2
<1>5. JoinOf(StoryGroup, s, t, Rail)
  BY <1>2, <1>3, <1>4, Joined
<1>6. /\ Rail \in Seq(StoryGroup) /\ DOMAIN Rail = 1 .. Len(s) + Len(t)
      /\ \A k \in 1 .. Len(s) : Rail[k] = s[k]
      /\ \A k \in 1 .. Len(t) : Rail[Len(s) + k] = t[k]
  BY <1>5 DEF JoinOf
<1>7. ASSUME NEW i \in DOMAIN Rail
      PROVE  /\ Length(Rail[i]) >= 1
             /\ \/ Rail[i].who = "a" /\ Len(s) = 1 /\ i = 1
                \/ Rail[i].who = "b" /\ Len(t) = 1 /\ i = Len(s) + 1
  <2>1. \/ i \in 1 .. Len(s) /\ Len(s) = 1 /\ i = 1
        \/ 1 \in 1 .. Len(t) /\ Len(t) = 1 /\ i = Len(s) + 1
    <3>1. PICK a \in {0, 1}, b \in {0, 1} : a = Len(s) /\ b = Len(t)
      BY <1>3, <1>4
    <3>2. i \in 1 .. a + b
      BY <1>6, <3>1
    <3>3. (i \in 1 .. a /\ a = 1 /\ i = 1) \/ (1 \in 1 .. b /\ b = 1 /\ i = a + 1)
      BY <3>2
    <3> QED
      BY <3>1, <3>3
  <2> QED
    BY <1>3, <1>4, <1>6, <2>1
<1> QED
  BY <1>6, <1>7 DEF RailSound

(* What the invariant says of a calm viewer. *)
LEMMA CalmViewer ==
  ASSUME ViewerSound, RailSound(groups), Unhurried
  PROVE  /\ TimerOfStory /\ StoryShown(groups, at, visited) /\ at \in Places(groups)
         /\ ~ held /\ pending = Off => ticking = Closure(groups, at)
         /\ held => ticking = Off
         /\ pending # Off => pending = Closure(groups, at)
         /\ viewing = "mobile" => backs = IF pending # Off /\ Ends(pending) THEN 1 ELSE 0
  BY DEF ViewerSound, StoryShown, Timed

(* A render that ends a step of the viewer: the rest of the step is told by  *)
(* what it does to the calm viewer and to the calls of router.back.          *)
LEMMA ViewerStep ==
  ASSUME ViewerSound, NEW gs, RailSound(gs), NEW p, NEW h \in BOOLEAN, RenderAs(gs, p, h),
         Unhurried' => StoryShown(groups', at', visited') /\ Timed',
         UNCHANGED viewing,
         viewing # "web" => ~ changed',
         viewing # "mobile" => backs' = 0,
         p = Away /\ ~ tapped' => backs' \in {0, 1}
  PROVE  ViewerSound' /\ RailSound(groups')
<1>1. /\ groups' = gs /\ at' = p /\ pending' = Off
      /\ p = Away => ticking' = Off /\ visited' = {}
      /\ TimerOfStory'
  BY RenderTimes DEF ViewerSound
<1>2. Watching' <=> p # Away
  BY <1>1 DEF Watching
<1> QED
  <2>1. p = Away => held' = FALSE
    BY RenderTimes DEF ViewerSound
  <2> QED
    BY <1>1, <1>2, <2>1 DEF ViewerSound

(* While the viewer is open and no tap came early, the mobile one is calm.   *)
LEMMA MobileCalm ==
  ASSUME ViewerSound, Watching, ~ tapped, viewing = "mobile"
  PROVE  Unhurried
  BY DEF ViewerSound, Unhurried

LEMMA OpenGroupKeeps ==
  ASSUME ViewerSound, RailSound(groups), NEW i \in DOMAIN groups, OpenGroup(i)
  PROVE  ViewerSound' /\ RailSound(groups')
<1> DEFINE p == [group |-> i, story |-> 1]
<1>1. /\ ~ Watching /\ RenderAs(groups, p, FALSE) /\ tapped' = FALSE /\ changed' = FALSE
      /\ backs' = 0 /\ UNCHANGED viewing
  BY DEF OpenGroup
<1>2. p \in Places(groups)
  <2>1. Length(groups[i]) >= 1 /\ groups[i] \in StoryGroup
    BY DEF RailSound
  <2>2. 1 \in 1 .. Length(groups[i])
    BY <2>1 DEF Length, StoryGroup
  <2> QED
    BY <2>2, MakePlace
<1> HIDE DEF p
<1>3. at = Away /\ visited = {}
  BY <1>1 DEF ViewerSound, Watching
<1>4. p # Away /\ Stands(groups, p) /\ Story(groups, p) # <<>>
  BY <1>2, PlaceFacts
<1>5. Story(groups, at) = <<>>
  <2>1. DOMAIN groups = 1 .. Len(groups) /\ Len(groups) \in Nat
    BY DEF RailSound
  <2>2. ~ Stands(groups, Away)
    BY <2>1 DEF Stands, Away
  <2> QED
    BY <1>3, <2>2 DEF Story
<1>6. /\ groups' = groups /\ at' = p /\ pending' = Off /\ held' = FALSE
      /\ ticking' = Closure(groups, p)
  BY <1>1, <1>4, <1>5, RenderTimes DEF ViewerSound
<1>7. visited' = {Story(groups, p)}
  BY <1>1, <1>3, <1>4 DEF RenderAs
<1>8. Convex(groups, {Story(groups, p)})
  <2> SUFFICES ASSUME NEW a \in Places(groups), NEW q \in Places(groups), NEW r \in Places(groups),
                      Story(groups, a) = Story(groups, p), Story(groups, r) = Story(groups, p),
                      Before(a, q), Before(q, r)
               PROVE  FALSE
    BY DEF Convex
  <2>1. a = p /\ r = p
    BY <1>2, OnePlace
  <2>2. q.group \in Nat /\ q.story \in Nat /\ p.group \in Nat /\ p.story \in Nat
    BY <1>2, PlaceFacts
  <2> QED
    BY <2>1, <2>2 DEF Before
<1>9. StoryShown(groups', at', visited')
  BY <1>2, <1>6, <1>7, <1>8 DEF StoryShown
<1>10. Timed'
  BY <1>1, <1>6 DEF Timed
<1> QED
  BY <1>1, <1>4, <1>9, <1>10, ViewerStep

LEMMA TimerEndsKeeps ==
  ASSUME ViewerSound, RailSound(groups), TimerEnds
  PROVE  ViewerSound' /\ RailSound(groups')
<1>1. /\ Watching /\ ticking # Off /\ pending = Off /\ pending' = ticking /\ ticking' = Off
      /\ backs' = backs + (IF viewing = "mobile" /\ Ends(ticking) THEN 1 ELSE 0)
      /\ UNCHANGED <<viewing, groups, at, held, visited, tapped, changed>>
  BY DEF TimerEnds, On
<1>2. ASSUME Unhurried' PROVE StoryShown(groups', at', visited') /\ Timed'
  <2>1. Unhurried
    BY <1>1, <1>2 DEF Unhurried, Watching
  <2>2. /\ StoryShown(groups, at, visited) /\ ticking = Closure(groups, at)
        /\ viewing = "mobile" => backs = 0
    BY <1>1, <2>1, CalmViewer
  <2>3. viewing = "mobile" => backs' = IF Ends(pending') THEN 1 ELSE 0
    BY <1>1, <2>2
  <2> QED
    BY <1>1, <2>2, <2>3 DEF Timed
<1>3. TimerOfStory'
  BY <1>1 DEF TimerOfStory
<1>4. viewing # "mobile" => backs' = 0
  BY <1>1 DEF ViewerSound
<1>5. Watching'
  BY <1>1 DEF Watching
<1>6. viewing # "web" => ~ changed'
  BY <1>1 DEF ViewerSound
<1> QED
  BY <1>1, <1>2, <1>3, <1>4, <1>5, <1>6 DEF ViewerSound

(* The pending step, the release and a hold are rendered from calm viewing   *)
(* at the place shown or the one after it, or the viewer is left.            *)
LEMMA SettledRender ==
  ASSUME ViewerSound, RailSound(groups), Watching, NEW h \in BOOLEAN,
         RenderAs(groups, Settle(at), h), UNCHANGED <<viewing, backs, tapped, changed>>
  PROVE  ViewerSound' /\ RailSound(groups')
<1>1. PICK p : p = Settle(at)
  OBVIOUS
<1>2. /\ groups' = groups /\ at' = p /\ pending' = Off
  BY <1>1, RenderTimes DEF ViewerSound
<1>3. ASSUME Unhurried
      PROVE  /\ p = Away => pending # Off /\ Ends(pending)
             /\ p # Away => /\ p \in Places(groups) /\ ~ (pending # Off /\ Ends(pending))
                            /\ Adjacent(groups, at, p) \/ (p = at /\ pending = Off)
  <2>1. /\ at \in Places(groups) /\ (pending # Off => pending = Closure(groups, at))
    BY <1>3, CalmViewer
  <2>2. CASE pending = Off
    <3>1. p = at /\ at # Away
      BY <1>1, <2>1, <2>2, PlaceFacts DEF Settle
    <3> QED
      BY <2>1, <2>2, <3>1
  <2>3. CASE pending # Off
    <3>1. p = Onward(at, Closure(groups, at)) /\ pending = Closure(groups, at)
      BY <1>1, <2>1, <2>3 DEF Settle
    <3>2. /\ p = Away <=> Ends(Closure(groups, at))
          /\ p # Away => p \in Places(groups) /\ Adjacent(groups, at, p)
      BY <2>1, <3>1, OnwardNext
    <3> QED
      BY <2>3, <3>1, <3>2
  <2> QED
    BY <2>2, <2>3
<1>4. ASSUME Unhurried' PROVE StoryShown(groups', at', visited') /\ Timed'
  <2>1. Unhurried /\ p # Away
    BY <1>2, <1>4 DEF Unhurried, Watching
  <2>2. /\ TimerOfStory /\ StoryShown(groups, at, visited)
        /\ ~ held /\ pending = Off => ticking = Closure(groups, at)
        /\ viewing = "mobile" => backs = IF pending # Off /\ Ends(pending) THEN 1 ELSE 0
    BY <2>1, CalmViewer
  <2>3. /\ p \in Places(groups) /\ ~ (pending # Off /\ Ends(pending))
        /\ Adjacent(groups, at, p) \/ (p = at /\ pending = Off)
    BY <1>3, <2>1
  <2>4. RenderAs(groups, p, h)
    BY <1>1
  <2>5. /\ pending' = Off /\ StoryShown(groups', at', visited')
        /\ ~ held' => ticking' = Closure(groups', at')
        /\ held' => ticking' = Off
    BY <2>2, <2>3, <2>4, CalmRender
  <2>6. viewing' = "mobile" => backs' = 0
    BY <2>2, <2>3
  <2> QED
    BY <2>5, <2>6 DEF Timed
<1>5. ASSUME p = Away, ~ tapped' PROVE backs' \in {0, 1}
  <2>1. CASE viewing = "mobile"
    <3>1. Unhurried
      BY <1>5, <2>1, MobileCalm
    <3>2. backs = IF pending # Off /\ Ends(pending) THEN 1 ELSE 0
      BY <2>1, <3>1, CalmViewer
    <3> QED
      BY <3>2
  <2>2. CASE viewing # "mobile"
    BY <2>2 DEF ViewerSound
  <2> QED
    BY <2>1, <2>2
<1>6. (viewing # "web" => ~ changed') /\ (viewing # "mobile" => backs' = 0)
  BY DEF ViewerSound
<1>7. RenderAs(groups, p, h)
  BY <1>1
<1> QED
  BY <1>4, <1>5, <1>6, <1>7, ViewerStep

(* A tap before the timer's step is rendered ends the calm. *)
LEMMA TapKeeps ==
  ASSUME ViewerSound, RailSound(groups), TapOnward \/ TapBackward
  PROVE  ViewerSound' /\ RailSound(groups')
<1> DEFINE c == Closure(groups, at)
<1>1. PICK to :
        /\ to = Onward(Settle(at), c) \/ to = Backward(Settle(at), c)
        /\ Tap(to)
        /\ \/ /\ to = Onward(Settle(at), c)
              /\ backs' = backs + (IF viewing = "mobile" /\ Ends(c) THEN 1 ELSE 0)
           \/ to = Backward(Settle(at), c) /\ backs' = backs
  BY DEF TapOnward, TapBackward, On
<1>2. /\ Watching /\ RenderAs(groups, to, FALSE) /\ tapped' = (tapped \/ pending # Off)
      /\ UNCHANGED <<viewing, changed>>
  BY <1>1 DEF Tap
<1>3. groups' = groups /\ at' = to /\ pending' = Off
  BY <1>2, RenderTimes DEF ViewerSound
<1>4. ~ tapped' => ~ tapped /\ pending = Off
  BY <1>2, Zenon
<1>5. ASSUME Unhurried, pending = Off
      PROVE  /\ to = Away => backs' = backs + (IF viewing = "mobile" THEN 1 ELSE 0)
             /\ to # Away => /\ to \in Places(groups) /\ backs' = backs
                             /\ to = at \/ Adjacent(groups, at, to)
             /\ viewing = "mobile" => backs = 0
  <2>1. at \in Places(groups) /\ Settle(at) = at /\ (viewing = "mobile" => backs = 0)
    BY <1>5, CalmViewer DEF Settle
  <2>2. CASE to = Onward(at, c) /\ backs' = backs + (IF viewing = "mobile" /\ Ends(c) THEN 1 ELSE 0)
    <3>1. /\ to = Away <=> Ends(c)
          /\ to # Away => to \in Places(groups) /\ Adjacent(groups, at, to)
      BY <2>1, <2>2, OnwardNext
    <3>2. viewing # "mobile" => backs = 0
      BY DEF ViewerSound
    <3> QED
      BY <2>1, <2>2, <3>1, <3>2
  <2>3. CASE to = Backward(at, c) /\ backs' = backs
    <3>1. to \in Places(groups) /\ (to = at \/ Adjacent(groups, at, to))
      BY <2>1, <2>3, BackwardNext
    <3>2. to # Away
      BY <3>1, PlaceFacts
    <3> QED
      BY <2>1, <2>3, <3>1, <3>2
  <2> QED
    BY <1>1, <2>1, <2>2, <2>3
<1> HIDE DEF c
<1>6. ASSUME Unhurried' PROVE StoryShown(groups', at', visited') /\ Timed'
  <2>1. Unhurried /\ pending = Off /\ to # Away
    BY <1>2, <1>3, <1>4, <1>6 DEF Unhurried, Watching
  <2>2. /\ TimerOfStory /\ StoryShown(groups, at, visited)
        /\ ~ held /\ pending = Off => ticking = Closure(groups, at)
    BY <2>1, CalmViewer
  <2>3. /\ to \in Places(groups) /\ (to = at \/ Adjacent(groups, at, to))
        /\ viewing = "mobile" => backs' = 0
    BY <1>5, <2>1
  <2>4. /\ pending' = Off /\ StoryShown(groups', at', visited')
        /\ ~ held' => ticking' = Closure(groups', at')
        /\ held' => ticking' = Off
    BY <1>2, <2>1, <2>2, <2>3, CalmRender
  <2> QED
    BY <1>2, <2>3, <2>4 DEF Timed
<1>7. viewing # "mobile" => backs' = 0
  BY <1>1 DEF ViewerSound
<1>8. ASSUME to = Away, ~ tapped' PROVE backs' \in {0, 1}
  <2>1. CASE viewing = "mobile"
    <3>1. Unhurried /\ pending = Off
      BY <1>2, <1>4, <1>8, <2>1, MobileCalm
    <3> QED
      BY <1>5, <1>8, <2>1, <3>1
  <2>2. CASE viewing # "mobile"
    BY <1>7, <2>2
  <2> QED
    BY <2>1, <2>2
<1>9. viewing # "web" => ~ changed'
  BY <1>2 DEF ViewerSound
<1> QED
  BY <1>2, <1>6, <1>7, <1>8, <1>9, ViewerStep

LEMMA CloseKeeps ==
  ASSUME ViewerSound, RailSound(groups), CloseViewer
  PROVE  ViewerSound' /\ RailSound(groups')
<1>1. /\ Watching /\ RenderAs(groups, Away, FALSE) /\ tapped' = (tapped \/ pending # Off)
      /\ backs' = backs + (IF viewing = "mobile" THEN 1 ELSE 0)
      /\ UNCHANGED <<viewing, changed>>
  BY DEF CloseViewer, On
<1>2. ~ Unhurried'
  <2>1. at' = Away
    BY <1>1 DEF RenderAs
  <2> QED
    BY <2>1 DEF Unhurried, Watching
<1>3. viewing # "mobile" => backs' = 0
  BY <1>1 DEF ViewerSound
<1>4. ASSUME ~ tapped' PROVE backs' \in {0, 1}
  <2>1. CASE viewing = "mobile"
    <3>1. ~ tapped /\ pending = Off
      BY <1>1, <1>4, Zenon
    <3>2. Unhurried
      BY <1>1, <2>1, <3>1, MobileCalm
    <3>3. backs = 0
      BY <2>1, <3>1, <3>2, CalmViewer
    <3> QED
      BY <1>1, <2>1, <3>3
  <2>2. CASE viewing # "mobile"
    BY <1>3, <2>2
  <2> QED
    BY <2>1, <2>2
<1>5. viewing # "web" => ~ changed'
  BY <1>1 DEF ViewerSound
<1> QED
  BY <1>1, <1>2, <1>3, <1>4, <1>5, ViewerStep

(* The web's keys and the rail behind a viewer that shows nothing: it is not *)
(* calm and does not become so.                                              *)
LEMMA BehindKeeps ==
  ASSUME ViewerSound, RailSound(groups), BehindNothing
  PROVE  ViewerSound' /\ RailSound(groups')
<1>1. /\ viewing = "web" /\ Watching /\ ~ Stands(groups, at)
      /\ UNCHANGED <<viewing, backs, tapped, changed>>
  BY DEF BehindNothing, On
<1>2. PICK p : RenderAs(groups, p, FALSE)
  BY DEF BehindNothing
<1>3. ~ Unhurried
  BY <1>1, CalmViewer, PlaceFacts
<1>4. ~ Unhurried'
  BY <1>1, <1>3 DEF Unhurried
<1>5. backs' = 0
  BY <1>1 DEF ViewerSound
<1> QED
  BY <1>1, <1>2, <1>4, <1>5, ViewerStep

LEMMA RailReadKeeps ==
  ASSUME ViewerSound, RailSound(groups), RailSound(Rail), RailRead
  PROVE  ViewerSound' /\ RailSound(groups')
<1>1. UNCHANGED <<viewing, backs, tapped>>
  BY DEF RailRead
<1>2. CASE ~ Watching
  <2>1. /\ groups' = Rail /\ UNCHANGED <<at, ticking, pending, held, visited, changed>>
    BY <1>2 DEF RailRead
  <2>2. ~ Watching' /\ ~ Unhurried'
    BY <1>2, <2>1 DEF Watching, Unhurried
  <2>3. ticking' = Off
    BY <1>2, <2>1 DEF ViewerSound
  <2> QED
    BY <1>1, <1>2, <2>1, <2>2, <2>3 DEF ViewerSound, TimerOfStory
<1>3. CASE Watching
  <2>1. viewing = "web" /\ changed' = TRUE
    BY <1>3 DEF RailRead, On
  <2>2. PICK p : RenderAs(Rail, p, FALSE)
    BY <1>3 DEF RailRead
  <2>3. ~ Unhurried'
    BY <2>1 DEF Unhurried
  <2>4. backs' = 0
    BY <1>1, <2>1 DEF ViewerSound
  <2> QED
    BY <1>1, <2>1, <2>2, <2>3, <2>4, ViewerStep
<1> QED
  BY <1>2, <1>3

LEMMA ViewerRests ==
  ASSUME ViewerSound, RailSound(groups), UNCHANGED <<viewing, viewerVars>>
  PROVE  ViewerSound' /\ RailSound(groups')
<1>1. UNCHANGED <<viewing, groups, at, ticking, pending, held, backs, visited, tapped, changed>>
  BY DEF viewerVars
<1> QED
  BY <1>1 DEF ViewerSound, TimerOfStory, Watching, Unhurried, Timed

-----------------------------------------------------------------------------
(* The camera. *)

LEMMA CameraStep ==
  ASSUME CameraSound,
         \/ TakePhoto \/ Captured \/ CaptureFails \/ Retake \/ SendStory \/ StoryPublished
         \/ SendingFails \/ LeaveCamera
  PROVE  CameraSound' /\ UNCHANGED <<viewing, posted, viewerVars>>
<1>1. UNCHANGED <<viewing, posted, viewerVars>>
  BY DEF TakePhoto, Captured, CaptureFails, Retake, SendStory, StoryPublished, SendingFails,
         LeaveCamera, CameraMoves
<1>2. published \in Nat /\ unheard \in Nat /\ published <= 1 + unheard
      /\ (camera # "gone" => published <= unheard)
  BY DEF CameraSound
<1>3. CASE TakePhoto \/ Captured \/ CaptureFails \/ Retake \/ SendStory
  <2>1. camera # "gone" /\ UNCHANGED <<published, unheard>>
    BY <1>3 DEF TakePhoto, Captured, CaptureFails, Retake, SendStory, CameraMoves
  <2> QED
    BY <1>1, <1>2, <2>1 DEF CameraSound
<1>4. CASE StoryPublished
  <2>1. camera # "gone" /\ camera' = "gone" /\ published' = published + 1 /\ unheard' = unheard
    BY <1>4 DEF StoryPublished, CameraMoves
  <2> QED
    BY <1>1, <1>2, <2>1 DEF CameraSound
<1>5. CASE SendingFails
  <2>1. /\ camera # "gone"
        /\ \/ published' = published /\ unheard' = unheard
           \/ published' = published + 1 /\ unheard' = unheard + 1
    BY <1>5 DEF SendingFails, CameraMoves
  <2> QED
    BY <1>1, <1>2, <2>1 DEF CameraSound
<1>6. CASE LeaveCamera
  <2>1. /\ camera # "gone" /\ camera' = "gone" /\ unheard' = unheard
        /\ published' = published \/ published' = published + 1
    BY <1>6 DEF LeaveCamera, CameraMoves
  <2> QED
    BY <1>1, <1>2, <2>1 DEF CameraSound
<1> QED
  BY <1>1, <1>3, <1>4, <1>5, <1>6

-----------------------------------------------------------------------------
LEMMA StoryInvInit == StoriesInit => StoryInv
<1> SUFFICES ASSUME StoriesInit PROVE StoryInv
  OBVIOUS
<1>1. posted \in [{"a", "b"} -> [first : Nat, last : Nat]]
  <2>1. posted \in [{"a", "b"} -> {[first |-> 1, last |-> n] : n \in 0 .. MaxStories}]
    BY DEF StoriesInit
  <2>2. {[first |-> 1, last |-> n] : n \in 0 .. MaxStories} \subseteq [first : Nat, last : Nat]
    BY StoriesAssumption
  <2> QED
    BY <2>1, <2>2
<1>2. RailSound(groups)
  BY <1>1, RailIsSound DEF StoriesInit
<1>3. ViewerSound
  BY DEF StoriesInit, ViewerSound, Watching, TimerOfStory, Unhurried
<1>4. CameraSound
  BY DEF StoriesInit, CameraSound
<1> QED
  BY <1>1, <1>2, <1>3, <1>4 DEF StoryInv

LEMMA StoryInvNext == StoryInv /\ [StoriesNext]_storyVars => StoryInv'
<1> SUFFICES ASSUME StoryInv, [StoriesNext]_storyVars PROVE StoryInv'
  OBVIOUS
<1>1. /\ posted \in [{"a", "b"} -> [first : Nat, last : Nat]]
      /\ RailSound(groups) /\ RailSound(Rail) /\ ViewerSound /\ CameraSound
  BY RailIsSound DEF StoryInv
<1>2. ASSUME ViewerSound', RailSound(groups'), UNCHANGED <<posted, cameraVars>>
      PROVE  StoryInv'
  BY <1>1, <1>2 DEF StoryInv, CameraSound, cameraVars
<1>3. ASSUME NEW i \in DOMAIN groups, OpenGroup(i) PROVE StoryInv'
  BY <1>1, <1>2, <1>3, OpenGroupKeeps DEF OpenGroup
<1>4. CASE TimerEnds
  BY <1>1, <1>2, <1>4, TimerEndsKeeps DEF TimerEnds
<1>5. CASE StepRendered
  <2>1. /\ Watching /\ RenderAs(groups, Settle(at), held)
        /\ UNCHANGED <<viewing, posted, backs, tapped, changed, cameraVars>>
    BY <1>5 DEF StepRendered, Settle
  <2>2. PICK h \in BOOLEAN : RenderAs(groups, Settle(at), h)
    <3>1. (held /\ Onward(at, pending) # Away) \in BOOLEAN
      OBVIOUS
    <3> QED
      BY <2>1, <3>1 DEF RenderAs
  <2> QED
    BY <1>1, <1>2, <2>1, <2>2, SettledRender
<1>6. CASE TapOnward \/ TapBackward
  <2>1. ViewerSound' /\ RailSound(groups')
    BY <1>1, <1>6, TapKeeps
  <2>2. UNCHANGED <<posted, cameraVars>>
    BY <1>6 DEF TapOnward, TapBackward, Tap
  <2> QED
    BY <1>2, <2>1, <2>2
<1>7. CASE Hold \/ Release
  <2>1. /\ RenderAs(groups, Settle(at), TRUE) \/ RenderAs(groups, Settle(at), FALSE)
        /\ UNCHANGED <<viewing, posted, backs, tapped, changed, cameraVars>>
    BY <1>7 DEF Hold, Release
  <2>2. Watching
    BY <1>1, <1>7 DEF Hold, Release, ViewerSound
  <2> QED
    BY <1>1, <1>2, <2>1, <2>2, SettledRender
<1>8. CASE CloseViewer
  BY <1>1, <1>2, <1>8, CloseKeeps DEF CloseViewer
<1>9. CASE BehindNothing
  BY <1>1, <1>2, <1>9, BehindKeeps DEF BehindNothing
<1>10. CASE StoriesChange
  <2>1. UNCHANGED <<viewing, viewerVars, cameraVars>>
    BY <1>10 DEF StoriesChange
  <2>2. PICK author \in {"a", "b"} :
          \/ posted' = [posted EXCEPT ![author].last = @ + 1]
          \/ posted' = [posted EXCEPT ![author].first = @ + 1]
    BY <1>10 DEF StoriesChange
  <2>3. posted' \in [{"a", "b"} -> [first : Nat, last : Nat]]
    BY <1>1, <2>2
  <2>4. ViewerSound' /\ RailSound(groups')
    BY <1>1, <2>1, ViewerRests
  <2>5. CameraSound'
    BY <1>1, <2>1 DEF CameraSound, cameraVars
  <2> QED
    BY <2>3, <2>4, <2>5 DEF StoryInv
<1>11. CASE RailRead
  BY <1>1, <1>2, <1>11, RailReadKeeps DEF RailRead
<1>12. CASE \/ TakePhoto \/ Captured \/ CaptureFails \/ Retake \/ SendStory \/ StoryPublished
            \/ SendingFails \/ LeaveCamera
  <2>1. CameraSound' /\ UNCHANGED <<viewing, posted, viewerVars>>
    BY <1>1, <1>12, CameraStep
  <2> QED
    BY <1>1, <2>1, ViewerRests DEF StoryInv
<1>13. CASE UNCHANGED storyVars
  <2>1. UNCHANGED <<viewing, viewerVars>> /\ UNCHANGED <<posted, cameraVars>>
    BY <1>13 DEF storyVars
  <2> QED
    BY <1>1, <1>2, <2>1, ViewerRests
<1> QED
  BY <1>3, <1>4, <1>5, <1>6, <1>7, <1>8, <1>9, <1>10, <1>11, <1>12, <1>13 DEF StoriesNext

LEMMA StoryInvSound == StoryInv => StorySound
<1> SUFFICES ASSUME StoryInv PROVE StorySound
  OBVIOUS
<1>1. RailSound(groups) /\ ViewerSound /\ CameraSound
  BY DEF StoryInv
<1>2. ASSUME Watching, ~ tapped, ~ changed
      PROVE  /\ Stands(groups, at) /\ NoneSkipped
             /\ ~held /\ pending = Off => ticking = Closure(groups, at)
  <2>1. /\ StoryShown(groups, at, visited) /\ at \in Places(groups)
        /\ ~ held /\ pending = Off => ticking = Closure(groups, at)
    BY <1>1, <1>2, CalmViewer DEF Unhurried
  <2>2. ASSUME NEW x \in visited, NEW y \in visited, NEW z \in InOrder(groups),
               Earlier(groups, x, z), Earlier(groups, z, y)
        PROVE  z \in visited
    <3>1. PICK p \in Places(groups), r \in Places(groups) :
            x = Story(groups, p) /\ y = Story(groups, r)
      BY <2>1 DEF StoryShown
    <3>2. PICK q \in Places(groups) : z = Story(groups, q)
      <4>1. PICK q \in [group : DOMAIN groups, story : 1 .. MaxStories] :
              Stands(groups, q) /\ z = Story(groups, q)
        BY DEF InOrder
      <4>2. DOMAIN groups \subseteq Nat /\ 1 .. MaxStories \subseteq Nat
        BY <1>1, StoriesAssumption DEF RailSound
      <4>3. q \in Place
        BY <4>2 DEF Place
      <4> QED
        BY <4>1, <4>3 DEF Places
    <3>3. Before(p, q) /\ Before(q, r)
      BY <1>1, <2>2, <3>1, <3>2, EarlierBefore
    <3> QED
      BY <2>1, <3>1, <3>2, <3>3 DEF StoryShown, Convex
  <2> QED
    BY <2>1, <2>2, PlaceFacts, <1>1 DEF NoneSkipped
<1>3. Watching /\ Stands(groups, at) /\ ticking # Off =>
        Story(ticking.groups, ticking.at) = Story(groups, at)
  BY <1>1 DEF ViewerSound, TimerOfStory
<1>4. ASSUME ~ tapped PROVE backs <= 1
  <2>1. CASE viewing # "mobile"
    BY <1>1, <2>1 DEF ViewerSound
  <2>2. CASE viewing = "mobile" /\ Watching
    <3>1. Unhurried
      BY <1>1, <1>4, <2>2, MobileCalm
    <3>2. backs \in {0, 1}
      BY <1>1, <2>2, <3>1, CalmViewer
    <3> QED
      BY <3>2
  <2>3. CASE viewing = "mobile" /\ ~ Watching
    BY <1>1, <1>4, <2>3 DEF ViewerSound
  <2> QED
    BY <2>1, <2>2, <2>3
<1>5. published <= 1 + unheard
  BY <1>1 DEF CameraSound
<1> QED
  BY <1>2, <1>3, <1>4, <1>5 DEF StorySound

(* Going through stories by taps, holds and the timer, none between two seen *)
(* is skipped, a story is always shown and its own timer runs unless it is   *)
(* held, and the viewer is left once: except when a tap falls between the    *)
(* timer's step and its rendering, or the web's list changes under the open  *)
(* viewer.  One photo makes one story unless an answer was lost (stories.tsx *)
(* effect keyed by story.id, StoriesRail.tsx next, story-camera.tsx send).   *)
THEOREM NoStorySkipped == Spec => []StorySound
<1>1. Init => StoryInv
  BY StoryInvInit DEF Init
<1>2. StoryInv /\ [Next]_screenVars => StoryInv'
  BY ScreenMoves, StoryInvNext
<1> QED BY <1>1, <1>2, StoryInvSound, PTL DEF Spec

-----------------------------------------------------------------------------
(* Threads of messages *)

(* What may stand out of order or twice, what is shown or on its way, and    *)
(* that from a message on none is left out.                                  *)
Exempt == doubled \cup missed \cup {Optimistic}
Given == ToSet(list) \cup ToSet(channel) \cup Awaited
Known == ToSet(list) \cup missed \cup ToSet(channel)
FirstPage == ~ loaded \/ InFlight("load")

Ordered(shownList, exempt) ==
  \A i, j \in DOMAIN shownList :
    i < j /\ shownList[i] \notin exempt /\ shownList[j] \notin exempt => shownList[i] > shownList[j]

Covered(a, among, n) == \A m \in 1 .. n : a <= m => m \in among

AtMostOne(shownList) ==
  \A i, j \in DOMAIN shownList : shownList[i] = Optimistic /\ shownList[j] = Optimistic => i = j

ThreadTypes ==
  /\ client \in {"mobile", "web"} /\ stored \in Nat /\ stored >= OldMessages
  /\ list \in Seq(Nat) /\ ToSet(list) \subseteq 0 .. stored
  /\ channel \in Seq(Nat) /\ ToSet(channel) \subseteq OldMessages + 1 .. stored
  /\ \A i, j \in DOMAIN channel : i < j => channel[i] < channel[j]
  /\ Awaited \subseteq OldMessages + 1 .. stored
  /\ cursor \in 0 .. stored
  /\ \A r \in replies :
       r.kind \in {"load", "older"} /\ \E b \in 1 .. stored + 1 : r.page = Page(b)
  /\ \A r \in replies : r.kind = "load" => \E b \in OldMessages + 1 .. stored + 1 : r.page = Page(b)

(* The list is in order, and what comes belongs in front of it.              *)
NewestFirst ==
  /\ Ordered(list, Exempt)
  /\ \A m \in ToSet(channel) \ Exempt :
       m \in ToSet(list) \/ \A x \in ToSet(list) \ Exempt : x < m
  /\ \A m \in Awaited \ Exempt : \A x \in ToSet(list) \ Exempt : x < m
  /\ Awaited \subseteq Exempt \cup ToSet(channel)

OneOptimistic == AtMostOne(list) /\ (Optimistic \in ToSet(list) => sending # 0)

(* Older pages are below what is shown; only a page asked for while another  *)
(* is on its way may come twice.                                             *)
OlderBelow ==
  /\ FirstPage => cursor = 0 /\ \A r \in replies : r.kind = "load"
  /\ \A r, q \in replies : r.kind = "load" /\ q.kind = "load" => loaded /\ r = q
  /\ \A r \in replies : r.kind # "load" =>
       ToSet(r.page) \subseteq doubled \/ (cursor # 0 /\ r.page = Page(cursor))
  /\ \A r, q \in replies : r # q /\ r.kind # "load" /\ q.kind # "load" =>
       ToSet(r.page) \subseteq doubled
  /\ \A x \in Given \ Exempt :
       /\ cursor <= x
       /\ \A r \in replies : r.kind # "load" => \A y \in ToSet(r.page) : y < x

Gapless ==
  /\ \A a \in Given \ {Optimistic} : Covered(a, Known, stored)
  /\ cursor # 0 => Covered(cursor, Known, stored)
  /\ \A r \in replies : r.kind # "load" =>
       \E b \in 1 .. stored + 1 : r.page = Page(b) /\ Covered(b, Known, stored)
  /\ FirstPage => Covered(OldMessages + 1, Known, stored)

WebThread ==
  /\ list = <<>> /\ cursor = 0 /\ \A r \in replies : r.kind = "load"
  /\ live \in Seq(Nat) /\ ToSet(live) \subseteq OldMessages + 1 .. stored
  /\ \A m \in OldMessages + 1 .. stored : m \in ToSet(live) \cup missed \cup ToSet(channel)
  /\ \/ ToSet(history) = {}
     \/ \E b \in OldMessages + 1 .. stored + 1 : ToSet(history) = ToSet(Page(b))

ThreadInv ==
  /\ ThreadTypes
  /\ client = "mobile" => NewestFirst /\ OneOptimistic /\ OlderBelow /\ Gapless
  /\ client = "web" => WebThread

-----------------------------------------------------------------------------
(* Pages and lists. *)

(* The oldest message of a full page, 0 for the last page. *)
Bottom(b) == IF b - 1 < PageSize THEN 0 ELSE b - PageSize

LEMMA PageIs ==
  ASSUME NEW b \in Nat \ {0}
  PROVE  /\ Page(b) \in Seq(Nat) /\ NextCursor(Page(b)) = Bottom(b)
         /\ ToSet(Page(b)) = {m \in 1 .. b - 1 : Bottom(b) <= m}
         /\ \A i, j \in DOMAIN Page(b) : i < j => Page(b)[i] > Page(b)[j]
         /\ Bottom(b) \in Nat /\ Bottom(b) < b
         /\ Bottom(b) # 0 => Bottom(b) \in ToSet(Page(b))
<1>1. PICK n \in Nat : n = IF b - 1 < PageSize THEN b - 1 ELSE PageSize
  BY ConversationAssumption
<1>2. n <= b - 1 /\ PageSize \in Nat \ {0}
  BY <1>1, ConversationAssumption
<1>3. Page(b) = [i \in 1 .. n |-> b - 1 + 1 - i]
  BY <1>1 DEF Page
<1>4. ASSUME NEW i \in 1 .. n PROVE b - 1 + 1 - i = b - i /\ b - i \in Nat
  BY <1>2
<1>5. Page(b) = [i \in 1 .. n |-> b - i]
  BY <1>3, <1>4
<1>6. Page(b) \in Seq(Nat) /\ Len(Page(b)) = n /\ DOMAIN Page(b) = 1 .. n
  BY <1>4, <1>5
<1>7. \A i \in 1 .. n : Page(b)[i] = b - i
  BY <1>5
<1>8. Bottom(b) \in Nat /\ Bottom(b) < b
  BY <1>2 DEF Bottom
<1>9. NextCursor(Page(b)) = Bottom(b)
  <2>1. CASE b - 1 < PageSize
    <3>1. n < PageSize /\ Bottom(b) = 0
      BY <1>1, <2>1 DEF Bottom
    <3> QED
      BY <1>6, <3>1 DEF NextCursor
  <2>2. CASE ~ (b - 1 < PageSize)
    <3>1. n = PageSize /\ n \in 1 .. n /\ Bottom(b) = b - n
      BY <1>1, <1>2, <2>2 DEF Bottom
    <3>2. NextCursor(Page(b)) = Page(b)[n]
      BY <1>6, <1>2, <3>1 DEF NextCursor, Last
    <3> QED
      BY <1>7, <3>1, <3>2
  <2> QED
    BY <2>1, <2>2
<1>10. ToSet(Page(b)) = {m \in 1 .. b - 1 : Bottom(b) <= m}
  <2>1. ToSet(Page(b)) = {b - i : i \in 1 .. n}
    BY <1>6, <1>7 DEF ToSet
  <2>2. ASSUME NEW i \in 1 .. n PROVE b - i \in 1 .. b - 1 /\ Bottom(b) <= b - i
    BY <1>1, <1>2 DEF Bottom
  <2>3. ASSUME NEW m \in 1 .. b - 1, Bottom(b) <= m PROVE b - m \in 1 .. n /\ b - (b - m) = m
    BY <1>1, <1>2, <2>3 DEF Bottom
  <2> QED
    BY <2>1, <2>2, <2>3
<1>11. ASSUME NEW i \in DOMAIN Page(b), NEW j \in DOMAIN Page(b), i < j
       PROVE  Page(b)[i] > Page(b)[j]
  <2>1. i \in 1 .. n /\ j \in 1 .. n
    BY <1>6
  <2>2. Page(b)[i] = b - i /\ Page(b)[j] = b - j
    BY <1>7, <2>1
  <2>3. b - i > b - j
    BY <1>2, <1>11, <2>1
  <2> QED
    BY <2>2, <2>3
<1>12. Bottom(b) # 0 => Bottom(b) \in ToSet(Page(b))
  BY <1>8, <1>10
<1> QED
  BY <1>6, <1>8, <1>9, <1>10, <1>11, <1>12

LEMMA PageOrdered ==
  ASSUME NEW b \in Nat \ {0}, NEW E
  PROVE  Ordered(Page(b), E) /\ AtMostOne(Page(b)) /\ Optimistic \notin ToSet(Page(b))
<1>1. Optimistic \notin ToSet(Page(b))
  BY PageIs DEF Optimistic
<1>2. AtMostOne(Page(b))
  BY <1>1 DEF AtMostOne, ToSet
<1>3. Ordered(Page(b), E)
  BY PageIs DEF Ordered
<1> QED
  BY <1>1, <1>2, <1>3

(* A message put in front. *)
LEMMA InFront ==
  ASSUME NEW s \in Seq(Nat), NEW m \in Nat, NEW E
  PROVE  /\ <<m>> \o s \in Seq(Nat) /\ ToSet(<<m>> \o s) = ToSet(s) \cup {m}
         /\ Ordered(s, E) /\ (m \in E \/ \A x \in ToSet(s) \ E : x < m) => Ordered(<<m>> \o s, E)
         /\ AtMostOne(s) /\ (m = Optimistic => Optimistic \notin ToSet(s)) => AtMostOne(<<m>> \o s)
<1> DEFINE t == <<m>> \o s
<1>1. PICK n \in Nat : n = Len(s)
  OBVIOUS
<1>2. /\ t \in Seq(Nat) /\ Len(t) = n + 1 /\ t[1] = m /\ \A i \in 1 .. n : t[1 + i] = s[i]
      /\ DOMAIN t = 1 .. n + 1 /\ DOMAIN s = 1 .. n
  <2>0. <<m>> \in Seq(Nat)
    OBVIOUS
  <2>1. JoinOf(Nat, <<m>>, s, t)
    BY <2>0, Joined
  <2>2. Len(<<m>>) = 1 /\ <<m>>[1] = m
    OBVIOUS
  <2> HIDE DEF t
  <2>3. t \in Seq(Nat) /\ Len(t) = 1 + n /\ t[1] = m /\ \A i \in 1 .. n : t[1 + i] = s[i]
    BY <1>1, <2>1, <2>2 DEF JoinOf
  <2> QED
    BY <1>1, <2>3
<1> HIDE DEF t
<1>3. \A k \in DOMAIN t : k = 1 \/ (k - 1 \in DOMAIN s /\ t[k] = s[k - 1])
  <2>1. ASSUME NEW k \in 1 .. n + 1, k # 1 PROVE k - 1 \in 1 .. n /\ 1 + (k - 1) = k
    BY <2>1
  <2> QED
    BY <1>2, <2>1
<1>4. ToSet(t) = ToSet(s) \cup {m}
  <2>1. ASSUME NEW x \in ToSet(t) PROVE x \in ToSet(s) \cup {m}
    <3>1. PICK k \in DOMAIN t : x = t[k]
      BY DEF ToSet
    <3>2. CASE k = 1
      BY <1>2, <3>1, <3>2
    <3>3. CASE k # 1
      BY <1>3, <3>1, <3>3 DEF ToSet
    <3> QED
      BY <3>2, <3>3
  <2>2. ASSUME NEW x \in ToSet(s) PROVE x \in ToSet(t)
    <3>1. PICK i \in 1 .. n : x = s[i]
      BY <1>2 DEF ToSet
    <3>2. 1 + i \in DOMAIN t /\ t[1 + i] = x
      BY <1>2, <3>1
    <3> QED
      BY <3>2 DEF ToSet
  <2>3. m \in ToSet(t)
    <3>1. 1 \in DOMAIN t
      BY <1>2
    <3> QED
      BY <1>2, <3>1 DEF ToSet
  <2> QED
    BY <2>1, <2>2, <2>3
<1>5. ASSUME Ordered(s, E), m \in E \/ \A x \in ToSet(s) \ E : x < m
      PROVE  Ordered(t, E)
  <2> SUFFICES ASSUME NEW i \in DOMAIN t, NEW j \in DOMAIN t, i < j, t[i] \notin E, t[j] \notin E
               PROVE  t[i] > t[j]
    BY DEF Ordered
  <2>1. i \in Nat /\ j \in Nat /\ j # 1 /\ i >= 1
    BY <1>2
  <2>2. j - 1 \in DOMAIN s /\ t[j] = s[j - 1]
    BY <1>3, <2>1
  <2>3. CASE i = 1
    <3>1. t[i] = m /\ m \notin E /\ t[j] \in ToSet(s) \ E
      BY <1>2, <2>2, <2>3 DEF ToSet
    <3>2. t[j] < m /\ t[j] \in Nat
      BY <1>5, <2>2, <3>1
    <3> QED
      BY <3>1, <3>2
  <2>4. CASE i # 1
    <3>1. i - 1 \in DOMAIN s /\ t[i] = s[i - 1]
      BY <1>3, <2>4
    <3>2. i - 1 < j - 1
      BY <2>1
    <3> QED
      BY <1>5, <2>2, <3>1, <3>2 DEF Ordered
  <2> QED
    BY <2>3, <2>4
<1>6. ASSUME AtMostOne(s), m = Optimistic => Optimistic \notin ToSet(s)
      PROVE  AtMostOne(t)
  <2> SUFFICES ASSUME NEW i \in DOMAIN t, NEW j \in DOMAIN t, t[i] = Optimistic, t[j] = Optimistic
               PROVE  i = j
    BY DEF AtMostOne
  <2>1. i \in Nat /\ j \in Nat
    BY <1>2
  <2>2. CASE i # 1 /\ j # 1
    <3>1. /\ i - 1 \in DOMAIN s /\ s[i - 1] = Optimistic
          /\ j - 1 \in DOMAIN s /\ s[j - 1] = Optimistic
      BY <1>3, <2>2
    <3>2. i - 1 = j - 1
      BY <1>6, <3>1 DEF AtMostOne
    <3> QED
      BY <2>1, <3>2
  <2>3. ASSUME i = 1 \/ j = 1, i # j PROVE FALSE
    <3>1. m = Optimistic
      BY <1>2, <2>3
    <3>2. PICK k \in DOMAIN t : k # 1 /\ t[k] = Optimistic
      BY <2>3
    <3>3. k - 1 \in DOMAIN s /\ s[k - 1] = Optimistic
      BY <1>3, <3>2
    <3> QED
      BY <1>6, <3>1, <3>3 DEF ToSet
  <2> QED
    BY <2>2, <2>3
<1> QED
  BY <1>2, <1>4, <1>5, <1>6 DEF t

(* A page put behind. *)
LEMMA Behind ==
  ASSUME NEW s \in Seq(Nat), NEW p \in Seq(Nat), NEW E
  PROVE  /\ s \o p \in Seq(Nat) /\ ToSet(s \o p) = ToSet(s) \cup ToSet(p)
         /\ Ordered(s, E) /\ Ordered(p, E) /\ (\A x \in ToSet(s) \ E, y \in ToSet(p) \ E : y < x)
              => Ordered(s \o p, E)
         /\ AtMostOne(s) /\ Optimistic \notin ToSet(p) => AtMostOne(s \o p)
<1> DEFINE t == s \o p
<1>1. PICK n \in Nat : n = Len(s)
  OBVIOUS
<1>2. PICK k \in Nat : k = Len(p)
  OBVIOUS
<1>3. JoinOf(Nat, s, p, t)
  BY Joined
<1> HIDE DEF t
<1>4. /\ t \in Seq(Nat) /\ DOMAIN t = 1 .. n + k /\ DOMAIN s = 1 .. n /\ DOMAIN p = 1 .. k
      /\ \A i \in 1 .. n : t[i] = s[i]
      /\ \A i \in 1 .. k : t[n + i] = p[i]
  BY <1>1, <1>2, <1>3 DEF JoinOf
<1>5. ASSUME NEW i \in DOMAIN t
      PROVE  /\ i <= n => i \in DOMAIN s /\ t[i] = s[i]
             /\ i > n => i - n \in DOMAIN p /\ t[i] = p[i - n]
  <2>1. i \in Nat /\ i >= 1 /\ i <= n + k
    BY <1>4
  <2>2. ASSUME i > n PROVE i - n \in 1 .. k /\ n + (i - n) = i
    BY <2>1, <2>2
  <2> QED
    BY <1>4, <2>1, <2>2
<1>6. ToSet(t) = ToSet(s) \cup ToSet(p)
  <2>1. ASSUME NEW x \in ToSet(t) PROVE x \in ToSet(s) \cup ToSet(p)
    <3>1. PICK i \in DOMAIN t : x = t[i]
      BY DEF ToSet
    <3>2. i \in Nat
      BY <1>4
    <3>3. i <= n \/ i > n
      BY <3>2
    <3> QED
      BY <1>5, <3>1, <3>3 DEF ToSet
  <2>2. ASSUME NEW x \in ToSet(s) PROVE x \in ToSet(t)
    <3>1. PICK i \in 1 .. n : x = s[i]
      BY <1>4 DEF ToSet
    <3>2. i \in DOMAIN t /\ t[i] = x
      BY <1>4, <3>1
    <3> QED
      BY <3>2 DEF ToSet
  <2>3. ASSUME NEW x \in ToSet(p) PROVE x \in ToSet(t)
    <3>1. PICK i \in 1 .. k : x = p[i]
      BY <1>4 DEF ToSet
    <3>2. n + i \in DOMAIN t /\ t[n + i] = x
      BY <1>4, <3>1
    <3> QED
      BY <3>2 DEF ToSet
  <2> QED
    BY <2>1, <2>2, <2>3
<1>7. ASSUME Ordered(s, E), Ordered(p, E), \A x \in ToSet(s) \ E, y \in ToSet(p) \ E : y < x
      PROVE  Ordered(t, E)
  <2> SUFFICES ASSUME NEW i \in DOMAIN t, NEW j \in DOMAIN t, i < j, t[i] \notin E, t[j] \notin E
               PROVE  t[i] > t[j]
    BY DEF Ordered
  <2>1. i \in Nat /\ j \in Nat /\ t[i] \in Nat /\ t[j] \in Nat
    BY <1>4
  <2>2. CASE j <= n
    <3>1. i <= n
      BY <2>1, <2>2
    <3> QED
      BY <1>5, <1>7, <2>2, <3>1 DEF Ordered
  <2>3. CASE i <= n /\ j > n
    <3>1. t[i] \in ToSet(s) \ E /\ t[j] \in ToSet(p) \ E
      BY <1>5, <2>3 DEF ToSet
    <3>2. t[j] < t[i]
      BY <1>7, <3>1
    <3> QED
      BY <2>1, <3>2
  <2>4. CASE i > n
    <3>1. j > n /\ i - n < j - n
      BY <2>1, <2>4
    <3> QED
      BY <1>5, <1>7, <2>4, <3>1 DEF Ordered
  <2> QED
    BY <2>1, <2>2, <2>3, <2>4
<1>8. ASSUME AtMostOne(s), Optimistic \notin ToSet(p)
      PROVE  AtMostOne(t)
  <2> SUFFICES ASSUME NEW i \in DOMAIN t, NEW j \in DOMAIN t, t[i] = Optimistic, t[j] = Optimistic
               PROVE  i = j
    BY DEF AtMostOne
  <2>1. ASSUME NEW l \in DOMAIN t, t[l] = Optimistic PROVE l \in DOMAIN s /\ s[l] = Optimistic
    <3>1. l \in Nat
      BY <1>4
    <3>2. l <= n \/ l > n
      BY <3>1
    <3>3. ~ (l > n)
      BY <1>5, <1>8, <2>1 DEF ToSet
    <3> QED
      BY <1>5, <2>1, <3>2, <3>3
  <2> QED
    BY <1>8, <2>1 DEF AtMostOne
<1> QED
  BY <1>4, <1>6, <1>7, <1>8 DEF t

(* The list without the optimistic message. *)
LEMMA WithoutIt ==
  ASSUME NEW s \in Seq(Nat), AtMostOne(s), NEW E
  PROVE  /\ WithoutOptimistic(s) \in Seq(Nat)
         /\ ToSet(WithoutOptimistic(s)) = ToSet(s) \ {Optimistic}
         /\ Ordered(s, E) => Ordered(WithoutOptimistic(s), E)
         /\ AtMostOne(WithoutOptimistic(s))
<1>1. CASE Optimistic \notin ToSet(s)
  BY <1>1 DEF WithoutOptimistic
<1>2. CASE Optimistic \in ToSet(s)
  <2>1. PICK n \in Nat : n = Len(s) /\ DOMAIN s = 1 .. n
    OBVIOUS
  <2>2. PICK hole \in 1 .. n : /\ s[hole] = Optimistic
                             /\ WithoutOptimistic(s) = RemoveAt(s, hole)
    <3>1. \E i \in DOMAIN s : s[i] = Optimistic
      BY <1>2 DEF ToSet
    <3>2. /\ (CHOOSE i \in DOMAIN s : s[i] = Optimistic) \in DOMAIN s
          /\ s[CHOOSE i \in DOMAIN s : s[i] = Optimistic] = Optimistic
      BY <3>1
    <3> QED
      BY <1>2, <2>1, <3>2 DEF WithoutOptimistic
  <2> DEFINE t == RemoveAt(s, hole)
  <2>3. /\ t \in Seq(Nat) /\ Len(t) = n - 1
        /\ \A j \in 1 .. hole - 1 : t[j] = s[j]
        /\ \A j \in hole .. n - 1 : t[j] = s[j + 1]
    BY <2>1, <2>2, Gone
  <2> HIDE DEF t
  <2> DEFINE from(j) == IF j < hole THEN j ELSE j + 1
  <2>4. ASSUME NEW j \in DOMAIN t
        PROVE  j \in 1 .. n - 1 /\ from(j) \in 1 .. n /\ from(j) # hole /\ t[j] = s[from(j)]
    <3>1. j \in 1 .. n - 1
      BY <2>3
    <3>2. CASE j < hole
      <4>1. j \in 1 .. hole - 1 /\ j \in 1 .. n
        BY <2>2, <3>1, <3>2
      <4> QED
        BY <2>3, <3>1, <3>2, <4>1
    <3>3. CASE ~ (j < hole)
      <4>1. j \in hole .. n - 1 /\ j + 1 \in 1 .. n /\ j + 1 # hole
        BY <2>2, <3>1, <3>3
      <4> QED
        BY <2>3, <3>1, <3>3, <4>1
    <3> QED
      BY <3>2, <3>3
  <2>5. ASSUME NEW i \in 1 .. n, i # hole PROVE \E j \in DOMAIN t : t[j] = s[i]
    <3>1. CASE i < hole
      <4>1. i \in 1 .. hole - 1 /\ i \in 1 .. n - 1
        BY <2>2, <3>1
      <4>2. i \in DOMAIN t /\ t[i] = s[i]
        BY <2>3, <4>1
      <4> QED
        BY <4>2
    <3>2. CASE ~ (i < hole)
      <4>1. i - 1 \in hole .. n - 1 /\ i - 1 \in 1 .. n - 1 /\ (i - 1) + 1 = i
        BY <2>2, <2>5, <3>2
      <4>2. i - 1 \in DOMAIN t /\ t[i - 1] = s[i]
        BY <2>3, <4>1
      <4> QED
        BY <4>2
    <3> QED
      BY <3>1, <3>2
  <2>6. ASSUME NEW i \in DOMAIN t, NEW j \in DOMAIN t, i < j PROVE from(i) < from(j)
    <3>1. i \in Nat /\ j \in Nat /\ hole \in Nat
      BY <2>2, <2>4
    <3>2. CASE i < hole
      BY <2>6, <3>1, <3>2
    <3>3. CASE ~ (i < hole)
      <4>1. ~ (j < hole)
        BY <2>6, <3>1, <3>3
      <4> QED
        BY <2>6, <3>1, <3>3, <4>1
    <3> QED
      BY <3>2, <3>3
  <2>7. \A j \in DOMAIN t : t[j] # Optimistic
    BY <2>1, <2>2, <2>4 DEF AtMostOne
  <2> HIDE DEF from
  <2>8. ToSet(t) = ToSet(s) \ {Optimistic}
    <3>1. ASSUME NEW x \in ToSet(t) PROVE x \in ToSet(s) /\ x # Optimistic
      BY <2>1, <2>4, <2>7 DEF ToSet
    <3>2. ASSUME NEW x \in ToSet(s), x # Optimistic PROVE x \in ToSet(t)
      <4>1. PICK i \in 1 .. n : x = s[i]
        BY <2>1 DEF ToSet
      <4>2. i # hole
        BY <2>2, <3>2, <4>1
      <4> QED
        BY <2>5, <4>1, <4>2 DEF ToSet
    <3> QED
      BY <3>1, <3>2
  <2>9. Ordered(s, E) => Ordered(t, E)
    BY <2>1, <2>4, <2>6 DEF Ordered
  <2>10. AtMostOne(t)
    BY <2>7 DEF AtMostOne
  <2> QED
    BY <2>2, <2>3, <2>8, <2>9, <2>10 DEF t
<1> QED
  BY <1>1, <1>2

-----------------------------------------------------------------------------
(* The channel. *)

Increasing(s) == \A i, j \in DOMAIN s : i < j => s[i] < s[j]

LEMMA Told ==
  ASSUME NEW s \in Seq(Nat), NEW m \in Nat
  PROVE  /\ Append(s, m) \in Seq(Nat) /\ ToSet(Append(s, m)) = ToSet(s) \cup {m}
         /\ Increasing(s) /\ (\A x \in ToSet(s) : x < m) => Increasing(Append(s, m))
<1> DEFINE t == Append(s, m)
<1>1. PICK n \in Nat : n = Len(s)
  OBVIOUS
<1>2. /\ t \in Seq(Nat) /\ DOMAIN t = 1 .. n + 1 /\ DOMAIN s = 1 .. n
      /\ t[n + 1] = m /\ \A i \in 1 .. n : t[i] = s[i]
  BY <1>1
<1> HIDE DEF t
<1>3. \A k \in DOMAIN t : k = n + 1 \/ (k \in DOMAIN s /\ t[k] = s[k])
  BY <1>2
<1>4. n + 1 \in DOMAIN t /\ DOMAIN s \subseteq DOMAIN t
  BY <1>2
<1>5. ToSet(t) = ToSet(s) \cup {m}
  <2>1. ASSUME NEW x \in ToSet(t) PROVE x \in ToSet(s) \cup {m}
    <3>1. PICK k \in DOMAIN t : x = t[k]
      BY DEF ToSet
    <3> QED
      BY <1>2, <1>3, <3>1 DEF ToSet
  <2>2. ASSUME NEW x \in ToSet(s) PROVE x \in ToSet(t)
    <3>1. PICK k \in 1 .. n : x = s[k]
      BY <1>2 DEF ToSet
    <3>2. t[k] = x /\ k \in DOMAIN t
      BY <1>2, <1>4, <3>1
    <3> QED
      BY <3>2 DEF ToSet
  <2>3. m \in ToSet(t)
    BY <1>2, <1>4 DEF ToSet
  <2> QED
    BY <2>1, <2>2, <2>3
<1>6. ASSUME Increasing(s), \A x \in ToSet(s) : x < m PROVE Increasing(t)
  <2> SUFFICES ASSUME NEW i \in DOMAIN t, NEW j \in DOMAIN t, i < j PROVE t[i] < t[j]
    BY DEF Increasing
  <2>1. i \in 1 .. n /\ t[i] = s[i]
    BY <1>2
  <2>2. CASE j = n + 1
    <3>1. s[i] \in ToSet(s)
      BY <1>2, <2>1 DEF ToSet
    <3> QED
      BY <1>2, <1>6, <2>1, <2>2, <3>1
  <2>3. CASE j # n + 1
    BY <1>2, <1>3, <1>6, <2>1, <2>3 DEF Increasing
  <2> QED
    BY <2>2, <2>3
<1> QED
  BY <1>2, <1>5, <1>6 DEF t

LEMMA HeadHeard ==
  ASSUME NEW s \in Seq(Nat), s # <<>>, Increasing(s)
  PROVE  /\ Tail(s) \in Seq(Nat) /\ Increasing(Tail(s)) /\ Head(s) \in Nat
         /\ ToSet(s) = ToSet(Tail(s)) \cup {Head(s)}
         /\ \A x \in ToSet(Tail(s)) : Head(s) < x
<1> DEFINE t == Tail(s)
<1>1. PICK n \in Nat : n = Len(s)
  OBVIOUS
<1>2. /\ n >= 1 /\ t \in Seq(Nat) /\ DOMAIN t = 1 .. n - 1 /\ DOMAIN s = 1 .. n
      /\ Head(s) = s[1] /\ \A i \in 1 .. n - 1 : t[i] = s[i + 1]
  BY <1>1
<1> HIDE DEF t
<1>3. ASSUME NEW i \in DOMAIN t PROVE i + 1 \in DOMAIN s /\ t[i] = s[i + 1] /\ 1 < i + 1
  BY <1>2
<1>4. 1 \in DOMAIN s /\ s[1] \in Nat
  BY <1>2
<1>5. Increasing(t)
  <2> SUFFICES ASSUME NEW i \in DOMAIN t, NEW j \in DOMAIN t, i < j PROVE t[i] < t[j]
    BY DEF Increasing
  <2>1. i + 1 < j + 1
    BY <1>2
  <2> QED
    BY <1>3, <2>1 DEF Increasing
<1>6. \A x \in ToSet(t) : s[1] < x
  <2> SUFFICES ASSUME NEW x \in ToSet(t) PROVE s[1] < x
    OBVIOUS
  <2>1. PICK i \in DOMAIN t : x = t[i]
    BY DEF ToSet
  <2> QED
    BY <1>3, <1>4, <2>1 DEF Increasing
<1>7. ToSet(s) = ToSet(t) \cup {s[1]}
  <2>1. ASSUME NEW x \in ToSet(t) PROVE x \in ToSet(s)
    <3>1. PICK i \in DOMAIN t : x = t[i]
      BY DEF ToSet
    <3> QED
      BY <1>3, <3>1 DEF ToSet
  <2>2. ASSUME NEW x \in ToSet(s) PROVE x \in ToSet(t) \cup {s[1]}
    <3>1. PICK k \in 1 .. n : x = s[k]
      BY <1>2 DEF ToSet
    <3>2. CASE k # 1
      <4>1. k - 1 \in 1 .. n - 1 /\ (k - 1) + 1 = k
        BY <1>2, <3>2
      <4>2. k - 1 \in DOMAIN t /\ t[k - 1] = x
        BY <1>2, <3>1, <4>1
      <4> QED
        BY <4>2 DEF ToSet
    <3> QED
      BY <3>1, <3>2
  <2> QED
    BY <1>4, <2>1, <2>2 DEF ToSet
<1> QED
  BY <1>2, <1>5, <1>6, <1>7 DEF t

LEMMA MoreExempt ==
  ASSUME NEW s, NEW E, NEW F, E \subseteq F, Ordered(s, E)
  PROVE  Ordered(s, F)
BY DEF Ordered

LEMMA Silent == ToSet(<<>>) = {} /\ <<>> \in Seq(Nat) /\ Increasing(<<>>) /\ AtMostOne(<<>>)
BY DEF ToSet, Increasing, AtMostOne

-----------------------------------------------------------------------------
(* The backend and the channel. *)

(* What is known of the messages and of what is on its way. *)
LEMMA ThreadFacts ==
  ASSUME ThreadInv
  PROVE  /\ stored \in Nat /\ stored >= OldMessages /\ OldMessages \in Nat
         /\ list \in Seq(Nat) /\ channel \in Seq(Nat) /\ Increasing(channel)
         /\ \A m \in Given : m \in Nat /\ m <= stored
         /\ \A m \in ToSet(channel) \cup Awaited : m \in Nat /\ m > OldMessages /\ m <= stored
         /\ \A m \in ToSet(list) : m \in Nat /\ m <= stored
         /\ cursor \in Nat /\ cursor <= stored
         /\ \A r \in replies :
              r.kind \in {"load", "older"} /\ \E b \in 1 .. stored + 1 : r.page = Page(b)
<1>1. OldMessages \in Nat
  BY ConversationAssumption
<1>2. \A m \in ToSet(channel) \cup Awaited : m \in Nat /\ m > OldMessages /\ m <= stored
  <2>1. ToSet(channel) \subseteq OldMessages + 1 .. stored /\ Awaited \subseteq OldMessages + 1 .. stored
    BY DEF ThreadInv, ThreadTypes
  <2>2. \A m \in OldMessages + 1 .. stored : m \in Nat /\ m > OldMessages /\ m <= stored
    BY <1>1 DEF ThreadInv, ThreadTypes
  <2> QED
    BY <2>1, <2>2
<1>3. \A m \in ToSet(list) : m \in Nat /\ m <= stored
  BY DEF ThreadInv, ThreadTypes
<1> QED
  BY <1>1, <1>2, <1>3 DEF ThreadInv, ThreadTypes, Given, Increasing

(* A page asked for before is one of the thread as it is now. *)
LEMMA StoreKeeps ==
  ASSUME ThreadInv, Store, Awaited' \subseteq Awaited \cup {stored + 1}, sending # 0 => sending' # 0,
         UNCHANGED <<client, loaded, replies, list, cursor, history, live, doubled>>
  PROVE  ThreadInv'
<1>0. PICK n : n = stored + 1
  OBVIOUS
<1>1. /\ stored \in Nat /\ stored' = n /\ n = stored + 1 /\ n \in Nat /\ n > stored /\ n > OldMessages
      /\ OldMessages \in Nat
      /\ list \in Seq(Nat) /\ channel \in Seq(Nat) /\ Increasing(channel)
  BY <1>0, ThreadFacts DEF Store
<1>2. \A m \in Given : m \in Nat /\ m < n
  BY <1>1, ThreadFacts
<1>3. /\ channel' \in Seq(Nat) /\ Increasing(channel') /\ n \in ToSet(channel') \cup missed'
      /\ ToSet(channel) \subseteq ToSet(channel') /\ ToSet(channel') \subseteq ToSet(channel) \cup {n}
      /\ missed \subseteq missed'
  <2>1. CASE listening
    <3>1. channel' = Append(channel, n) /\ missed' = missed
      BY <1>1, <2>1 DEF Store
    <3>2. \A x \in ToSet(channel) : x < n
      BY <1>2 DEF Given
    <3> QED
      BY <1>1, <3>1, <3>2, Told
  <2>2. CASE ~ listening
    <3>1. channel' = channel /\ missed' = missed \cup {n}
      BY <1>1, <2>2 DEF Store
    <3> QED
      BY <1>1, <3>1
  <2> QED
    BY <2>1, <2>2
<1>4. /\ Exempt \subseteq Exempt' /\ Given' \subseteq Given \cup {n} /\ FirstPage' = FirstPage
  BY <1>1, <1>3 DEF Exempt, Given, FirstPage, InFlight
<1>5. ThreadTypes'
  <2>1. client' \in {"mobile", "web"} /\ list' \in Seq(Nat)
    BY <1>1 DEF ThreadInv, ThreadTypes
  <2>2. ToSet(list') \subseteq 0 .. stored' /\ cursor' \in 0 .. stored'
    BY <1>1 DEF ThreadInv, ThreadTypes
  <2>3. ToSet(channel') \subseteq OldMessages + 1 .. stored' /\ Awaited' \subseteq OldMessages + 1 .. stored'
    <3>1. ToSet(channel) \subseteq OldMessages + 1 .. stored /\ Awaited \subseteq OldMessages + 1 .. stored
      BY DEF ThreadInv, ThreadTypes
    <3>2. /\ \A m \in OldMessages + 1 .. stored : m \in OldMessages + 1 .. stored'
          /\ n \in OldMessages + 1 .. stored'
      BY <1>1
    <3> QED
      BY <1>1, <1>3, <3>1, <3>2
  <2>4. \A r \in replies' :
          r.kind \in {"load", "older"} /\ \E b \in 1 .. stored' + 1 : r.page = Page(b)
    <3>1. \A b \in 1 .. stored + 1 : b \in 1 .. stored' + 1
      BY <1>1
    <3> QED
      BY <3>1 DEF ThreadInv, ThreadTypes
  <2>5. \A r \in replies' : r.kind = "load" => \E b \in OldMessages + 1 .. stored' + 1 : r.page = Page(b)
    <3>1. \A b \in OldMessages + 1 .. stored + 1 : b \in OldMessages + 1 .. stored' + 1
      BY <1>1
    <3> QED
      BY <3>1 DEF ThreadInv, ThreadTypes
  <2> QED
    BY <1>1, <1>3, <2>1, <2>2, <2>3, <2>4, <2>5 DEF ThreadTypes, Increasing
<1>6. ASSUME client = "mobile"
      PROVE  NewestFirst' /\ OneOptimistic' /\ OlderBelow' /\ Gapless'
  <2>0. NewestFirst /\ OneOptimistic /\ OlderBelow /\ Gapless
    BY <1>6 DEF ThreadInv
  <2>1. NewestFirst'
    <3>1. Ordered(list', Exempt')
      BY <1>4, <2>0, MoreExempt DEF NewestFirst
    <3>2. \A x \in ToSet(list') : x < n
      BY <1>2 DEF Given
    <3>3. \A m \in ToSet(channel') \ Exempt' :
            m \in ToSet(list') \/ \A x \in ToSet(list') \ Exempt' : x < m
      BY <1>3, <1>4, <2>0, <3>2 DEF NewestFirst
    <3>4. \A m \in Awaited' \ Exempt' : \A x \in ToSet(list') \ Exempt' : x < m
      BY <1>1, <1>4, <2>0, <3>2 DEF NewestFirst
    <3>5. Awaited' \subseteq Exempt' \cup ToSet(channel')
      <4>1. missed' \subseteq Exempt'
        BY DEF Exempt
      <4> QED
        BY <1>1, <1>3, <1>4, <2>0, <4>1 DEF NewestFirst
    <3> QED
      BY <3>1, <3>3, <3>4, <3>5 DEF NewestFirst
  <2>2. OneOptimistic'
    BY <2>0 DEF OneOptimistic
  <2>3. OlderBelow'
    <3>1. /\ FirstPage' => cursor' = 0 /\ \A r \in replies' : r.kind = "load"
          /\ \A r, q \in replies' : r.kind = "load" /\ q.kind = "load" => loaded' /\ r = q
          /\ \A r \in replies' : r.kind # "load" =>
               ToSet(r.page) \subseteq doubled' \/ (cursor' # 0 /\ r.page = Page(cursor'))
          /\ \A r, q \in replies' : r # q /\ r.kind # "load" /\ q.kind # "load" =>
               ToSet(r.page) \subseteq doubled'
      BY <1>4, <2>0 DEF OlderBelow
    <3>2. cursor' <= n /\ \A r \in replies : \A y \in ToSet(r.page) : y < n
      <4>1. cursor <= stored /\ cursor \in Nat
        BY ThreadFacts
      <4>2. ASSUME NEW r \in replies, NEW y \in ToSet(r.page) PROVE y < n
        <5>1. PICK b \in 1 .. stored + 1 : r.page = Page(b)
          BY ThreadFacts
        <5>2. b \in Nat \ {0}
          BY <1>1, <5>1
        <5>3. y \in 1 .. b - 1
          BY <5>1, <5>2, PageIs
        <5> QED
          BY <1>1, <5>1, <5>3
      <4> QED
        BY <1>1, <4>1, <4>2
    <3>3. \A x \in Given' \ Exempt' :
           /\ cursor' <= x
           /\ \A r \in replies' : r.kind # "load" => \A y \in ToSet(r.page) : y < x
      BY <1>4, <2>0, <3>2 DEF OlderBelow
    <3> QED
      BY <3>1, <3>3 DEF OlderBelow
  <2>4. Gapless'
    <3>0. Known \subseteq Known' /\ n \in Known'
      BY <1>1, <1>3 DEF Known
    <3>1. ASSUME NEW a, Covered(a, Known, stored) PROVE Covered(a, Known', stored')
      BY <1>1, <3>0, <3>1 DEF Covered
    <3>2. Covered(n, Known', stored')
      BY <1>1, <3>0 DEF Covered
    <3>3. \A a \in Given' \ {Optimistic} : Covered(a, Known', stored')
      BY <1>4, <2>0, <3>1, <3>2 DEF Gapless
    <3>4. \A b \in 1 .. stored + 1 : b \in 1 .. stored' + 1
      BY <1>1
    <3>5. \A r \in replies' : r.kind # "load" =>
            \E b \in 1 .. stored' + 1 : r.page = Page(b) /\ Covered(b, Known', stored')
      BY <2>0, <3>1, <3>4 DEF Gapless
    <3>6. cursor' # 0 => Covered(cursor', Known', stored')
      BY <2>0, <3>1 DEF Gapless
    <3>7. FirstPage' => Covered(OldMessages + 1, Known', stored')
      BY <1>4, <2>0, <3>1 DEF Gapless
    <3> QED
      BY <3>3, <3>5, <3>6, <3>7 DEF Gapless
  <2> QED
    BY <2>1, <2>2, <2>3, <2>4
<1>7. ASSUME client = "web" PROVE WebThread'
  <2>0. WebThread
    BY <1>7 DEF ThreadInv
  <2>1. ToSet(live') \subseteq OldMessages + 1 .. stored'
    BY <1>1, <2>0 DEF WebThread
  <2>2. \A m \in OldMessages + 1 .. stored' : m \in ToSet(live') \cup missed' \cup ToSet(channel')
    <3>1. \A m \in OldMessages + 1 .. stored' : m = n \/ m \in OldMessages + 1 .. stored
      BY <1>1
    <3> QED
      BY <1>3, <2>0, <3>1 DEF WebThread
  <2>3. \/ ToSet(history') = {}
        \/ \E b \in OldMessages + 1 .. stored' + 1 : ToSet(history') = ToSet(Page(b))
    <3>1. \A b \in OldMessages + 1 .. stored + 1 : b \in OldMessages + 1 .. stored' + 1
      BY <1>1
    <3> QED
      BY <2>0, <3>1 DEF WebThread
  <2> QED
    BY <2>0, <2>1, <2>2, <2>3 DEF WebThread
<1> QED
  BY <1>5, <1>6, <1>7 DEF ThreadInv

LEMMA PeerKeeps ==
  ASSUME ThreadInv, PeerSends \/ SendStored
  PROVE  ThreadInv'
<1>1. CASE PeerSends
  <2>1. Store /\ UNCHANGED <<client, loaded, replies, sending, list, cursor, history, live, doubled>>
    BY <1>1 DEF PeerSends
  <2>2. Awaited' = Awaited
    BY <2>1 DEF Awaited
  <2> QED
    BY <2>1, <2>2, StoreKeeps
<1>2. CASE SendStored
  <2>1. /\ Store /\ sending' = stored + 1
        /\ UNCHANGED <<client, loaded, replies, list, cursor, history, live, doubled>>
    BY <1>2 DEF SendStored
  <2>2. sending' # 0
    BY <2>1, ThreadFacts
  <2>3. Awaited' \subseteq {stored + 1}
    BY <2>1 DEF Awaited
  <2> QED
    BY <2>1, <2>2, <2>3, StoreKeeps
<1> QED
  BY <1>1, <1>2

(* The same messages on screen, fewer on their way, more of them exempt.     *)
LEMMA SameShownKeeps ==
  ASSUME ThreadInv,
         list' \in Seq(Nat), ToSet(list') \ {Optimistic} = ToSet(list) \ {Optimistic},
         Ordered(list', Exempt), AtMostOne(list'), Optimistic \in ToSet(list') => sending' # 0,
         client = "web" => list' = <<>>,
         channel' \in Seq(Nat), Increasing(channel'), ToSet(channel') \subseteq ToSet(channel),
         ToSet(channel) \subseteq ToSet(channel') \cup missed', missed \subseteq missed',
         Awaited' \subseteq Awaited,
         UNCHANGED <<client, stored, loaded, replies, cursor, history, live, doubled>>
  PROVE  ThreadInv'
<1>1. /\ Exempt \subseteq Exempt' /\ Optimistic \in Exempt /\ FirstPage' = FirstPage
      /\ Given' \ {Optimistic} \subseteq Given /\ Given' \ Exempt' \subseteq Given \ Exempt
  BY DEF Exempt, Given, FirstPage, InFlight
<1>2. ThreadTypes'
  <2>1. ToSet(list') \subseteq 0 .. stored'
    <3>1. ToSet(list) \subseteq 0 .. stored /\ Optimistic \in 0 .. stored
      BY ThreadFacts DEF ThreadInv, ThreadTypes, Optimistic
    <3> QED
      BY <3>1
  <2>2. /\ ToSet(channel') \subseteq OldMessages + 1 .. stored'
        /\ Awaited' \subseteq OldMessages + 1 .. stored'
    BY DEF ThreadInv, ThreadTypes
  <2>3. /\ client' \in {"mobile", "web"} /\ stored' \in Nat /\ stored' >= OldMessages
        /\ cursor' \in 0 .. stored'
        /\ \A r \in replies' :
             r.kind \in {"load", "older"} /\ \E b \in 1 .. stored' + 1 : r.page = Page(b)
        /\ \A r \in replies' : r.kind = "load" =>
             \E b \in OldMessages + 1 .. stored' + 1 : r.page = Page(b)
    BY DEF ThreadInv, ThreadTypes
  <2> QED
    BY <2>1, <2>2, <2>3 DEF ThreadTypes, Increasing
<1>3. ASSUME client = "mobile"
      PROVE  NewestFirst' /\ OneOptimistic' /\ OlderBelow' /\ Gapless'
  <2>0. NewestFirst /\ OneOptimistic /\ OlderBelow /\ Gapless
    BY <1>3 DEF ThreadInv
  <2>1. NewestFirst'
    <3>1. Ordered(list', Exempt')
      BY <1>1, MoreExempt
    <3>2. ToSet(list') \ Exempt' \subseteq ToSet(list) \ Exempt
      BY <1>1
    <3>3. \A m \in ToSet(channel') \ Exempt' :
            m \in ToSet(list') \/ \A x \in ToSet(list') \ Exempt' : x < m
      BY <1>1, <2>0, <3>2 DEF NewestFirst
    <3>4. \A m \in Awaited' \ Exempt' : \A x \in ToSet(list') \ Exempt' : x < m
      BY <1>1, <2>0, <3>2 DEF NewestFirst
    <3>5. Awaited' \subseteq Exempt' \cup ToSet(channel')
      <4>1. missed' \subseteq Exempt'
        BY DEF Exempt
      <4> QED
        BY <1>1, <2>0, <4>1 DEF NewestFirst
    <3> QED
      BY <3>1, <3>3, <3>4, <3>5 DEF NewestFirst
  <2>2. OneOptimistic'
    BY DEF OneOptimistic
  <2>3. OlderBelow'
    BY <1>1, <2>0 DEF OlderBelow
  <2>4. Gapless'
    <3>1. Known \ {Optimistic} \subseteq Known'
      BY DEF Known
    <3>2. ASSUME NEW a, Covered(a, Known, stored) PROVE Covered(a, Known', stored')
      <4>1. \A m \in 1 .. stored : m # Optimistic
        BY ThreadFacts DEF Optimistic
      <4> QED
        BY <3>1, <3>2, <4>1 DEF Covered
    <3> QED
      BY <1>1, <2>0, <3>2 DEF Gapless
  <2> QED
    BY <2>1, <2>2, <2>3, <2>4
<1>4. ASSUME client = "web" PROVE WebThread'
  BY <1>4 DEF ThreadInv, WebThread
<1> QED
  BY <1>2, <1>3, <1>4 DEF ThreadInv

LEMMA QuietKeeps ==
  ASSUME ThreadInv, Listen \/ Drop \/ Send \/ SendFails
  PROVE  ThreadInv'
<1>1. /\ UNCHANGED <<client, stored, loaded, replies, cursor, history, live, doubled>>
  BY DEF Listen, Drop, Send, SendFails
<1>2. /\ client = "web" => list = <<>>
      /\ client = "mobile" => /\ Ordered(list, Exempt) /\ AtMostOne(list)
                              /\ (Optimistic \in ToSet(list) => sending # 0)
      /\ client \in {"mobile", "web"}
  BY DEF ThreadInv, ThreadTypes, WebThread, NewestFirst, OneOptimistic
<1>3. /\ list \in Seq(Nat) /\ Ordered(list, Exempt) /\ AtMostOne(list)
      /\ (Optimistic \in ToSet(list) => sending # 0)
  <2>1. CASE client = "web"
    <3>1. Ordered(<<>>, Exempt)
      BY DEF Ordered
    <3> QED
      BY <1>2, <2>1, <3>1, Silent
  <2> QED
    BY <1>2, <2>1, ThreadFacts
<1>4. channel \in Seq(Nat) /\ Increasing(channel)
  BY ThreadFacts
<1>5. CASE Listen
  <2>1. UNCHANGED <<list, channel, sending, missed>>
    BY <1>5 DEF Listen
  <2>2. Awaited' = Awaited
    BY <2>1 DEF Awaited
  <2> QED
    BY <1>1, <1>2, <1>3, <1>4, <2>1, <2>2, SameShownKeeps
<1>6. CASE Drop
  <2>1. /\ UNCHANGED <<list, sending>> /\ channel' = <<>> /\ missed' = missed \cup ToSet(channel)
    BY <1>6 DEF Drop
  <2>2. Awaited' = Awaited
    BY <2>1 DEF Awaited
  <2> QED
    BY <1>1, <1>2, <1>3, <2>1, <2>2, Silent, SameShownKeeps
<1>7. CASE Send
  <2>1. /\ UNCHANGED <<channel, missed>> /\ sending = 0 /\ sending' = Asked /\ sending' # 0
        /\ list' = list \/ (client = "mobile" /\ list' = <<Optimistic>> \o list)
    BY <1>7, ConversationAssumption DEF Send, Asked
  <2>2. Awaited' = {}
    BY <2>1 DEF Awaited
  <2>3. CASE list' = list
    BY <1>1, <1>2, <1>3, <1>4, <2>1, <2>2, <2>3, SameShownKeeps
  <2>4. CASE client = "mobile" /\ list' = <<Optimistic>> \o list
    <3>1. Optimistic \in Nat /\ Optimistic \in Exempt /\ Optimistic \notin ToSet(list)
      BY <1>3, <2>1 DEF Optimistic, Exempt
    <3>2. /\ list' \in Seq(Nat) /\ ToSet(list') = ToSet(list) \cup {Optimistic}
          /\ Ordered(list', Exempt) /\ AtMostOne(list')
      BY <1>3, <2>4, <3>1, InFront
    <3> QED
      BY <1>1, <1>4, <2>1, <2>2, <2>4, <3>2, SameShownKeeps
  <2> QED
    BY <2>1, <2>3, <2>4
<1>8. CASE SendFails
  <2>1. UNCHANGED <<channel, missed>> /\ sending' = 0 /\ list' = WithoutOptimistic(list)
    BY <1>8 DEF SendFails
  <2>2. Awaited' = {}
    BY <2>1 DEF Awaited
  <2>3. /\ list' \in Seq(Nat) /\ ToSet(list') = ToSet(list) \ {Optimistic}
        /\ Ordered(list', Exempt) /\ AtMostOne(list')
    BY <1>3, <2>1, WithoutIt
  <2>4. client = "web" => list' = <<>>
    BY <1>2, <2>1, Silent DEF WithoutOptimistic
  <2> QED
    BY <1>1, <1>4, <2>1, <2>2, <2>3, <2>4, SameShownKeeps
<1> QED
  BY <1>5, <1>6, <1>7, <1>8

-----------------------------------------------------------------------------
(* Fetching. *)

LEMMA FailedKeeps ==
  ASSUME ThreadInv, NEW r \in replies, Failed(r)
  PROVE  ThreadInv'
<1>1. /\ replies' \subseteq replies
      /\ UNCHANGED <<client, stored, loaded, channel, sending, list, cursor, history, live,
                     doubled, missed>>
  BY DEF Failed
<1>2. /\ Awaited' = Awaited /\ Exempt' = Exempt /\ Known' = Known /\ (FirstPage' => FirstPage)
  BY <1>1 DEF Awaited, Exempt, Known, FirstPage, InFlight
<1>3. Given' = Given
  BY <1>1, <1>2 DEF Given
<1>4. ThreadTypes'
  BY <1>1, <1>2 DEF ThreadInv, ThreadTypes
<1>5. ASSUME client = "mobile"
      PROVE  NewestFirst' /\ OneOptimistic' /\ OlderBelow' /\ Gapless'
  <2>0. NewestFirst /\ OneOptimistic /\ OlderBelow /\ Gapless
    BY <1>5 DEF ThreadInv
  <2>1. NewestFirst' /\ OneOptimistic'
    BY <1>1, <1>2, <2>0 DEF NewestFirst, OneOptimistic
  <2>2. OlderBelow'
    BY <1>1, <1>2, <1>3, <2>0 DEF OlderBelow
  <2>3. Gapless'
    BY <1>1, <1>2, <1>3, <2>0 DEF Gapless
  <2> QED
    BY <2>1, <2>2, <2>3
<1>6. ASSUME client = "web" PROVE WebThread'
  BY <1>1, <1>6 DEF ThreadInv, WebThread
<1> QED
  BY <1>1, <1>4, <1>5, <1>6 DEF ThreadInv

LEMMA LoadThreadKeeps ==
  ASSUME ThreadInv, LoadThread
  PROVE  ThreadInv'
<1>0. PICK page : page = Page(stored + 1)
  OBVIOUS
<1>1. PICK tag \in {1, 2} : replies' = replies \cup {[kind |-> "load", tag |-> tag, page |-> page]}
  BY <1>0 DEF LoadThread, Ask
<1>2. PICK new : new = [kind |-> "load", tag |-> tag, page |-> page]
  OBVIOUS
<1>3. /\ replies' = replies \cup {new} /\ new.kind = "load" /\ new.page = page /\ loaded'
      /\ \A r \in replies : r.kind # "load"
      /\ client = "mobile" => ~ loaded
      /\ UNCHANGED <<client, stored, channel, sending, list, cursor, history, live, doubled, missed>>
  BY <1>1, <1>2 DEF LoadThread, InFlight
<1>4. Awaited' = Awaited /\ Exempt' = Exempt /\ Known' = Known
  BY <1>3 DEF Awaited, Exempt, Known
<1>5. Given' = Given
  BY <1>3, <1>4 DEF Given
<1>6. stored + 1 \in OldMessages + 1 .. stored + 1 /\ stored + 1 \in 1 .. stored + 1
  BY ThreadFacts
<1>7. ThreadTypes'
  <2>1. \A r \in replies' :
          r.kind \in {"load", "older"} /\ \E b \in 1 .. stored' + 1 : r.page = Page(b)
    BY <1>0, <1>3, <1>6 DEF ThreadInv, ThreadTypes
  <2>2. \A r \in replies' : r.kind = "load" => \E b \in OldMessages + 1 .. stored' + 1 : r.page = Page(b)
    BY <1>0, <1>3, <1>6 DEF ThreadInv, ThreadTypes
  <2> QED
    BY <1>3, <1>4, <2>1, <2>2 DEF ThreadInv, ThreadTypes
<1>8. ASSUME client = "mobile"
      PROVE  NewestFirst' /\ OneOptimistic' /\ OlderBelow' /\ Gapless'
  <2>0. NewestFirst /\ OneOptimistic /\ OlderBelow /\ Gapless /\ FirstPage
    BY <1>3, <1>8 DEF ThreadInv, FirstPage
  <2>1. NewestFirst' /\ OneOptimistic'
    BY <1>3, <1>4, <2>0 DEF NewestFirst, OneOptimistic
  <2>2. replies = {} /\ cursor = 0 /\ replies' = {new}
    BY <1>3, <2>0 DEF OlderBelow
  <2>3. OlderBelow'
    BY <1>3, <1>4, <1>5, <2>0, <2>2 DEF OlderBelow
  <2>4. Gapless'
    BY <1>3, <1>4, <1>5, <2>0, <2>2 DEF Gapless
  <2> QED
    BY <2>1, <2>3, <2>4
<1>9. ASSUME client = "web" PROVE WebThread'
  BY <1>3, <1>9 DEF ThreadInv, WebThread
<1> QED
  BY <1>3, <1>7, <1>8, <1>9 DEF ThreadInv

LEMMA LoadOlderKeeps ==
  ASSUME ThreadInv, LoadOlder
  PROVE  ThreadInv'
<1>0. PICK page : page = Page(cursor)
  OBVIOUS
<1>1. PICK tag \in {1, 2} :
        /\ \A r \in replies : r.tag # tag
        /\ replies' = replies \cup {[kind |-> "older", tag |-> tag, page |-> page]}
  BY <1>0 DEF LoadOlder, Ask
<1>2. PICK new : new = [kind |-> "older", tag |-> tag, page |-> page]
  OBVIOUS
<1>3. /\ replies' = replies \cup {new} /\ new.kind = "older" /\ new.page = page /\ new \notin replies
      /\ client = "mobile" /\ cursor # 0
      /\ UNCHANGED <<client, stored, loaded, channel, sending, list, cursor, history, live, missed>>
      /\ doubled \subseteq doubled'
      /\ InFlight("older") => ToSet(page) \subseteq doubled'
  BY <1>0, <1>1, <1>2 DEF LoadOlder
<1>4. /\ NewestFirst /\ OneOptimistic /\ OlderBelow /\ Gapless /\ ThreadTypes
  BY <1>3 DEF ThreadInv
<1>5. Awaited' = Awaited /\ Exempt \subseteq Exempt' /\ Known' = Known
  BY <1>3 DEF Awaited, Exempt, Known
<1>6. Given' = Given
  BY <1>3, <1>5 DEF Given
<1>7. /\ ~ FirstPage /\ ~ FirstPage'
      /\ \A r \in replies' : r.kind = "older"
      /\ (\E r \in replies : TRUE) => ToSet(page) \subseteq doubled'
  <2>1. ~ FirstPage
    BY <1>3, <1>4 DEF OlderBelow
  <2>2. \A r \in replies : r.kind = "older"
    BY <1>4, <2>1 DEF FirstPage, InFlight, ThreadTypes
  <2>3. ~ FirstPage'
    BY <1>3, <2>1, <2>2 DEF FirstPage, InFlight
  <2> QED
    BY <1>3, <2>1, <2>2, <2>3 DEF InFlight
<1>8. cursor \in Nat \ {0} /\ cursor \in 1 .. stored + 1 /\ stored \in Nat
  BY <1>3, ThreadFacts
<1>9. ThreadTypes'
  <2>1. \A r \in replies' :
          r.kind \in {"load", "older"} /\ \E b \in 1 .. stored' + 1 : r.page = Page(b)
    BY <1>0, <1>3, <1>4, <1>8 DEF ThreadTypes
  <2> QED
    BY <1>3, <1>4, <1>5, <1>7, <2>1 DEF ThreadTypes
<1>10. NewestFirst' /\ OneOptimistic'
  <2>1. Ordered(list', Exempt')
    BY <1>3, <1>4, <1>5, MoreExempt DEF NewestFirst
  <2> QED
    BY <1>3, <1>4, <1>5, <2>1 DEF NewestFirst, OneOptimistic
<1>11. OlderBelow'
  <2>1. \A r \in replies' : ToSet(r.page) \subseteq doubled' \/ (cursor' # 0 /\ r.page = Page(cursor'))
    BY <1>0, <1>3, <1>4, <1>7 DEF OlderBelow
  <2>2. \A r, q \in replies' : r # q => ToSet(r.page) \subseteq doubled'
    <3> SUFFICES ASSUME NEW r \in replies', NEW q \in replies', r # q
                 PROVE  ToSet(r.page) \subseteq doubled'
      OBVIOUS
    <3>1. ToSet(page) \subseteq doubled' /\ (r \in replies \/ r = new)
      BY <1>3, <1>7
    <3>2. CASE r = new
      BY <1>3, <3>1, <3>2
    <3>3. CASE r \in replies
      BY <1>0, <1>3, <1>4, <1>7, <3>1, <3>3 DEF OlderBelow
    <3> QED
      BY <3>1, <3>2, <3>3
  <2>3. \A x \in Given' \ Exempt' :
          cursor' <= x /\ \A r \in replies' : \A y \in ToSet(r.page) : y < x
    <3> SUFFICES ASSUME NEW x \in Given' \ Exempt'
                 PROVE  cursor' <= x /\ \A r \in replies' : \A y \in ToSet(r.page) : y < x
      OBVIOUS
    <3>1. x \in Given \ Exempt /\ x \in Nat
      BY <1>5, <1>6, ThreadFacts
    <3>2. cursor <= x /\ \A r \in replies : \A y \in ToSet(r.page) : y < x
      BY <1>3, <1>4, <1>7, <3>1 DEF OlderBelow
    <3>3. \A y \in ToSet(page) : y \in Nat /\ y < cursor
      BY <1>0, <1>8, PageIs
    <3>4. \A y \in ToSet(page) : y < x
      BY <1>8, <3>1, <3>2, <3>3
    <3> QED
      BY <1>3, <3>2, <3>4
  <2> QED
    BY <1>7, <2>1, <2>2, <2>3 DEF OlderBelow
<1>12. Gapless'
  <2>1. Covered(cursor, Known, stored)
    BY <1>3, <1>4 DEF Gapless
  <2>2. \A r \in replies' : r.kind # "load" =>
          \E b \in 1 .. stored' + 1 : r.page = Page(b) /\ Covered(b, Known', stored')
    BY <1>0, <1>3, <1>4, <1>5, <1>8, <2>1 DEF Gapless
  <2> QED
    BY <1>3, <1>4, <1>5, <1>6, <1>7, <2>2 DEF Gapless
<1> QED
  BY <1>3, <1>9, <1>10, <1>11, <1>12 DEF ThreadInv

(* The first page replaces what came before it. *)
LEMMA LoadedKeeps ==
  ASSUME ThreadInv, NEW r \in replies, Loaded(r)
  PROVE  ThreadInv'
<1>1. /\ client = "mobile" /\ r.kind = "load" /\ replies' = replies \ {r}
      /\ list' = r.page /\ cursor' = NextCursor(r.page)
      /\ missed' = missed \cup {m \in ToSet(list) : \A i \in DOMAIN r.page : m > r.page[i]}
                          \cup Overtaken(r.page)
      /\ doubled' = doubled \cup (ToSet(r.page) \cap Awaited)
      /\ UNCHANGED <<client, stored, loaded, channel, sending, history, live>>
  BY DEF Loaded
<1>2. NewestFirst /\ OneOptimistic /\ OlderBelow /\ Gapless /\ ThreadTypes
  BY <1>1 DEF ThreadInv
<1>3. PICK b \in OldMessages + 1 .. stored + 1 : r.page = Page(b)
  BY <1>1, <1>2 DEF ThreadTypes
<1>4. PICK low : low = Bottom(b)
  OBVIOUS
<1>5. /\ stored \in Nat /\ OldMessages \in Nat /\ b \in Nat \ {0} /\ b <= stored + 1
      /\ b >= OldMessages + 1
  BY <1>3, ThreadFacts
<1>6. /\ list' \in Seq(Nat) /\ cursor' = low /\ low \in Nat /\ low < b
      /\ ToSet(list') = {m \in 1 .. b - 1 : low <= m}
      /\ Optimistic \notin ToSet(list') /\ AtMostOne(list') /\ Ordered(list', Exempt')
  <2>1. list' = Page(b)
    BY <1>1, <1>3
  <2>2. /\ Page(b) \in Seq(Nat) /\ NextCursor(Page(b)) = low /\ low \in Nat /\ low < b
        /\ ToSet(Page(b)) = {m \in 1 .. b - 1 : low <= m}
    BY <1>4, <1>5, PageIs
  <2>3. Optimistic \notin ToSet(Page(b)) /\ AtMostOne(Page(b)) /\ Ordered(Page(b), Exempt')
    BY <1>5, PageOrdered
  <2> QED
    BY <1>1, <1>3, <2>1, <2>2, <2>3
<1>7. /\ replies' = {} /\ ~ FirstPage' /\ FirstPage
  <2>1. FirstPage
    BY <1>1 DEF FirstPage, InFlight
  <2>2. loaded /\ replies' = {}
    BY <1>1, <1>2, <2>1 DEF OlderBelow
  <2> QED
    BY <1>1, <2>1, <2>2 DEF FirstPage, InFlight
<1>8. /\ missed \subseteq missed' /\ Exempt \subseteq Exempt' /\ missed' \subseteq Exempt'
      /\ Awaited' = Awaited
  BY <1>1 DEF Exempt, Awaited
<1>9. ASSUME NEW m \in ToSet(list), m >= b PROVE m \in missed'
  <2>1. m \in Nat
    BY ThreadFacts
  <2>2. ASSUME NEW i \in DOMAIN r.page PROVE m > r.page[i]
    <3>1. r.page[i] \in ToSet(list')
      BY <1>1 DEF ToSet
    <3> QED
      BY <1>5, <1>6, <1>9, <2>1, <3>1
  <2> QED
    BY <1>1, <2>2
<1>10. ASSUME NEW late \in ToSet(channel) \cup Awaited, NEW m \in Nat, late <= m, m < low
       PROVE  m \in missed'
  <2>1. late \in Nat /\ late > OldMessages
    BY ThreadFacts
  <2>2. m \in 1 .. NextCursor(r.page) - 1
    BY <1>1, <1>5, <1>6, <1>10, <2>1
  <2>3. m \in Overtaken(r.page)
    BY <1>10, <2>2 DEF Overtaken
  <2> QED
    BY <1>1, <2>3
<1>11. \A m \in ToSet(channel) \cup Awaited :
         /\ m \in Nat /\ m > OldMessages /\ m <= stored
         /\ m \notin Exempt' => low <= m /\ (m \in ToSet(list') \/ m >= b)
  <2> SUFFICES ASSUME NEW m \in ToSet(channel) \cup Awaited
               PROVE  /\ m \in Nat /\ m > OldMessages /\ m <= stored
                      /\ m \notin Exempt' => low <= m /\ (m \in ToSet(list') \/ m >= b)
    OBVIOUS
  <2>1. m \in Nat /\ m > OldMessages /\ m <= stored
    BY ThreadFacts
  <2>2. ASSUME m \notin Exempt' PROVE low <= m
    BY <1>6, <1>8, <1>10, <2>1, <2>2
  <2>3. ASSUME low <= m PROVE m \in ToSet(list') \/ m >= b
    <3>1. m >= b \/ m \in 1 .. b - 1
      BY <1>5, <2>1
    <3> QED
      BY <1>6, <2>3, <3>1
  <2> QED
    BY <2>1, <2>2, <2>3
<1>12. ThreadTypes'
  <2>1. ToSet(list') \subseteq 0 .. stored' /\ cursor' \in 0 .. stored'
    BY <1>1, <1>5, <1>6
  <2> QED
    BY <1>1, <1>2, <1>6, <1>7, <1>8, <2>1 DEF ThreadTypes
<1>13. NewestFirst'
  <2>1. \A x \in ToSet(list') : x \in Nat /\ x < b
    BY <1>5, <1>6
  <2>2. \A m \in ToSet(channel') \ Exempt' :
          m \in ToSet(list') \/ \A x \in ToSet(list') \ Exempt' : x < m
    BY <1>1, <1>5, <1>11, <2>1
  <2>3. \A m \in Awaited' \ Exempt' : \A x \in ToSet(list') \ Exempt' : x < m
    <3> SUFFICES ASSUME NEW m \in Awaited \ Exempt', NEW x \in ToSet(list') PROVE x < m
      BY <1>8
    <3>1. m \notin ToSet(list')
      BY <1>1 DEF Exempt
    <3>2. m >= b /\ m \in Nat
      BY <1>11, <3>1
    <3> QED
      BY <1>5, <2>1, <3>2
  <2>4. Awaited' \subseteq Exempt' \cup ToSet(channel')
    BY <1>1, <1>2, <1>8 DEF NewestFirst
  <2> QED
    BY <1>6, <2>2, <2>3, <2>4 DEF NewestFirst
<1>14. OneOptimistic'
  BY <1>6 DEF OneOptimistic
<1>15. Given' = ToSet(list') \cup ToSet(channel) \cup Awaited
  BY <1>1, <1>8 DEF Given
<1>16. OlderBelow'
  <2>1. \A x \in Given' \ Exempt' : cursor' <= x
    BY <1>6, <1>11, <1>15
  <2> QED
    BY <1>7, <2>1 DEF OlderBelow
<1>17. Gapless'
  <2>1. ASSUME NEW m \in 1 .. stored, low <= m PROVE m \in Known'
    <3>1. CASE m < b
      <4>1. m \in 1 .. b - 1
        BY <1>5, <3>1
      <4> QED
        BY <1>6, <2>1, <4>1 DEF Known
    <3>2. CASE m >= b
      <4>1. m \in Known
        <5>1. Covered(OldMessages + 1, Known, stored)
          BY <1>2, <1>7 DEF Gapless
        <5>2. OldMessages + 1 <= m
          BY <1>5, <3>2
        <5> QED
          BY <5>1, <5>2 DEF Covered
      <4> QED
        BY <1>1, <1>8, <1>9, <3>2, <4>1 DEF Known
    <3> QED
      BY <1>5, <3>1, <3>2
  <2>2. Covered(cursor', Known', stored')
    BY <1>1, <1>6, <2>1 DEF Covered
  <2>3. ASSUME NEW a \in Given' PROVE Covered(a, Known', stored')
    <3> SUFFICES ASSUME NEW m \in 1 .. stored, a <= m PROVE m \in Known'
      BY <1>1 DEF Covered
    <3>1. CASE low <= m
      BY <2>1, <3>1
    <3>2. CASE m < low
      <4>1. a \in ToSet(channel) \cup Awaited
        <5>1. a \notin ToSet(list')
          BY <1>5, <1>6, <3>2
        <5> QED
          BY <1>15, <5>1
      <4>2. m \in missed'
        BY <1>5, <1>10, <3>2, <4>1
      <4> QED
        BY <4>2 DEF Known
    <3> QED
      BY <1>5, <1>6, <3>1, <3>2
  <2> QED
    BY <1>7, <2>2, <2>3 DEF Gapless
<1> QED
  BY <1>1, <1>12, <1>13, <1>14, <1>16, <1>17 DEF ThreadInv

LEMMA ReversedSet ==
  ASSUME NEW s \in Seq(Nat)
  PROVE  ToSet(Reverse(s)) = ToSet(s)
<1>1. PICK n \in Nat : n = Len(s) /\ DOMAIN s = 1 .. n
  OBVIOUS
<1>2. DOMAIN Reverse(s) = 1 .. n /\ \A i \in 1 .. n : Reverse(s)[i] = s[n - i + 1]
  BY <1>1 DEF Reverse
<1>3. \A i \in 1 .. n : n - i + 1 \in 1 .. n /\ n - (n - i + 1) + 1 = i
  BY <1>1
<1>4. ASSUME NEW x \in ToSet(s) PROVE x \in ToSet(Reverse(s))
  <2>1. PICK i \in 1 .. n : x = s[i]
    BY <1>1 DEF ToSet
  <2>2. PICK k \in 1 .. n : k = n - i + 1 /\ n - k + 1 = i
    BY <1>3
  <2>3. Reverse(s)[k] = x /\ k \in DOMAIN Reverse(s)
    BY <1>2, <2>1, <2>2
  <2> QED
    BY <2>3 DEF ToSet
<1>5. ASSUME NEW x \in ToSet(Reverse(s)) PROVE x \in ToSet(s)
  <2>1. PICK i \in 1 .. n : x = Reverse(s)[i]
    BY <1>2 DEF ToSet
  <2>2. n - i + 1 \in DOMAIN s /\ x = s[n - i + 1]
    BY <1>1, <1>2, <1>3, <2>1
  <2> QED
    BY <2>2 DEF ToSet
<1> QED
  BY <1>4, <1>5

LEMMA RefetchedKeeps ==
  ASSUME ThreadInv, NEW r \in replies, Refetched(r)
  PROVE  ThreadInv'
<1>1. /\ client = "web" /\ r.kind = "load" /\ replies' = replies \ {r} /\ history' = Reverse(r.page)
      /\ UNCHANGED <<client, stored, loaded, channel, sending, list, cursor, live, doubled, missed>>
  BY DEF Refetched
<1>2. ThreadTypes /\ WebThread /\ Awaited' = Awaited
  BY <1>1 DEF ThreadInv, Awaited
<1>3. ThreadTypes'
  BY <1>1, <1>2 DEF ThreadTypes
<1>4. WebThread'
  <2>1. PICK b \in OldMessages + 1 .. stored + 1 : r.page = Page(b)
    BY <1>1, <1>2 DEF ThreadTypes
  <2>2. b \in Nat \ {0}
    BY <2>1, ThreadFacts
  <2>3. ToSet(history') = ToSet(Page(b))
    BY <1>1, <2>1, <2>2, PageIs, ReversedSet
  <2> QED
    BY <1>1, <1>2, <2>1, <2>3 DEF WebThread
<1> QED
  BY <1>1, <1>3, <1>4 DEF ThreadInv

LEMMA OlderLoadedKeeps ==
  ASSUME ThreadInv, NEW r \in replies, OlderLoaded(r)
  PROVE  ThreadInv'
<1>1. /\ r.kind = "older" /\ r.kind # "load" /\ replies' = replies \ {r}
      /\ list' = list \o r.page /\ cursor' = NextCursor(r.page)
      /\ UNCHANGED <<client, stored, loaded, channel, sending, history, live, doubled, missed>>
  BY DEF OlderLoaded
<1>2. /\ client = "mobile"
      /\ NewestFirst /\ OneOptimistic /\ OlderBelow /\ Gapless /\ ThreadTypes
  BY <1>1 DEF ThreadInv, ThreadTypes, WebThread
<1>3. PICK b \in 1 .. stored + 1 : r.page = Page(b) /\ Covered(b, Known, stored)
  BY <1>1, <1>2 DEF Gapless
<1>4. PICK low : low = Bottom(b)
  OBVIOUS
<1>5. PICK page : page = r.page
  OBVIOUS
<1>6. stored \in Nat /\ b \in Nat \ {0} /\ b <= stored + 1 /\ list \in Seq(Nat)
  BY <1>3, ThreadFacts
<1>7. /\ page \in Seq(Nat) /\ cursor' = low /\ low \in Nat /\ low < b
      /\ ToSet(page) = {m \in 1 .. b - 1 : low <= m} /\ (low # 0 => low \in ToSet(page))
      /\ Optimistic \notin ToSet(page) /\ Ordered(page, Exempt)
  <2>1. /\ Page(b) \in Seq(Nat) /\ NextCursor(Page(b)) = low /\ low \in Nat /\ low < b
        /\ ToSet(Page(b)) = {m \in 1 .. b - 1 : low <= m} /\ (low # 0 => low \in ToSet(Page(b)))
    BY <1>4, <1>6, PageIs
  <2>2. Optimistic \notin ToSet(Page(b)) /\ Ordered(Page(b), Exempt)
    BY <1>6, PageOrdered
  <2> QED
    BY <1>1, <1>3, <1>5, <2>1, <2>2
<1>8. Awaited' = Awaited /\ Exempt' = Exempt
  BY <1>1 DEF Awaited, Exempt
<1>9. \A x \in Given \ Exempt, y \in ToSet(page) : y < x
  BY <1>1, <1>2, <1>5 DEF OlderBelow
<1>10. /\ list' \in Seq(Nat) /\ ToSet(list') = ToSet(list) \cup ToSet(page)
       /\ Ordered(list', Exempt) /\ AtMostOne(list')
  <2>1. \A x \in ToSet(list) \ Exempt, y \in ToSet(page) \ Exempt : y < x
    BY <1>9 DEF Given
  <2>2. Ordered(list, Exempt) /\ AtMostOne(list)
    BY <1>2 DEF NewestFirst, OneOptimistic
  <2> QED
    BY <1>1, <1>5, <1>6, <1>7, <2>1, <2>2, Behind
<1>11. /\ Given' = Given \cup ToSet(page) /\ Known' = Known \cup ToSet(page)
       /\ ~ FirstPage /\ ~ FirstPage'
  <2>1. Given' = Given \cup ToSet(page) /\ Known' = Known \cup ToSet(page)
    BY <1>1, <1>8, <1>10 DEF Given, Known
  <2>2. ~ FirstPage
    BY <1>1, <1>2 DEF OlderBelow
  <2> QED
    BY <1>1, <2>1, <2>2 DEF FirstPage, InFlight
<1>12. ThreadTypes'
  <2>1. ToSet(list') \subseteq 0 .. stored' /\ cursor' \in 0 .. stored'
    <3>1. ToSet(page) \subseteq 0 .. stored /\ low \in 0 .. stored
      BY <1>6, <1>7
    <3> QED
      BY <1>1, <1>2, <1>7, <1>10, <3>1 DEF ThreadTypes
  <2> QED
    BY <1>1, <1>2, <1>8, <1>10, <2>1 DEF ThreadTypes
<1>13. NewestFirst'
  <2>1. \A m \in ToSet(channel') \ Exempt' :
          m \in ToSet(list') \/ \A x \in ToSet(list') \ Exempt' : x < m
    <3>1. \A m \in ToSet(channel) \ Exempt : \A y \in ToSet(page) : y < m
      BY <1>9 DEF Given
    <3> QED
      BY <1>1, <1>2, <1>8, <1>10, <3>1 DEF NewestFirst
  <2>2. \A m \in Awaited' \ Exempt' : \A x \in ToSet(list') \ Exempt' : x < m
    <3>1. \A m \in Awaited \ Exempt : \A y \in ToSet(page) : y < m
      BY <1>9 DEF Given
    <3> QED
      BY <1>2, <1>8, <1>10, <3>1 DEF NewestFirst
  <2>3. Awaited' \subseteq Exempt' \cup ToSet(channel')
    BY <1>1, <1>2, <1>8 DEF NewestFirst
  <2> QED
    BY <1>8, <1>10, <2>1, <2>2, <2>3 DEF NewestFirst
<1>14. OneOptimistic'
  BY <1>1, <1>2, <1>7, <1>10 DEF OneOptimistic
<1>15. OlderBelow'
  <2>1. \A q \in replies' : q.kind # "load" => ToSet(q.page) \subseteq doubled /\ ToSet(page) \subseteq doubled
    BY <1>1, <1>2, <1>5 DEF OlderBelow
  <2>2. \A p, q \in replies' : p.kind = "load" /\ q.kind = "load" => loaded' /\ p = q
    BY <1>1, <1>2 DEF OlderBelow
  <2>3. ASSUME NEW x \in Given' \ Exempt'
        PROVE  cursor' <= x /\ \A q \in replies' : q.kind # "load" => \A y \in ToSet(q.page) : y < x
    <3>1. CASE x \in Given
      <4>1. x \in Nat /\ low <= x
        <5>1. x \in Given \ Exempt
          BY <1>8, <2>3, <3>1
        <5>2. x \in Nat
          BY <3>1, ThreadFacts
        <5>3. low # 0 => low < x
          BY <1>7, <1>9, <5>1
        <5> QED
          BY <1>7, <5>2, <5>3
      <4>2. \A q \in replies' : q.kind # "load" => \A y \in ToSet(q.page) : y < x
        BY <1>1, <1>2, <1>8, <2>3, <3>1 DEF OlderBelow
      <4> QED
        BY <1>7, <4>1, <4>2
    <3>2. CASE x \in ToSet(page)
      <4>1. x \notin doubled
        BY <1>8, <2>3 DEF Exempt
      <4> QED
        BY <1>7, <2>1, <3>2, <4>1
    <3> QED
      BY <1>11, <2>3, <3>1, <3>2
  <2> QED
    BY <1>1, <1>11, <2>1, <2>2, <2>3 DEF OlderBelow
<1>16. Gapless'
  <2>1. ASSUME NEW a, Covered(a, Known, stored) PROVE Covered(a, Known', stored')
    BY <1>1, <1>11, <2>1 DEF Covered
  <2>2. ASSUME NEW a \in Nat, low <= a PROVE Covered(a, Known', stored')
    <3> SUFFICES ASSUME NEW m \in 1 .. stored, a <= m PROVE m \in Known'
      BY <1>1 DEF Covered
    <3>1. CASE m < b
      <4>1. m \in 1 .. b - 1 /\ low <= m
        BY <1>6, <1>7, <2>2, <3>1
      <4> QED
        BY <1>7, <1>11, <4>1
    <3>2. CASE b <= m
      BY <1>3, <1>11, <3>2 DEF Covered
    <3> QED
      BY <1>6, <3>1, <3>2
  <2>3. \A a \in Given' \ {Optimistic} : Covered(a, Known', stored')
    <3>1. \A a \in ToSet(page) : a \in Nat /\ low <= a
      BY <1>7
    <3> QED
      BY <1>2, <1>11, <2>1, <2>2, <3>1 DEF Gapless
  <2>4. Covered(cursor', Known', stored')
    BY <1>7, <2>2
  <2>5. \A q \in replies' : q.kind # "load" =>
          \E c \in 1 .. stored' + 1 : q.page = Page(c) /\ Covered(c, Known', stored')
    BY <1>1, <1>2, <2>1 DEF Gapless
  <2> QED
    BY <1>11, <2>3, <2>4, <2>5 DEF Gapless
<1> QED
  BY <1>1, <1>2, <1>12, <1>13, <1>14, <1>15, <1>16 DEF ThreadInv

-----------------------------------------------------------------------------
(* Hearing and being answered. *)

LEMMA WebGrows ==
  ASSUME ThreadInv, client = "web", NEW m \in ToSet(channel) \cup Awaited,
         live' = Append(live, m), channel' \in Seq(Nat), Increasing(channel'),
         ToSet(channel') \subseteq ToSet(channel), ToSet(channel) \subseteq ToSet(channel') \cup {m},
         Awaited' \subseteq Awaited,
         UNCHANGED <<client, stored, loaded, replies, list, cursor, history, missed>>
  PROVE  ThreadInv'
<1>1. ThreadTypes /\ WebThread
  BY DEF ThreadInv
<1>2. live' \in Seq(Nat) /\ ToSet(live') = ToSet(live) \cup {m}
  BY <1>1, ThreadFacts, Told DEF WebThread
<1>3. m \in OldMessages + 1 .. stored
  BY <1>1 DEF ThreadTypes
<1>4. ThreadTypes'
  BY <1>1 DEF ThreadTypes, Increasing
<1>5. WebThread'
  BY <1>1, <1>2, <1>3 DEF WebThread
<1> QED
  BY <1>4, <1>5 DEF ThreadInv

LEMMA HearKeeps ==
  ASSUME ThreadInv, Hear
  PROVE  ThreadInv'
<1>1. PICK m : m = Head(channel)
  OBVIOUS
<1>2. /\ channel # <<>> /\ channel' = Tail(channel)
      /\ client = "mobile" => /\ list' = WithEvent(list, m) /\ UNCHANGED live
                              /\ doubled' = doubled \cup ({m} \cap Awaited)
      /\ client # "mobile" => live' = Append(live, m) /\ UNCHANGED <<list, doubled>>
      /\ UNCHANGED <<client, stored, loaded, listening, replies, sending, cursor, history, missed>>
  BY <1>1 DEF Hear
<1>3. /\ channel' \in Seq(Nat) /\ Increasing(channel') /\ m \in Nat
      /\ ToSet(channel) = ToSet(channel') \cup {m} /\ \A x \in ToSet(channel') : m < x
  BY <1>1, <1>2, ThreadFacts, HeadHeard
<1>4. Awaited' = Awaited
  BY <1>2 DEF Awaited
<1>5. CASE client = "web"
  BY <1>2, <1>3, <1>4, <1>5, WebGrows
<1>6. CASE client = "mobile"
  <2>0. NewestFirst /\ OneOptimistic /\ OlderBelow /\ Gapless /\ ThreadTypes
    BY <1>6 DEF ThreadInv
  <2>1. /\ Exempt \subseteq Exempt' /\ (m \in Awaited => m \in Exempt')
        /\ FirstPage' = FirstPage /\ Optimistic \in Exempt
    BY <1>2, <1>6 DEF Exempt, FirstPage, InFlight
  <2>2. m \in OldMessages + 1 .. stored /\ m # Optimistic
    <3>1. m \in ToSet(channel) /\ ToSet(channel) \subseteq OldMessages + 1 .. stored
      BY <1>3, <2>0 DEF ThreadTypes
    <3>2. m > OldMessages /\ m \in Nat /\ OldMessages \in Nat
      BY <3>1, ThreadFacts
    <3> QED
      BY <3>1, <3>2 DEF Optimistic
  <2>3. m \in ToSet(list) \/ m \in Exempt' \/ \A x \in ToSet(list) \ Exempt' : x < m
    BY <1>3, <2>0, <2>1 DEF NewestFirst
  <2>4. Ordered(list, Exempt')
    BY <2>0, <2>1, MoreExempt DEF NewestFirst
  <2>5. /\ list' \in Seq(Nat) /\ ToSet(list') = ToSet(list) \cup {m}
        /\ Ordered(list', Exempt') /\ AtMostOne(list')
    <3>1. list \in Seq(Nat) /\ AtMostOne(list)
      BY <2>0 DEF ThreadTypes, OneOptimistic
    <3>2. CASE m \in ToSet(list)
      BY <1>2, <1>6, <2>4, <3>1, <3>2 DEF WithEvent
    <3>3. CASE m \notin ToSet(list)
      <4>1. list' = <<m>> \o list
        BY <1>2, <1>6, <3>3 DEF WithEvent
      <4> QED
        BY <1>3, <2>2, <2>3, <2>4, <3>1, <3>3, <4>1, InFront
    <3> QED
      BY <3>2, <3>3
  <2>6. Given' = Given /\ Known' = Known
    BY <1>2, <1>3, <1>4, <2>5 DEF Given, Known
  <2>7. ThreadTypes'
    <3>1. ToSet(list') \subseteq 0 .. stored' /\ ToSet(channel') \subseteq OldMessages + 1 .. stored'
      <4>1. m \in 0 .. stored
        BY <2>2, ThreadFacts
      <4> QED
        BY <1>2, <1>3, <2>0, <2>5, <4>1 DEF ThreadTypes
    <3> QED
      BY <1>2, <1>3, <1>4, <2>0, <2>5, <3>1 DEF ThreadTypes, Increasing
  <2>8. NewestFirst'
    <3>1. \A y \in ToSet(channel') \ Exempt' :
            y \in ToSet(list') \/ \A x \in ToSet(list') \ Exempt' : x < y
      BY <1>3, <2>0, <2>1, <2>5 DEF NewestFirst
    <3>2. \A y \in Awaited' \ Exempt' : \A x \in ToSet(list') \ Exempt' : x < y
      <4> SUFFICES ASSUME NEW y \in Awaited \ Exempt', NEW x \in ToSet(list') \ Exempt' PROVE x < y
        BY <1>4
      <4>1. y \in ToSet(channel) /\ y # m
        BY <2>0, <2>1 DEF NewestFirst
      <4>2. m < y
        BY <1>3, <4>1
      <4>3. x \in ToSet(list) => x < y
        BY <2>0, <2>1 DEF NewestFirst
      <4> QED
        BY <2>5, <4>2, <4>3
    <3>3. Awaited' \subseteq Exempt' \cup ToSet(channel')
      BY <1>3, <1>4, <2>0, <2>1 DEF NewestFirst
    <3> QED
      BY <2>5, <3>1, <3>2, <3>3 DEF NewestFirst
  <2>9. OneOptimistic'
    BY <1>2, <2>0, <2>2, <2>5 DEF OneOptimistic
  <2>10. OlderBelow'
    <3>1. doubled \subseteq doubled'
      BY <1>2, <1>6
    <3>2. Given' \ Exempt' \subseteq Given \ Exempt
      BY <2>1, <2>6
    <3> QED
      BY <1>2, <2>0, <2>1, <3>1, <3>2 DEF OlderBelow
  <2>11. Gapless'
    BY <1>2, <2>0, <2>1, <2>6 DEF Gapless
  <2> QED
    BY <1>2, <1>6, <2>7, <2>8, <2>9, <2>10, <2>11 DEF ThreadInv
<1> QED
  BY <1>5, <1>6 DEF ThreadInv, ThreadTypes

LEMMA AnsweredKeeps ==
  ASSUME ThreadInv, Answered
  PROVE  ThreadInv'
<1>1. PICK w : w = sending
  OBVIOUS
<1>2. /\ Awaited = {w} /\ sending' = 0
      /\ client = "mobile" => /\ list' = <<w>> \o WithoutOptimistic(list) /\ UNCHANGED live
                              /\ missed' = missed \cup {m \in ToSet(channel) : m < w}
      /\ client # "mobile" => live' = Append(live, w) /\ UNCHANGED <<list, missed>>
      /\ UNCHANGED <<client, stored, loaded, listening, channel, replies, cursor, history, doubled>>
  BY <1>1 DEF Answered, Awaited
<1>3. Awaited' = {}
  BY <1>2 DEF Awaited
<1>4. w \in Nat /\ w > OldMessages /\ w <= stored /\ OldMessages \in Nat /\ stored \in Nat
  BY <1>2, ThreadFacts
<1>5. CASE client = "web"
  BY <1>2, <1>3, <1>5, ThreadFacts, WebGrows
<1>6. CASE client = "mobile"
  <2>0. NewestFirst /\ OneOptimistic /\ OlderBelow /\ Gapless /\ ThreadTypes
    BY <1>6 DEF ThreadInv
  <2>1. /\ Exempt \subseteq Exempt' /\ missed \subseteq missed'
        /\ FirstPage' = FirstPage /\ Optimistic \in Exempt
        /\ \A m \in ToSet(channel) : m < w => m \in Exempt'
    BY <1>2, <1>6 DEF Exempt, FirstPage, InFlight
  <2>2. w # Optimistic
    BY <1>4 DEF Optimistic
  <2>3. w \in Exempt' \/ \A x \in ToSet(list) \ Exempt' : x < w
    BY <1>2, <2>0, <2>1 DEF NewestFirst
  <2>4. PICK rest : rest = WithoutOptimistic(list)
    OBVIOUS
  <2>5. /\ rest \in Seq(Nat) /\ ToSet(rest) = ToSet(list) \ {Optimistic}
        /\ Ordered(rest, Exempt') /\ AtMostOne(rest)
    <3>1. list \in Seq(Nat) /\ AtMostOne(list) /\ Ordered(list, Exempt')
      BY <2>0, <2>1, MoreExempt DEF ThreadTypes, OneOptimistic, NewestFirst
    <3> QED
      BY <2>4, <3>1, WithoutIt
  <2>6. /\ list' \in Seq(Nat) /\ ToSet(list') = (ToSet(list) \ {Optimistic}) \cup {w}
        /\ Ordered(list', Exempt') /\ AtMostOne(list')
    <3>1. list' = <<w>> \o rest
      BY <1>2, <1>6, <2>4
    <3>2. w \in Exempt' \/ \A x \in ToSet(rest) \ Exempt' : x < w
      BY <2>3, <2>5
    <3> QED
      BY <1>4, <2>2, <2>5, <3>1, <3>2, InFront
  <2>7. Given' \subseteq Given /\ Known \ {Optimistic} \subseteq Known'
    BY <1>2, <1>3, <2>1, <2>6 DEF Given, Known
  <2>8. ThreadTypes'
    <3>1. ToSet(list') \subseteq 0 .. stored'
      <4>1. w \in 0 .. stored
        BY <1>4
      <4> QED
        BY <1>2, <2>0, <2>6, <4>1 DEF ThreadTypes
    <3> QED
      BY <1>2, <1>3, <2>0, <2>6, <3>1 DEF ThreadTypes
  <2>9. NewestFirst'
    <3> SUFFICES ASSUME NEW y \in ToSet(channel) \ Exempt', y \notin ToSet(list'),
                        NEW x \in ToSet(list') \ Exempt'
                 PROVE  x < y
      BY <1>2, <1>3, <2>6 DEF NewestFirst
    <3>1. y \in Nat /\ y # w /\ ~ (y < w) /\ y # Optimistic
      BY <2>1, <2>6, ThreadFacts
    <3>2. y \notin ToSet(list)
      BY <2>6, <3>1
    <3>3. x \in ToSet(list) => x < y
      BY <2>0, <2>1, <3>2 DEF NewestFirst
    <3>4. w < y
      BY <1>4, <3>1
    <3> QED
      BY <2>6, <3>3, <3>4
  <2>10. OneOptimistic'
    BY <2>2, <2>6 DEF OneOptimistic
  <2>11. OlderBelow'
    <3>1. Given' \ Exempt' \subseteq Given \ Exempt
      BY <2>1, <2>7
    <3> QED
      BY <1>2, <2>0, <2>1, <3>1 DEF OlderBelow
  <2>12. Gapless'
    <3>1. ASSUME NEW a, Covered(a, Known, stored) PROVE Covered(a, Known', stored')
      <4>1. \A m \in 1 .. stored : m # Optimistic
        BY <1>4 DEF Optimistic
      <4> QED
        BY <1>2, <2>7, <3>1, <4>1 DEF Covered
    <3> QED
      BY <1>2, <2>0, <2>1, <2>7, <3>1 DEF Gapless
  <2> QED
    BY <1>2, <1>6, <2>8, <2>9, <2>10, <2>11, <2>12 DEF ThreadInv
<1> QED
  BY <1>5, <1>6 DEF ThreadInv, ThreadTypes

-----------------------------------------------------------------------------
LEMMA ThreadInitial == ConversationInit => ThreadInv
<1> SUFFICES ASSUME ConversationInit PROVE ThreadInv
  OBVIOUS
<1>1. /\ client \in {"mobile", "web"} /\ stored = OldMessages /\ stored \in Nat
      /\ loaded = FALSE /\ channel = <<>> /\ sending = 0 /\ replies = {} /\ cursor = 0
      /\ live = <<>> /\ doubled = {} /\ missed = {}
  BY ConversationAssumption DEF ConversationInit
<1>2. PICK seed \in {<<>>, Page(stored + 1)} :
        /\ list = IF client = "mobile" THEN seed ELSE <<>>
        /\ history = IF client = "web" THEN Reverse(seed) ELSE <<>>
  BY DEF ConversationInit
<1>3. PICK low : low = Bottom(stored + 1)
  OBVIOUS
<1>4. stored + 1 \in Nat \ {0} /\ (stored + 1) - 1 = stored
  BY <1>1
<1>5. /\ Page(stored + 1) \in Seq(Nat) /\ Ordered(Page(stored + 1), Exempt)
      /\ AtMostOne(Page(stored + 1)) /\ Optimistic \notin ToSet(Page(stored + 1))
      /\ ToSet(Page(stored + 1)) = {m \in 1 .. stored : low <= m} /\ low \in Nat
  BY <1>3, <1>4, PageIs, PageOrdered
<1>6. /\ seed \in Seq(Nat) /\ Ordered(seed, Exempt) /\ AtMostOne(seed) /\ Optimistic \notin ToSet(seed)
      /\ ToSet(seed) = {} \/ ToSet(seed) = {m \in 1 .. stored : low <= m}
  <2>1. Ordered(<<>>, Exempt)
    BY DEF Ordered
  <2> QED
    BY <1>2, <1>5, <2>1, Silent
<1>7. /\ list \in Seq(Nat) /\ Ordered(list, Exempt) /\ AtMostOne(list) /\ Optimistic \notin ToSet(list)
      /\ ToSet(list) = {} \/ ToSet(list) = {m \in 1 .. stored : low <= m}
  <2>1. Ordered(<<>>, Exempt)
    BY DEF Ordered
  <2> QED
    BY <1>2, <1>6, <2>1, Silent
<1>8. Awaited = {} /\ ToSet(channel) = {} /\ Given = ToSet(list) /\ Increasing(channel)
  BY <1>1, Silent DEF Awaited, Given
<1>9. ThreadTypes
  BY <1>1, <1>7, <1>8 DEF ThreadTypes
<1>10. NewestFirst /\ OneOptimistic /\ OlderBelow
  <2>1. OlderBelow
    <3>1. \A x \in Given \ Exempt : cursor <= x
      BY <1>1, <1>7, <1>8
    <3> QED
      BY <1>1, <3>1 DEF OlderBelow
  <2> QED
    BY <1>1, <1>7, <1>8, <2>1 DEF NewestFirst, OneOptimistic
<1>11. Gapless
  <2>1. Covered(OldMessages + 1, Known, stored)
    BY <1>1 DEF Covered
  <2>2. ASSUME NEW a \in Given PROVE Covered(a, Known, stored)
    <3>1. a \in Nat /\ low <= a /\ low \in Nat
      BY <1>1, <1>5, <1>7, <1>8, <2>2
    <3>2. ASSUME NEW m \in 1 .. stored, a <= m PROVE m \in ToSet(list)
      <4>1. m \in Nat /\ low <= m
        BY <1>1, <3>1, <3>2
      <4> QED
        BY <1>7, <1>8, <2>2, <4>1
    <3> QED
      BY <3>2 DEF Covered, Known
  <2> QED
    BY <1>1, <2>1, <2>2 DEF Gapless
<1>12. ASSUME client = "web" PROVE WebThread
  <2>1. ToSet(history) = ToSet(seed)
    BY <1>2, <1>6, <1>12, ReversedSet
  <2>2. seed = <<>> \/ (stored + 1 \in OldMessages + 1 .. stored + 1 /\ seed = Page(stored + 1))
    BY <1>1, <1>2
  <2>3. /\ list = <<>> /\ live \in Seq(Nat) /\ ToSet(live) = {}
    BY <1>1, <1>2, <1>12, Silent
  <2> QED
    BY <1>1, <2>1, <2>2, <2>3, Silent DEF WebThread
<1> QED
  BY <1>9, <1>10, <1>11, <1>12 DEF ThreadInv

LEMMA ThreadStep == ThreadInv /\ [ConversationNext]_threadVars => ThreadInv'
<1> SUFFICES ASSUME ThreadInv, [ConversationNext]_threadVars PROVE ThreadInv'
  OBVIOUS
<1>1. CASE UNCHANGED threadVars
  <2>1. UNCHANGED <<client, stored, loaded, listening, channel, replies, sending, list, cursor,
                    history, live, doubled, missed>>
    BY <1>1 DEF threadVars
  <2>2. Awaited' = Awaited /\ Exempt' = Exempt /\ Known' = Known /\ FirstPage' = FirstPage
    BY <2>1 DEF Awaited, Exempt, Known, FirstPage, InFlight
  <2>3. Given' = Given
    BY <2>1, <2>2 DEF Given
  <2>4. ThreadTypes' = ThreadTypes /\ (WebThread => WebThread')
    BY <2>1, <2>2 DEF ThreadTypes, WebThread
  <2>5. NewestFirst /\ OneOptimistic => NewestFirst' /\ OneOptimistic'
    BY <2>1, <2>2 DEF NewestFirst, OneOptimistic
  <2>6. OlderBelow => OlderBelow'
    BY <2>1, <2>2, <2>3 DEF OlderBelow
  <2>7. Gapless => Gapless'
    BY <2>1, <2>2, <2>3 DEF Gapless
  <2> QED
    BY <2>1, <2>4, <2>5, <2>6, <2>7 DEF ThreadInv
<1>2. CASE PeerSends \/ SendStored
  BY <1>2, PeerKeeps
<1>3. CASE Listen \/ Drop \/ Send \/ SendFails
  BY <1>3, QuietKeeps
<1>4. ASSUME NEW r \in replies, Loaded(r) \/ Refetched(r) \/ OlderLoaded(r) \/ Failed(r)
      PROVE  ThreadInv'
  BY <1>4, LoadedKeeps, RefetchedKeeps, OlderLoadedKeeps, FailedKeeps
<1>5. CASE LoadThread \/ LoadOlder
  BY <1>5, LoadThreadKeeps, LoadOlderKeeps
<1>6. CASE Hear \/ Answered
  BY <1>6, HearKeeps, AnsweredKeeps
<1> QED
  BY <1>1, <1>2, <1>3, <1>4, <1>5, <1>6 DEF ConversationNext

LEMMA ThreadHolds == ThreadInv => ThreadSound
<1> SUFFICES ASSUME ThreadInv PROVE ThreadSound
  OBVIOUS
<1>1. ASSUME client = "mobile", NEW i \in DOMAIN list, NEW j \in DOMAIN list, i < j
      PROVE  \/ list[i] > list[j]
             \/ {list[i], list[j]} \cap (doubled \cup missed) # {}
             \/ list[i] = Optimistic /\ list[j] # Optimistic /\ sending # 0
             \/ list[j] = Optimistic /\ list[i] # Optimistic /\ sending # 0
  <2>1. Ordered(list, Exempt) /\ AtMostOne(list) /\ (Optimistic \in ToSet(list) => sending # 0)
    BY <1>1 DEF ThreadInv, NewestFirst, OneOptimistic
  <2>2. i # j
    <3>1. i \in Nat /\ j \in Nat
      BY ThreadFacts
    <3> QED
      BY <1>1, <3>1
  <2>3. ~ (list[i] = Optimistic /\ list[j] = Optimistic)
    BY <2>1, <2>2 DEF AtMostOne
  <2>4. list[i] = Optimistic \/ list[j] = Optimistic => sending # 0
    BY <2>1 DEF ToSet
  <2>5. list[i] \notin Exempt /\ list[j] \notin Exempt => list[i] > list[j]
    BY <1>1, <2>1 DEF Ordered
  <2> QED
    BY <2>3, <2>4, <2>5 DEF Exempt
<1>2. ASSUME NEW m \in 1 .. stored, NEW a \in Shown, a < m, NEW b \in Shown, m < b
      PROVE  m \in Shown \cup missed \cup ToSet(channel)
  <2>0. m \in Nat /\ m >= 1 /\ m <= stored /\ stored \in Nat /\ OldMessages \in Nat
    BY ThreadFacts
  <2>1. CASE client = "mobile"
    <3>1. a \in Given \ {Optimistic}
      BY <2>1 DEF Shown, Given
    <3>2. Covered(a, Known, stored) /\ a \in Nat
      BY <2>1, <3>1, ThreadFacts DEF ThreadInv, Gapless
    <3>3. m \in Known
      BY <1>2, <2>0, <3>2 DEF Covered
    <3>4. m # Optimistic
      BY <2>0 DEF Optimistic
    <3> QED
      BY <2>1, <3>3, <3>4 DEF Known, Shown
  <2>2. CASE client = "web"
    <3>1. WebThread /\ Shown = ToSet(history) \cup ToSet(live)
      BY <2>2 DEF ThreadInv, Shown, Merged
    <3>2. CASE m >= OldMessages + 1
      BY <2>0, <3>1, <3>2 DEF WebThread
    <3>3. CASE m < OldMessages + 1
      <4>1. a \in ToSet(history)
        <5>1. a \in ToSet(live) => a \in OldMessages + 1 .. stored
          BY <3>1 DEF WebThread
        <5>2. ~ (a \in OldMessages + 1 .. stored)
          BY <1>2, <2>0, <3>3
        <5> QED
          BY <3>1, <5>1, <5>2
      <4>2. PICK c \in OldMessages + 1 .. stored + 1 : ToSet(history) = ToSet(Page(c))
        BY <3>1, <4>1 DEF WebThread
      <4>3. c \in Nat \ {0} /\ c >= OldMessages + 1
        BY <2>0
      <4>4. ToSet(history) = {x \in 1 .. c - 1 : Bottom(c) <= x} /\ Bottom(c) \in Nat
        BY <4>2, <4>3, PageIs
      <4>5. m \in 1 .. c - 1 /\ Bottom(c) <= m
        BY <1>2, <2>0, <3>3, <4>1, <4>3, <4>4
      <4> QED
        BY <3>1, <4>4, <4>5
    <3> QED
      BY <2>0, <3>2, <3>3
  <2> QED
    BY <2>1, <2>2 DEF ThreadInv, ThreadTypes
<1> QED
  BY <1>1, <1>2 DEF ThreadSound

(* What a screen shows of a thread is newest first, nothing twice, nothing   *)
(* left out but what is on its way, however pages, events and answers cross, *)
(* for any thread, page size and number of requests, outside the races the   *)
(* code leaves open (conversation/[id].tsx load, loadOlder, send and the     *)
(* channel's handler; web messages/[id] merge).                              *)
THEOREM ThreadIsWhole == Spec => []ThreadSound
<1>1. Init => ThreadInv
  BY ThreadInitial DEF Init
<1>2. ThreadInv /\ [Next]_screenVars => ThreadInv'
  BY ScreenMoves, ThreadStep
<1> QED BY <1>1, <1>2, ThreadHolds, PTL DEF Spec

-----------------------------------------------------------------------------
(* Lists.  A page begins where the one before it ended: by a row, in the     *)
(* lists with a keyset cursor, by a count, in the ranking.  The invariant    *)
(* says what that is worth of the pages on screen and of those a fetch has   *)
(* read (PagesHold): each keyset page is below the cursors before it, and    *)
(* undisturbed rows down to the last cursor are on some page, whatever came  *)
(* or went between two requests.                                             *)

(* a stands before b in a list of the kind, but in a ranking.                *)
Leads(kind, a, b) == IF kind = "oldest" THEN a < b ELSE a > b
Arranged(kind, rows) ==
  \A i, j \in DOMAIN rows : i < j =>
    IF kind = "ranked" THEN rows[i] # rows[j] ELSE Leads(kind, rows[i], rows[j])

(* A page, and the last of some.                                             *)
PageRead == [rows : Seq(1 .. Rows), next : Nat]
LastPage(ps) == ps[Len(ps)]
OnPages(ps, entry) == \E n \in DOMAIN ps : entry \in ToSet(ps[n].rows)

(* Pages by keyset: each is below the cursor of those before it, and all     *)
(* undisturbed rows down to the last cursor are on them.                     *)
KeysetPages(kind, ps, all, apart) ==
  /\ \A n \in DOMAIN ps :
       /\ Arranged(kind, ps[n].rows)
       /\ ps[n].next # NoCursor => ps[n].rows # <<>> /\ ps[n].next = ps[n].rows[Len(ps[n].rows)]
  /\ \A m, n \in DOMAIN ps : m < n =>
       /\ ps[m].next # NoCursor
       /\ \A j \in DOMAIN ps[n].rows : Leads(kind, ps[m].next, ps[n].rows[j])
  /\ ps # <<>> => \A entry \in ToSet(all) \ apart :
       LastPage(ps).next = NoCursor \/ ~ Leads(kind, LastPage(ps).next, entry) => OnPages(ps, entry)

(* A list without a cursor is one page. *)
CappedPages(kind, ps, all, apart) ==
  /\ Len(ps) <= 1
  /\ \A n \in DOMAIN ps :
       /\ Arranged(kind, ps[n].rows) /\ ps[n].next = NoCursor
       /\ \A entry \in ToSet(all) \ apart, below \in ToSet(ps[n].rows) :
            entry >= below => entry \in ToSet(ps[n].rows)

(* Pages by offset, of a ranking that did not change: a page is the rows     *)
(* from its offset on, and no page begins before another's end.              *)
RowsFrom(page, offset, all) ==
  /\ \A i \in DOMAIN page.rows :
       offset + i \in DOMAIN all /\ page.rows[i] = all[offset + i]
  /\ page.next # NoCursor =>
       offset <= page.next /\ \A i \in DOMAIN page.rows : offset + i <= page.next
RankedPages(ps, all) ==
  /\ \A n \in DOMAIN ps : \E offset \in Nat :
       /\ RowsFrom(ps[n], offset, all)
       /\ \A m \in DOMAIN ps : m < n => ps[m].next # NoCursor /\ ps[m].next <= offset
  /\ ps # <<>> => \A k \in DOMAIN all :
       LastPage(ps).next = NoCursor \/ k <= LastPage(ps).next => OnPages(ps, all[k])

PagesHold(kind, ps, all, apart) ==
  /\ ps \in Seq(PageRead)
  /\ kind \in {"newest", "oldest"} => KeysetPages(kind, ps, all, apart)
  /\ kind = "capped" => CappedPages(kind, ps, all, apart)
  /\ kind = "ranked" /\ apart = {} => RankedPages(ps, all)

PagingTypes ==
  /\ surface \in {"newest", "oldest", "ranked", "capped"}
  /\ order \in Seq(1 .. Rows) /\ Arranged(surface, order) /\ disturbed \subseteq 1 .. Rows
  /\ fetch \in [kind : {"none", "all", "next"}, pages : Seq(PageRead), wanted : Nat,
                disturbed : SUBSET (1 .. Rows)]

(* What is on screen holds of the rows undisturbed since its first page was  *)
(* read, and so does what a fetch has read so far.                           *)
PagingInv ==
  /\ PagingTypes
  /\ PagesHold(surface, pages, order, disturbed)
  /\ fetch.kind = "all" => PagesHold(surface, fetch.pages, order, fetch.disturbed)
  /\ fetch.kind = "next" => PagesHold(surface, fetch.pages, order, disturbed)

(* What stands in two sequences put together, in a part of one, with an      *)
(* element put in or taken out.                                              *)
LEMMA JoinedSet ==
  ASSUME NEW S, NEW a \in Seq(S), NEW b \in Seq(S)
  PROVE  a \o b \in Seq(S) /\ ToSet(a \o b) \subseteq ToSet(a) \cup ToSet(b)
<1> DEFINE d == a \o b
<1>1. JoinOf(S, a, b, d)
  BY Joined
<1> HIDE DEF d
<1>2. ASSUME NEW k \in DOMAIN d PROVE d[k] \in ToSet(a) \cup ToSet(b)
  <2>1. PICK n, m \in Nat : n = Len(a) /\ m = Len(b) /\ Len(d) = n + m /\ k \in 1 .. n + m
    BY <1>1 DEF JoinOf
  <2>2. CASE k <= n
    <3>1. k \in 1 .. Len(a) /\ k \in DOMAIN a
      BY <2>1, <2>2
    <3> QED
      BY <1>1, <3>1 DEF JoinOf, ToSet
  <2>3. CASE k > n
    <3>1. k - n \in 1 .. m /\ n + (k - n) = k
      BY <2>1, <2>3
    <3>2. PICK e \in 1 .. Len(b) : Len(a) + e = k
      BY <2>1, <3>1
    <3>3. e \in DOMAIN b /\ d[k] = b[e]
      BY <1>1, <3>2 DEF JoinOf
    <3> QED
      BY <3>3 DEF ToSet
  <2> QED
    BY <2>1, <2>2, <2>3
<1>3. d \in Seq(S)
  BY <1>1 DEF JoinOf
<1> QED
  BY <1>2, <1>3 DEF ToSet, d

LEMMA CutSet ==
  ASSUME NEW S, NEW s \in Seq(S), NEW a \in 1 .. Len(s) + 1, NEW z \in 0 .. Len(s), a <= z + 1
  PROVE  SubSeq(s, a, z) \in Seq(S) /\ ToSet(SubSeq(s, a, z)) \subseteq ToSet(s)
<1> DEFINE b == SubSeq(s, a, z)
<1>1. b \in Seq(S) /\ Len(b) = z - a + 1 /\ \A j \in 1 .. z - a + 1 : b[j] = s[a + j - 1]
  BY Cut
<1> HIDE DEF b
<1>2. ASSUME NEW j \in DOMAIN b PROVE b[j] \in ToSet(s)
  <2>1. j \in 1 .. z - a + 1
    BY <1>1
  <2>2. a + j - 1 \in DOMAIN s
    BY <2>1
  <2> QED
    BY <1>1, <2>1, <2>2 DEF ToSet
<1> QED
  BY <1>1, <1>2 DEF ToSet, b

LEMMA MembersOf ==
  ASSUME NEW S, NEW s \in Seq(S)
  PROVE  ToSet(s) \subseteq S
BY DEF ToSet

LEMMA ElementOf ==
  ASSUME NEW S, NEW s \in Seq(S), NEW i \in DOMAIN s
  PROVE  s[i] \in S
OBVIOUS

LEMMA RowOfSeq ==
  ASSUME NEW S, NEW m \in Nat, NEW s \in [1 .. m -> S]
  PROVE  s \in Seq(S)
OBVIOUS

LEMMA PutIn ==
  ASSUME NEW S, NEW s \in Seq(S), NEW i \in 1 .. Len(s) + 1, NEW x \in S
  PROVE  /\ InsertAt(s, i, x) \in Seq(S)
         /\ ToSet(InsertAt(s, i, x)) \subseteq ToSet(s) \cup {x}
<1> DEFINE b == SubSeq(s, 1, i - 1)
           c == SubSeq(s, i, Len(s))
<1>1. i - 1 \in 0 .. Len(s) /\ 1 <= i - 1 + 1 /\ i <= Len(s) + 1 /\ 1 \in 1 .. Len(s) + 1
  OBVIOUS
<1>2. b \in Seq(S) /\ ToSet(b) \subseteq ToSet(s)
  BY <1>1, CutSet
<1>3. c \in Seq(S) /\ ToSet(c) \subseteq ToSet(s)
  BY <1>1, CutSet
<1>4. InsertAt(s, i, x) = b \o <<x>> \o c
  BY DEF InsertAt
<1> HIDE DEF b, c
<1>5. <<x>> \in Seq(S) /\ ToSet(<<x>>) = {x}
  BY DEF ToSet
<1>6. b \o <<x>> \in Seq(S) /\ ToSet(b \o <<x>>) \subseteq ToSet(b) \cup ToSet(<<x>>)
  BY <1>2, <1>5, JoinedSet
<1>7. /\ (b \o <<x>>) \o c \in Seq(S)
      /\ ToSet((b \o <<x>>) \o c) \subseteq ToSet(b \o <<x>>) \cup ToSet(c)
  BY <1>3, <1>6, JoinedSet
<1> QED
  BY <1>2, <1>3, <1>4, <1>5, <1>6, <1>7

LEMMA TakenOut ==
  ASSUME NEW S, NEW s \in Seq(S), NEW i \in DOMAIN s
  PROVE  /\ RemoveAt(s, i) \in Seq(S) /\ ToSet(RemoveAt(s, i)) \subseteq ToSet(s)
         /\ \A j, k \in DOMAIN RemoveAt(s, i) : j < k =>
              \E p, q \in DOMAIN s :
                p < q /\ RemoveAt(s, i)[j] = s[p] /\ RemoveAt(s, i)[k] = s[q]
<1> DEFINE d == RemoveAt(s, i)
           spot(j) == IF j < i THEN j ELSE j + 1
<1>1. PICK n \in Nat : n = Len(s) /\ DOMAIN s = 1 .. n /\ i \in 1 .. n
  OBVIOUS
<1>2. /\ d \in Seq(S) /\ Len(d) = n - 1
      /\ \A j \in 1 .. i - 1 : d[j] = s[j]
      /\ \A j \in i .. n - 1 : d[j] = s[j + 1]
  BY <1>1, Gone
<1> HIDE DEF d
<1>3. DOMAIN d = 1 .. n - 1
  BY <1>1, <1>2
<1>4. ASSUME NEW j \in DOMAIN d PROVE spot(j) \in DOMAIN s /\ d[j] = s[spot(j)]
  <2>1. j \in 1 .. n - 1
    BY <1>3
  <2>2. CASE j < i
    BY <1>1, <1>2, <2>1, <2>2
  <2>3. CASE ~(j < i)
    BY <1>1, <1>2, <2>1, <2>3
  <2> QED
    BY <2>2, <2>3
<1>5. ASSUME NEW j \in DOMAIN d, NEW k \in DOMAIN d, j < k PROVE spot(j) < spot(k)
  BY <1>1, <1>3, <1>5
<1>6. ToSet(d) \subseteq ToSet(s)
  BY <1>4 DEF ToSet
<1> HIDE DEF spot
<1> QED
  BY <1>2, <1>4, <1>5, <1>6 DEF d

(* Nothing read yet. *)
LEMMA NoPages ==
  ASSUME NEW kind, NEW all, NEW apart
  PROVE  PagesHold(kind, <<>>, all, apart)
BY DEF PagesHold, KeysetPages, CappedPages, RankedPages

(* Rows come, go and move: what was read holds of the others.                *)
LEMMA PagesStand ==
  ASSUME NEW kind, NEW ps, NEW all, NEW apart, PagesHold(kind, ps, all, apart),
         NEW after, NEW hit, ToSet(after) \subseteq ToSet(all) \cup hit,
         kind = "ranked" => hit # {}
  PROVE  PagesHold(kind, ps, after, apart \cup hit)
<1>1. ASSUME NEW entry \in ToSet(after) \ (apart \cup hit) PROVE entry \in ToSet(all) \ apart
  OBVIOUS
<1>2. kind \in {"newest", "oldest"} => KeysetPages(kind, ps, after, apart \cup hit)
  BY <1>1 DEF PagesHold, KeysetPages
<1>3. kind = "capped" => CappedPages(kind, ps, after, apart \cup hit)
  BY <1>1 DEF PagesHold, CappedPages
<1>4. ~ (kind = "ranked" /\ apart \cup hit = {})
  OBVIOUS
<1> QED
  BY <1>2, <1>3, <1>4 DEF PagesHold

(* The query's order of the model is that of the kind.                       *)
LEMMA OrderOfTwo ==
  ASSUME NEW a, NEW b, surface \in {"newest", "oldest", "ranked", "capped"}
  PROVE  Precedes(a, b) <=> IF surface = "ranked" THEN a # b ELSE Leads(surface, a, b)
<1>1. CASE surface = "ranked"
  BY <1>1 DEF Precedes
<1>2. CASE surface = "oldest"
  BY <1>2 DEF Precedes, Leads
<1>3. CASE surface \notin {"ranked", "oldest"}
  BY <1>3 DEF Precedes, Leads
<1> QED
  BY <1>1, <1>2, <1>3

LEMMA OrderOfKind ==
  ASSUME NEW rows, surface \in {"newest", "oldest", "ranked", "capped"}
  PROVE  InListOrder(rows) <=> Arranged(surface, rows)
BY OrderOfTwo DEF InListOrder, Arranged

(* The rows of the page that is read. *)
LEMMA PageRows ==
  ASSUME order \in Seq(1 .. Rows), NEW passed \in Nat, PagingAssumption
  PROVE  /\ PageAfter(passed).rows \in Seq(1 .. Rows)
         /\ \A i \in DOMAIN PageAfter(passed).rows :
              /\ i \in 1 .. Limit /\ passed + i \in DOMAIN order
              /\ PageAfter(passed).rows[i] = order[passed + i]
         /\ \A i \in 1 .. Limit : passed + i \in DOMAIN order => i \in DOMAIN PageAfter(passed).rows
         /\ Len(PageAfter(passed).rows) < Limit =>
              \A k \in DOMAIN order : k > passed => k - passed \in DOMAIN PageAfter(passed).rows
         /\ PageAfter(passed).next = NextCursorOf(PageAfter(passed).rows, passed)
<1> DEFINE end == IF passed + Limit < Len(order) THEN passed + Limit ELSE Len(order)
           rows == SubSeq(order, passed + 1, end)
<1>1. PICK n, z \in Nat : /\ n = Len(order) /\ DOMAIN order = 1 .. n /\ z = end
                          /\ z <= n /\ z <= passed + Limit
                          /\ (z = n \/ z = passed + Limit)
  BY DEF PagingAssumption
<1>2. PageAfter(passed) = [rows |-> rows, next |-> NextCursorOf(rows, passed)]
  BY DEF PageAfter
<1>3. PageAfter(passed).rows = rows /\ PageAfter(passed).next = NextCursorOf(rows, passed)
  BY <1>2
<1>8. rows = SubSeq(order, passed + 1, z)
  BY <1>1
<1> HIDE DEF rows
<1>4. /\ rows \in Seq(1 .. Rows) /\ DOMAIN rows = 1 .. Len(rows)
      /\ \A i \in DOMAIN rows :
           i \in 1 .. Limit /\ passed + i \in DOMAIN order /\ rows[i] = order[passed + i]
      /\ Len(rows) = IF passed <= z THEN z - passed ELSE 0
  <2>1. CASE passed <= z
    <3>1. passed + 1 \in 1 .. n + 1 /\ z \in 0 .. n /\ passed + 1 <= z + 1
          /\ z - (passed + 1) + 1 = z - passed
      BY <1>1, <2>1
    <3>2. /\ rows \in Seq(1 .. Rows) /\ Len(rows) = z - (passed + 1) + 1
          /\ \A j \in 1 .. z - (passed + 1) + 1 : rows[j] = order[passed + 1 + j - 1]
      <4>1. passed + 1 \in 1 .. Len(order) + 1 /\ z \in 0 .. Len(order)
        BY <1>1, <3>1
      <4>2. /\ SubSeq(order, passed + 1, z) \in Seq(1 .. Rows)
            /\ Len(SubSeq(order, passed + 1, z)) = z - (passed + 1) + 1
            /\ \A j \in 1 .. z - (passed + 1) + 1 :
                 SubSeq(order, passed + 1, z)[j] = order[passed + 1 + j - 1]
        BY <3>1, <4>1, Cut
      <4> QED
        BY <1>8, <4>2
    <3>3. DOMAIN rows = 1 .. z - passed
      BY <2>1, <3>1, <3>2
    <3>4. ASSUME NEW j \in 1 .. z - passed
          PROVE  passed + 1 + j - 1 = passed + j /\ j \in 1 .. Limit /\ passed + j \in 1 .. n
      BY <1>1, <2>1 DEF PagingAssumption
    <3> QED
      BY <1>1, <2>1, <3>1, <3>2, <3>3, <3>4
  <2>2. CASE ~ (passed <= z)
    <3>1. rows = <<>>
      BY <1>1, <1>8, <2>2
    <3> QED
      BY <2>2, <3>1
  <2> QED
    BY <2>1, <2>2
<1>9. Len(rows) \in Nat
  BY <1>4
<1>5. PICK l \in Nat : l = Len(rows) /\ DOMAIN rows = 1 .. l
                   /\ l = IF passed <= z THEN z - passed ELSE 0
  BY <1>4, <1>9
<1>6. ASSUME NEW i \in 1 .. Limit, passed + i \in DOMAIN order PROVE i \in DOMAIN rows
  BY <1>1, <1>5, <1>6 DEF PagingAssumption
<1>7. ASSUME l < Limit, NEW k \in DOMAIN order, k > passed PROVE k - passed \in DOMAIN rows
  BY <1>1, <1>5, <1>7 DEF PagingAssumption
<1> QED
  BY <1>3, <1>4, <1>5, <1>6, <1>7

-----------------------------------------------------------------------------
(* A page is read *)

(* A page is put behind those read. *)
LEMMA PageAppended ==
  ASSUME NEW ps \in Seq(PageRead), NEW p \in PageRead
  PROVE  /\ Append(ps, p) \in Seq(PageRead) /\ Append(ps, p) # <<>>
         /\ Len(Append(ps, p)) = Len(ps) + 1 /\ Len(ps) + 1 \notin DOMAIN ps
         /\ DOMAIN Append(ps, p) = DOMAIN ps \cup {Len(ps) + 1}
         /\ \A n \in DOMAIN ps : Append(ps, p)[n] = ps[n] /\ n < Len(ps) + 1
         /\ Append(ps, p)[Len(ps) + 1] = p /\ LastPage(Append(ps, p)) = p
         /\ \A e : OnPages(ps, e) \/ e \in ToSet(p.rows) => OnPages(Append(ps, p), e)
<1> DEFINE q == Append(ps, p)
<1>1. /\ q \in Seq(PageRead) /\ q # <<>> /\ Len(q) = Len(ps) + 1
      /\ \A n \in DOMAIN ps : q[n] = ps[n] /\ n < Len(ps) + 1
      /\ q[Len(ps) + 1] = p /\ DOMAIN q = 1 .. Len(ps) + 1 /\ DOMAIN ps = 1 .. Len(ps)
      /\ Len(ps) \in Nat
  OBVIOUS
<1>2. DOMAIN q = DOMAIN ps \cup {Len(ps) + 1} /\ Len(ps) + 1 \notin DOMAIN ps
  BY <1>1
<1>3. LastPage(q) = p
  BY <1>1 DEF LastPage
<1> HIDE DEF q
<1>4. ASSUME NEW entry, OnPages(ps, entry) \/ entry \in ToSet(p.rows) PROVE OnPages(q, entry)
  BY <1>1, <1>2, <1>4 DEF OnPages
<1> QED
  BY <1>1, <1>2, <1>3, <1>4 DEF q

CursorOf(ps) == IF ps = <<>> THEN NoCursor ELSE LastPage(ps).next

(* What a page by keyset adds: rows after the cursor, as many as there are   *)
(* down to its own.                                                          *)
LEMMA KeysetPage ==
  ASSUME PagingAssumption, order \in Seq(1 .. Rows), surface \in {"newest", "oldest"},
         Arranged(surface, order), NEW mark \in Nat, NEW passed \in Passed(mark),
         NEW page, page = PageAfter(passed)
  PROVE  /\ page \in PageRead /\ Arranged(surface, page.rows)
         /\ page.next # NoCursor => page.rows # <<>> /\ page.next = page.rows[Len(page.rows)]
         /\ mark # NoCursor => \A j \in DOMAIN page.rows : Leads(surface, mark, page.rows[j])
         /\ \A entry \in ToSet(order) :
              page.next = NoCursor \/ ~ Leads(surface, page.next, entry) =>
              entry \in ToSet(page.rows) \/ (mark # NoCursor /\ ~ Leads(surface, mark, entry))
<1> DEFINE r == page.rows
<1>1. /\ passed \in Nat
      /\ \A i \in DOMAIN order :
           i <= passed <=> mark # NoCursor /\ ~ Leads(surface, mark, order[i])
  <2>1. CASE mark = NoCursor
    BY <2>1 DEF Passed
  <2>2. CASE mark # NoCursor
    <3>1. passed \in {k \in 0 .. Len(order) :
                        \A i \in DOMAIN order : i <= k <=> ~ After(order[i], mark)}
      BY <2>2 DEF Passed
    <3>2. \A i \in DOMAIN order : order[i] \in Nat
      OBVIOUS
    <3> QED
      BY <2>2, <3>1, <3>2 DEF After, Leads
  <2> QED
    BY <2>1, <2>2
<1>2. /\ r \in Seq(1 .. Rows)
      /\ \A i \in DOMAIN r :
           i \in 1 .. Limit /\ passed + i \in DOMAIN order /\ r[i] = order[passed + i]
      /\ \A i \in 1 .. Limit : passed + i \in DOMAIN order => i \in DOMAIN r
      /\ Len(r) < Limit => \A k \in DOMAIN order : k > passed => k - passed \in DOMAIN r
      /\ page.next = NextCursorOf(r, passed)
  BY <1>1, PageRows
<1> HIDE DEF r
<1>3. PICK l \in Nat : l = Len(r) /\ DOMAIN r = 1 .. l /\ (r = <<>> <=> l = 0)
  BY <1>2
<1>4. page.next = IF l < Limit THEN NoCursor ELSE r[l]
  BY <1>2, <1>3 DEF NextCursorOf, Last
<1>5. l >= Limit => l \in DOMAIN r /\ r # <<>> /\ r[l] \in Nat
  BY <1>2, <1>3 DEF PagingAssumption
<1>6. page \in PageRead
  <2>1. page = [rows |-> r, next |-> page.next]
    BY DEF PageAfter, r
  <2>2. page.next \in Nat
    BY <1>4, <1>5 DEF NoCursor
  <2> QED
    BY <1>2, <2>1, <2>2 DEF PageRead
<1>7. Arranged(surface, r)
  <2>1. ASSUME NEW i \in DOMAIN r, NEW j \in DOMAIN r, i < j
        PROVE  Leads(surface, r[i], r[j])
    <3>1. passed + i \in DOMAIN order /\ passed + j \in DOMAIN order /\ passed + i < passed + j
      BY <1>1, <1>2, <1>3, <2>1
    <3> QED
      BY <1>2, <3>1 DEF Arranged
  <2> QED
    BY <2>1 DEF Arranged
<1>8. ASSUME mark # NoCursor, NEW j \in DOMAIN r PROVE Leads(surface, mark, r[j])
  <2>1. passed + j \in DOMAIN order /\ r[j] = order[passed + j] /\ ~ (passed + j <= passed)
    BY <1>1, <1>2
  <2> QED
    BY <1>1, <1>8, <2>1
<1>9. ASSUME NEW k \in DOMAIN order,
             page.next = NoCursor \/ ~ Leads(surface, page.next, order[k])
      PROVE  order[k] \in ToSet(r) \/ (mark # NoCursor /\ ~ Leads(surface, mark, order[k]))
  <2>1. CASE k <= passed
    BY <1>1, <2>1
  <2>2. CASE ~ (k <= passed)
    <3>1. k - passed \in DOMAIN r => order[k] \in ToSet(r)
      <4>1. passed + (k - passed) = k
        BY <1>1
      <4> QED
        BY <1>2, <4>1 DEF ToSet
    <3>2. CASE l < Limit
      BY <1>1, <1>2, <1>3, <2>2, <3>1, <3>2
    <3>3. CASE ~ (l < Limit)
      <4>1. page.next = r[l] /\ l \in DOMAIN r /\ r[l] = order[passed + l] /\ r[l] # NoCursor
            /\ passed + l \in DOMAIN order
        <5>1. l >= Limit
          BY <1>3, <3>3 DEF PagingAssumption
        <5>2. l \in DOMAIN r /\ page.next = r[l]
          BY <1>4, <1>5, <3>3, <5>1
        <5> QED
          BY <1>2, <5>2 DEF NoCursor
      <4>2. ~ (passed + l < k)
        <5>1. ASSUME passed + l < k PROVE FALSE
          BY <1>9, <4>1, <5>1 DEF Arranged
        <5> QED
          BY <5>1
      <4>3. k - passed \in 1 .. l
        BY <1>1, <1>3, <2>2, <4>2
      <4> QED
        BY <1>3, <3>1, <4>3
    <3> QED
      BY <3>2, <3>3
  <2> QED
    BY <2>1, <2>2
<1>10. \A entry \in ToSet(order) : \E k \in DOMAIN order : entry = order[k]
  BY DEF ToSet
<1> QED
  BY <1>4, <1>5, <1>3, <1>6, <1>7, <1>8, <1>9, <1>10 DEF r

LEMMA KeysetReads ==
  ASSUME PagingAssumption, order \in Seq(1 .. Rows), surface \in {"newest", "oldest"},
         Arranged(surface, order), NEW ps \in Seq(PageRead), NEW apart,
         KeysetPages(surface, ps, order, apart), ps = <<>> \/ LastPage(ps).next # NoCursor,
         NEW passed \in Passed(CursorOf(ps))
  PROVE  /\ Append(ps, PageAfter(passed)) \in Seq(PageRead)
         /\ KeysetPages(surface, Append(ps, PageAfter(passed)), order, apart)
<1> DEFINE page == PageAfter(passed)
           q == Append(ps, page)
           n == Len(ps)
           mark == CursorOf(ps)
<1>1. n \in Nat /\ DOMAIN ps = 1 .. n /\ (ps # <<>> => n \in DOMAIN ps /\ mark = ps[n].next)
      /\ (ps = <<>> => n = 0 /\ mark = NoCursor)
  BY DEF CursorOf, LastPage
<1>2. ASSUME NEW m \in DOMAIN ps PROVE ps[m].next \in Nat /\ ps[m].rows \in Seq(1 .. Rows)
  <2>1. ps[m] \in PageRead
    OBVIOUS
  <2> QED
    BY <2>1 DEF PageRead
<1>3. mark \in Nat /\ (ps # <<>> => mark # NoCursor)
  BY <1>1, <1>2 DEF NoCursor, CursorOf
<1>4. /\ page \in PageRead /\ Arranged(surface, page.rows)
      /\ page.next # NoCursor => page.rows # <<>> /\ page.next = page.rows[Len(page.rows)]
      /\ mark # NoCursor => \A j \in DOMAIN page.rows : Leads(surface, mark, page.rows[j])
      /\ \A entry \in ToSet(order) : page.next = NoCursor \/ ~ Leads(surface, page.next, entry) =>
           entry \in ToSet(page.rows) \/ (mark # NoCursor /\ ~ Leads(surface, mark, entry))
  BY <1>3, KeysetPage
<1> HIDE DEF page, mark
<1>5. /\ q \in Seq(PageRead) /\ q # <<>> /\ n + 1 \notin DOMAIN ps
      /\ DOMAIN q = DOMAIN ps \cup {n + 1}
      /\ \A m \in DOMAIN ps : q[m] = ps[m] /\ m < n + 1
      /\ q[n + 1] = page /\ LastPage(q) = page
      /\ \A entry : OnPages(ps, entry) \/ entry \in ToSet(page.rows) => OnPages(q, entry)
  BY <1>4, PageAppended
<1> HIDE DEF q, n
<1>6. ASSUME NEW m \in DOMAIN q
      PROVE  /\ Arranged(surface, q[m].rows)
             /\ q[m].next # NoCursor =>
                  q[m].rows # <<>> /\ q[m].next = q[m].rows[Len(q[m].rows)]
  <2>1. CASE m \in DOMAIN ps
    BY <1>5, <2>1 DEF KeysetPages
  <2>2. CASE m = n + 1
    BY <1>4, <1>5, <2>2
  <2> QED
    BY <1>5, <2>1, <2>2
<1>7. ASSUME NEW m \in DOMAIN ps, NEW j \in DOMAIN page.rows
      PROVE  ps[m].next # NoCursor /\ Leads(surface, ps[m].next, page.rows[j])
  <2>0. ps # <<>> /\ n \in DOMAIN ps /\ mark = ps[n].next /\ mark # NoCursor
    BY <1>1, <1>3
  <2>1. Leads(surface, mark, page.rows[j])
    BY <1>4, <2>0
  <2>2. CASE m = n
    BY <2>0, <2>1, <2>2
  <2>3. CASE m < n
    <3>1. ps[m].next # NoCursor
      BY <2>0, <2>3 DEF KeysetPages
    <3>2. PICK k \in DOMAIN ps[n].rows : mark = ps[n].rows[k]
      <4>1. ps[n].rows # <<>> /\ mark = ps[n].rows[Len(ps[n].rows)]
        BY <2>0 DEF KeysetPages
      <4>2. Len(ps[n].rows) \in DOMAIN ps[n].rows
        BY <1>2, <2>0, <4>1
      <4> QED
        BY <4>1, <4>2
    <3>3. Leads(surface, ps[m].next, mark)
      BY <2>0, <2>3, <3>2 DEF KeysetPages
    <3>4. page.rows[j] \in Nat /\ ps[m].next \in Nat
      <4>1. page.rows \in Seq(1 .. Rows)
        BY <1>4 DEF PageRead
      <4>2. page.rows[j] \in 1 .. Rows
        BY <4>1
      <4> QED
        BY <1>2, <4>2
    <3> QED
      BY <1>3, <2>1, <3>1, <3>3, <3>4 DEF Leads
  <2> QED
    BY <1>1, <2>2, <2>3
<1>8. ASSUME NEW m \in DOMAIN ps PROVE ps[m].next # NoCursor
  <2>0. ps # <<>> /\ n \in DOMAIN ps /\ mark = ps[n].next /\ mark # NoCursor
    BY <1>1, <1>3
  <2>1. m = n \/ m < n
    BY <1>1
  <2> QED
    BY <2>0, <2>1 DEF KeysetPages
<1>9. ASSUME NEW m \in DOMAIN q, NEW k \in DOMAIN q, m < k
      PROVE  /\ q[m].next # NoCursor
             /\ \A j \in DOMAIN q[k].rows : Leads(surface, q[m].next, q[k].rows[j])
  <2>1. m \in DOMAIN ps
    BY <1>1, <1>5, <1>9
  <2>2. CASE k \in DOMAIN ps
    BY <1>5, <1>9, <2>1, <2>2 DEF KeysetPages
  <2>3. CASE k = n + 1
    BY <1>5, <1>7, <1>8, <2>1, <2>3
  <2> QED
    BY <1>5, <2>2, <2>3
<1>10. ASSUME NEW entry \in ToSet(order) \ apart,
              page.next = NoCursor \/ ~ Leads(surface, page.next, entry)
       PROVE  OnPages(q, entry)
  <2>1. CASE entry \in ToSet(page.rows)
    BY <1>5, <2>1
  <2>2. CASE mark # NoCursor /\ ~ Leads(surface, mark, entry)
    <3>1. ps # <<>> /\ mark = LastPage(ps).next
      BY <1>1, <2>2 DEF mark, CursorOf
    <3>2. OnPages(ps, entry)
      BY <2>2, <3>1 DEF KeysetPages
    <3> QED
      BY <1>5, <3>2
  <2> QED
    BY <1>4, <1>10, <2>1, <2>2
<1> QED
  BY <1>5, <1>6, <1>9, <1>10 DEF KeysetPages, q, page

LEMMA CappedReads ==
  ASSUME PagingAssumption, order \in Seq(1 .. Rows), surface = "capped",
         Arranged(surface, order), NEW ps \in Seq(PageRead), NEW apart,
         CappedPages(surface, ps, order, apart), ps = <<>> \/ LastPage(ps).next # NoCursor,
         NEW passed \in Passed(CursorOf(ps))
  PROVE  /\ Append(ps, PageAfter(passed)) \in Seq(PageRead)
         /\ CappedPages(surface, Append(ps, PageAfter(passed)), order, apart)
<1> DEFINE page == PageAfter(passed)
           r == page.rows
<1>1. ps = <<>>
  <2>1. ASSUME ps # <<>> PROVE LastPage(ps).next = NoCursor
    <3>1. Len(ps) \in DOMAIN ps
      BY <2>1
    <3> QED
      BY <3>1 DEF CappedPages, LastPage
  <2> QED
    BY <2>1
<1>2. passed = 0
  BY DEF Passed
<1>3. /\ r \in Seq(1 .. Rows)
      /\ \A i \in DOMAIN r : i \in 1 .. Limit /\ i \in DOMAIN order /\ r[i] = order[i]
      /\ \A i \in 1 .. Limit : i \in DOMAIN order => i \in DOMAIN r
      /\ page.next = NextCursorOf(r, passed)
  <2>1. passed \in Nat
    BY <1>2
  <2>2. /\ r \in Seq(1 .. Rows)
        /\ \A i \in DOMAIN r :
             i \in 1 .. Limit /\ passed + i \in DOMAIN order /\ r[i] = order[passed + i]
        /\ \A i \in 1 .. Limit : passed + i \in DOMAIN order => i \in DOMAIN r
        /\ page.next = NextCursorOf(r, passed)
    BY <2>1, PageRows
  <2>3. \A i \in 1 .. Limit : passed + i = i
    BY <1>2 DEF PagingAssumption
  <2> HIDE DEF page
  <2> QED
    BY <2>2, <2>3
<1>4. page.next = NoCursor
  BY <1>3 DEF NextCursorOf
<1>5. page \in PageRead
  <2>1. page = [rows |-> r, next |-> page.next]
    BY DEF PageAfter
  <2> QED
    BY <1>3, <1>4, <2>1 DEF PageRead, NoCursor
<1> HIDE DEF page
<1>6. Append(ps, page) = <<page>>
  BY <1>1
<1>7. Arranged(surface, r)
  BY <1>3 DEF Arranged
<1>8. ASSUME NEW entry \in ToSet(order) \ apart, NEW below \in ToSet(r), entry >= below
      PROVE  entry \in ToSet(r)
  <2>1. PICK k \in DOMAIN order : entry = order[k]
    BY DEF ToSet
  <2>2. PICK i \in DOMAIN r : below = r[i]
    BY DEF ToSet
  <2>3. i \in 1 .. Limit /\ i \in DOMAIN order /\ below = order[i] /\ below \in Nat /\ entry \in Nat
    <3>1. i \in 1 .. Limit /\ i \in DOMAIN order /\ below = order[i]
      BY <1>3, <2>2
    <3>2. order[i] \in 1 .. Rows /\ order[k] \in 1 .. Rows
      BY <2>1, <3>1
    <3> QED
      BY <2>1, <3>1, <3>2
  <2>4. ~ (i < k)
    <3>1. ASSUME i < k PROVE order[i] > order[k]
      BY <2>3, <3>1 DEF Arranged, Leads
    <3> QED
      BY <1>8, <2>1, <2>3, <3>1
  <2>5. k \in 1 .. Limit
    BY <2>1, <2>3, <2>4 DEF PagingAssumption
  <2>6. k \in DOMAIN r /\ r[k] = order[k]
    BY <1>3, <2>1, <2>5
  <2> QED
    BY <2>1, <2>6 DEF ToSet
<1>9. <<page>> \in Seq(PageRead) /\ Len(<<page>>) = 1 /\ DOMAIN <<page>> = {1} /\ <<page>>[1] = page
  BY <1>5
<1>10. CappedPages(surface, <<page>>, order, apart)
  BY <1>4, <1>7, <1>8, <1>9 DEF CappedPages
<1> QED
  BY <1>6, <1>9, <1>10 DEF page

LEMMA RankedReads ==
  ASSUME PagingAssumption, order \in Seq(1 .. Rows), surface = "ranked",
         NEW ps \in Seq(PageRead), RankedPages(ps, order),
         ps = <<>> \/ LastPage(ps).next # NoCursor, NEW passed \in Passed(CursorOf(ps))
  PROVE  /\ Append(ps, PageAfter(passed)) \in Seq(PageRead)
         /\ RankedPages(Append(ps, PageAfter(passed)), order)
<1> DEFINE page == PageAfter(passed)
           r == page.rows
           q == Append(ps, page)
           n == Len(ps)
<1>1. n \in Nat /\ DOMAIN ps = 1 .. n /\ (ps # <<>> => n \in DOMAIN ps)
  OBVIOUS
<1>2. ASSUME NEW m \in DOMAIN ps PROVE ps[m].next \in Nat /\ ps[m] \in PageRead
  <2>1. ps[m] \in PageRead
    OBVIOUS
  <2> QED
    BY <2>1 DEF PageRead
<1>3. passed \in Nat /\ (ps = <<>> => passed = 0) /\ (ps # <<>> => passed = ps[n].next)
  BY <1>1, <1>2 DEF Passed, CursorOf, LastPage, NoCursor
<1>4. /\ r \in Seq(1 .. Rows)
      /\ \A i \in DOMAIN r :
           i \in 1 .. Limit /\ passed + i \in DOMAIN order /\ r[i] = order[passed + i]
      /\ \A i \in 1 .. Limit : passed + i \in DOMAIN order => i \in DOMAIN r
      /\ Len(r) < Limit => \A k \in DOMAIN order : k > passed => k - passed \in DOMAIN r
      /\ page.next = NextCursorOf(r, passed)
  BY <1>3, PageRows
<1>5. page.next = IF Len(r) < Limit THEN NoCursor ELSE passed + Limit
  BY <1>4 DEF NextCursorOf, PagingAssumption
<1>6. page \in PageRead
  <2>1. page = [rows |-> r, next |-> page.next]
    BY DEF PageAfter
  <2>2. page.next \in Nat
    BY <1>3, <1>5 DEF NoCursor, PagingAssumption
  <2> QED
    BY <1>4, <2>1, <2>2 DEF PageRead
<1> HIDE DEF page
<1>7. /\ q \in Seq(PageRead) /\ q # <<>> /\ n + 1 \notin DOMAIN ps
      /\ DOMAIN q = DOMAIN ps \cup {n + 1}
      /\ \A m \in DOMAIN ps : q[m] = ps[m] /\ m < n + 1
      /\ q[n + 1] = page /\ LastPage(q) = page
      /\ \A entry : OnPages(ps, entry) \/ entry \in ToSet(page.rows) => OnPages(q, entry)
  BY <1>6, PageAppended
<1> HIDE DEF q, r, n
<1>8. RowsFrom(page, passed, order)
  BY <1>3, <1>4, <1>5 DEF RowsFrom, r, PagingAssumption
<1>9. ASSUME NEW m \in DOMAIN ps PROVE ps[m].next # NoCursor /\ ps[m].next <= passed
  <2>0. ps # <<>> /\ n \in DOMAIN ps /\ passed = ps[n].next /\ ps[n].next # NoCursor
    BY <1>1, <1>3 DEF LastPage, n
  <2>1. CASE m = n
    BY <1>2, <1>3, <2>0, <2>1
  <2>2. CASE m < n
    <3>1. PICK offset \in Nat :
            /\ RowsFrom(ps[n], offset, order)
            /\ \A k \in DOMAIN ps : k < n => ps[k].next # NoCursor /\ ps[k].next <= offset
      BY <2>0 DEF RankedPages
    <3>2. offset <= ps[n].next
      BY <2>0, <3>1 DEF RowsFrom
    <3>3. ps[m].next # NoCursor /\ ps[m].next <= offset
      BY <2>2, <3>1
    <3> QED
      BY <1>2, <1>3, <2>0, <3>2, <3>3
  <2> QED
    BY <1>1, <2>1, <2>2
<1>10. ASSUME NEW k \in DOMAIN q
       PROVE  \E offset \in Nat :
                /\ RowsFrom(q[k], offset, order)
                /\ \A m \in DOMAIN q : m < k => q[m].next # NoCursor /\ q[m].next <= offset
  <2>1. CASE k \in DOMAIN ps
    <3>1. PICK offset \in Nat :
            /\ RowsFrom(ps[k], offset, order)
            /\ \A m \in DOMAIN ps : m < k => ps[m].next # NoCursor /\ ps[m].next <= offset
      BY <2>1 DEF RankedPages
    <3>2. \A m \in DOMAIN q : m < k => m \in DOMAIN ps /\ q[m] = ps[m]
      BY <1>1, <1>7, <2>1
    <3> QED
      BY <1>7, <2>1, <3>1, <3>2
  <2>2. CASE k = n + 1
    <3>1. \A m \in DOMAIN q : m < k => m \in DOMAIN ps /\ q[m] = ps[m]
      BY <1>1, <1>7, <2>2
    <3> QED
      BY <1>3, <1>7, <1>8, <1>9, <2>2, <3>1
  <2> QED
    BY <1>7, <2>1, <2>2
<1>11. ASSUME NEW k \in DOMAIN order, page.next = NoCursor \/ k <= page.next
       PROVE  OnPages(q, order[k])
  <2>1. k \in Nat \ {0}
    OBVIOUS
  <2>2. CASE k <= passed
    <3>1. ps # <<>> /\ k <= LastPage(ps).next
      BY <1>3, <2>1, <2>2 DEF LastPage, n
    <3>2. OnPages(ps, order[k])
      BY <3>1 DEF RankedPages
    <3> QED
      BY <1>7, <3>2
  <2>3. CASE ~ (k <= passed)
    <3>1. k - passed \in DOMAIN r
      <4>1. CASE Len(r) < Limit
        BY <1>3, <1>4, <2>1, <2>3, <4>1
      <4>2. CASE ~ (Len(r) < Limit)
        <5>0. page.next = passed + Limit
          BY <1>5, <4>2
        <5>1. k <= passed + Limit
          <6>1. Limit \in Nat \ {0} /\ passed + Limit # 0 /\ passed \in Nat
            BY <1>3, PagingAssumption DEF PagingAssumption
          <6>2. page.next # NoCursor
            BY <5>0, <6>1 DEF NoCursor
          <6> QED
            BY <1>11, <5>0, <6>2
        <5>2. k - passed \in 1 .. Limit /\ passed + (k - passed) = k
          <6>1. Limit \in Nat /\ passed \in Nat /\ k \in Nat /\ k > passed
            <7>1. Limit \in Nat
              BY PagingAssumption DEF PagingAssumption
            <7>2. passed \in Nat
              BY <1>3
            <7> QED
              BY <2>1, <2>3, <7>1, <7>2
          <6> QED
            BY <5>1, <6>1
        <5> QED
          BY <1>4, <5>2
      <4> QED
        BY <4>1, <4>2
    <3>2. passed + (k - passed) = k
      BY <1>3, <2>1
    <3>3. order[k] \in ToSet(page.rows)
      BY <1>4, <3>1, <3>2 DEF ToSet, r
    <3> QED
      BY <1>7, <3>3
  <2> QED
    BY <2>2, <2>3
<1>12. RankedPages(q, order)
  BY <1>7, <1>10, <1>11 DEF RankedPages
<1> QED
  BY <1>7, <1>12 DEF q, page

LEMMA PageReads ==
  ASSUME PagingAssumption, PagingTypes, NEW ps, NEW apart, PagesHold(surface, ps, order, apart),
         ps = <<>> \/ LastPage(ps).next # NoCursor, NEW passed \in Passed(CursorOf(ps))
  PROVE  PagesHold(surface, Append(ps, PageAfter(passed)), order, apart)
<1>1. /\ ps \in Seq(PageRead) /\ order \in Seq(1 .. Rows) /\ Arranged(surface, order)
      /\ surface \in {"newest", "oldest", "ranked", "capped"}
  BY DEF PagesHold, PagingTypes
<1>2. CASE surface \in {"newest", "oldest"}
  <2>1. KeysetPages(surface, ps, order, apart)
    BY <1>2 DEF PagesHold
  <2>2. /\ Append(ps, PageAfter(passed)) \in Seq(PageRead)
        /\ KeysetPages(surface, Append(ps, PageAfter(passed)), order, apart)
    BY <1>1, <1>2, <2>1, KeysetReads
  <2> QED
    BY <1>2, <2>2 DEF PagesHold
<1>3. CASE surface = "capped"
  <2>1. CappedPages(surface, ps, order, apart)
    BY <1>3 DEF PagesHold
  <2>2. /\ Append(ps, PageAfter(passed)) \in Seq(PageRead)
        /\ CappedPages(surface, Append(ps, PageAfter(passed)), order, apart)
    BY <1>1, <1>3, <2>1, CappedReads
  <2> QED
    BY <1>3, <2>2 DEF PagesHold
<1>4. CASE surface = "ranked"
  <2>1. CASE apart = {}
    <3>1. RankedPages(ps, order)
      BY <1>4, <2>1 DEF PagesHold
    <3>2. /\ Append(ps, PageAfter(passed)) \in Seq(PageRead)
          /\ RankedPages(Append(ps, PageAfter(passed)), order)
      BY <1>1, <1>4, <3>1, RankedReads
    <3> QED
      BY <1>4, <3>2 DEF PagesHold
  <2>2. CASE apart # {}
    <3>1. Append(ps, PageAfter(passed)) \in Seq(PageRead)
      <4>1. passed \in Nat
        <5>1. CASE ps = <<>>
          BY <1>4, <5>1 DEF Passed, CursorOf
        <5>2. CASE ps # <<>>
          <6>1. Len(ps) \in DOMAIN ps
            BY <1>1, <5>2
          <6>2. LastPage(ps) \in PageRead
            BY <1>1, <6>1 DEF LastPage
          <6>3. LastPage(ps).next \in Nat
            BY <6>2 DEF PageRead
          <6> QED
            BY <1>4, <5>2, <6>3 DEF Passed, CursorOf
        <5> QED
          BY <5>1, <5>2
      <4> DEFINE page == PageAfter(passed)
      <4>2. page.rows \in Seq(1 .. Rows) /\ page.next = NextCursorOf(page.rows, passed)
        BY <1>1, <4>1, PageRows
      <4>3. page.next \in Nat
        BY <1>4, <4>1, <4>2 DEF NextCursorOf, NoCursor, PagingAssumption
      <4>4. page = [rows |-> page.rows, next |-> page.next]
        BY DEF PageAfter
      <4> HIDE DEF page
      <4>5. page \in PageRead
        BY <4>2, <4>3, <4>4 DEF PageRead
      <4>6. Append(ps, page) \in Seq(PageRead)
        BY <1>1, <4>5
      <4> QED
        BY <4>6 DEF page
    <3> QED
      BY <1>4, <2>2, <3>1 DEF PagesHold
  <2> QED
    BY <2>1, <2>2
<1> QED
  BY <1>1, <1>2, <1>3, <1>4

-----------------------------------------------------------------------------
(* Steps of a list *)

(* A list in its order, with a row put in or one taken out.                  *)
LEMMA RowIn ==
  ASSUME PagingTypes, NEW rows \in Seq(1 .. Rows), NEW entry \in 1 .. Rows,
         NEW after \in WithRow(rows, entry)
  PROVE  /\ after \in Seq(1 .. Rows) /\ Arranged(surface, after)
         /\ ToSet(after) \subseteq ToSet(rows) \cup {entry}
<1>1. PICK i \in 1 .. Len(rows) + 1 : after = InsertAt(rows, i, entry)
  BY DEF WithRow
<1>2. InListOrder(after)
  BY DEF WithRow
<1>3. Arranged(surface, after)
  BY <1>2, OrderOfKind DEF PagingTypes
<1> QED
  BY <1>1, <1>3, PutIn

LEMMA RowOut ==
  ASSUME PagingTypes, NEW i \in DOMAIN order
  PROVE  /\ RemoveAt(order, i) \in Seq(1 .. Rows) /\ Arranged(surface, RemoveAt(order, i))
         /\ ToSet(RemoveAt(order, i)) \subseteq ToSet(order) /\ order[i] \in 1 .. Rows
<1>1. order \in Seq(1 .. Rows) /\ Arranged(surface, order)
  BY DEF PagingTypes
<1> DEFINE d == RemoveAt(order, i)
<1>2. /\ d \in Seq(1 .. Rows) /\ ToSet(d) \subseteq ToSet(order)
      /\ \A j, k \in DOMAIN d : j < k =>
           \E p, q \in DOMAIN order : p < q /\ d[j] = order[p] /\ d[k] = order[q]
  BY <1>1, TakenOut
<1> HIDE DEF d
<1>3. Arranged(surface, d)
  BY <1>1, <1>2 DEF Arranged
<1>4. order[i] \in 1 .. Rows
  BY <1>1, ElementOf
<1> QED
  BY <1>2, <1>3, <1>4 DEF d

(* Rows that come, go and move are disturbed, for the screen and for what a  *)
(* refetch has read.                                                         *)
LEMMA DisturbKeeps ==
  ASSUME PagingInv, NEW entry \in 1 .. Rows, Disturb(entry),
         order' \in Seq(1 .. Rows), Arranged(surface, order'),
         ToSet(order') \subseteq ToSet(order) \cup {entry} \/ surface = "ranked"
  PROVE  PagingInv'
<1> DEFINE hit == IF surface = "ranked" THEN 1 .. Rows ELSE {entry}
<1>1. /\ disturbed' = disturbed \cup hit /\ surface' = surface /\ pages' = pages
      /\ fetch' = IF fetch.kind = "all" /\ fetch.pages # <<>>
                  THEN [fetch EXCEPT !.disturbed = @ \cup hit] ELSE fetch
  BY DEF Disturb
<1>2. hit \subseteq 1 .. Rows /\ hit # {}
  OBVIOUS
<1>3. ToSet(order') \subseteq ToSet(order) \cup hit
  <2>1. ToSet(order') \subseteq 1 .. Rows
    BY MembersOf
  <2> QED
    BY <2>1
<1> HIDE DEF hit
<1>4. /\ fetch \in [kind : {"none", "all", "next"}, pages : Seq(PageRead), wanted : Nat,
                    disturbed : SUBSET (1 .. Rows)]
      /\ surface \in {"newest", "oldest", "ranked", "capped"} /\ disturbed \subseteq 1 .. Rows
  BY DEF PagingInv, PagingTypes
<1>5. /\ fetch'.kind = fetch.kind /\ fetch'.pages = fetch.pages
      /\ fetch'.disturbed = IF fetch.kind = "all" /\ fetch.pages # <<>>
                            THEN fetch.disturbed \cup hit ELSE fetch.disturbed
      /\ fetch' \in [kind : {"none", "all", "next"}, pages : Seq(PageRead), wanted : Nat,
                     disturbed : SUBSET (1 .. Rows)]
  BY <1>1, <1>2, <1>4
<1>6. PagesHold(surface, pages, order', disturbed \cup hit)
  BY <1>2, <1>3, PagesStand DEF PagingInv
<1>7. ASSUME fetch.kind = "next"
      PROVE  PagesHold(surface, fetch.pages, order', disturbed \cup hit)
  BY <1>2, <1>3, <1>7, PagesStand DEF PagingInv
<1>8. ASSUME fetch.kind = "all"
      PROVE  PagesHold(surface, fetch.pages, order', fetch'.disturbed)
  <2>1. CASE fetch.pages = <<>>
    BY <2>1, NoPages
  <2>2. CASE fetch.pages # <<>>
    <3>1. PagesHold(surface, fetch.pages, order', fetch.disturbed \cup hit)
      BY <1>2, <1>3, <1>8, PagesStand DEF PagingInv
    <3> QED
      BY <1>5, <1>8, <2>2, <3>1
  <2> QED
    BY <2>1, <2>2
<1>9. PagingTypes'
  BY <1>1, <1>2, <1>4, <1>5 DEF PagingTypes
<1> QED
  BY <1>1, <1>5, <1>6, <1>7, <1>8, <1>9 DEF PagingInv

LEMMA PagingInitial == PagingInit /\ PagingAssumption => PagingInv
<1> SUFFICES ASSUME PagingInit, PagingAssumption PROVE PagingInv
  OBVIOUS
<1>1. surface \in {"newest", "oldest", "ranked", "capped"}
  BY DEF PagingInit, AllLists, MobileFeed, MobileReels, MobileExplorePosts, MobileProfilePosts,
         MobileTrades, MobileNotifications, MobileComments, MobileMarkets, MobileFollows, WebFeed,
         WebReels, WebExplorePosts, WebProfilePosts, WebTrades, WebNotifications, WebComments,
         WebMarkets, WebFollows
<1>2. order \in Seq(1 .. Rows) /\ Arranged(surface, order)
  <2>1. order \in Seq(1 .. Rows)
    <3>1. PICK m \in 0 .. Rows : order \in [1 .. m -> 1 .. Rows]
      BY DEF PagingInit, BoundedSeq, SeqOf
    <3>2. m \in Nat
      BY PagingAssumption
    <3> QED
      BY <3>1, <3>2, RowOfSeq
  <2> QED
    BY <1>1, <2>1, OrderOfKind DEF PagingInit
<1>3. fetch = Idle /\ pages = <<>> /\ disturbed = {}
  BY DEF PagingInit
<1>4. fetch \in [kind : {"none", "all", "next"}, pages : Seq(PageRead), wanted : Nat,
                 disturbed : SUBSET (1 .. Rows)] /\ fetch.kind = "none"
  BY <1>3 DEF Idle
<1>5. PagesHold(surface, pages, order, disturbed)
  BY <1>3, NoPages
<1> QED
  BY <1>1, <1>2, <1>3, <1>4, <1>5 DEF PagingInv, PagingTypes

(* A fetch begins, ends or fails, or there is none.                          *)
Fetching == [kind : {"none", "all", "next"}, pages : Seq(PageRead), wanted : Nat,
             disturbed : SUBSET (1 .. Rows)]

LEMMA FetchChanges ==
  ASSUME PagingInv, UNCHANGED <<surface, order>>, fetch' \in Fetching,
         disturbed' \subseteq 1 .. Rows, PagesHold(surface, pages', order, disturbed'),
         fetch'.kind = "all" => PagesHold(surface, fetch'.pages, order, fetch'.disturbed),
         fetch'.kind = "next" => PagesHold(surface, fetch'.pages, order, disturbed')
  PROVE  PagingInv'
<1>1. PagingTypes'
  BY DEF PagingInv, PagingTypes, Fetching
<1> QED
  BY <1>1 DEF PagingInv

LEMMA IdleFetch == Idle \in Fetching /\ Idle.kind = "none"
BY DEF Idle, Fetching

LEMMA PagingStep ==
  ASSUME PagingInv, [PagingNext]_pagingVars
  PROVE  PagingInv'
<1>0. /\ PagingTypes /\ fetch \in Fetching /\ disturbed \subseteq 1 .. Rows
      /\ pages \in Seq(PageRead) /\ PagesHold(surface, pages, order, disturbed)
      /\ order \in Seq(1 .. Rows)
      /\ fetch.kind = "all" => PagesHold(surface, fetch.pages, order, fetch.disturbed)
      /\ fetch.kind = "next" => PagesHold(surface, fetch.pages, order, disturbed)
  BY DEF PagingInv, PagingTypes, Fetching, PagesHold
<1>1. CASE UNCHANGED pagingVars
  <2>1. UNCHANGED <<surface, order, pages, fetch, disturbed>>
    BY <1>1 DEF pagingVars
  <2> QED
    BY <1>0, <2>1, FetchChanges
<1>2. ASSUME NEW entry \in 1 .. Rows, RowAdded(entry) PROVE PagingInv'
  <2>1. order' \in WithRow(order, entry) /\ Disturb(entry)
    BY <1>2 DEF RowAdded
  <2>2. /\ order' \in Seq(1 .. Rows) /\ Arranged(surface, order')
        /\ ToSet(order') \subseteq ToSet(order) \cup {entry}
    BY <1>0, <2>1, RowIn
  <2> QED
    BY <2>1, <2>2, DisturbKeeps
<1>3. ASSUME NEW i \in DOMAIN order, RowRemoved(i) PROVE PagingInv'
  <2>1. order' = RemoveAt(order, i) /\ Disturb(order[i])
    BY <1>3 DEF RowRemoved
  <2>2. /\ order' \in Seq(1 .. Rows) /\ Arranged(surface, order')
        /\ ToSet(order') \subseteq ToSet(order) /\ order[i] \in 1 .. Rows
    BY <1>0, <2>1, RowOut
  <2> QED
    BY <2>1, <2>2, DisturbKeeps
<1>4. ASSUME NEW i \in DOMAIN order, RowMoved(i) PROVE PagingInv'
  <2>1. surface = "ranked" /\ order' \in WithRow(RemoveAt(order, i), order[i]) /\ Disturb(order[i])
    BY <1>4 DEF RowMoved
  <2>2. RemoveAt(order, i) \in Seq(1 .. Rows) /\ order[i] \in 1 .. Rows
    BY <1>0, RowOut
  <2>3. order' \in Seq(1 .. Rows) /\ Arranged(surface, order')
    BY <1>0, <2>1, <2>2, RowIn
  <2> QED
    BY <2>1, <2>2, <2>3, DisturbKeeps
<1>5. CASE FetchNextPage
  <2>1. /\ fetch' = [kind |-> "next", pages |-> pages, wanted |-> Len(pages) + 1, disturbed |-> {}]
        /\ UNCHANGED <<surface, order, pages, disturbed>>
    BY <1>5 DEF FetchNextPage
  <2>2. Len(pages) + 1 \in Nat
    BY <1>0
  <2>3. fetch' \in Fetching /\ fetch'.kind = "next" /\ fetch'.pages = pages
    BY <1>0, <2>1, <2>2 DEF Fetching
  <2> QED
    BY <1>0, <2>1, <2>3, FetchChanges
<1>6. CASE Refetch
  <2>1. /\ fetch' = [kind |-> "all", pages |-> <<>>, disturbed |-> {},
                     wanted |-> IF pages = <<>> THEN 1 ELSE Len(pages)]
        /\ UNCHANGED <<surface, order, pages, disturbed>>
    BY <1>6 DEF Refetch
  <2>2. (IF pages = <<>> THEN 1 ELSE Len(pages)) \in Nat
    BY <1>0
  <2>3. fetch' \in Fetching /\ fetch'.kind = "all" /\ fetch'.pages = <<>>
    BY <2>1, <2>2 DEF Fetching
  <2>4. PagesHold(surface, fetch'.pages, order, fetch'.disturbed)
    BY <2>3, NoPages
  <2> QED
    BY <1>0, <2>1, <2>3, <2>4, FetchChanges
<1>7. CASE ReadPage
  <2>1. /\ fetch.kind # "none" /\ ~ Complete /\ UNCHANGED <<surface, order, pages, disturbed>>
    BY <1>7 DEF ReadPage
  <2>2. fetch.pages = <<>> \/ LastPage(fetch.pages).next # NoCursor
    BY <2>1 DEF Complete, LastPage, Last
  <2>3. PICK passed \in Passed(CursorOf(fetch.pages)) :
          fetch' = [fetch EXCEPT !.pages = Append(fetch.pages, PageAfter(passed))]
    BY <1>7 DEF ReadPage, CursorOf, LastPage, Last
  <2>4. PICK got : got = Append(fetch.pages, PageAfter(passed))
    OBVIOUS
  <2>5. /\ fetch.kind = "all" => PagesHold(surface, got, order, fetch.disturbed)
        /\ fetch.kind = "next" => PagesHold(surface, got, order, disturbed)
    BY <1>0, <2>2, <2>4, PageReads, PagingAssumption
  <2>6. fetch.kind \in {"all", "next"}
    BY <1>0, <2>1 DEF Fetching
  <2>7. got \in Seq(PageRead)
    BY <2>5, <2>6 DEF PagesHold
  <2>8. /\ fetch' \in Fetching /\ fetch'.kind = fetch.kind /\ fetch'.pages = got
        /\ fetch'.disturbed = fetch.disturbed
    BY <1>0, <2>3, <2>4, <2>7 DEF Fetching
  <2> QED
    BY <1>0, <2>1, <2>5, <2>8, FetchChanges
<1>8. CASE FetchEnds
  <2>1. /\ fetch.kind # "none" /\ pages' = fetch.pages /\ fetch' = Idle
        /\ disturbed' = IF fetch.kind = "all" THEN fetch.disturbed ELSE disturbed
        /\ UNCHANGED <<surface, order>>
    BY <1>8 DEF FetchEnds
  <2>2. fetch.kind \in {"all", "next"} /\ fetch.disturbed \subseteq 1 .. Rows
    BY <1>0, <2>1 DEF Fetching
  <2>3. PagesHold(surface, pages', order, disturbed')
    BY <1>0, <2>1, <2>2
  <2> QED
    BY <1>0, <2>1, <2>2, <2>3, IdleFetch, FetchChanges
<1>9. CASE FetchFails
  <2>1. fetch' = Idle /\ UNCHANGED <<surface, order, pages, disturbed>>
    BY <1>9 DEF FetchFails
  <2> QED
    BY <1>0, <2>1, IdleFetch, FetchChanges
<1> QED
  BY <1>1, <1>2, <1>3, <1>4, <1>5, <1>6, <1>7, <1>8, <1>9 DEF PagingNext

-----------------------------------------------------------------------------
(* What is shown *)

(* Of two rows of a list the one above leads; rows below are led by it.      *)
LEMMA UpToLast ==
  ASSUME NEW kind \in {"newest", "oldest", "capped"}, NEW rows \in Seq(1 .. Rows),
         Arranged(kind, rows), NEW i \in DOMAIN rows, NEW j \in DOMAIN rows, i <= j
  PROVE  rows[i] = rows[j] \/ Leads(kind, rows[i], rows[j])
<1>1. CASE i < j
  BY <1>1 DEF Arranged
<1>2. CASE ~ (i < j)
  <2>1. i \in Nat /\ j \in Nat
    OBVIOUS
  <2>2. i = j
    BY <1>2, <2>1
  <2> QED
    BY <2>2
<1> QED
  BY <1>1, <1>2

LEMMA LeadsOn ==
  ASSUME NEW kind, NEW a \in Nat, NEW b \in Nat, NEW c \in Nat,
         a = b \/ Leads(kind, a, b), Leads(kind, b, c)
  PROVE  Leads(kind, a, c)
BY DEF Leads

LEMMA LeadsBack ==
  ASSUME NEW kind, NEW a \in Nat, NEW b \in Nat, a = b \/ Leads(kind, a, b)
  PROVE  ~ Leads(kind, b, a)
BY DEF Leads

(* What stands on the page a place is on. *)
LEMMA OnAPage ==
  ASSUME NEW ps \in Seq(PageRead), NEW n \in DOMAIN ps
  PROVE  /\ ps[n] \in PageRead /\ ps[n].rows \in Seq(1 .. Rows) /\ ps[n].next \in Nat
         /\ n \in 1 .. Len(ps) /\ Len(ps) \in DOMAIN ps /\ Len(ps) \in Nat
         /\ LastPage(ps) = ps[Len(ps)]
<1>1. ps[n] \in PageRead
  BY ElementOf
<1> QED
  BY <1>1 DEF PageRead, LastPage

LEMMA RowOnPage ==
  ASSUME NEW rows \in Seq(1 .. Rows), NEW i \in DOMAIN rows
  PROVE  /\ rows[i] \in Nat /\ rows[i] \in ToSet(rows)
         /\ i \in 1 .. Len(rows) /\ Len(rows) \in DOMAIN rows
<1>1. rows[i] \in 1 .. Rows
  BY ElementOf
<1>2. rows[i] \in Nat
  BY <1>1
<1> QED
  BY <1>2 DEF ToSet

(* A keyset list: pages in the order, and the rows there are on them.        *)
LEMMA KeysetOrder ==
  ASSUME NEW kind \in {"newest", "oldest"}, NEW ps \in Seq(PageRead), NEW all, NEW apart,
         KeysetPages(kind, ps, all, apart), NEW m \in DOMAIN ps, NEW n \in DOMAIN ps,
         NEW i \in DOMAIN ps[m].rows, NEW j \in DOMAIN ps[n].rows, m < n \/ (m = n /\ i < j)
  PROVE  Leads(kind, ps[m].rows[i], ps[n].rows[j])
<1>1. CASE m = n /\ i < j
  BY <1>1 DEF KeysetPages, Arranged
<1>2. CASE m < n
  <2>1. ps[m].rows \in Seq(1 .. Rows) /\ ps[n].rows \in Seq(1 .. Rows)
    BY OnAPage
  <2>2. /\ ps[m].next # NoCursor /\ Leads(kind, ps[m].next, ps[n].rows[j])
        /\ Arranged(kind, ps[m].rows) /\ ps[m].next = ps[m].rows[Len(ps[m].rows)]
    BY <1>2 DEF KeysetPages
  <2>3. /\ i \in 1 .. Len(ps[m].rows) /\ Len(ps[m].rows) \in DOMAIN ps[m].rows
        /\ ps[m].rows[i] \in Nat /\ ps[n].rows[j] \in Nat
    BY <2>1, RowOnPage
  <2>4. ps[m].rows[Len(ps[m].rows)] \in Nat
    BY <2>1, <2>3, RowOnPage
  <2>5. i <= Len(ps[m].rows)
    BY <2>3
  <2>6. ps[m].rows[i] = ps[m].next \/ Leads(kind, ps[m].rows[i], ps[m].next)
    BY <2>1, <2>2, <2>3, <2>5, UpToLast
  <2> QED
    BY <2>2, <2>3, <2>4, <2>6, LeadsOn
<1> QED
  BY <1>1, <1>2

LEMMA KeysetDue ==
  ASSUME NEW kind \in {"newest", "oldest"}, NEW ps \in Seq(PageRead), NEW all \in Seq(1 .. Rows),
         Arranged(kind, all), NEW apart, KeysetPages(kind, ps, all, apart), ps # <<>>,
         NEW i \in DOMAIN all, all[i] \notin apart,
         \/ LastPage(ps).next = NoCursor
         \/ \E j \in DOMAIN all : i <= j /\ OnPages(ps, all[j])
  PROVE  OnPages(ps, all[i])
<1>1. all[i] \in ToSet(all) \ apart /\ all[i] \in Nat
  BY RowOnPage
<1>2. CASE LastPage(ps).next = NoCursor
  BY <1>1, <1>2 DEF KeysetPages
<1>3. ASSUME NEW j \in DOMAIN all, i <= j, OnPages(ps, all[j]), LastPage(ps).next # NoCursor
      PROVE  OnPages(ps, all[i])
  <2>1. PICK n \in DOMAIN ps : all[j] \in ToSet(ps[n].rows)
    BY <1>3 DEF OnPages
  <2>2. PICK k \in DOMAIN ps[n].rows : all[j] = ps[n].rows[k]
    BY <2>1 DEF ToSet
  <2>3. PICK z \in DOMAIN ps : /\ z = Len(ps) /\ n <= z /\ LastPage(ps) = ps[z]
                               /\ ps[z].rows \in Seq(1 .. Rows)
    <3>1. n \in 1 .. Len(ps) /\ Len(ps) \in DOMAIN ps /\ LastPage(ps) = ps[Len(ps)]
      BY OnAPage
    <3>2. n <= Len(ps)
      BY <3>1
    <3> QED
      BY <3>1, <3>2, OnAPage
  <2>4. ps[z].next # NoCursor /\ ps[z].rows # <<>> /\ ps[z].next = ps[z].rows[Len(ps[z].rows)]
    BY <1>3, <2>3 DEF KeysetPages
  <2>5. PICK last \in DOMAIN ps[z].rows : last = Len(ps[z].rows) /\ ps[z].rows[last] \in Nat
    <3>1. Len(ps[z].rows) \in DOMAIN ps[z].rows
      BY <2>3, <2>4
    <3> QED
      BY <2>3, <3>1, RowOnPage
  <2>6. all[j] = ps[z].next \/ Leads(kind, all[j], ps[z].next)
    <3>1. CASE n = z
      <4>1. k \in 1 .. Len(ps[z].rows)
        BY <2>3, <3>1, RowOnPage
      <4>2. k <= last
        BY <2>5, <4>1
      <4>3. Arranged(kind, ps[z].rows)
        BY DEF KeysetPages
      <4> QED
        BY <2>2, <2>3, <2>4, <2>5, <3>1, <4>2, <4>3, UpToLast
    <3>2. CASE n # z
      <4>1. n \in Nat /\ z \in Nat
        OBVIOUS
      <4>2. n < z
        BY <2>3, <3>2, <4>1
      <4> QED
        BY <2>2, <2>4, <2>5, <4>2, KeysetOrder
    <3> QED
      BY <3>1, <3>2
  <2>7. all[i] = all[j] \/ Leads(kind, all[i], all[j])
    BY <1>3, UpToLast
  <2>8. all[j] \in Nat /\ ps[z].next \in Nat
    BY <2>4, <2>5, RowOnPage
  <2>9. all[i] = ps[z].next \/ Leads(kind, all[i], ps[z].next)
    BY <1>1, <2>6, <2>7, <2>8, LeadsOn
  <2>10. ~ Leads(kind, LastPage(ps).next, all[i])
    BY <1>1, <2>3, <2>8, <2>9, LeadsBack
  <2> QED
    BY <1>1, <2>10 DEF KeysetPages
<1> QED
  BY <1>2, <1>3

(* A list of one page. *)
LEMMA CappedOrder ==
  ASSUME NEW ps \in Seq(PageRead), NEW all, NEW apart, CappedPages("capped", ps, all, apart),
         NEW m \in DOMAIN ps, NEW n \in DOMAIN ps,
         NEW i \in DOMAIN ps[m].rows, NEW j \in DOMAIN ps[n].rows, m < n \/ (m = n /\ i < j)
  PROVE  Leads("capped", ps[m].rows[i], ps[n].rows[j])
<1>1. m \in 1 .. Len(ps) /\ n \in 1 .. Len(ps) /\ Len(ps) <= 1 /\ Len(ps) \in Nat
  BY OnAPage DEF CappedPages
<1>2. m = n /\ i < j
  BY <1>1
<1> QED
  BY <1>2 DEF CappedPages, Arranged

LEMMA CappedDue ==
  ASSUME NEW ps \in Seq(PageRead), NEW all \in Seq(1 .. Rows), Arranged("capped", all), NEW apart,
         CappedPages("capped", ps, all, apart), NEW i \in DOMAIN all, all[i] \notin apart,
         NEW j \in DOMAIN all, i <= j, OnPages(ps, all[j])
  PROVE  OnPages(ps, all[i])
<1>1. all[i] \in ToSet(all) \ apart /\ all[i] \in Nat /\ all[j] \in Nat
  BY RowOnPage
<1>2. all[i] = all[j] \/ Leads("capped", all[i], all[j])
  BY UpToLast
<1>3. all[i] >= all[j]
  BY <1>1, <1>2 DEF Leads
<1>4. PICK n \in DOMAIN ps : all[j] \in ToSet(ps[n].rows)
  BY DEF OnPages
<1>5. all[i] \in ToSet(ps[n].rows)
  BY <1>1, <1>3, <1>4 DEF CappedPages
<1> QED
  BY <1>5 DEF OnPages

(* The ranking, undisturbed. *)
LEMMA RankedOrder ==
  ASSUME NEW ps \in Seq(PageRead), NEW all \in Seq(1 .. Rows), Arranged("ranked", all),
         RankedPages(ps, all), NEW m \in DOMAIN ps, NEW n \in DOMAIN ps,
         NEW i \in DOMAIN ps[m].rows, NEW j \in DOMAIN ps[n].rows, m < n \/ (m = n /\ i < j)
  PROVE  ps[m].rows[i] # ps[n].rows[j]
<1>1. PICK a \in Nat : RowsFrom(ps[m], a, all)
  BY DEF RankedPages
<1>2. PICK b \in Nat : /\ RowsFrom(ps[n], b, all)
                       /\ \A e \in DOMAIN ps : e < n => ps[e].next # NoCursor /\ ps[e].next <= b
  BY DEF RankedPages
<1>3. /\ i \in Nat /\ j \in Nat /\ j > 0 /\ ps[m].next \in Nat /\ ps[n].next \in Nat
      /\ m \in Nat /\ n \in Nat
  <2>1. ps[m].rows \in Seq(1 .. Rows) /\ ps[n].rows \in Seq(1 .. Rows)
    BY OnAPage
  <2>2. i \in 1 .. Len(ps[m].rows) /\ j \in 1 .. Len(ps[n].rows)
    BY <2>1, RowOnPage
  <2> QED
    BY <2>2, OnAPage
<1>4. CASE m < n
  <2>1. ps[m].next # NoCursor /\ ps[m].next <= b
    BY <1>2, <1>4
  <2>2. a + i <= ps[m].next
    BY <1>1, <2>1 DEF RowsFrom
  <2>3. a + i < b + j
    BY <1>3, <2>1, <2>2
  <2>4. /\ a + i \in DOMAIN all /\ ps[m].rows[i] = all[a + i]
        /\ b + j \in DOMAIN all /\ ps[n].rows[j] = all[b + j]
    BY <1>1, <1>2 DEF RowsFrom
  <2> QED
    BY <2>3, <2>4 DEF Arranged
<1>5. CASE m = n /\ i < j
  <2>1. a + i < a + j
    BY <1>3, <1>5
  <2>2. /\ a + i \in DOMAIN all /\ ps[m].rows[i] = all[a + i]
        /\ a + j \in DOMAIN all /\ ps[n].rows[j] = all[a + j]
    BY <1>1, <1>5 DEF RowsFrom
  <2> QED
    BY <2>1, <2>2 DEF Arranged
<1> QED
  BY <1>4, <1>5

LEMMA RankedDue ==
  ASSUME NEW ps \in Seq(PageRead), NEW all \in Seq(1 .. Rows), Arranged("ranked", all),
         RankedPages(ps, all), ps # <<>>, NEW i \in DOMAIN all,
         \/ LastPage(ps).next = NoCursor
         \/ \E j \in DOMAIN all : i <= j /\ OnPages(ps, all[j])
  PROVE  OnPages(ps, all[i])
<1>1. CASE LastPage(ps).next = NoCursor
  BY <1>1 DEF RankedPages
<1>2. ASSUME NEW j \in DOMAIN all, i <= j, OnPages(ps, all[j]), LastPage(ps).next # NoCursor
      PROVE  OnPages(ps, all[i])
  <2>1. PICK n \in DOMAIN ps : all[j] \in ToSet(ps[n].rows)
    BY <1>2 DEF OnPages
  <2>2. PICK k \in DOMAIN ps[n].rows : all[j] = ps[n].rows[k]
    BY <2>1 DEF ToSet
  <2>3. PICK z \in DOMAIN ps : /\ z = Len(ps) /\ n <= z /\ LastPage(ps) = ps[z]
                               /\ ps[z].next \in Nat /\ ps[n].next \in Nat
                               /\ ps[n].rows \in Seq(1 .. Rows) /\ n \in Nat /\ z \in Nat
    <3>1. /\ n \in 1 .. Len(ps) /\ Len(ps) \in DOMAIN ps /\ LastPage(ps) = ps[Len(ps)]
          /\ Len(ps) \in Nat /\ ps[n].next \in Nat /\ ps[n].rows \in Seq(1 .. Rows)
      BY OnAPage
    <3>2. n <= Len(ps) /\ n \in Nat
      BY <3>1
    <3>3. ps[Len(ps)].next \in Nat
      BY <3>1, OnAPage
    <3> QED
      BY <3>1, <3>2, <3>3
  <2>4. PICK a \in Nat : RowsFrom(ps[n], a, all)
    BY DEF RankedPages
  <2>5. PICK b \in Nat : /\ RowsFrom(ps[z], b, all)
                         /\ \A e \in DOMAIN ps : e < z => ps[e].next # NoCursor /\ ps[e].next <= b
    BY DEF RankedPages
  <2>6. a + k \in DOMAIN all /\ all[j] = all[a + k] /\ k \in Nat /\ a + k \in Nat
    <3>1. k \in 1 .. Len(ps[n].rows)
      BY <2>3, RowOnPage
    <3> QED
      BY <2>2, <2>4, <3>1 DEF RowsFrom
  <2>7. i \in Nat /\ j \in Nat
    OBVIOUS
  <2>8. j = a + k
    <3>1. ~ (j < a + k) /\ ~ (a + k < j)
      BY <2>6 DEF Arranged
    <3> QED
      BY <2>6, <2>7, <3>1
  <2>9. a + k <= ps[z].next
    <3>1. CASE n = z
      BY <1>2, <2>3, <2>4, <3>1 DEF RowsFrom
    <3>2. CASE n < z
      <4>1. ps[n].next # NoCursor /\ ps[n].next <= b
        BY <2>5, <3>2
      <4>2. a + k <= ps[n].next
        BY <2>4, <4>1 DEF RowsFrom
      <4>3. b <= ps[z].next
        BY <1>2, <2>3, <2>5 DEF RowsFrom
      <4> QED
        BY <2>3, <2>6, <4>1, <4>2, <4>3
    <3> QED
      BY <2>3, <3>1, <3>2
  <2>10. i <= LastPage(ps).next
    BY <1>2, <2>3, <2>6, <2>7, <2>8, <2>9
  <2> QED
    BY <2>10 DEF RankedPages
<1> QED
  BY <1>1, <1>2

(* What a list has to show is on its pages, in order. *)
LEMMA ListHolds ==
  ASSUME PagingInv
  PROVE  ListSound
<1>1. /\ surface \in {"newest", "oldest", "ranked", "capped"} /\ pages \in Seq(PageRead)
      /\ order \in Seq(1 .. Rows) /\ Arranged(surface, order)
      /\ PagesHold(surface, pages, order, disturbed)
  BY DEF PagingInv, PagingTypes, PagesHold
<1> SUFFICES ASSUME surface = "ranked" => disturbed = {}
             PROVE  /\ \A m, n \in DOMAIN pages :
                         \A i \in DOMAIN pages[m].rows, j \in DOMAIN pages[n].rows :
                           m < n \/ (m = n /\ i < j) => Precedes(pages[m].rows[i], pages[n].rows[j])
                    /\ Due \subseteq Listed
  BY DEF ListSound
<1>2. /\ surface \in {"newest", "oldest"} => KeysetPages(surface, pages, order, disturbed)
      /\ surface = "capped" => CappedPages(surface, pages, order, disturbed)
      /\ surface = "ranked" => RankedPages(pages, order)
  BY <1>1 DEF PagesHold
<1>3. ASSUME NEW m \in DOMAIN pages, NEW n \in DOMAIN pages, NEW i \in DOMAIN pages[m].rows,
             NEW j \in DOMAIN pages[n].rows, m < n \/ (m = n /\ i < j)
      PROVE  Precedes(pages[m].rows[i], pages[n].rows[j])
  <2>1. CASE surface \in {"newest", "oldest"}
    <3>1. Leads(surface, pages[m].rows[i], pages[n].rows[j])
      BY <1>1, <1>2, <1>3, <2>1, KeysetOrder
    <3> QED
      BY <1>1, <2>1, <3>1, OrderOfTwo
  <2>2. CASE surface = "capped"
    <3>1. Leads("capped", pages[m].rows[i], pages[n].rows[j])
      BY <1>1, <1>2, <1>3, <2>2, CappedOrder
    <3> QED
      BY <1>1, <2>2, <3>1, OrderOfTwo
  <2>3. CASE surface = "ranked"
    <3>1. pages[m].rows[i] # pages[n].rows[j]
      BY <1>1, <1>2, <1>3, <2>3, RankedOrder
    <3> QED
      BY <1>1, <2>3, <3>1, OrderOfTwo
  <2> QED
    BY <1>1, <2>1, <2>2, <2>3
<1>4. ASSUME NEW entry \in Due PROVE entry \in Listed
  <2>1. \A below : below \in Listed <=> OnPages(pages, below)
    BY DEF Listed, OnPages
  <2>2. HasNextPage <=> pages # <<>> /\ LastPage(pages).next # NoCursor
    BY DEF HasNextPage, LastPage, Last
  <2>3. PICK i \in DOMAIN order :
          /\ entry = order[i] /\ pages # <<>> /\ order[i] \notin disturbed
          /\ \/ ~ HasNextPage /\ surface # "capped"
             \/ \E j \in DOMAIN order : i <= j /\ order[j] \in Listed \ disturbed
    BY <1>4 DEF Due
  <2>4. \/ LastPage(pages).next = NoCursor /\ surface # "capped"
        \/ \E j \in DOMAIN order : i <= j /\ OnPages(pages, order[j])
    BY <2>1, <2>2, <2>3
  <2>5. CASE surface \in {"newest", "oldest"}
    BY <1>1, <1>2, <2>1, <2>3, <2>4, <2>5, KeysetDue
  <2>6. CASE surface = "capped"
    BY <1>1, <1>2, <2>1, <2>3, <2>4, <2>6, CappedDue
  <2>7. CASE surface = "ranked"
    BY <1>1, <1>2, <2>1, <2>3, <2>4, <2>7, RankedDue
  <2> QED
    BY <1>1, <2>5, <2>6, <2>7
<1> QED
  BY <1>3, <1>4

(* Scrolling and refreshing while rows come and go never show a row twice or *)
(* out of order and never skip a row that was there all along, for any       *)
(* number of rows and any page size; of the ranking as long as nothing in it *)
(* moved (the queries' cursors, store/posts.go Feed, comments.go, markets.go *)
(* ExploreMarkets, and the clients' infinite queries).                       *)
THEOREM ListIsWhole == Spec => []ListSound
<1>1. Init => PagingInv
  BY PagingInitial, PagingAssumption DEF Init
<1>2. PagingInv /\ [Next]_screenVars => PagingInv'
  BY ScreenMoves, PagingStep
<1> QED BY <1>1, <1>2, ListHolds, PTL DEF Spec

===============================================================================
