------------------------------ MODULE Stories -------------------------------
(* The story viewer: groups of stories gone through by a timer and by taps,  *)
(* and on the mobile client the camera that makes one.  A press renders at   *)
(* once, what the timer sets is rendered a little later: a tap in between    *)
(* works on what was rendered before.  The mobile viewer keeps the groups it *)
(* was opened with, the web's follow the list of the rail.                   *)
EXTENDS Integers, Sequences, FiniteSets, SequencesExt

CONSTANTS
  MaxStories,     \* bound: stories an author ever posts
  MaxSends        \* bound: times the camera's photo is sent

ASSUME StoriesAssumption == MaxStories \in Nat \ {0} /\ MaxSends \in Nat

VARIABLES
  viewing,        \* the app, or the camera
  posted,         \* the unexpired stories of each author: first .. last
  groups,         \* the groups of the viewer or, on the web, of the rail
  at,             \* the group and story rendered, from 1; Away when closed
  ticking,        \* what the timer will call: its closure, or Off
  pending,        \* the closure the timer called and that is not rendered
  held,           \* the mobile viewer is paused
  backs,          \* router.back calls of this viewing
  visited,        \* history: the stories shown since the viewer was opened
  tapped,        \* history: a tap came before the timer's step was rendered
  changed,        \* history: the web's groups changed while open
  camera,         \* live, capturing, review, sending, gone
  sends,          \* requests sent by the camera
  published,      \* stories the camera made
  unheard         \* history: made, but the answer was lost

viewerVars == <<groups, at, ticking, pending, held, backs, visited, tapped, changed>>
cameraVars == <<camera, sends, published, unheard>>
storyVars == <<viewing, posted, viewerVars, cameraVars>>

Away == [group |-> 0, story |-> 0]
Off == [at |-> Away, groups |-> <<>>]

Unexpired(author) == posted[author].last - posted[author].first + 1
StoriesOf(author) ==
  IF Unexpired(author) > 0
  THEN <<[who |-> author, first |-> posted[author].first, last |-> posted[author].last]>>
  ELSE <<>>
Rail == StoriesOf("a") \o StoriesOf("b")

Length(g) == g.last - g.first + 1
Stands(gs, p) == p.group \in DOMAIN gs /\ p.story \in 1 .. Length(gs[p.group])
Story(gs, p) == IF Stands(gs, p) THEN <<gs[p.group].who, gs[p.group].first + p.story - 1>> ELSE <<>>
Closure(gs, p) == [at |-> p, groups |-> gs]

StoriesInit ==
  /\ viewing \in {"mobile", "web", "camera"}
  /\ posted \in [{"a", "b"} -> {[first |-> 1, last |-> n] : n \in 0 .. MaxStories}]
  /\ groups = Rail /\ at = Away /\ ticking = Off /\ pending = Off /\ held = FALSE
  /\ backs = 0 /\ visited = {} /\ tapped = FALSE /\ changed = FALSE
  /\ camera = "live" /\ sends = 0 /\ published = 0 /\ unheard = 0

-----------------------------------------------------------------------------
(* One step on and one back, by a closure's groups and position: within the  *)
(* group relative to what is there when it is applied; between groups the    *)
(* mobile client moves the group relatively, the web sets it.                *)
Onward(p, c) ==
  CASE p = Away -> Away
    [] p # Away /\ c.at.story < Length(c.groups[c.at.group]) -> [p EXCEPT !.story = @ + 1]
    [] p # Away /\ c.at.story >= Length(c.groups[c.at.group]) /\ c.at.group < Len(c.groups) ->
         [group |-> IF viewing = "mobile" THEN p.group + 1 ELSE c.at.group + 1, story |-> 1]
    [] OTHER -> Away

Backward(p, c) ==
  CASE p = Away -> Away
    [] p # Away /\ c.at.story > 1 -> [p EXCEPT !.story = @ - 1]
    [] p # Away /\ c.at.story <= 1 /\ c.at.group > 1 ->
         [group |-> IF viewing = "mobile" THEN p.group - 1 ELSE c.at.group - 1,
          story |-> Length(c.groups[c.at.group - 1])]
    [] OTHER -> p

Ends(c) == c.at.story >= Length(c.groups[c.at.group]) /\ c.at.group >= Len(c.groups)

(* The effect of a render: keyed by the story, it starts the story's timer,  *)
(* with the step as this render knows it, and records the view.              *)
NewStory(before, after) == before # after
NewAuthor(before, after) == before = <<>> \/ after = <<>> \/ before[1] # after[1]
Keyed(before, after) == NewStory(before, after)

RenderAs(gs, p, hold) ==
  LET before == Story(groups, at)
      after == Story(gs, p)
  IN
  /\ groups' = gs /\ at' = p /\ held' = (hold /\ p # Away) /\ pending' = Off
  /\ ticking' = CASE p = Away \/ after = <<>> -> Off
                  [] Stands(gs, p) /\ hold -> Off
                  [] Stands(gs, p) /\ ~hold /\ (Keyed(before, after) \/ held) -> Closure(gs, p)
                  [] OTHER -> ticking
  /\ visited' = IF p = Away THEN {} ELSE visited \cup ({after} \ {<<>>})

Watching == at # Away
On(app) == viewing = app

(* A group of the rail is opened at its first story. *)
OpenGroup(i) ==
  /\ ~Watching /\ viewing # "camera"
  /\ RenderAs(groups, [group |-> i, story |-> 1], FALSE)
  /\ tapped' = FALSE /\ changed' = FALSE /\ backs' = 0
  /\ UNCHANGED <<viewing, posted, cameraVars>>

(* The timer ends and calls its step, rendered later. *)
TimerEnds ==
  /\ Watching /\ ticking # Off /\ pending = Off
  /\ pending' = ticking /\ ticking' = Off
  /\ backs' = backs + (IF On("mobile") /\ Ends(ticking) THEN 1 ELSE 0)
  /\ UNCHANGED <<viewing, posted, groups, at, held, visited, tapped, changed, cameraVars>>

StepRendered ==
  /\ Watching /\ pending # Off /\ RenderAs(groups, Onward(at, pending), held)
  /\ UNCHANGED <<viewing, posted, backs, tapped, changed, cameraVars>>

Settle(p) == IF pending = Off THEN p ELSE Onward(p, pending)

(* A tap takes the step of the last render, after the timer's. *)
Tap(to) ==
  /\ Watching /\ Stands(groups, at) /\ ~held
  /\ RenderAs(groups, to, FALSE)
  /\ tapped' = (tapped \/ pending # Off)
  /\ UNCHANGED <<viewing, posted, changed, cameraVars>>

TapOnward ==
  /\ Tap(Onward(Settle(at), Closure(groups, at)))
  /\ backs' = backs + (IF On("mobile") /\ Ends(Closure(groups, at)) THEN 1 ELSE 0)

TapBackward == Tap(Backward(Settle(at), Closure(groups, at))) /\ UNCHANGED backs

(* Holding pauses the mobile viewer; released, the time of the story starts  *)
(* over from where its bar stood.                                            *)
Hold ==
  /\ On("mobile") /\ Watching /\ Stands(groups, at) /\ ~held
  /\ RenderAs(groups, Settle(at), TRUE)
  /\ UNCHANGED <<viewing, posted, backs, tapped, changed, cameraVars>>

Release ==
  /\ held /\ RenderAs(groups, Settle(at), FALSE)
  /\ UNCHANGED <<viewing, posted, backs, tapped, changed, cameraVars>>

CloseViewer ==
  /\ Watching /\ (On("mobile") \/ Stands(groups, at))
  /\ RenderAs(groups, Away, FALSE)
  /\ tapped' = (tapped \/ pending # Off)
  /\ backs' = backs + (IF On("mobile") THEN 1 ELSE 0)
  /\ UNCHANGED <<viewing, posted, changed, cameraVars>>

(* The web's arrow keys work also when the viewer shows nothing, and then    *)
(* the rail can be clicked: only the group changes.                          *)
BehindNothing ==
  /\ On("web") /\ Watching /\ ~Stands(groups, at)
  /\ \/ /\ at.group \in DOMAIN groups
        /\ \/ RenderAs(groups, Onward(at, Closure(groups, at)), FALSE)
           \/ RenderAs(groups, Backward(at, Closure(groups, at)), FALSE)
     \/ \E i \in DOMAIN groups : RenderAs(groups, [at EXCEPT !.group = i], FALSE)
  /\ UNCHANGED <<viewing, posted, backs, tapped, changed, cameraVars>>

(* Authors post and stories expire, oldest first. *)
StoriesChange ==
  /\ viewing # "camera"
  /\ \E author \in {"a", "b"} :
       \/ posted[author].last < MaxStories /\ posted' = [posted EXCEPT ![author].last = @ + 1]
       \/ Unexpired(author) > 0 /\ posted' = [posted EXCEPT ![author].first = @ + 1]
  /\ UNCHANGED <<viewing, viewerVars, cameraVars>>

(* The rail's list is read again: on mobile the open viewer keeps its own;   *)
(* on the web a group that is gone unmounts the viewer, which starts at the  *)
(* first story should the group come back.                                   *)
RailRead ==
  /\ viewing # "camera" /\ Rail # groups
  /\ IF ~Watching
     THEN groups' = Rail /\ UNCHANGED <<at, ticking, pending, held, visited, changed>>
     ELSE /\ On("web") /\ changed' = TRUE
          /\ LET p == Settle(at) IN
             RenderAs(Rail, IF p.group \in DOMAIN Rail \/ p = Away THEN p
                            ELSE [p EXCEPT !.story = 1], FALSE)
  /\ UNCHANGED <<viewing, posted, backs, tapped, cameraVars>>

-----------------------------------------------------------------------------
(* The camera: one capture and one sending at a time; the photo is uploaded, *)
(* then published; on failure the review stays.  Only its own buttons wait   *)
(* for the sending, the system's back does not.                              *)
CameraMoves(from, to) ==
  /\ viewing = "camera" /\ camera = from /\ camera' = to
  /\ UNCHANGED <<viewing, posted, viewerVars>>

TakePhoto == CameraMoves("live", "capturing") /\ UNCHANGED <<sends, published, unheard>>
Captured == CameraMoves("capturing", "review") /\ UNCHANGED <<sends, published, unheard>>
CaptureFails == CameraMoves("capturing", "live") /\ UNCHANGED <<sends, published, unheard>>
Retake == CameraMoves("review", "live") /\ UNCHANGED <<sends, published, unheard>>

SendStory ==
  /\ CameraMoves("review", "sending") /\ sends < MaxSends /\ sends' = sends + 1
  /\ UNCHANGED <<published, unheard>>

StoryPublished ==
  /\ CameraMoves("sending", "gone") /\ published' = published + 1 /\ UNCHANGED <<sends, unheard>>

SendingFails ==
  /\ CameraMoves("sending", "review") /\ UNCHANGED sends
  /\ \/ UNCHANGED <<published, unheard>>
     \/ published' = published + 1 /\ unheard' = unheard + 1

(* Left while it sends, the photo may still become a story. *)
LeaveCamera ==
  /\ camera # "gone" /\ CameraMoves(camera, "gone") /\ UNCHANGED <<sends, unheard>>
  /\ published' \in {published} \cup (IF camera = "sending" THEN {published + 1} ELSE {})

StoriesNext ==
  \/ \E i \in DOMAIN groups : OpenGroup(i)
  \/ TimerEnds \/ StepRendered \/ TapOnward \/ TapBackward \/ Hold \/ Release \/ CloseViewer
  \/ BehindNothing \/ StoriesChange \/ RailRead
  \/ TakePhoto \/ Captured \/ CaptureFails \/ Retake \/ SendStory \/ StoryPublished
  \/ SendingFails \/ LeaveCamera

-----------------------------------------------------------------------------
(* Between first and last seen nothing was skipped. *)
InOrder(gs) ==
  {Story(gs, p) : p \in {x \in [group : DOMAIN gs, story : 1 .. MaxStories] : Stands(gs, x)}}
Earlier(gs, x, y) ==
  LET place(z) == CHOOSE g \in DOMAIN gs : gs[g].who = z[1] IN
  place(x) < place(y) \/ (x[1] = y[1] /\ x[2] < y[2])

NoneSkipped ==
  \A x, y \in visited, z \in InOrder(groups) :
    Earlier(groups, x, z) /\ Earlier(groups, z, y) => z \in visited

(* Going through stories by taps, holds and the timer, none between two seen *)
(* is skipped, a story is always shown and its own timer runs unless it is   *)
(* held, so that the viewer goes on by itself and is left once: except when  *)
(* a tap falls between the timer's step and its rendering, or the web's list *)
(* changes under the open viewer (stories.tsx effect keyed by story.id;      *)
(* StoriesRail.tsx next and the live groups).  One photo makes one story     *)
(* unless an answer was lost (story-camera.tsx send).                        *)
StorySound ==
  /\ Watching /\ ~tapped /\ ~changed =>
       /\ Stands(groups, at) /\ NoneSkipped
       /\ ~held /\ pending = Off => ticking = Closure(groups, at)
  /\ Watching /\ Stands(groups, at) /\ ticking # Off =>
       Story(ticking.groups, ticking.at) = Story(groups, at)
  /\ ~tapped => backs <= 1
  /\ published <= 1 + unheard
=============================================================================
