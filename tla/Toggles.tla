------------------------------ MODULE Toggles -------------------------------
(* A heart, a reaction, a follow button, a privacy switch: the screen turns  *)
(* it at once, a request tells the backend, a failure turns it back.  The    *)
(* backend's side is idempotent: liking what is liked changes nothing, the   *)
(* count included.  Requests of one toggle may be under way together, and    *)
(* the backend handles them in any order.                                    *)
EXTENDS Integers, FiniteSets

CONSTANT MaxPresses     \* bound: presses of the toggle

ASSUME TogglesAssumption == MaxPresses \in Nat

(* guarded: a second press waits for the answer.  reverts: a failure turns   *)
(* it back.  reads: the field the screen starts from is one the backend      *)
(* sends; elsewhere it starts off whatever the truth is.                     *)
MobilePostLike    == [guarded |-> FALSE, reverts |-> TRUE,  reads |-> TRUE]
MobilePostReact   == [guarded |-> FALSE, reverts |-> TRUE,  reads |-> FALSE]
MobileCommentLike == [guarded |-> FALSE, reverts |-> TRUE,  reads |-> TRUE]
MobileReelLike    == [guarded |-> FALSE, reverts |-> TRUE,  reads |-> TRUE]
MobileFollow      == [guarded |-> TRUE,  reverts |-> TRUE,  reads |-> FALSE]
MobileSwitch      == [guarded |-> FALSE, reverts |-> TRUE,  reads |-> TRUE]
WebPostLike       == [guarded |-> FALSE, reverts |-> TRUE,  reads |-> FALSE]
WebPostReact      == [guarded |-> FALSE, reverts |-> FALSE, reads |-> FALSE]
WebCommentLike    == [guarded |-> FALSE, reverts |-> TRUE,  reads |-> FALSE]
WebReelLike       == [guarded |-> FALSE, reverts |-> TRUE,  reads |-> FALSE]
WebFollow         == [guarded |-> TRUE,  reverts |-> TRUE,  reads |-> FALSE]

AllToggles ==
  {MobilePostLike, MobilePostReact, MobileCommentLike, MobileReelLike, MobileFollow,
   MobileSwitch, WebPostLike, WebPostReact, WebCommentLike, WebReelLike, WebFollow}

VARIABLES
  toggle,     \* the kind of this behaviour
  shown,      \* [on, count] on screen
  truth,      \* [on, count] of the backend
  requests,   \* [press, to, handled]: requests without an answer on screen
  presses,    \* presses so far
  started,    \* the start was the truth, or a request has been answered since
  crossed     \* history: see ToggleAgrees

toggleVars == <<toggle, shown, truth, requests, presses, started, crossed>>

TogglesInit ==
  /\ toggle \in AllToggles
  /\ \E on \in BOOLEAN :
       /\ truth = [on |-> on, count |-> IF on THEN 1 ELSE 0]
       /\ shown = [truth EXCEPT !.on = toggle.reads /\ on]
  /\ requests = {} /\ presses = 0
  /\ started = toggle.reads /\ crossed = FALSE

(* What turning to `on` does to a state that is not there already. *)
TurnedTwice(state, on) == [on |-> on, count |-> state.count + (IF on THEN 1 ELSE -1)]
Turned(state, on) ==
  IF state.on = on THEN state
  ELSE [on |-> on, count |-> state.count + (IF on THEN 1 ELSE -1)]

PressFree == TRUE
MayPress == toggle.guarded => requests = {}

PressToggle ==
  /\ presses < MaxPresses /\ MayPress /\ presses' = presses + 1
  /\ shown' = Turned(shown, ~ shown.on)
  /\ requests' = requests \cup {[press |-> presses + 1, to |-> ~ shown.on, handled |-> FALSE]}
  /\ crossed' = (crossed \/ (~ toggle.guarded /\ requests # {}))
  /\ UNCHANGED <<toggle, truth, started>>

(* Like, Unlike, Follow, Unfollow, React: only a row that was there or not   *)
(* moves the count.                                                          *)
HandleToggle(r) ==
  /\ ~ r.handled
  /\ truth' = Turned(truth, r.to)
  /\ requests' = (requests \ {r}) \cup {[r EXCEPT !.handled = TRUE]}
  /\ UNCHANGED <<toggle, shown, presses, started, crossed>>

ToggleAnswered(r) ==
  /\ r.handled /\ requests' = requests \ {r} /\ started' = TRUE
  /\ UNCHANGED <<toggle, shown, truth, presses, crossed>>

(* The catch: what the press did is undone; the answer of a handled request  *)
(* may be what was lost.                                                     *)
UndoneNot(state, r) == state
Undone(state, r) ==
  IF toggle.reverts
  THEN [on |-> ~ r.to, count |-> state.count - (IF r.to THEN 1 ELSE -1)]
  ELSE state

ToggleFailed(r) ==
  /\ requests' = requests \ {r}
  /\ shown' = Undone(shown, r)
  /\ crossed' = (crossed \/ r.handled \/ ~ toggle.reverts)
  /\ UNCHANGED <<toggle, truth, presses, started>>

TogglesNext ==
  \/ PressToggle
  \/ \E r \in requests : HandleToggle(r) \/ ToggleAnswered(r) \/ ToggleFailed(r)

(* When nothing is under way the screen and the backend agree, the count     *)
(* too where the start was read, through presses and failures; unless a      *)
(* toggle without a guard was pressed again before its answer, the answer of *)
(* a handled request was lost, or a failure is not turned back.              *)
ToggleAgrees ==
  requests = {} /\ started /\ ~ crossed =>
    /\ shown.on = truth.on
    /\ toggle.reads => shown.count = truth.count
=============================================================================
