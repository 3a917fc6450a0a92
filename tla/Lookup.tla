------------------------------- MODULE Lookup -------------------------------
(* Search as you type: a text, the timer that waits for the typing to stop,  *)
(* the calls that cross, and the list shown.  Two styles: an effect that     *)
(* calls and sets the list (mobile), and a query keyed by the text, whose    *)
(* answers are kept by text.  Texts are a short one and two to look up.      *)
EXTENDS Integers, Sequences, SequencesExt

CONSTANTS
  MaxAsked,       \* bound: calls in flight
  MaxVersion      \* bound: changes of the reservations

ASSUME LookupAssumption == MaxAsked \in Nat \ {0} /\ MaxVersion \in Nat

VARIABLES
  box,            \* which search this is
  typed,          \* the text typed
  timers,         \* the texts of pending timers, in the order they are due
  settled,        \* keyed: the text the query is about
  asked,          \* the calls in flight, the version they answer, what was saved
  found,          \* effect: the text whose matches are shown
  known,          \* keyed: the version kept of each text's list
  outdated,       \* keyed: the texts whose list was invalidated
  searching,      \* effect: the spinner
  generating,     \* the text a market is being generated for
  candidates,     \* the text of the generated candidates
  choice,         \* what became of the entry chosen
  version,        \* the server's reservations
  saved,          \* the version this client was told is saved
  overtaken,      \* history: a call was in flight when the text last changed
  failed,         \* history: the texts whose last call failed
  raced           \* history: the lists asked for before the last save

lookupVars == <<box, typed, timers, settled, asked, found, known, outdated, searching,
                generating, candidates, choice, version, saved, overtaken, failed, raced>>

Nothing == "nothing"
Generated == "generated"
Short == "s"
Long == {"p", "q"}
Texts == Long \cup {Short}
Missing == -1

MobileAttach ==
  [style |-> "effect", waits |-> TRUE, asksShort |-> FALSE, clears |-> FALSE, for |-> "market"]
MobileAdmin ==
  [style |-> "effect", waits |-> TRUE, asksShort |-> FALSE, clears |-> TRUE, for |-> "user"]
MobileMention ==
  [style |-> "keyed", waits |-> FALSE, asksShort |-> FALSE, clears |-> FALSE, for |-> "mention"]
WebAttach ==
  [style |-> "keyed", waits |-> TRUE, asksShort |-> FALSE, clears |-> FALSE, for |-> "market"]
WebAdmin ==
  [style |-> "keyed", waits |-> TRUE, asksShort |-> FALSE, clears |-> FALSE, for |-> "user"]
WebReservations ==
  [style |-> "keyed", waits |-> TRUE, asksShort |-> TRUE, clears |-> FALSE, for |-> "reservation"]
WebMention ==
  [style |-> "keyed", waits |-> TRUE, asksShort |-> FALSE, clears |-> FALSE, for |-> "mention"]

Effect == box.style = "effect"
Asks(t) == t \in Long \/ box.asksShort
Choosing == choice = Nothing

LookupInit ==
  /\ box \in {MobileAttach, MobileAdmin, MobileMention,
              WebAttach, WebAdmin, WebReservations, WebMention}
  /\ typed = Short /\ settled = Short /\ timers = <<>>
  /\ asked = IF box.asksShort THEN <<[text |-> Short, seen |-> Missing, since |-> 0]>> ELSE <<>>
  /\ found = Nothing /\ known = [t \in Texts |-> Missing] /\ outdated = {}
  /\ searching = FALSE /\ generating = Nothing /\ candidates = Nothing /\ choice = Nothing
  /\ version = 0 /\ saved = 0 /\ overtaken = FALSE /\ failed = {} /\ raced = {}

-----------------------------------------------------------------------------
(* The query looks at a text: it asks when nothing of it is kept or what is  *)
(* kept was invalidated, may ask when it is old, and joins a call under way. *)
CalledFor(t) == \E i \in DOMAIN asked : asked[i].text = t

Call(t, told) == [text |-> t, seen |-> Missing, since |-> told]

Look(t, enabled) ==
  /\ settled' = t
  /\ IF ~enabled \/ ~Asks(t) \/ CalledFor(t) THEN UNCHANGED asked
     ELSE IF known[t] = Missing \/ t \in outdated THEN asked' = Append(asked, Call(t, saved))
     ELSE asked' \in {asked, Append(asked, Call(t, saved))}

(* The pending timer goes when the text changes. *)
Kept(pending) == pending
Cleared(pending) == <<>>

(* The effect's run for a text: a short one empties the list at once. *)
Schedule(t) ==
  /\ timers' = Cleared(timers) \o (IF Asks(t) THEN <<t>> ELSE <<>>)
  /\ found' = IF Asks(t) THEN found ELSE Nothing
  /\ overtaken' = (asked # <<>>)

TypeText(t) ==
  /\ Choosing /\ t # typed /\ typed' = t /\ Len(asked) < MaxAsked
  /\ CASE Effect -> Schedule(t) /\ UNCHANGED <<settled, asked>>
       [] ~Effect /\ box.waits ->
            /\ timers' = Append(Cleared(timers), t)
            /\ UNCHANGED <<settled, asked, found, overtaken>>
       [] OTHER -> Look(t, TRUE) /\ UNCHANGED <<timers, found, overtaken>>
  /\ UNCHANGED <<box, known, outdated, searching, generating, candidates, choice, version,
                 saved, failed, raced>>

(* Timers of one length fire in the order they were set. *)
TimerFires ==
  /\ timers # <<>> /\ timers' = Tail(timers) /\ Len(asked) < MaxAsked
  /\ IF Effect
     THEN /\ asked' = Append(asked, Call(Head(timers), saved))
          /\ searching' = TRUE /\ UNCHANGED settled
     ELSE /\ IF Head(timers) = settled THEN UNCHANGED <<asked, settled>>
             ELSE Look(Head(timers), choice # "attached")
          /\ UNCHANGED searching
  /\ UNCHANGED <<box, typed, found, known, outdated, generating, candidates, choice, version,
                 saved, overtaken, failed, raced>>

(* The server answers a call from the rows of that moment. *)
AnswerCall(i) ==
  /\ asked[i].seen = Missing /\ asked' = [asked EXCEPT ![i].seen = version]
  /\ UNCHANGED <<box, typed, timers, settled, found, known, outdated, searching, generating,
                 candidates, choice, version, saved, overtaken, failed, raced>>

CallEnds(i) ==
  /\ asked' = RemoveAt(asked, i)
  /\ searching' = FALSE
  /\ UNCHANGED <<box, typed, timers, settled, generating, candidates, choice, version, saved,
                 overtaken>>

Matched(i) ==
  /\ asked[i].seen # Missing
  /\ failed' = IF Effect THEN {} ELSE failed \ {asked[i].text}
  /\ raced' = IF asked[i].since < saved THEN raced \cup {asked[i].text} ELSE raced \ {asked[i].text}
  /\ IF Effect
     THEN found' = asked[i].text /\ UNCHANGED <<known, outdated>>
     ELSE /\ known' = [known EXCEPT ![asked[i].text] = asked[i].seen]
          /\ outdated' = outdated \ {asked[i].text} /\ UNCHANGED found
  /\ CallEnds(i)

SearchFails(i) ==
  /\ failed' = failed \cup {asked[i].text} /\ found' = IF box.clears THEN Nothing ELSE found
  /\ UNCHANGED <<known, outdated, raced>>
  /\ CallEnds(i)

-----------------------------------------------------------------------------
(* A market is generated from the text: one request at a time.  On mobile    *)
(* the older candidates go first and like markets replace the matches.       *)
Generate ==
  /\ box.for = "market" /\ Choosing /\ typed \in Long /\ generating = Nothing
  /\ generating' = typed /\ candidates' = IF Effect THEN Nothing ELSE candidates
  /\ UNCHANGED <<box, typed, timers, settled, asked, found, known, outdated, searching, choice,
                 version, saved, overtaken, failed, raced>>

GenerateEnds ==
  /\ generating # Nothing /\ generating' = Nothing
  /\ candidates' \in {generating, candidates}
  /\ found' \in IF Effect /\ candidates' = generating THEN {found, Generated} ELSE {found}
  /\ UNCHANGED <<box, typed, timers, settled, asked, known, outdated, searching, choice,
                 version, saved, overtaken, failed, raced>>

(* What is on the list: a keyed query shows what it keeps of its text. *)
ListShown ==
  CASE Effect -> found
    [] ~Effect /\ known[settled] # Missing -> settled
    [] OTHER -> Nothing

(* A match or a candidate is attached; the effect stops waiting. *)
Attach ==
  /\ box.for = "market" /\ Choosing /\ (ListShown # Nothing \/ candidates # Nothing)
  /\ choice' = "attached"
  /\ timers' = IF Effect THEN Cleared(timers) ELSE timers
  /\ candidates' = IF Effect THEN candidates ELSE Nothing
  /\ UNCHANGED <<box, typed, settled, asked, found, known, outdated, searching, generating,
                 version, saved, overtaken, failed, raced>>

Detach ==
  /\ choice = "attached" /\ choice' = Nothing /\ candidates' = Nothing
  /\ Len(asked) < MaxAsked
  /\ IF Effect THEN Schedule(typed) /\ UNCHANGED <<settled, asked>>
     ELSE Look(settled, TRUE) /\ UNCHANGED <<timers, found, overtaken>>
  /\ UNCHANGED <<box, typed, known, outdated, searching, generating, version, saved, failed, raced>>

(* An administrator warps into a match: on mobile once the server named the  *)
(* user, on the web also when the call failed.                               *)
WarpInto ==
  /\ box.for = "user" /\ Choosing /\ ListShown # Nothing /\ choice' = "warping"
  /\ UNCHANGED <<box, typed, timers, settled, asked, found, known, outdated, searching,
                 generating, candidates, version, saved, overtaken, failed, raced>>

WarpChecked ==
  /\ choice = "warping"
  /\ choice' \in {"warped", IF Effect THEN Nothing ELSE "warped unchecked"}
  /\ UNCHANGED <<box, typed, timers, settled, asked, found, known, outdated, searching,
                 generating, candidates, version, saved, overtaken, failed, raced>>

-----------------------------------------------------------------------------
(* A reservation is added or removed, and the client told, or not: then all  *)
(* lists are invalid and the one looked at is asked for again; a call for it *)
(* that is under way is given up, unless nothing of the list is kept yet.    *)
ChangeReservation ==
  /\ box.for = "reservation" /\ version < MaxVersion /\ version' = version + 1
  /\ UNCHANGED <<box, typed, timers, settled, asked, found, known, outdated, searching,
                 generating, candidates, choice, saved, overtaken, failed, raced>>

OthersOf(t) ==
  IF CalledFor(t) THEN RemoveAt(asked, CHOOSE i \in DOMAIN asked : asked[i].text = t) ELSE asked

InvalidateLists ==
  /\ saved < version /\ saved' = version /\ outdated' = Texts
  /\ asked' = IF known[settled] = Missing /\ CalledFor(settled) THEN asked
              ELSE Append(OthersOf(settled), Call(settled, version))
  /\ UNCHANGED <<box, typed, timers, settled, found, known, searching, generating, candidates,
                 choice, version, overtaken, failed, raced>>

LookupNext ==
  \/ \E t \in Texts : TypeText(t)
  \/ TimerFires
  \/ \E i \in DOMAIN asked : AnswerCall(i) \/ Matched(i) \/ SearchFails(i)
  \/ Generate \/ GenerateEnds \/ Attach \/ Detach \/ WarpInto \/ WarpChecked
  \/ ChangeReservation \/ InvalidateLists

-----------------------------------------------------------------------------
(* When no timer and no call is left, the spinner is gone and the list is    *)
(* about the text typed, whatever the order the answers came in: always for  *)
(* a keyed query; for an effect unless the text changed while a call was     *)
(* out, a call failed, or a generation put its own matches there.  What the  *)
(* client was told is saved is on the list, unless a call for that list was  *)
(* out while another text was looked at (mobile AttachMarket and admin       *)
(* effects, hooks.ts useDebounced, AdminReservations invalidate).            *)
LookupSound ==
  timers = <<>> /\ asked = <<>> =>
    /\ ~searching
    /\ ~Effect => /\ settled = typed
                  /\ ListShown \in {typed, Nothing}
                  /\ Asks(settled) /\ Choosing /\ settled \notin failed => ListShown = settled
                  /\ settled \notin raced \cup failed =>
                       known[settled] \in {Missing} \cup saved .. version
    /\ Effect /\ choice # "attached" /\ ~overtaken =>
         \/ found = IF Asks(typed) THEN typed ELSE Nothing
         \/ failed # {} /\ (box.clears => found = Nothing)
         \/ found = Generated
=============================================================================
