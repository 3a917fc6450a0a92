---------------------------- MODULE ProfileForm -----------------------------
(* The profile: the forms of sign-up, of mobile "edit profile" and of the    *)
(* web settings, the profile the client keeps, and the server's row with the *)
(* rules for usernames.  An edit of the row is a transaction in two steps,   *)
(* what it reads and what it writes; the same user edits on another device,  *)
(* others claim names, an administrator reserves them.                       *)
EXTENDS FiniteSets, Naturals

CONSTANTS
  Names,          \* names of 3 characters or more
  ShortNames,     \* those of up to 4, which are reserved by default
  FirstName,      \* the name of a user who has one
  MaxEdits,       \* bound: edits of the row under way
  MaxOutside      \* bound: what happens outside the form

ASSUME ProfileAssumption ==
  /\ ShortNames \subseteq Names /\ FirstName \in Names \ ShortNames
  /\ MaxEdits \in Nat \ {0}
  /\ MaxOutside \in Nat

VARIABLES
  form,           \* which form
  row,            \* the server's row: name and bio
  recent,         \* the name was set within the week
  others,         \* the names of other users
  reservation,    \* whose e-mail a name is reserved for: "none", "own", "other"
  reserving,      \* the reservation checked and not written
  edits,          \* transactions of this user under way
  profile,        \* the profile the client keeps, NoProfile when it has none
  fields,         \* the form's name and bio
  touched,        \* a field was touched in since the save or the last profile
  stage,          \* filling, preparing, patching, refreshing, left
  body,           \* mobile: what will be sent once it is prepared
  loads,          \* GET /v1/me under way: the save's and another
  outside,        \* counter behind the bound
  renames,        \* history: changes of the name within the week
  together,       \* history: two edits were under way, or one and a reservation
  promise         \* history: what the last save sends, until it fails or another
                  \* edit or load comes in between

rowVars == <<row, recent, others, reservation, reserving, renames, together>>
fieldVars == <<profile, fields, touched>>
saveVars == <<stage, body, loads, promise>>
profileVars == <<form, outside, edits, rowVars, fieldVars, saveVars>>

NoName == "no name"
Empty == ""
NoProfile == [name |-> "none"]
Blank == [name |-> NoName, bio |-> Empty]
NotLoading == [phase |-> "none"]

MobileSignup == [app |-> "mobile", signup |-> TRUE, takes |-> "nothing"]
MobileEdit == [app |-> "mobile", signup |-> FALSE, takes |-> "nothing"]
WebSignup == [app |-> "web", signup |-> TRUE, takes |-> "what is empty"]
Settings == [app |-> "web", signup |-> FALSE, takes |-> "all"]

IsMobile == form.app = "mobile"
IsSignup == form.signup
ProfileRows == [name : Names \cup {NoName}, bio : {Empty, "x"}]

Reservations == {"none", "own", "other"}

ProfileInit ==
  /\ form \in {MobileSignup, MobileEdit, WebSignup, Settings}
  /\ row \in {r \in ProfileRows : r.name = (IF IsSignup THEN NoName ELSE FirstName)
                             /\ (IsSignup => r.bio = Empty)}
  /\ recent \in IF IsSignup THEN {FALSE} ELSE BOOLEAN
  /\ others = {} /\ reserving = NoName
  /\ reservation \in [Names -> Reservations]
  /\ \A n \in Names : reservation[n] # "none" => n \in ShortNames
  /\ edits = {} /\ outside = 0 /\ renames = (IF recent THEN 1 ELSE 0) /\ together = FALSE
  /\ profile = row /\ fields = row /\ touched = FALSE /\ stage = "filling"
  /\ body = Blank /\ promise = Blank /\ loads = [l \in {"save", "other"} |-> NotLoading]

-----------------------------------------------------------------------------
(* The server.  A new name must have cooled down and be claimable; the       *)
(* database keeps names unique.  An empty text keeps what the row has.       *)
Claimable(n) ==
  \/ reservation[n] = "own"
  \/ reservation[n] = "none" /\ n \notin ShortNames

Renames(e) == e.body.name # row.name
CheckedAnyTime(e) == e.body.name # NoName /\ (Renames(e) => Claimable(e.body.name))
Checked(e) == e.body.name # NoName /\ (Renames(e) => ~recent /\ Claimable(e.body.name))

Becomes(e, e1) == edits' = (edits \ {e}) \cup {e1}
NotOnServer == UNCHANGED <<form, outside, fieldVars, saveVars>>

CheckEdit(e) ==
  /\ e.phase = "sent"
  /\ Becomes(e, [e EXCEPT !.phase = IF Checked(e) THEN "checked" ELSE "refused",
                          !.renames = Renames(e)])
  /\ together' = (together \/ reserving # NoName \/ \E f \in edits \ {e} : f.phase = "checked")
  /\ NotOnServer /\ UNCHANGED <<row, recent, others, reservation, reserving, renames>>

RowMerged(r, e) ==
  [name |-> IF e.renames THEN e.body.name ELSE r.name,
   bio |-> IF e.body.bio = Empty THEN r.bio ELSE e.body.bio]

WriteEdit(e) ==
  /\ e.phase = "checked"
  /\ IF e.renames /\ e.body.name \in others
     THEN Becomes(e, [e EXCEPT !.phase = "refused"]) /\ UNCHANGED <<row, recent, renames>>
     ELSE /\ Becomes(e, [e EXCEPT !.phase = "written"]) /\ row' = RowMerged(row, e)
          /\ recent' = (recent \/ e.renames)
          /\ renames' = IF e.renames THEN renames + 1 ELSE renames
  /\ NotOnServer /\ UNCHANGED <<others, reservation, reserving, together>>

(* The handler reads the profile for its answer. *)
ReadBack(e) ==
  /\ e.by = "form" /\ e.phase = "written"
  /\ Becomes(e, [e EXCEPT !.phase = "answered", !.seen = row])
  /\ NotOnServer /\ UNCHANGED rowVars

Outside == outside < MaxOutside /\ outside' = outside + 1
OutsideOnly == Outside /\ UNCHANGED <<form, edits, fieldVars, saveVars>>

WeekPasses ==
  /\ recent /\ recent' = FALSE /\ renames' = 0
  /\ OutsideOnly /\ UNCHANGED <<row, others, reservation, reserving, together>>

OtherClaims(n) ==
  /\ n # row.name /\ reservation[n] = "none" /\ n \notin ShortNames \cup others
  /\ others' = others \cup {n}
  /\ OutsideOnly /\ UNCHANGED <<row, recent, reservation, reserving, renames, together>>

(* An administrator's reservation looks for a holder first. *)
CheckReservation(n) ==
  /\ reserving = NoName /\ n # row.name /\ n \notin others /\ reserving' = n
  /\ together' = (together \/ \E e \in edits : e.phase = "checked")
  /\ OutsideOnly /\ UNCHANGED <<row, recent, others, reservation, renames>>

Reserve(whose) ==
  /\ reserving # NoName /\ reservation' = [reservation EXCEPT ![reserving] = whose]
  /\ reserving' = NoName
  /\ NotOnServer /\ UNCHANGED <<edits, row, recent, others, renames, together>>

DeleteReservation(n) ==
  /\ reservation[n] # "none" /\ reservation' = [reservation EXCEPT ![n] = "none"]
  /\ OutsideOnly /\ UNCHANGED <<row, recent, others, reserving, renames, together>>

NewEdit(by, b) == [by |-> by, body |-> b, phase |-> "sent", renames |-> FALSE, seen |-> NoProfile]

(* The user's other device. *)
EditElsewhere(b) ==
  /\ Outside /\ Cardinality(edits) < MaxEdits
  /\ edits' = edits \cup {NewEdit("elsewhere", b)} /\ promise' = Blank
  /\ UNCHANGED <<form, rowVars, fieldVars, stage, body, loads>>

EndElsewhere(e) ==
  /\ e.by = "elsewhere" /\ e.phase \in {"written", "refused"} /\ edits' = edits \ {e}
  /\ NotOnServer /\ UNCHANGED rowVars

-----------------------------------------------------------------------------
(* The form.  The mobile ones take the profile once; the web's take every    *)
(* profile that comes: sign-up into empty fields only, settings over all.    *)
Text(r) == [name |-> r.name, bio |-> r.bio]
Refilled(r) ==
  [name |-> IF fields.name = NoName THEN r.name ELSE fields.name,
   bio |-> IF fields.bio = Empty THEN r.bio ELSE fields.bio]

Filled(r) ==
  CASE form.takes = "nothing" -> fields
    [] form.takes = "what is empty" -> Refilled(r)
    [] form.takes = "all" -> Text(r)

Comes(r) ==
  profile' = r /\ fields' = Filled(r) /\ touched' = (touched /\ form # Settings)

Leaves == stage' = "left" /\ fields' = Blank /\ touched' = FALSE

TypeField(f) ==
  /\ stage # "left" /\ f # fields /\ fields' = f /\ touched' = TRUE
  /\ UNCHANGED <<form, outside, edits, rowVars, profile, saveVars>>

(* Save: mobile first makes the wallet and uploads the avatar.  What is sent *)
(* was taken from the form at the press; settings check nothing.             *)
Sends(b) ==
  /\ Cardinality(edits) < MaxEdits
  /\ stage' = "patching" /\ edits' = edits \cup {NewEdit("form", b)}

Submitted ==
  /\ stage = "filling"
  /\ form # Settings => fields.name # NoName
  /\ touched' = FALSE
  /\ promise' = IF edits = {} /\ loads["other"] = NotLoading THEN fields ELSE Blank
  /\ IF IsMobile THEN stage' = "preparing" /\ body' = fields /\ UNCHANGED edits
     ELSE Sends(fields) /\ UNCHANGED body
  /\ UNCHANGED <<form, outside, rowVars, profile, fields, loads>>

Prepared ==
  /\ stage = "preparing" /\ Sends(body) /\ body' = Blank
  /\ UNCHANGED <<form, outside, rowVars, fieldVars, loads, promise>>

PrepareFails ==
  /\ stage = "preparing" /\ stage' = "filling" /\ body' = Blank /\ promise' = Blank
  /\ UNCHANGED <<form, outside, edits, rowVars, fieldVars, loads>>

LoadAsked == [phase |-> "asked"]

SaveAnswered(e) ==
  /\ e.by = "form" /\ e.phase = "answered" /\ edits' = edits \ {e}
  /\ stage' = "refreshing" /\ loads' = [loads EXCEPT !["save"] = LoadAsked]
  /\ IF IsMobile THEN Comes(e.seen) ELSE UNCHANGED fieldVars
  /\ UNCHANGED <<form, outside, rowVars, body, promise>>

SaveRefused(e) ==
  /\ e.by = "form" /\ e.phase = "refused" /\ edits' = edits \ {e}
  /\ stage' = "filling" /\ promise' = Blank
  /\ UNCHANGED <<form, outside, rowVars, fieldVars, body, loads>>

(* The answer is lost, or sign-up is cancelled: the edit goes on unattended. *)
Unattended(e) ==
  [e EXCEPT !.by = "elsewhere", !.phase = IF @ = "answered" THEN "written" ELSE @,
            !.seen = NoProfile]

SaveLost(e) ==
  /\ Outside /\ e.by = "form" /\ Becomes(e, Unattended(e))
  /\ stage' = "filling" /\ promise' = Blank
  /\ UNCHANGED <<form, rowVars, fieldVars, body, loads>>

CancelSignup ==
  /\ IsSignup /\ stage # "left" /\ Leaves /\ profile' = NoProfile
  /\ edits' = {Unattended(e) : e \in edits}
  /\ body' = Blank /\ promise' = Blank /\ loads' = [l \in DOMAIN loads |-> NotLoading]
  /\ UNCHANGED <<form, outside, rowVars>>

-----------------------------------------------------------------------------
(* The other load: the app comes to the foreground, or a privacy switch of   *)
(* the settings was saved.                                                   *)
LoadOther ==
  /\ Outside /\ form # WebSignup /\ stage # "left" /\ loads["other"] = NotLoading
  /\ loads' = [loads EXCEPT !["other"] = LoadAsked] /\ promise' = Blank
  /\ UNCHANGED <<form, edits, rowVars, fieldVars, stage, body>>

AnswerLoad(l) ==
  /\ loads[l] = LoadAsked /\ loads' = [loads EXCEPT ![l] = [phase |-> "answered", seen |-> row]]
  /\ UNCHANGED <<form, outside, edits, rowVars, fieldVars, stage, body, promise>>

(* The save's own load ends it, and all forms but the settings are left.     *)
LoadEnds(l) ==
  /\ loads[l].phase = "answered" /\ loads' = [loads EXCEPT ![l] = NotLoading]
  /\ IF l = "save" /\ form # Settings THEN Leaves /\ profile' = loads[l].seen
     ELSE /\ Comes(loads[l].seen)
          /\ stage' = IF l = "save" THEN "filling" ELSE stage
  /\ UNCHANGED <<form, outside, edits, rowVars, body, promise>>

(* Without a profile the web shows its sign-up instead. *)
LoadFails(l) ==
  /\ loads[l] # NotLoading /\ loads' = [loads EXCEPT ![l] = NotLoading]
  /\ IF l = "save" \/ ~IsMobile THEN Leaves ELSE UNCHANGED <<fields, touched, stage>>
  /\ profile' = IF IsMobile THEN profile ELSE NoProfile
  /\ UNCHANGED <<form, outside, edits, rowVars, body, promise>>

ProfileNext ==
  \/ \E e \in edits : \/ CheckEdit(e) \/ WriteEdit(e) \/ ReadBack(e) \/ EndElsewhere(e)
                      \/ SaveAnswered(e) \/ SaveRefused(e) \/ SaveLost(e)
  \/ \E n \in Names : \/ EditElsewhere([name |-> n, bio |-> Empty])
                      \/ OtherClaims(n) \/ CheckReservation(n) \/ DeleteReservation(n)
  \/ \E whose \in Reservations \ {"none"} : Reserve(whose)
  \/ \E n \in Names \cup {NoName} : TypeField([fields EXCEPT !.name = n])
  \/ \E b \in {Empty, "x"} : TypeField([fields EXCEPT !.bio = b])
  \/ \E l \in DOMAIN loads : AnswerLoad(l) \/ LoadEnds(l) \/ LoadFails(l)
  \/ WeekPasses \/ Submitted \/ Prepared \/ PrepareFails \/ CancelSignup \/ LoadOther

-----------------------------------------------------------------------------
(* A user's name changes at most once a week, is nobody else's and is        *)
(* reserved for nobody else, unless an edit was checked while another, or a  *)
(* reservation, was checked and not written.  Once a save was answered and   *)
(* read again, with no other edit or load meanwhile, the server holds what   *)
(* was in the form when it was pressed, a text that was emptied excepted,    *)
(* and the client and the settings show what the server holds, but for what  *)
(* is touched after (store.UpdateMe; onboarding.tsx submit; web onboarding and *)
(* settings effects on me).                                                  *)
ProfileSound ==
  /\ row.name \notin others
  /\ ~together => /\ renames <= 1
                  /\ row.name # NoName => reservation[row.name] # "other"
  /\ promise # Blank /\ stage \in {"filling", "left"} =>
       /\ row.name = promise.name /\ promise.bio \in {row.bio, Empty}
       /\ profile \in {row, NoProfile}
       /\ form = Settings /\ stage = "filling" /\ ~touched => fields = Text(profile)
=============================================================================
