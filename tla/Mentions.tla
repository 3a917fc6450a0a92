------------------------------ MODULE Mentions ------------------------------
(* @-mentions: a caption or comment being typed, the users chosen for it,    *)
(* the mentions sent with it as (user, start, length), and the text rendered *)
(* back.  A character is a one-letter string; a position on the wire counts  *)
(* from 0, so the character at position p is text[p + 1].                    *)
EXTENDS Integers, Sequences, FiniteSets, SequencesExt

CONSTANTS
  MaxText,        \* bound: characters of the text
  ClipAt          \* where a long caption is cut on a card (140)

ASSUME MentionsAssumption == MaxText \in Nat /\ ClipAt \in Nat

VARIABLES
  field,          \* "mobile" or "web"
  text,           \* the text of the input
  caret,          \* the component's caret; NoCaret for a range selection
  token,          \* web: where the "@" being completed is, {} for none
  recorded,       \* drafts, recorded: the users chosen so far
  mentions,       \* web: what the last emit derived
  chosen          \* history: the user chosen by the last change

mentionVars == <<field, text, caret, token, recorded, mentions, chosen>>

NoCaret == -1
Space == " "
Word == {"a", "A"}
Characters == Word \cup {"@", Space}

(* Two users, the one's name a prefix of the other's. *)
MentionUsers == {"u1", "u2"}
Name == [u1 |-> <<"a">>, u2 |-> <<"a", "a">>]
Lower(s) == [i \in DOMAIN s |-> IF s[i] = "A" THEN "a" ELSE s[i]]

(* The "@" at a position does not follow a word character. *)
Delimited(s, at) == at = 0 \/ s[at] \notin Word

(* The greedy "@word" matches of a text. *)
Matches(s) ==
  {m \in [start : 0 .. Len(s) - 1, len : 2 .. Len(s)] :
     /\ m.start + m.len <= Len(s)
     /\ s[m.start + 1] = "@"
     /\ \A k \in 2 .. m.len : s[m.start + k] \in Word
     /\ m.start + m.len = Len(s) \/ s[m.start + m.len + 1] \notin Word}

Slice(s, m) == SubSeq(s, m.start + 1, m.start + m.len)
Handle(u) == <<"@">> \o Name[u]

Of(u, m) == [user |-> u, start |-> m.start, len |-> m.len]
ComputeMentions(s) ==
  {Of(x[1], x[2]) : x \in {y \in recorded \X Matches(s) :
                              Lower(Slice(s, y[2])) = Lower(Handle(y[1]))}}
DeriveMentions(s, users) ==
  {Of(x[1], x[2]) : x \in {y \in users \X Matches(s) :
                              Delimited(s, y[2].start) /\ Slice(s, y[2]) = Handle(y[1])}}

(* The "@" whose word the caret stands in: at most one. *)
ActiveToken(s, c) ==
  {at \in 0 .. c - 1 :
     /\ c <= Len(s) /\ s[at + 1] = "@" /\ Delimited(s, at)
     /\ \A k \in at + 2 .. c : s[k] \in Word}

MentionsInit ==
  /\ field \in {"mobile", "web"}
  /\ text = <<>> /\ caret = 0 /\ token = {} /\ recorded = {} /\ mentions = {}
  /\ chosen = {}

-----------------------------------------------------------------------------
(* Typing.  On mobile the selection arrives in an event of its own, later;   *)
(* the web reads it with the text and derives the mentions again.            *)
Changed(s, c) ==
  /\ text' = s /\ chosen' = {} /\ UNCHANGED <<field, recorded>>
  /\ IF field = "web"
     THEN /\ caret' = c /\ token' = ActiveToken(s, c)
          /\ mentions' = DeriveMentions(s, recorded)
     ELSE UNCHANGED <<caret, token, mentions>>

Type(p, char) ==
  /\ Len(text) < MaxText
  /\ Changed(SubSeq(text, 1, p) \o <<char>> \o SubSeq(text, p + 1, Len(text)), p + 1)

Erase(p) == Changed(SubSeq(text, 1, p - 1) \o SubSeq(text, p + 1, Len(text)), p - 1)

CaretMoves(c) ==
  /\ caret' = c
  /\ token' = IF field = "web" THEN ActiveToken(text, c) ELSE {}
  /\ UNCHANGED <<field, text, recorded, mentions, chosen>>

(* Escape, and the web's input losing its focus. *)
Dismiss ==
  /\ field = "web" /\ token # {} /\ token' = {}
  /\ UNCHANGED <<field, text, caret, recorded, mentions, chosen>>

(* A user of the list is chosen: any user may be on it, as names and display *)
(* names are matched, and on the web it may be an older query's list.        *)
Separator(after) ==
  IF field = "web" \/ ~(after = <<>> \/ Head(after) = Space) THEN <<Space>> ELSE <<>>

Choose(u) ==
  \E at \in IF field = "web" THEN token ELSE ActiveToken(text, caret) :
    LET before == SubSeq(text, 1, at)
        after == SubSeq(text, caret + 1, Len(text))
        head == before \o Handle(u) \o Separator(after)
    IN
    /\ field = "mobile" => caret > at + 1
    /\ Len(head \o after) <= MaxText
    /\ text' = head \o after /\ caret' = Len(head) /\ token' = {}
    /\ recorded' = recorded \cup {u}
    /\ mentions' = IF field = "web" THEN DeriveMentions(text', recorded') ELSE {}
    /\ chosen' = {u} /\ UNCHANGED field

-----------------------------------------------------------------------------
(* What would be sent now: the text without the space around it.             *)
Leading(s) == Cardinality({i \in DOMAIN s : \A k \in 1 .. i : s[k] = Space})
Trailing(s) == Cardinality({i \in DOMAIN s : \A k \in i .. Len(s) : s[k] = Space})
Trimmed(s) == SubSeq(s, Leading(s) + 1, Len(s) - Trailing(s))

ShiftedNot(ms, lead) == ms
Shifted(ms, lead) == {[m EXCEPT !.start = @ - lead] : m \in ms}

WebMentions(s) ==
  {m \in Shifted(mentions, Leading(text)) : m.start >= 0 /\ m.start + m.len <= Len(s)}

Submission ==
  LET s == Trimmed(text) IN
  [text |-> s, mentions |-> IF field = "web" THEN WebMentions(s) ELSE ComputeMentions(s)]

(* The text is taken and the input starts again. *)
Submit ==
  /\ text # <<>> /\ Submission.text # <<>>
  /\ text' = <<>> /\ recorded' = {} /\ mentions' = {} /\ token' = {} /\ chosen' = {}
  /\ caret' = IF field = "web" THEN 0 ELSE caret
  /\ UNCHANGED field

(* The backend's check: at most 50 mentions, their windows inside the text. *)
InText(m, s) == m.start >= 0 /\ m.len > 0 /\ m.start + m.len <= Len(s)
Accepted(s) ==
  /\ Cardinality(s.mentions) <= 50
  /\ \A m \in s.mentions : InText(m, s.text)

(* The text with each mention's slice replaced by its user's name; what      *)
(* overlaps an earlier mention or leaves the text is passed over.            *)
Rendered(s, ms) ==
  LET valid == {m \in ms : InText(m, s)}
      Segment(done, m) ==
        IF m.start < done.cursor THEN done
        ELSE [out |-> done.out \o SubSeq(s, done.cursor + 1, m.start) \o Handle(m.user),
              cursor |-> m.start + m.len]
      all == FoldLeft(Segment, [out |-> <<>>, cursor |-> 0],
                      SetToSortSeq(valid, LAMBDA m, n : m.start < n.start))
  IN all.out \o SubSeq(s, all.cursor + 1, Len(s))

ClipMentions(ms) == {m \in ms : m.start + m.len <= ClipAt}

MentionsNext ==
  \/ \E p \in 0 .. Len(text), char \in Characters : Type(p, char)
  \/ \E p \in DOMAIN text : Erase(p)
  \/ \E c \in {NoCaret} \cup 0 .. Len(text) : CaretMoves(c)
  \/ Dismiss
  \/ \E u \in MentionUsers : Choose(u)
  \/ Submit

-----------------------------------------------------------------------------
(* Whatever was typed, chosen and erased in whatever order, each mention     *)
(* stands in the text sent on its user's name, no two overlap, and every     *)
(* delimited name of a chosen user is one, the user just chosen among them   *)
(* (components/MentionInput.tsx choose, lib/mentions.ts computeMentions,     *)
(* MentionTextarea.tsx deriveMentions).                                      *)
MentionsPlaced ==
  LET s == Submission IN
  /\ \A m \in s.mentions :
       InText(m, s.text) /\ Lower(Slice(s.text, m)) = Lower(Handle(m.user))
  /\ \A m, n \in s.mentions : m = n \/ m.start + m.len <= n.start \/ n.start + n.len <= m.start
  /\ DeriveMentions(s.text, recorded) \subseteq s.mentions
  /\ field = "web" => s.mentions = DeriveMentions(s.text, recorded)
  /\ chosen \subseteq {m.user : m \in s.mentions}

(* And the backend takes them, and the text reads the same when it is        *)
(* rendered, whole or cut (lib/mentions.ts segmentCaption).                  *)
MentionsSound ==
  LET s == Submission
      cut == SubSeq(s.text, 1, ClipAt)
  IN
  /\ MentionsPlaced /\ Accepted(s)
  /\ Lower(Rendered(s.text, s.mentions)) = Lower(s.text)
  /\ Len(s.text) > ClipAt => Lower(Rendered(cut, ClipMentions(s.mentions))) = Lower(cut)
=============================================================================
