---------------------------- MODULE Conversation ----------------------------
(* A thread of messages on screen: what the first page, older pages, the     *)
(* socket and the answer to a send bring in, each when it comes.  A message  *)
(* is its place in the thread; the backend stores it, tells the channel, and *)
(* answers the sender, in this order, and each of these arrives on its own.  *)
(*                                                                           *)
(* The mobile screen edits one list, newest first.  The web page keeps what  *)
(* it fetched and what came live apart and shows the two merged.             *)
EXTENDS Naturals, Sequences, FiniteSets, SequencesExt

CONSTANTS
  OldMessages,    \* messages the thread has when the screen opens
  MaxMessages,    \* bound: messages of the thread
  PageSize        \* limit of a page

ASSUME ConversationAssumption ==
  /\ OldMessages \in Nat /\ MaxMessages \in Nat /\ PageSize \in Nat \ {0}

VARIABLES
  client,         \* "mobile" or "web"
  stored,      \* messages of the thread: 1 .. stored
  loaded,      \* the first page was asked for
  listening,   \* the channel's subscription is in effect
  channel,     \* message.new events on their way
  replies,     \* answers on their way: [kind, tag, page]
  sending,     \* 0, Asked, or the stored message whose answer is on its way
  list,        \* mobile: messages, newest first; 0 is the optimistic one
  cursor,      \* mobile: where older pages start, 0 for none
  history,     \* web: the fetched page, oldest first
  live,        \* web: what came by the socket or as an answer, as it came
  doubled,     \* history: messages a known race brings in twice
  missed       \* history: messages a known race leaves out or misplaces

threadVars ==
  <<client, stored, loaded, listening, channel, replies, sending, list, cursor, history, live,
    doubled, missed>>

Optimistic == 0
Asked == MaxMessages + 1

(* The message whose answer is still to come. *)
Awaited == {sending} \ {0, Asked}

(* Messages: newest first, those before the cursor, a page of them.          *)
Page(before) == LET top == before - 1 IN
  [i \in 1 .. (IF top < PageSize THEN top ELSE PageSize) |-> top + 1 - i]

NextCursor(page) == IF Len(page) < PageSize THEN 0 ELSE Last(page)

(* The screen opens on what the list of conversations brought with it.       *)
ConversationInit ==
  /\ client \in {"mobile", "web"} /\ stored = OldMessages
  /\ loaded = FALSE /\ listening = FALSE /\ channel = <<>> /\ sending = 0
  /\ \E seed \in {<<>>, Page(stored + 1)} :
       /\ list = IF client = "mobile" THEN seed ELSE <<>>
       /\ history = IF client = "web" THEN Reverse(seed) ELSE <<>>
  /\ replies = {} /\ cursor = 0 /\ live = <<>>
  /\ doubled = {} /\ missed = {}

-----------------------------------------------------------------------------
(* The backend: a message is stored, then told to who listens.               *)
Store ==
  /\ stored < MaxMessages /\ stored' = stored + 1
  /\ channel' = IF listening THEN Append(channel, stored + 1) ELSE channel
  /\ missed' = IF listening THEN missed ELSE missed \cup {stored + 1}

PeerSends ==
  /\ Store
  /\ UNCHANGED <<client, loaded, listening, replies, sending, list, cursor, history, live, doubled>>

Listen ==
  /\ ~ listening /\ listening' = TRUE
  /\ UNCHANGED <<client, stored, loaded, channel, replies, sending, list, cursor, history, live,
                 doubled, missed>>

(* The socket drops: what is under way is lost, and what comes until it is   *)
(* back.                                                                     *)
Drop ==
  /\ listening /\ listening' = FALSE /\ channel' = <<>>
  /\ missed' = missed \cup ToSet(channel)
  /\ UNCHANGED <<client, stored, loaded, replies, sending, list, cursor, history, live, doubled>>

-----------------------------------------------------------------------------
(* Fetching.  A reply holds the page as it was when the backend read it.     *)

Ask(kind, page) ==
  \E tag \in {1, 2} :
    /\ \A r \in replies : r.tag # tag
    /\ replies' = replies \cup {[kind |-> kind, tag |-> tag, page |-> page]}

InFlight(kind) == \E r \in replies : r.kind = kind

(* load runs when the screen opens; the web query also on focus and after a  *)
(* reaction.                                                                 *)
LoadThread ==
  /\ ~ InFlight("load")
  /\ client = "mobile" => ~ loaded
  /\ Ask("load", Page(stored + 1)) /\ loaded' = TRUE
  /\ UNCHANGED <<client, stored, listening, channel, sending, list, cursor, history, live,
                 doubled, missed>>

(* What a message still on its way leaves open below a page of newer ones.   *)
Overtaken(page) ==
  {m \in 1 .. NextCursor(page) - 1 : \E late \in ToSet(channel) \cup Awaited : late <= m}

(* The page takes the place of the list, and of what came in meanwhile.      *)
Loaded(r) ==
  /\ client = "mobile" /\ r.kind = "load" /\ replies' = replies \ {r}
  /\ list' = r.page /\ cursor' = NextCursor(r.page)
  /\ missed' = missed \cup {m \in ToSet(list) : \A i \in DOMAIN r.page : m > r.page[i]}
                    \cup Overtaken(r.page)
  /\ doubled' = doubled \cup (ToSet(r.page) \cap Awaited)
  /\ UNCHANGED <<client, stored, loaded, listening, channel, sending, history, live>>

Refetched(r) ==
  /\ client = "web" /\ r.kind = "load" /\ replies' = replies \ {r}
  /\ history' = Reverse(r.page)
  /\ UNCHANGED <<client, stored, loaded, listening, channel, sending, list, cursor, live,
                 doubled, missed>>

(* loadOlder is called again at will: the cursor moves when an answer comes. *)
LoadOlder ==
  /\ client = "mobile" /\ cursor # 0 /\ Ask("older", Page(cursor))
  /\ doubled' = IF InFlight("older") THEN doubled \cup ToSet(Page(cursor)) ELSE doubled
  /\ UNCHANGED <<client, stored, loaded, listening, channel, sending, list, cursor, history, live,
                 missed>>

OlderLoaded(r) ==
  /\ r.kind = "older" /\ replies' = replies \ {r}
  /\ list' = list \o r.page /\ cursor' = NextCursor(r.page)
  /\ UNCHANGED <<client, stored, loaded, listening, channel, sending, history, live,
                 doubled, missed>>

Failed(r) ==
  /\ replies' = replies \ {r}
  /\ UNCHANGED <<client, stored, loaded, listening, channel, sending, list, cursor, history, live,
                 doubled, missed>>

-----------------------------------------------------------------------------
(* Sending and hearing. *)

(* message.new: the mobile list takes a message once, the web keeps all.     *)
WithEventAlways(shown, m) == <<m>> \o shown
WithEvent(shown, m) == IF m \in ToSet(shown) THEN shown ELSE <<m>> \o shown

Hear ==
  /\ channel # <<>> /\ channel' = Tail(channel)
  /\ IF client = "mobile"
     THEN list' = WithEvent(list, Head(channel)) /\ UNCHANGED live
     ELSE live' = Append(live, Head(channel)) /\ UNCHANGED list
  /\ doubled' = IF client = "mobile" THEN doubled \cup ({Head(channel)} \cap Awaited) ELSE doubled
  /\ UNCHANGED <<client, stored, loaded, listening, replies, sending, cursor, history, missed>>

(* The button is off while a send is out; a text shows at once, not media.   *)
Send ==
  /\ sending = 0 /\ stored < MaxMessages /\ sending' = Asked
  /\ list' \in {list} \cup (IF client = "mobile" THEN {<<Optimistic>> \o list} ELSE {})
  /\ UNCHANGED <<client, stored, loaded, listening, channel, replies, cursor, history, live,
                 doubled, missed>>

SendStored ==
  /\ sending = Asked /\ Store /\ sending' = stored + 1
  /\ UNCHANGED <<client, loaded, listening, replies, list, cursor, history, live, doubled>>

WithoutOptimistic(shown) ==
  IF Optimistic \in ToSet(shown)
  THEN RemoveAt(shown, CHOOSE i \in DOMAIN shown : shown[i] = Optimistic)
  ELSE shown

(* The answer: the stored message takes the place of the optimistic one.     *)
Answered ==
  /\ Awaited # {} /\ sending' = 0
  /\ IF client = "mobile"
     THEN list' = <<sending>> \o WithoutOptimistic(list) /\ UNCHANGED live
     ELSE live' = Append(live, sending) /\ UNCHANGED list
  /\ missed' = missed \cup {m \in ToSet(channel) : client = "mobile" /\ m < sending}
  /\ UNCHANGED <<client, stored, loaded, listening, channel, replies, cursor, history, doubled>>

(* The send fails for the screen, stored or not.                             *)
SendFails ==
  /\ sending # 0 /\ sending' = 0
  /\ list' = WithoutOptimistic(list)
  /\ UNCHANGED <<client, stored, loaded, listening, channel, replies, cursor, history, live,
                 doubled, missed>>

-----------------------------------------------------------------------------
ConversationNext ==
  \/ PeerSends \/ Listen \/ Drop \/ LoadThread \/ LoadOlder
  \/ \E r \in replies : Loaded(r) \/ Refetched(r) \/ OlderLoaded(r) \/ Failed(r)
  \/ Hear \/ Send \/ SendStored \/ Answered \/ SendFails

-----------------------------------------------------------------------------
(* The web's list, sorted by time: all that was fetched or came live.        *)
Merged == ToSet(history) \cup ToSet(live)

Shown == IF client = "mobile" THEN ToSet(list) \ {Optimistic} ELSE Merged

(* What the screen shows is a stretch of the thread: newest first, nothing   *)
(* twice, nothing left out but what is on its way, however pages, events and *)
(* answers cross; the optimistic message is there once, while a send is out. *)
(* Six races are known, all but the first of the mobile screen: a message    *)
(* made while the channel was not listened to; one that came while the first *)
(* page was on its way, or is older than all of that page and comes after    *)
(* it; an answer that comes after its own event, or before the events of     *)
(* older messages; a page of older messages asked for twice                  *)
(* (conversation/[id].tsx load, loadOlder, send; web messages/[id] merge).   *)
ThreadSound ==
  /\ client = "mobile" => \A i, j \in DOMAIN list : i < j =>
       \/ list[i] > list[j]
       \/ {list[i], list[j]} \cap (doubled \cup missed) # {}
       \/ list[i] = Optimistic /\ list[j] # Optimistic /\ sending # 0
       \/ list[j] = Optimistic /\ list[i] # Optimistic /\ sending # 0
  /\ \A m \in 1 .. stored :
       (\E a, b \in Shown : a < m /\ m < b) => m \in Shown \cup missed \cup ToSet(channel)
=============================================================================
