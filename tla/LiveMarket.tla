----------------------------- MODULE LiveMarket -----------------------------
(* A market on the screen: its page, its card in a list and its order book,  *)
(* while the indexer mirrors the chain and the expiry sweep settles it.  A   *)
(* view is loaded, and kept live by frames that are not sent again: the      *)
(* mobile page lays what it hears over what it loaded, the card starts from  *)
(* its list's row and hears only while expanded, the web loads again.  One   *)
(* price stands for both sides and, in a book, for the levels.               *)
EXTENDS Integers, Sequences, FiniteSets

CONSTANTS
  AskPrices,           \* prices a taker can be asked
  MaxEvents       \* bound: events of the market, and connections lost

ASSUME LiveMarketAssumption == AskPrices \subseteq 1 .. 99 /\ MaxEvents \in Nat

VARIABLES
  view,           \* which view
  chain,          \* the market: its ask and whether it is open, asked for or settled
  marketRow,      \* its row in the database
  events,         \* counter behind the bound
  undone,         \* events of the chain no indexer has taken
  refreshing,     \* of each indexer: the price it read, until it is published
  frames,         \* the channel's frames on the way to the view
  hears,          \* the view is subscribed
  opened,         \* the card is expanded
  data,           \* what was loaded, Unread before
  overlay,        \* mobile page: what was heard, laid over the data
  load,           \* the load under way
  broken,         \* the last load failed
  settling,       \* the card's own request to settle
  heard,          \* history: the view heard of the expiry
  interleaved,    \* history: the last refreshes were under way together
  unseen,         \* history: a price was published that the view did not hear
  fetched         \* history: what the last load brought

serverVars == <<chain, marketRow, events, undone, refreshing>>
viewVars == <<opened, data, overlay, load, broken, settling, heard, fetched>>
liveVars == <<view, serverVars, frames, hears, viewVars, interleaved, unseen>>

NoAsk == 0
Absent == -1
Indexers == {1, 2}
Calm == [at |-> "nothing"]
Unread == [status |-> "unread"]
NotAsked == [phase |-> "none"]

MobilePage == [app |-> "mobile", of |-> "page"]
MobileCard == [app |-> "mobile", of |-> "card"]
MobileBook == [app |-> "mobile", of |-> "book"]
WebPage == [app |-> "web", of |-> "page"]
WebBook == [app |-> "web", of |-> "book"]

Row(a, s) == [ask |-> a, status |-> s]
Tradable == {"OPEN", "SETTLING"}
NothingHeard == Row(Absent, "absent")

LiveInit ==
  /\ view \in {MobilePage, MobileCard, MobileBook, WebPage, WebBook}
  /\ chain \in [ask : AskPrices \cup {NoAsk}, status : {"open"}]
  /\ marketRow = Row(chain.ask, "OPEN")
  /\ events = 0 /\ undone = {} /\ refreshing = [i \in Indexers |-> Calm]
  /\ frames = <<>> /\ hears = FALSE
  /\ opened \in IF view = MobileCard THEN BOOLEAN ELSE {FALSE}
  /\ data = IF view = MobileCard THEN marketRow ELSE Unread
  /\ load = IF view = MobileCard THEN NotAsked ELSE [phase |-> "asked"]
  /\ overlay = NothingHeard /\ broken = FALSE /\ settling = "no"
  /\ heard = FALSE /\ interleaved = FALSE /\ unseen = FALSE /\ fetched = Unread

-----------------------------------------------------------------------------
(* The chain: the book changes, settlement is requested, the market settles. *)
Event == events < MaxEvents /\ events' = events + 1
OnChain ==
  /\ Event
  /\ UNCHANGED <<view, marketRow, refreshing, frames, hears, viewVars, interleaved, unseen>>

Trade(a) ==
  /\ a # chain.ask /\ chain.status # "settled" /\ "book" \notin undone
  /\ chain' = [chain EXCEPT !.ask = a] /\ undone' = undone \cup {"book"} /\ OnChain

RequestSettlement ==
  /\ chain.status = "open" /\ chain' = [chain EXCEPT !.status = "requested"]
  /\ undone' = undone \cup {"requested"} /\ OnChain

SettleOnChain ==
  /\ chain.status = "requested" /\ chain' = [chain EXCEPT !.status = "settled"]
  /\ undone' = undone \cup {"settled"} /\ OnChain

-----------------------------------------------------------------------------
(* A frame reaches the views subscribed when it is published. *)
Publish(f) ==
  /\ frames' = IF hears THEN Append(frames, f) ELSE frames
  /\ unseen' = (unseen \/ (~hears /\ f.type = "delta"))
  /\ load' = IF ~hears /\ f.type = "delta" /\ load.phase = "read"
             THEN [load EXCEPT !.late = TRUE] ELSE load

(* An event goes to one instance, whichever takes it first. *)
Taken(e) == e \in undone /\ undone' = undone \ {e} /\ UNCHANGED <<view, chain, events, hears>>
ByIndexer == UNCHANGED <<opened, data, overlay, broken, settling, heard, fetched>>

(* The price is read from the chain, written to the row and published, three *)
(* steps another instance's may cross.                                       *)
BeginRefresh(i) ==
  /\ Taken("book") /\ refreshing[i] = Calm /\ \A j \in 1 .. i - 1 : refreshing[j] # Calm
  /\ refreshing' = [refreshing EXCEPT ![i] = [at |-> "read", ask |-> chain.ask]]
  /\ interleaved' = \E j \in Indexers \ {i} : refreshing[j] # Calm
  /\ UNCHANGED <<marketRow, frames, unseen, load>> /\ ByIndexer

WritePrice(i) ==
  /\ refreshing[i].at = "read"
  /\ refreshing' = [refreshing EXCEPT ![i].at = "written"]
  /\ marketRow' = [marketRow EXCEPT !.ask = refreshing[i].ask]
  /\ UNCHANGED <<view, chain, events, undone, frames, hears, interleaved, unseen, load>>
  /\ ByIndexer

PublishPrice(i) ==
  /\ refreshing[i].at = "written" /\ refreshing' = [refreshing EXCEPT ![i] = Calm]
  /\ Publish([type |-> "delta", ask |-> refreshing[i].ask])
  /\ UNCHANGED <<view, chain, marketRow, events, undone, hears, interleaved>> /\ ByIndexer

(* The status is written whatever it was; the frame that tells of it has a   *)
(* type no view listens for.                                                 *)
OnSettlementRequested ==
  /\ Taken("requested") /\ marketRow' = [marketRow EXCEPT !.status = "SETTLING"]
  /\ UNCHANGED <<refreshing, frames, interleaved, unseen, load>> /\ ByIndexer

OnMarketSettled ==
  /\ Taken("settled") /\ marketRow' = [marketRow EXCEPT !.status = "SETTLED"]
  /\ UNCHANGED <<refreshing, frames, interleaved, unseen, load>> /\ ByIndexer

(* The sweep settles what is past due, half to each side. *)
ExpireDue ==
  /\ Event /\ marketRow.status \in Tradable
  /\ marketRow' = [marketRow EXCEPT !.status = "SETTLED"]
  /\ Publish([type |-> "update", status |-> "SETTLED"])
  /\ UNCHANGED <<view, chain, undone, refreshing, hears, interleaved>> /\ ByIndexer

-----------------------------------------------------------------------------
(* The view's connection: what is on its way is lost with it.                *)
OnConnection ==
  UNCHANGED <<view, chain, marketRow, undone, refreshing, data, overlay, broken, settling, heard,
              interleaved, fetched>>

Listens == view # MobileCard \/ opened

Subscribe ==
  /\ Listens /\ ~hears /\ hears' = TRUE
  /\ UNCHANGED <<events, frames, opened, load, unseen>> /\ OnConnection

Deltas(fs) == \E k \in DOMAIN fs : fs[k].type = "delta"
Lost(fs) ==
  /\ unseen' = (unseen \/ Deltas(fs))
  /\ load' = IF Deltas(fs) /\ load.phase = "read" THEN [load EXCEPT !.late = TRUE] ELSE load

Disconnect ==
  /\ Event /\ hears /\ hears' = FALSE /\ frames' = <<>> /\ Lost(frames)
  /\ UNCHANGED opened /\ OnConnection

(* The hub drops what does not fit the connection's buffer. *)
DropFrame ==
  /\ Event /\ Len(frames) > 1 /\ frames' = SubSeq(frames, 1, Len(frames) - 1)
  /\ Lost(<<frames[Len(frames)]>>) /\ UNCHANGED <<hears, opened>> /\ OnConnection

Expand ==
  /\ view = MobileCard /\ ~opened /\ opened' = TRUE
  /\ UNCHANGED <<events, frames, hears, load, unseen>> /\ OnConnection

Collapse ==
  /\ Event /\ opened /\ opened' = FALSE /\ hears' = FALSE /\ frames' = <<>>
  /\ unseen' = (unseen \/ Deltas(frames)) /\ UNCHANGED load /\ OnConnection

-----------------------------------------------------------------------------
(* What a frame does to a view.  A price that is not in the payload keeps    *)
(* the one heard before; on a page that heard none it hides the loaded one.  *)
HeardFirst(a, before) == IF before # Absent THEN before ELSE a
HeardAsk(a, before) == IF a # NoAsk THEN a ELSE IF before = Absent THEN NoAsk ELSE before

Again == load' = IF data = Unread /\ load # NotAsked THEN load ELSE [phase |-> "asked"]

HearDelta(f) ==
  /\ f.type = "delta"
  /\ CASE view = MobilePage ->
            overlay' = [overlay EXCEPT !.ask = HeardAsk(f.ask, @)] /\ UNCHANGED data
       [] view = MobileCard ->
            data' = [data EXCEPT !.ask = HeardAsk(f.ask, @)] /\ UNCHANGED overlay
       [] view = MobileBook ->
            data' = (IF data = Unread THEN Row(NoAsk, "OPEN") ELSE data) /\ UNCHANGED overlay
       [] OTHER -> UNCHANGED <<data, overlay>>
  /\ unseen' = (unseen /\ (f.ask = NoAsk \/ f.ask # marketRow.ask \/ Deltas(Tail(frames))))
  /\ UNCHANGED <<load, heard>>

HearUpdate(f) ==
  /\ f.type = "update"
  /\ heard' = (heard \/ data # Unread \/ view = MobilePage) /\ UNCHANGED unseen
  /\ CASE view = MobilePage ->
            /\ overlay' = [overlay EXCEPT !.status = f.status]
            /\ Again /\ UNCHANGED data
       [] view = MobileCard ->
            data' = [data EXCEPT !.status = f.status] /\ UNCHANGED <<overlay, load>>
       [] view = WebPage -> Again /\ UNCHANGED <<data, overlay>>
       [] OTHER -> UNCHANGED <<data, overlay, load>>

HearFrame ==
  /\ frames # <<>> /\ frames' = Tail(frames)
  /\ HearDelta(Head(frames)) \/ HearUpdate(Head(frames))
  /\ UNCHANGED <<view, serverVars, hears, opened, broken, settling, interleaved, fetched>>

-----------------------------------------------------------------------------
(* Loads.  Asked for again after the user's own order or settlement; while   *)
(* nothing is loaded the load under way is joined, later it is given up.     *)
OnLoad == UNCHANGED <<view, serverVars, frames, hears, opened, settling, heard, interleaved>>

LoadAgain ==
  /\ view \in {MobilePage, WebPage, WebBook} /\ Again /\ broken' = (broken /\ data # Unread)
  /\ UNCHANGED <<data, overlay, unseen, fetched>> /\ OnLoad

LoadRead ==
  /\ load.phase = "asked" /\ load' = [phase |-> "read", seen |-> marketRow, late |-> FALSE]
  /\ UNCHANGED <<data, overlay, broken, unseen, fetched>> /\ OnLoad

ViewLoaded ==
  /\ load.phase = "read" /\ load' = NotAsked /\ broken' = FALSE
  /\ data' = load.seen
  /\ fetched' = IF view \in {MobileBook, WebBook} THEN load.seen ELSE fetched
  /\ unseen' = IF overlay.ask = Absent /\ ~Deltas(frames) THEN load.late ELSE unseen
  /\ UNCHANGED overlay /\ OnLoad

ViewFails ==
  /\ load # NotAsked /\ load' = NotAsked /\ broken' = TRUE
  /\ UNCHANGED <<data, overlay, unseen, fetched>> /\ OnLoad

(* The card's settlement: the server takes it while the row is open, the     *)
(* card shows it when the answer comes.                                      *)
OnCard ==
  UNCHANGED <<view, serverVars, frames, hears, opened, overlay, load, broken, heard, fetched,
              interleaved, unseen>>

SettleFromCard ==
  /\ view = MobileCard /\ settling = "no" /\ data.status \in Tradable /\ settling' = "asked"
  /\ UNCHANGED data /\ OnCard

SettleTaken ==
  /\ settling = "asked" /\ settling' = IF marketRow.status = "OPEN" THEN "taken" ELSE "no"
  /\ UNCHANGED data /\ OnCard

SettleAnswered ==
  /\ settling = "taken" /\ settling' = "done" /\ data' = [data EXCEPT !.status = "SETTLING"]
  /\ OnCard

LiveNext ==
  \/ \E a \in AskPrices \cup {NoAsk} : Trade(a)
  \/ RequestSettlement \/ SettleOnChain
  \/ \E i \in Indexers : BeginRefresh(i) \/ WritePrice(i) \/ PublishPrice(i)
  \/ OnSettlementRequested \/ OnMarketSettled \/ ExpireDue
  \/ Subscribe \/ Disconnect \/ DropFrame \/ Expand \/ Collapse \/ HearFrame
  \/ LoadAgain \/ LoadRead \/ ViewLoaded \/ ViewFails
  \/ SettleFromCard \/ SettleTaken \/ SettleAnswered

-----------------------------------------------------------------------------
Over(d) ==
  [d EXCEPT !.ask = IF overlay.ask = Absent THEN @ ELSE overlay.ask,
            !.status = IF overlay.status = "absent" THEN @ ELSE overlay.status]
ViewShown == IF data = Unread \/ (broken /\ view # MobileCard) THEN Unread ELSE Over(data)

Quiet ==
  /\ undone = {} /\ \A i \in Indexers : refreshing[i] = Calm
  /\ frames = <<>> /\ load = NotAsked /\ settling \in {"no", "done"}

(* When nothing is under way, the mobile page and card show the price the    *)
(* chain has, unless the ask has gone, a price was published that they did   *)
(* not hear, or two instances' refreshes crossed.  A view that shows         *)
(* something and heard of the expiry does not offer to trade, unless a       *)
(* settlement was requested at the same time.  The books show the levels     *)
(* they loaded, whatever frames came (mobile market/[id].tsx and             *)
(* MarketCard.tsx book.delta and market.update; OrderBook.tsx; the web's     *)
(* page invalidating its query; indexer.refreshBook).                        *)
LiveSound ==
  Quiet /\ ViewShown # Unread =>
    /\ view \in {MobilePage, MobileCard} /\ ~unseen /\ ~interleaved =>
         marketRow.ask = chain.ask /\ (ViewShown.ask = chain.ask \/ chain.ask = NoAsk)
    /\ heard /\ view \in {MobilePage, MobileCard, WebPage} =>
         ViewShown.status = "SETTLED" \/ chain.status # "open" \/ settling = "done"
    /\ view \in {MobileBook, WebBook} /\ fetched # Unread => ViewShown.ask = fetched.ask
=============================================================================
