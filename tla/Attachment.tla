----------------------------- MODULE Attachment -----------------------------
(* The bet attached to a post: the panel with its side, amount and price,    *)
(* the value the screen keeps of it, and what is signed when the post is     *)
(* sent.  The web panel pushes its fields into the value when one of them    *)
(* changes; the mobile panel writes the value itself.  Amounts are cents.    *)
EXTENDS Integers

CONSTANTS
  Amounts,        \* bound: the amounts typed
  Slides,         \* bound: where the slider is left
  Limits          \* bound: the limit prices typed, any number

ASSUME AttachmentAssumption ==
  Amounts \subseteq Nat /\ Slides \subseteq 1 .. 99 /\ Limits \subseteq Nat

VARIABLES
  editing,        \* the app
  panel,          \* side, amount, slider, limit, advanced
  bet,            \* the value: what is attached
  sent            \* the last bet sent: as shown, as signed

attachmentVars == <<editing, panel, bet, sent>>

NoLimit == 0 - 1
NoBet == [kind |-> "none"]

(* Two markets: one at even prices. *)
Quotes == {[yes |-> 50, no |-> 50], [yes |-> 60, no |-> 40]}
Quoted(quote, side) == IF side = "yes" THEN quote.yes ELSE quote.no
Clamp(price) == IF price < 1 THEN 1 ELSE IF price > 99 THEN 99 ELSE price

(* sharesForSpend and escrowUnits, in cents. *)
SharesFor(amount, price) == amount \div price
Opening(shares, price) == shares * price

PanelPrice(kind, quote, p) ==
  CASE kind = "none" -> 50
    [] kind = "new" -> Clamp(p.slider)
    [] OTHER -> IF p.advanced /\ p.limit # NoLimit THEN Clamp(p.limit)
                ELSE Clamp(Quoted(quote, p.side))

MobilePrice(b) ==
  CASE b.kind = "new" -> b.price
    [] OTHER -> IF b.limit # NoLimit THEN b.limit ELSE Quoted(b.quote, b.side)

(* Side, price and shares as the panel shows them. *)
PanelShown(b, p) ==
  LET price == IF editing = "mobile" THEN MobilePrice(b) ELSE PanelPrice(b.kind, b.quote, p)
  IN [side |-> IF editing = "mobile" THEN b.side ELSE p.side, price |-> price,
      shares |-> SharesFor(p.amount, price)]

(* What is signed for the value. *)
Signed(b) ==
  LET price == IF editing = "mobile" THEN MobilePrice(b) ELSE b.price
  IN [side |-> b.side, price |-> price,
      shares |-> IF editing = "mobile" THEN SharesFor(b.spend, price) ELSE b.shares]

AttachmentInit ==
  /\ editing \in {"mobile", "web"} /\ bet = NoBet /\ sent = NoBet
  /\ panel = [side |-> "yes", amount |-> 1000, slider |-> 50, limit |-> NoLimit, advanced |-> FALSE]

-----------------------------------------------------------------------------
(* Web: the value takes the panel's side, price and shares when one of the   *)
(* three differs from what the last render showed.                           *)
Watched(kind, quote, p) ==
  <<p.side, PanelPrice(kind, quote, p), SharesFor(p.amount, PanelPrice(kind, quote, p))>>
WatchedNotSide(kind, quote, p) ==
  <<"any", PanelPrice(kind, quote, p), SharesFor(p.amount, PanelPrice(kind, quote, p))>>

Depends(kind, quote, p) == Watched(kind, quote, p)

Pushed(b, before, p) ==
  IF before = Depends(b.kind, b.quote, p) THEN b
  ELSE [b EXCEPT !.side = p.side, !.price = PanelShown(b, p).price,
                 !.shares = PanelShown(b, p).shares]

Unattached == Depends("none", [yes |-> 50, no |-> 50], panel)

(* A market or a generated candidate is chosen: always "yes", at the price   *)
(* or 50, and on the web with no shares until the panel pushes its own.      *)
SelectMarket(quote) ==
  /\ bet = NoBet
  /\ IF editing = "web"
     THEN /\ bet' = Pushed([kind |-> "existing", quote |-> quote, side |-> "yes",
                            price |-> quote.yes, shares |-> 0], Unattached, panel)
          /\ UNCHANGED panel
     ELSE /\ bet' = [kind |-> "existing", quote |-> quote, side |-> "yes", spend |-> 1000,
                     limit |-> NoLimit]
          /\ panel' = [panel EXCEPT !.amount = 1000, !.advanced = FALSE]
  /\ UNCHANGED <<editing, sent>>

SelectCandidate ==
  /\ bet = NoBet
  /\ IF editing = "web"
     THEN /\ bet' = Pushed([kind |-> "new", quote |-> [yes |-> 50, no |-> 50], side |-> "yes",
                            price |-> 50, shares |-> 0], Unattached, panel)
          /\ UNCHANGED panel
     ELSE /\ bet' = [kind |-> "new", side |-> "yes", spend |-> 500, price |-> 50]
          /\ panel' = [panel EXCEPT !.amount = 500, !.advanced = FALSE]
  /\ UNCHANGED <<editing, sent>>

(* The side, the amount and the slider stay for the next one on the web. *)
Unselect ==
  /\ bet # NoBet /\ bet' = NoBet
  /\ panel' = IF editing = "web" THEN [panel EXCEPT !.limit = NoLimit, !.advanced = FALSE]
              ELSE panel
  /\ UNCHANGED <<editing, sent>>

(* A field of the web panel. *)
Edit(p) ==
  /\ editing = "web" /\ bet # NoBet /\ panel' = p
  /\ bet' = Pushed(bet, Depends(bet.kind, bet.quote, panel), p)
  /\ UNCHANGED <<editing, sent>>

EditPanel ==
  \/ \E side \in {"yes", "no"} : Edit([panel EXCEPT !.side = side])
  \/ \E amount \in Amounts : Edit([panel EXCEPT !.amount = amount])
  \/ bet.kind = "new" /\ \E slide \in Slides : Edit([panel EXCEPT !.slider = slide])
  \/ bet.kind = "existing" /\ Edit([panel EXCEPT !.advanced = ~@])
  \/ /\ bet.kind = "existing" /\ panel.advanced
     /\ \E limit \in Limits \cup {NoLimit} : Edit([panel EXCEPT !.limit = limit])

(* The mobile panel writes its field into the value it was rendered with. *)
Rewrite(b, p) ==
  /\ editing = "mobile" /\ bet # NoBet /\ bet' = b /\ panel' = p
  /\ UNCHANGED <<editing, sent>>

SetSide(side) == Rewrite([bet EXCEPT !.side = side], panel)
SetSpend(amount) == Rewrite([bet EXCEPT !.spend = amount], [panel EXCEPT !.amount = amount])
Slide(price) == bet.kind = "new" /\ Rewrite([bet EXCEPT !.price = price], panel)

(* One cent up or down, near the market's price (bound). *)
Step(by) ==
  /\ editing = "mobile" /\ bet.kind = "existing" /\ panel.advanced
  /\ LET price == Clamp(MobilePrice(bet) + by) IN
     /\ price - Quoted(bet.quote, bet.side) \in -1 .. 1
     /\ Rewrite([bet EXCEPT !.limit = price], panel)

Unfold == bet.kind = "existing" /\ Rewrite(bet, [panel EXCEPT !.advanced = ~@])

-----------------------------------------------------------------------------
(* The post is sent with what is attached; the web wants shares, and a       *)
(* dollar of escrow for a new market; mobile a dollar spent on one.          *)
AttachmentValid ==
  IF editing = "web"
  THEN bet.shares > 0 /\ (bet.kind = "new" => Opening(bet.shares, bet.price) >= 100)
  ELSE bet.kind = "new" => bet.spend >= 100

SendBet ==
  /\ bet # NoBet /\ AttachmentValid
  /\ sent' = [kind |-> bet.kind, shown |-> PanelShown(bet, panel), signed |-> Signed(bet),
              amount |-> panel.amount]
  /\ UNCHANGED <<editing, panel, bet>>

(* The backend's minimum for the first order of a market. *)
OpeningTaken(first) == Opening(first.shares, first.price) >= 100

AttachmentNext ==
  \/ \E quote \in Quotes : SelectMarket(quote)
  \/ SelectCandidate \/ Unselect \/ EditPanel
  \/ \E side \in {"yes", "no"} : SetSide(side)
  \/ \E amount \in Amounts : SetSpend(amount)
  \/ \E price \in Slides : Slide(price)
  \/ \E by \in {-1, 1} : Step(by)
  \/ Unfold \/ SendBet

-----------------------------------------------------------------------------
(* The bet signed is the bet shown, whatever was chosen, removed and edited  *)
(* before, on the web because a value the panel has not written has no       *)
(* shares and is not sent; a web bet has shares and opens a market with the  *)
(* dollar the backend wants, a mobile one misses it only by the shares that  *)
(* do not divide the amount (AttachMarket.tsx effect on side, priceCents and *)
(* shares; create page attachmentValid; handleCreateMarket).                 *)
BetAsShown ==
  /\ bet # NoBet => Signed(bet) = PanelShown(bet, panel) \/ (editing = "web" /\ bet.shares = 0)
  /\ sent # NoBet =>
       /\ sent.signed = sent.shown
       /\ editing = "web" => sent.signed.shares > 0
       /\ sent.kind = "new" /\ ~OpeningTaken(sent.signed) =>
            editing = "mobile" /\ sent.amount >= 100 /\ sent.amount % sent.signed.price # 0
=============================================================================
