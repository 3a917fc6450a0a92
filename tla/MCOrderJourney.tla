--------------------------- MODULE MCOrderJourney ---------------------------
EXTENDS OrderJourney

(* Every surface is a start; only the mobile ones get an order admitted. *)
MCSurfaces ==
  {MobileTradeSheet, MobileMarketCard, WebTradeSheet, WebMarketCard, MobileOpenOrder,
   WebOpenOrder, MobileRedeem, WebRedeem, MobileSettle, WebSettle, WebCreate, MobileSend, WebSend, MobileFund, WebFund}

MCPrices == {40, 60}
=============================================================================
