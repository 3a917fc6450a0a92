--------------------------- MODULE MCThassaMarkets ---------------------------
(***************************************************************************)
(* Small instances of ThassaMarkets.  A dollar is 4 cents, so that orders  *)
(* have 3 prices: some cross, some do not, and a taker may improve on its  *)
(* price.                                                                  *)
(***************************************************************************)
EXTENDS ThassaMarkets, TLC

CONSTANTS alice, bob, post

\* InitTakerFee of the fee scale, half of each fee to the creator and half to
\* the affiliate, flat fees in token units.
CONSTANTS InitTakerFee, InitFeeShare, InitWithdrawalFee, InitSettlementFee
InitFees ==
  [taker |-> InitTakerFee, creatorShare |-> InitFeeShare,
   affiliateShare |-> InitFeeShare, withdrawal |-> InitWithdrawalFee,
   settlement |-> InitSettlementFee]

AccountSymmetry == Permutations(Accounts)

\* Trading alone: no market is resolved, nothing is paid out.
BookNext == MatchingStep \/ CreateStep \/ TradeStep
BookSpec == Init /\ [][BookNext]_vars /\ WF_vars(MatchingStep)

\* Trading with signed orders while fees change, time passes and free balances
\* are withdrawn.  Only bob places orders directly: the liquidity they meet.
SignedNext ==
  \/ MatchingStep \/ Tick
  \/ \E o \in SignedOrders : CreateMarket(o) \/ PlaceSignedOrder(o) \/ RejectUnfunded(o)
  \/ \E s \in Sides, p \in Prices, n \in Sizes :
       \/ CreateMarketDirect(bob, s, p, n)
       \/ \E m \in Markets : PlaceOrder(bob, m, s, p, n, NoPost)
  \/ \E l \in Levels : \E i \in DOMAIN queue[l] : CancelOrder(l, i)
  \/ \E a \in Accounts, amount \in Amounts : Withdraw(a, amount)
  \/ \E bps \in TakerFees : SetFees([fees EXCEPT !.taker = bps])
  \/ RegisterAffiliatePost(post, bob)
SignedSpec == Init /\ [][SignedNext]_vars

NoSignedOrders == {}

Order(a, m, s, p, n, maxCost, expiry, nonce, value) ==
  [maker |-> a, market |-> m, side |-> s, price |-> p,
   shares |-> n, maxCost |-> maxCost, post |-> NoPost, expiry |-> expiry,
   nonce |-> nonce, value |-> value]

\* An opening order; a taker of three shares that may sweep two levels or two
\* orders of one; one that competes for its nonce, expires and lacks funds; one
\* that follows it and brings no funds of its own.
FewSignedOrders ==
  {Order(bob, 0, "YES", 2, 2, 40, 1, 0, 20),
   [Order(alice, 1, "NO", 2, 3, 60, 1, 0, 40) EXCEPT !.post = post],
   Order(alice, 1, "NO", 3, 3, 60, 0, 0, 20),
   Order(alice, 1, "YES", 1, 1, 20, 1, 1, 0)}

=============================================================================
