------------------------------ MODULE OrderCost ------------------------------
(* The cost bound of an order, computed by four parties in token units: the  *)
(* clients that sign it, the gate that admits it and the contract that       *)
(* executes it.  Prices are cents, 1 .. 99.                                  *)
EXTENDS Integers

CONSTANTS
  Unit,   \* token units of one dollar (10^6)
  FeeBps  \* the taker fee (700)

ASSUME OrderCostAssumption == Unit \in Nat \ {0} /\ Unit % 100 = 0 /\ FeeBps \in Nat

CeilDiv(a, b) == (a + b - 1) \div b

(* ceil(bps * shares * p * (100 - p) / 10^8) dollars. *)
TakerFee(shares, price) == CeilDiv(FeeBps * shares * price * (100 - price) * Unit, 100000000)

Escrow(shares, price) == (shares * price * Unit) \div 100

(* maxCostUnits of the mobile client: the fee at the worst price below.      *)
MobileMaxCost(shares, price) ==
  Escrow(shares, price) + TakerFee(shares, IF price < 50 THEN price ELSE 50)

(* maxCostUnits of the web client. *)
WebMaxCost(shares, price) == Escrow(shares, price) + TakerFee(shares, price)

(* EstimateMaxCost of the backend: what the gate requires and what the       *)
(* server-side signer signs.                                                 *)
EstimateMaxCost(shares, price) == Escrow(shares, price) + TakerFee(shares, price)

(* _worstCaseCost of the contract: a unit per share for the rounding of the  *)
(* fee of each fill.                                                         *)
WorstCaseCost(shares, price) ==
  price * shares * (Unit \div 100) + TakerFee(shares, price) + shares
=============================================================================
