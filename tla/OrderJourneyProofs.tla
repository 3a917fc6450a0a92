-------------------------- MODULE OrderJourneyProofs --------------------------
(***************************************************************************)
(* Of an order on its way from the button to the contract: a press reaches *)
(* the handler once and a success is real, for any surface, any number of  *)
(* presses, copies and faults; and by how much the bound a client signs    *)
(* misses the bound the contract wants, for every fee, every number of     *)
(* shares and every price.                                                 *)
(***************************************************************************)
EXTENDS OrderJourney, FiniteSetTheorems, TLAPS

-----------------------------------------------------------------------------
(* The bounds of an order's cost *)

Shares == Nat \ {0}
Cents == 1 .. 99

(* What is charged in hundred-millionths of a dollar's units, before it is   *)
(* rounded up.                                                               *)
FeeParts(shares, p) == FeeBps * shares * p * (100 - p) * Unit

LEMMA FeePartsType ==
  ASSUME NEW shares \in Shares, NEW p \in Cents
  PROVE  FeeParts(shares, p) \in Nat
<1>1. Unit \in Nat /\ FeeBps \in Nat /\ shares \in Nat /\ p \in Nat /\ 100 - p \in Nat
  BY OrderCostAssumption DEF Shares, Cents
<1> DEFINE a == FeeBps * shares
           b == a * p
           c == b * (100 - p)
<1>2. a \in Nat BY <1>1
<1> HIDE DEF a
<1>3. b \in Nat BY <1>1, <1>2
<1> HIDE DEF b
<1>4. c \in Nat BY <1>1, <1>3
<1> HIDE DEF c
<1>5. c * Unit \in Nat BY <1>1, <1>4
<1> QED BY <1>5 DEF FeeParts, a, b, c

(* Rounding up keeps a distance of whole units. *)
LEMMA CeilDistance ==
  ASSUME NEW high \in Nat, NEW low \in Nat, NEW k \in Nat, high >= low + 100000000 * k
  PROVE  CeilDiv(high, 100000000) >= CeilDiv(low, 100000000) + k
BY DEF CeilDiv

LEMMA FeeType ==
  ASSUME NEW shares \in Shares, NEW p \in Cents
  PROVE  TakerFee(shares, p) \in Nat
<1>1. FeeParts(shares, p) \in Nat
  BY FeePartsType
<1>2. \A n \in Nat : CeilDiv(n, 100000000) \in Nat
  BY DEF CeilDiv
<1> QED BY <1>1, <1>2 DEF TakerFee, FeeParts

(* A dollar has whole cents: the clients' escrow is exact, and is what the   *)
(* contract multiplies.                                                      *)
LEMMA EscrowExact ==
  ASSUME NEW shares \in Shares, NEW p \in Cents
  PROVE  /\ Escrow(shares, p) = p * shares * (Unit \div 100)
         /\ Escrow(shares, p) \in Nat
<1> DEFINE cent == Unit \div 100
           pairs == p * shares
<1>1. cent \in Nat /\ Unit = 100 * cent
  BY OrderCostAssumption
<1>2. shares \in Nat /\ p \in Nat
  BY DEF Shares, Cents
<1>3. pairs \in Nat /\ shares * p = pairs
  BY <1>2
<1> HIDE DEF cent, pairs
<1>4. pairs * cent \in Nat
  BY <1>1, <1>3
<1>5. pairs * Unit = 100 * (pairs * cent)
  BY <1>1, <1>3
<1>6. (100 * (pairs * cent)) \div 100 = pairs * cent
  BY <1>4
<1>7. shares * p * Unit = 100 * (pairs * cent)
  BY <1>3, <1>5
<1>8. Escrow(shares, p) = pairs * cent
  BY <1>6, <1>7 DEF Escrow
<1> QED BY <1>4, <1>8 DEF pairs, cent

(* The contract's bound is the estimate of the gate and of the web client,   *)
(* and a token unit for each share.                                          *)
THEOREM WorstCaseIsEstimatePlusShares ==
  ASSUME NEW shares \in Shares, NEW p \in Cents
  PROVE  /\ WorstCaseCost(shares, p) = EstimateMaxCost(shares, p) + shares
         /\ EstimateMaxCost(shares, p) < WorstCaseCost(shares, p)
         /\ WebMaxCost(shares, p) < WorstCaseCost(shares, p)
<1>1. Escrow(shares, p) = p * shares * (Unit \div 100) /\ Escrow(shares, p) \in Nat
  BY EscrowExact
<1>2. TakerFee(shares, p) \in Nat
  BY FeeType
<1>3. shares \in Nat /\ shares > 0
  BY DEF Shares
<1>4. WorstCaseCost(shares, p) = Escrow(shares, p) + TakerFee(shares, p) + shares
  BY <1>1 DEF WorstCaseCost
<1> QED BY <1>1, <1>2, <1>3, <1>4 DEF EstimateMaxCost, WebMaxCost

(* The mobile client signs the fee at 50 cents for a price above it, and so  *)
(* misses the contract's bound at 50 cents and below.                        *)
THEOREM MobileBelowWorstCase ==
  ASSUME NEW shares \in Shares, NEW p \in 1 .. 50
  PROVE  MobileMaxCost(shares, p) < WorstCaseCost(shares, p)
<1>1. p \in Cents
  BY DEF Cents
<1>2. MobileMaxCost(shares, p) = EstimateMaxCost(shares, p)
  BY DEF MobileMaxCost, EstimateMaxCost
<1> QED BY <1>1, <1>2, WorstCaseIsEstimatePlusShares

(* Above 50 cents it covers the contract's bound, if FeeBps * Unit is 10^8   *)
(* or more (700 * 10^6 in the deployment): the fee of one share is then at   *)
(* least a unit lower than at 50 cents.                                      *)
THEOREM MobileCoversAboveHalf ==
  ASSUME NEW shares \in Shares, NEW p \in 51 .. 99, FeeBps * Unit >= 100000000
  PROVE  MobileMaxCost(shares, p) >= WorstCaseCost(shares, p)
<1>1. p \in Cents /\ 50 \in Cents /\ shares \in Nat
  BY DEF Cents, Shares
<1> DEFINE rate == FeeBps * Unit
           volume == p * (100 - p)
<1>2. rate \in Nat
  BY OrderCostAssumption
<1>3. volume \in Nat /\ volume <= 2499
  BY DEF Cents
<1>4. /\ FeeParts(shares, 50) = (rate * shares) * 2500
      /\ FeeParts(shares, p) = (rate * shares) * volume
  BY <1>1, OrderCostAssumption DEF FeeParts
<1> DEFINE flow == rate * shares
<1>5. flow \in Nat /\ flow >= 100000000 * shares
  <2>1. rate >= 100000000
    OBVIOUS
  <2> HIDE DEF rate
  <2> QED BY <1>1, <1>2, <2>1
<1> HIDE DEF rate, flow, volume
<1>6. flow * 2500 >= flow * volume + flow
  BY <1>3, <1>5
<1>7. FeeParts(shares, 50) = flow * 2500 /\ FeeParts(shares, p) = flow * volume
  BY <1>4 DEF flow
<1>8. FeeParts(shares, 50) >= FeeParts(shares, p) + 100000000 * shares
  BY <1>1, <1>3, <1>5, <1>6, <1>7
<1>9. TakerFee(shares, 50) >= TakerFee(shares, p) + shares
  <2>1. FeeParts(shares, 50) \in Nat /\ FeeParts(shares, p) \in Nat
    BY <1>1, FeePartsType
  <2>2. /\ TakerFee(shares, 50) = CeilDiv(FeeParts(shares, 50), 100000000)
        /\ TakerFee(shares, p) = CeilDiv(FeeParts(shares, p), 100000000)
    BY DEF TakerFee, FeeParts
  <2> QED BY <1>1, <1>8, <2>1, <2>2, CeilDistance
<1>10. MobileMaxCost(shares, p) = Escrow(shares, p) + TakerFee(shares, 50)
  BY DEF MobileMaxCost
<1>11. WorstCaseCost(shares, p) = Escrow(shares, p) + TakerFee(shares, p) + shares
  BY <1>1, EscrowExact DEF WorstCaseCost
<1>12. /\ Escrow(shares, p) \in Nat
       /\ TakerFee(shares, p) \in Nat /\ TakerFee(shares, 50) \in Nat
  BY <1>1, EscrowExact, FeeType
<1> QED BY <1>1, <1>9, <1>10, <1>11, <1>12

-----------------------------------------------------------------------------
(* The press and its retries *)

Stages == {"none", "signing", "calling", "ok", "failed"}
Copies == Taps \X Nat
Handlers == [copy : Copies, status : Nat]
Entries == [key : Nat, body : Nat, status : Nat]

ClientTypes ==
  /\ stage \in [Taps -> Stages]
  /\ attempt \in [Taps -> Nat] /\ refKey \in Nat
  /\ wire \subseteq Copies

ServerTypes ==
  /\ key \in [Taps -> Nat] /\ body \in [Taps -> Nat]
  /\ running \subseteq Handlers /\ idem \subseteq Entries
  /\ handled \subseteq Copies /\ applied \subseteq Taps

(* Nothing is on its way, under way or done for a tap before it is pressed:  *)
(* only then are its key and its body still to be chosen.                    *)
Pressed(t) == stage[t] # "none"
WirePressed == \A c \in wire : Pressed(c[1])
ServerPressed ==
  /\ \A r \in running : Pressed(r.copy[1])
  /\ \A c \in handled : Pressed(c[1])
  /\ \A t \in applied : Pressed(t)

(* A key's row comes before its handler and stays, and lets in no other.     *)
KeyOf(r) == key[r.copy[1]]
RowsKept ==
  /\ \A r \in running : \E e \in idem : e.key = KeyOf(r)
  /\ \A c \in handled : \E e \in idem : e.key = key[c[1]]
OneHandler ==
  /\ \A r, q \in running : KeyOf(r) = KeyOf(q) => r = q
  /\ \A r \in running, c \in handled : r.status = 0 => key[c[1]] # KeyOf(r)
  /\ \A c, d \in handled : key[c[1]] = key[d[1]] => c = d

(* A stored 201 stands for an effect of the body stored beside it.           *)
RowsTrue ==
  /\ \A r \in running, e \in idem : e.key = KeyOf(r) => e.body = body[r.copy[1]]
  /\ \A r \in running : r.status = 201 => r.copy[1] \in applied
  /\ \A e \in idem : e.status = 201 => \E u \in applied : body[u] = e.body

MutationInv ==
  /\ ClientTypes /\ ServerTypes /\ WirePressed /\ ServerPressed
  /\ RowsKept /\ OneHandler /\ RowsTrue /\ SuccessIsReal

ServerSame == UNCHANGED <<key, body, running, idem, handled, applied>>
-----------------------------------------------------------------------------
LEMMA MutationInit == Init => MutationInv
<1> SUFFICES ASSUME Init PROVE MutationInv
  OBVIOUS
<1>1. MutationsInit
  BY DEF Init
<1>2. ClientTypes /\ ServerTypes
  BY <1>1 DEF MutationsInit, ClientTypes, ServerTypes, Stages
<1>3. SuccessIsReal
  BY <1>1 DEF MutationsInit, SuccessIsReal
<1> QED BY <1>1, <1>2, <1>3
  DEF MutationInv, MutationsInit, WirePressed, ServerPressed, RowsKept, OneHandler, RowsTrue

(* What a step of the client alone has to keep: a tap stays pressed, and     *)
(* succeeds by an answer only.                                               *)
StagesGoOn == \A t \in Taps : Pressed(t) => stage'[t] # "none"
NoNewSuccess == \A t \in Taps : stage'[t] = "ok" => stage[t] = "ok"

(* A step that leaves the server alone and any success real. *)
LEMMA ServerAlone ==
  ASSUME MutationInv, ClientTypes', WirePressed', StagesGoOn, ServerSame, SuccessIsReal'
  PROVE  MutationInv'
<1>1. ServerTypes'
  BY DEF MutationInv, ServerTypes, ServerSame
<1>2. ServerPressed'
  <2>1. \A r \in running : r.copy[1] \in Taps
    BY DEF MutationInv, ServerTypes, Handlers, Copies
  <2>2. \A c \in handled : c[1] \in Taps
    BY DEF MutationInv, ServerTypes, Copies
  <2>3. \A t \in applied : t \in Taps
    BY DEF MutationInv, ServerTypes
  <2> QED BY <2>1, <2>2, <2>3 DEF MutationInv, ServerPressed, Pressed, StagesGoOn, ServerSame
<1>3. RowsKept' /\ OneHandler' /\ RowsTrue'
  BY DEF MutationInv, RowsKept, OneHandler, RowsTrue, KeyOf, ServerSame
<1> QED BY <1>1, <1>2, <1>3 DEF MutationInv

LEMMA ClientStep ==
  ASSUME MutationInv, ClientTypes', WirePressed', StagesGoOn, NoNewSuccess, ServerSame
  PROVE  MutationInv'
<1>1. SuccessIsReal'
  BY DEF MutationInv, SuccessIsReal, NoNewSuccess, ServerSame
<1> QED BY <1>1, ServerAlone

(* The end of a call. *)
LEMMA EndsKeeps ==
  ASSUME ClientTypes, NEW t \in Taps, NEW result \in {"ok", "failed"}, Ends(t, result)
  PROVE  /\ stage' \in [Taps -> Stages] /\ StagesGoOn
         /\ stage'[t] = result
         /\ \A u \in Taps \ {t} : stage'[u] = stage[u]
BY DEF ClientTypes, Ends, Stages, StagesGoOn, Pressed

(* One more copy on the way, of a tap that is calling. *)
LEMMA SendAgainKeeps ==
  ASSUME ClientTypes, WirePressed, NEW t \in Taps, stage[t] = "calling",
         NEW onWire \in SUBSET wire, SendAgain(t, onWire)
  PROVE  ClientTypes' /\ WirePressed' /\ StagesGoOn /\ NoNewSuccess
<1>1. attempt' \in [Taps -> Nat] /\ attempt[t] + 1 \in Nat
  BY DEF ClientTypes, SendAgain
<1>2. <<t, attempt[t] + 1>> \in Copies /\ <<t, attempt[t] + 1>>[1] = t
  BY <1>1 DEF Copies
<1>3. wire' \subseteq wire \cup {<<t, attempt[t] + 1>>} /\ stage' = stage /\ refKey' = refKey
  BY DEF SendAgain
<1>4. ClientTypes'
  BY <1>1, <1>2, <1>3 DEF ClientTypes
<1>5. WirePressed'
  BY <1>2, <1>3 DEF WirePressed, Pressed
<1> QED BY <1>3, <1>4, <1>5 DEF StagesGoOn, NoNewSuccess, Pressed

(* What an answer does to the client: a success needs a 201. *)
LEMMA AnsweredKeeps ==
  ASSUME ClientTypes, WirePressed, NEW c \in Copies, NEW status, NEW onWire \in SUBSET wire,
         Answered(c, status, onWire)
  PROVE  /\ ClientTypes' /\ WirePressed' /\ StagesGoOn
         /\ \A t \in Taps : stage'[t] = "ok" => stage[t] = "ok" \/ (t = c[1] /\ status = 201)
<1>1. c[1] \in Taps
  BY DEF Copies
<1> DEFINE t == c[1]
<1>2. CASE /\ stage[t] # "calling" \/ attempt[t] # c[2]
           /\ wire' = onWire /\ UNCHANGED <<stage, busy, attempt, refKey>>
  BY <1>2 DEF ClientTypes, WirePressed, Pressed, StagesGoOn
<1>3. CASE stage[t] = "calling" /\ SendAgain(t, onWire)
  BY <1>1, <1>3, SendAgainKeeps DEF NoNewSuccess
<1>4. CASE /\ stage[t] = "calling"
           /\ Ends(t, IF Succeeded(status) THEN "ok" ELSE "failed")
           /\ refKey' = IF Succeeded(status) /\ t \notin old /\ surface.kind = "order" THEN 0 ELSE refKey
           /\ wire' = onWire /\ UNCHANGED attempt
  <2> DEFINE result == IF Succeeded(status) THEN "ok" ELSE "failed"
  <2>1. result \in {"ok", "failed"} /\ (result = "ok" => status = 201)
    BY DEF Succeeded
  <2> HIDE DEF result
  <2>2. Ends(t, result)
    BY <1>4 DEF result
  <2>3. /\ stage' \in [Taps -> Stages] /\ StagesGoOn
        /\ stage'[t] = result
        /\ \A u \in Taps \ {t} : stage'[u] = stage[u]
    BY <1>1, <2>1, <2>2, EndsKeeps
  <2>4. refKey' \in Nat /\ attempt' = attempt /\ wire' \subseteq wire
    BY <1>4 DEF ClientTypes
  <2>5. ClientTypes'
    BY <2>3, <2>4 DEF ClientTypes
  <2>6. WirePressed'
    BY <2>3, <2>4 DEF WirePressed, StagesGoOn, Pressed, ClientTypes, Copies
  <2> QED BY <2>1, <2>3, <2>5, <2>6
<1> QED BY <1>2, <1>3, <1>4 DEF Answered
-----------------------------------------------------------------------------
(* The steps of the surface and the network. *)
LEMMA PressKeeps ==
  ASSUME MutationInv, NEW t \in Taps, Press(t)
  PROVE  MutationInv'
<1>1. /\ stage[t] = "none" /\ stage' = [stage EXCEPT ![t] = "signing"]
      /\ UNCHANGED <<attempt, wire, running, idem, handled, applied>>
  BY DEF Press, serverVars
<1>2. /\ key' \in [Taps -> Nat] /\ refKey' \in Nat
      /\ \A u \in Taps \ {t} : key'[u] = key[u]
  <2>1. t \in Nat
    BY KeyedMutationsAssumption DEF Taps
  <2>2. Keep(t)
    BY DEF Press
  <2> QED BY <2>1, <2>2 DEF Keep, MutationInv, ClientTypes, ServerTypes
<1>3. /\ body' \in [Taps -> Nat]
      /\ \A u \in Taps \ {t} : body'[u] = body[u]
  <2>1. PICK b \in {t} \cup {body[u] : u \in {u \in Taps \ old : u < t /\ surface.kind = "post"}} :
          body' = [body EXCEPT ![t] = b]
    BY DEF Press
  <2>2. b \in Nat
    BY <2>1, KeyedMutationsAssumption DEF Taps, MutationInv, ServerTypes
  <2> QED BY <2>1, <2>2 DEF MutationInv, ServerTypes
<1>4. /\ \A c \in wire : c[1] \in Taps \ {t}
      /\ \A r \in running : r.copy[1] \in Taps \ {t}
      /\ \A c \in handled : c[1] \in Taps \ {t}
      /\ \A u \in applied : u \in Taps \ {t}
  <2>1. /\ \A c \in wire : c[1] \in Taps
        /\ \A c \in handled : c[1] \in Taps
    BY DEF MutationInv, ClientTypes, ServerTypes, Copies
  <2>2. \A r \in running : r.copy[1] \in Taps
    BY DEF MutationInv, ServerTypes, Handlers, Copies
  <2>3. \A u \in applied : u \in Taps
    BY DEF MutationInv, ServerTypes
  <2> QED BY <1>1, <2>1, <2>2, <2>3 DEF MutationInv, WirePressed, ServerPressed, Pressed
<1>5. ClientTypes' /\ ServerTypes'
  BY <1>1, <1>2, <1>3 DEF MutationInv, ClientTypes, ServerTypes, Stages
<1>6. /\ stage'[t] = "signing"
      /\ \A u \in Taps \ {t} : stage'[u] = stage[u]
  BY <1>1 DEF MutationInv, ClientTypes
<1>7. WirePressed' /\ ServerPressed'
  BY <1>1, <1>4, <1>6 DEF MutationInv, WirePressed, ServerPressed, Pressed
<1>8. RowsKept' /\ OneHandler'
  BY <1>1, <1>2, <1>4 DEF MutationInv, RowsKept, OneHandler, KeyOf
<1>9. RowsTrue'
  BY <1>1, <1>2, <1>3, <1>4 DEF MutationInv, RowsTrue, KeyOf
<1>10. SuccessIsReal'
  BY <1>1, <1>3, <1>4, <1>6 DEF MutationInv, SuccessIsReal
<1> QED BY <1>5, <1>7, <1>8, <1>9, <1>10 DEF MutationInv

LEMMA CallKeeps ==
  ASSUME MutationInv, NEW t \in Taps, Call(t)
  PROVE  MutationInv'
<1>1. /\ stage[t] = "signing" /\ stage' = [stage EXCEPT ![t] = "calling"]
      /\ attempt' = [attempt EXCEPT ![t] = 1] /\ wire' = wire \cup {<<t, 1>>}
      /\ UNCHANGED refKey /\ ServerSame
  BY DEF Call, serverVars, ServerSame
<1>2. <<t, 1>> \in Copies /\ <<t, 1>>[1] = t
  BY DEF Copies
<1>3. ClientTypes'
  BY <1>1, <1>2 DEF MutationInv, ClientTypes, Stages
<1>4. stage'[t] = "calling" /\ \A u \in Taps \ {t} : stage'[u] = stage[u]
  BY <1>1 DEF MutationInv, ClientTypes
<1>5. StagesGoOn /\ NoNewSuccess
  BY <1>4 DEF StagesGoOn, NoNewSuccess, Pressed
<1>6. WirePressed'
  BY <1>1, <1>2, <1>4 DEF MutationInv, ClientTypes, WirePressed, Pressed, Copies
<1> QED BY <1>1, <1>3, <1>5, <1>6, ClientStep

LEMMA SignFailsKeeps ==
  ASSUME MutationInv, NEW t \in Taps, SignFails(t)
  PROVE  MutationInv'
<1>1. Ends(t, "failed") /\ UNCHANGED <<attempt, refKey, wire>> /\ ServerSame
  BY DEF SignFails, serverVars, ServerSame
<1>2. /\ stage' \in [Taps -> Stages] /\ StagesGoOn
      /\ stage'[t] = "failed"
      /\ \A u \in Taps \ {t} : stage'[u] = stage[u]
  BY <1>1, EndsKeeps DEF MutationInv
<1>3. ClientTypes' /\ WirePressed' /\ NoNewSuccess
  BY <1>1, <1>2 DEF MutationInv, ClientTypes, WirePressed, StagesGoOn, NoNewSuccess, Pressed, Copies
<1> QED BY <1>1, <1>2, <1>3, ClientStep

LEMMA FetchFailsKeeps ==
  ASSUME MutationInv, NEW t \in Taps, FetchFails(t)
  PROVE  MutationInv'
<1>1. ServerSame /\ stage[t] = "calling"
  BY DEF FetchFails, serverVars, ServerSame
<1>2. PICK onWire \in {wire, wire \ {<<t, attempt[t]>>}} :
        \/ SendAgain(t, onWire)
        \/ Ends(t, "failed") /\ wire' = onWire /\ UNCHANGED <<attempt, refKey>>
  BY DEF FetchFails
<1>3. onWire \in SUBSET wire
  BY <1>2
<1>4. CASE SendAgain(t, onWire)
  BY <1>1, <1>3, <1>4, SendAgainKeeps, ClientStep DEF MutationInv
<1>5. CASE Ends(t, "failed") /\ wire' = onWire /\ UNCHANGED <<attempt, refKey>>
  <2>1. /\ stage' \in [Taps -> Stages] /\ StagesGoOn
        /\ stage'[t] = "failed"
        /\ \A u \in Taps \ {t} : stage'[u] = stage[u]
    BY <1>5, EndsKeeps DEF MutationInv
  <2>2. ClientTypes' /\ WirePressed' /\ NoNewSuccess
    BY <1>3, <1>5, <2>1
      DEF MutationInv, ClientTypes, WirePressed, StagesGoOn, NoNewSuccess, Pressed, Copies
  <2> QED BY <1>1, <2>1, <2>2, ClientStep
<1> QED BY <1>2, <1>4, <1>5

(* Freeing a button or mounting a surface anew. *)
LEMMA SurfaceKeeps ==
  ASSUME MutationInv, Free \/ Remount
  PROVE  MutationInv'
<1>1. UNCHANGED <<stage, attempt, wire>> /\ ServerSame /\ refKey' \in {0, refKey}
  BY DEF Free, Remount, serverVars, ServerSame
<1>2. ClientTypes' /\ WirePressed' /\ StagesGoOn /\ NoNewSuccess
  BY <1>1 DEF MutationInv, ClientTypes, WirePressed, StagesGoOn, NoNewSuccess, Pressed
<1> QED BY <1>1, <1>2, ClientStep
-----------------------------------------------------------------------------
(* The steps of the server. *)
LEMMA ServeKeeps ==
  ASSUME MutationInv, NEW c \in wire, Serve(c)
  PROVE  MutationInv'
<1>1. c \in Copies /\ c[1] \in Taps /\ Pressed(c[1])
  BY DEF MutationInv, ClientTypes, WirePressed, Copies
<1>2. UNCHANGED <<key, body, handled, applied>>
  BY DEF Serve
<1>3. CASE /\ Fresh(key[c[1]])
           /\ idem' = idem \cup {[key |-> key[c[1]], body |-> body[c[1]], status |-> 0]}
           /\ running' = running \cup {[copy |-> c, status |-> 0]}
           /\ wire' = wire \ {c}
           /\ UNCHANGED <<stage, busy, attempt, refKey>>
  <2> DEFINE entry == [key |-> key[c[1]], body |-> body[c[1]], status |-> 0]
             mine == [copy |-> c, status |-> 0]
  <2>1. entry \in Entries /\ entry.key = key[c[1]] /\ entry.body = body[c[1]] /\ entry.status = 0
    BY <1>1 DEF MutationInv, ServerTypes, Entries
  <2>2. mine \in Handlers /\ mine.copy = c /\ mine.status = 0
    BY <1>1 DEF Handlers
  <2> HIDE DEF entry, mine
  <2>3. idem' = idem \cup {entry} /\ running' = running \cup {mine}
    BY <1>3 DEF entry, mine
  <2>4. \A e \in idem : e.key # key[c[1]]
    BY <1>3 DEF Fresh
  <2>5. /\ \A r \in running : KeyOf(r) # key[c[1]]
        /\ \A d \in handled : key[d[1]] # key[c[1]]
    BY <2>4 DEF MutationInv, RowsKept
  <2>6. ClientTypes' /\ ServerTypes'
    BY <1>2, <1>3, <2>1, <2>2, <2>3 DEF MutationInv, ClientTypes, ServerTypes
  <2>7. WirePressed' /\ ServerPressed'
    BY <1>1, <1>2, <1>3, <2>2, <2>3 DEF MutationInv, WirePressed, ServerPressed, Pressed
  <2>8. RowsKept'
    BY <1>2, <2>1, <2>2, <2>3 DEF MutationInv, RowsKept, KeyOf
  <2>9. OneHandler'
    <3>1. KeyOf(mine) = key[c[1]]
      BY <2>2 DEF KeyOf
    <3>2. \A r \in running' : KeyOf(r)' = KeyOf(r)
      BY <1>2 DEF KeyOf
    <3>3. \A r, q \in running' : KeyOf(r) = KeyOf(q) => r = q
      BY <2>3, <2>5, <3>1 DEF MutationInv, OneHandler
    <3>4. \A r \in running', d \in handled : r.status = 0 => key[d[1]] # KeyOf(r)
      BY <2>3, <2>5, <3>1 DEF MutationInv, OneHandler
    <3> QED BY <1>2, <3>2, <3>3, <3>4 DEF MutationInv, OneHandler
  <2>10. RowsTrue'
    <3>1. \A r \in running', e \in idem' : e.key = KeyOf(r) => e.body = body[r.copy[1]]
      BY <2>1, <2>2, <2>3, <2>4, <2>5 DEF MutationInv, RowsTrue, KeyOf
    <3>2. \A r \in running' : r.status = 201 => r.copy[1] \in applied
      BY <2>2, <2>3 DEF MutationInv, RowsTrue
    <3>3. \A e \in idem' : e.status = 201 => \E u \in applied : body[u] = e.body
      BY <2>1, <2>3 DEF MutationInv, RowsTrue
    <3> QED BY <1>2, <3>1, <3>2, <3>3 DEF RowsTrue, KeyOf
  <2>11. SuccessIsReal'
    BY <1>2, <1>3 DEF MutationInv, SuccessIsReal
  <2> QED BY <2>6, <2>7, <2>8, <2>9, <2>10, <2>11 DEF MutationInv
<1>4. ASSUME NEW e \in idem, e.key = key[c[1]], Answered(c, Replay(e, c[1]), wire \ {c}),
             UNCHANGED <<idem, running>>
      PROVE  MutationInv'
  <2>1. /\ ClientTypes' /\ WirePressed' /\ StagesGoOn
        /\ \A t \in Taps : stage'[t] = "ok" => stage[t] = "ok" \/ (t = c[1] /\ Replay(e, c[1]) = 201)
    <3>1. wire \ {c} \in SUBSET wire
      OBVIOUS
    <3> QED BY <1>1, <1>4, <3>1, AnsweredKeeps DEF MutationInv
  <2>2. Replay(e, c[1]) = 201 => \E u \in applied : body[u] = body[c[1]]
    BY DEF Replay, MutationInv, RowsTrue
  <2>3. ServerSame
    BY <1>2, <1>4 DEF ServerSame
  <2>4. SuccessIsReal'
    BY <2>1, <2>2, <2>3 DEF MutationInv, SuccessIsReal, ServerSame
  <2> QED BY <2>1, <2>3, <2>4, ServerAlone
<1> QED BY <1>3, <1>4 DEF Serve

(* What a handler answers 201 it has done. *)
LEMMA OutcomeType ==
  ASSUME NEW outcome \in Outcomes
  PROVE  /\ outcome[1] \in Nat /\ outcome[1] # 0
         /\ outcome[1] = 201 => outcome[2]
<1>1. \/ outcome = <<201, TRUE>> \/ outcome = <<400, FALSE>> \/ outcome = <<500, FALSE>>
      \/ outcome = <<500, TRUE>> \/ outcome = <<503, FALSE>>
  BY Zenon DEF Outcomes
<1>2. CASE outcome = <<201, TRUE>>
  BY <1>2
<1>3. CASE outcome = <<400, FALSE>>
  BY <1>3
<1>4. CASE outcome = <<500, FALSE>>
  BY <1>4
<1>5. CASE outcome = <<500, TRUE>>
  BY <1>5
<1>6. CASE outcome = <<503, FALSE>>
  BY <1>6
<1> QED BY <1>1, <1>2, <1>3, <1>4, <1>5, <1>6

LEMMA HandleKeeps ==
  ASSUME MutationInv, NEW r \in running, NEW outcome \in Outcomes, Handle(r, outcome)
  PROVE  MutationInv'
<1> DEFINE done == [r EXCEPT !.status = outcome[1]]
<1>1. r \in Handlers /\ r.copy \in Copies /\ r.copy[1] \in Taps /\ Pressed(r.copy[1])
  BY DEF MutationInv, ServerTypes, ServerPressed, Handlers, Copies
<1>2. /\ done \in Handlers /\ done.copy = r.copy /\ done.status = outcome[1]
      /\ outcome[1] # 0 /\ (outcome[1] = 201 => outcome[2])
  BY <1>1, OutcomeType DEF Handlers
<1> HIDE DEF done
<1>3. /\ r.status = 0
      /\ running' = (running \ {r}) \cup {done}
      /\ handled' = handled \cup {r.copy}
      /\ applied' = IF outcome[2] THEN applied \cup {r.copy[1]} ELSE applied
      /\ UNCHANGED <<stage, body, attempt, key, refKey, wire, idem>>
  BY DEF Handle, clientVars, done
<1>4. applied \subseteq applied' /\ applied' \subseteq applied \cup {r.copy[1]}
  BY <1>3
<1>5. ClientTypes' /\ ServerTypes'
  BY <1>1, <1>2, <1>3, <1>4 DEF MutationInv, ClientTypes, ServerTypes
<1>6. WirePressed' /\ ServerPressed'
  BY <1>1, <1>2, <1>3, <1>4 DEF MutationInv, WirePressed, ServerPressed, Pressed
<1>7. \A q : KeyOf(q)' = KeyOf(q)
  BY <1>3 DEF KeyOf
<1>8. KeyOf(done) = KeyOf(r)
  BY <1>2 DEF KeyOf
<1>9. RowsKept'
  <2>1. \A q \in running' : \E e \in idem : e.key = KeyOf(q)
    BY <1>3, <1>8 DEF MutationInv, RowsKept
  <2>2. \A c \in handled' : \E e \in idem : e.key = key[c[1]]
    BY <1>3 DEF MutationInv, RowsKept, KeyOf
  <2> QED BY <1>3, <1>7, <2>1, <2>2 DEF RowsKept
<1>10. OneHandler'
  <2>1. \A q \in running \ {r} : KeyOf(q) # KeyOf(r)
    BY DEF MutationInv, OneHandler
  <2>2. \A q, s \in running' : KeyOf(q) = KeyOf(s) => q = s
    BY <1>3, <1>8, <2>1 DEF MutationInv, OneHandler
  <2>3. \A c \in handled : key[c[1]] # key[r.copy[1]]
    BY <1>3 DEF MutationInv, OneHandler, KeyOf
  <2>4. \A q \in running', c \in handled' : q.status = 0 => key[c[1]] # KeyOf(q)
    BY <1>2, <1>3, <2>1 DEF MutationInv, OneHandler, KeyOf
  <2>5. \A c, d \in handled' : key[c[1]] = key[d[1]] => c = d
    BY <1>3, <2>3 DEF MutationInv, OneHandler
  <2> QED BY <1>3, <1>7, <2>2, <2>4, <2>5 DEF OneHandler
<1>11. RowsTrue'
  <2>1. \A q \in running', e \in idem : e.key = KeyOf(q) => e.body = body[q.copy[1]]
    BY <1>2, <1>3, <1>8 DEF MutationInv, RowsTrue
  <2>2. \A q \in running' : q.status = 201 => q.copy[1] \in applied'
    BY <1>2, <1>3, <1>4 DEF MutationInv, RowsTrue
  <2>3. \A e \in idem : e.status = 201 => \E u \in applied' : body[u] = e.body
    BY <1>4 DEF MutationInv, RowsTrue
  <2> QED BY <1>3, <1>7, <2>1, <2>2, <2>3 DEF RowsTrue
<1>12. SuccessIsReal'
  BY <1>3, <1>4 DEF MutationInv, SuccessIsReal
<1> QED BY <1>5, <1>6, <1>9, <1>10, <1>11, <1>12 DEF MutationInv

LEMMA SaveKeeps ==
  ASSUME MutationInv, NEW r \in running, Save(r)
  PROVE  MutationInv'
<1> DEFINE Stored(e) == IF e.key = KeyOf(r) THEN [e EXCEPT !.status = r.status] ELSE e
<1>1. r \in Handlers /\ r.copy \in Copies /\ r.copy[1] \in Taps /\ r.status \in Nat
  BY DEF MutationInv, ServerTypes, Handlers, Copies
<1>2. /\ running' = running \ {r}
      /\ idem' = {Stored(e) : e \in idem} \/ idem' = idem
      /\ Answered(r.copy, r.status, wire)
      /\ UNCHANGED <<body, key, handled, applied>>
  BY DEF Save, KeyOf
<1>3. \A e \in idem : /\ Stored(e) \in Entries
                      /\ Stored(e).key = e.key /\ Stored(e).body = e.body
                      /\ Stored(e).status = IF e.key = KeyOf(r) THEN r.status ELSE e.status
  BY <1>1 DEF MutationInv, ServerTypes, Entries
<1> HIDE DEF Stored
<1>4. /\ ClientTypes' /\ WirePressed' /\ StagesGoOn
      /\ \A t \in Taps : stage'[t] = "ok" => stage[t] = "ok" \/ (t = r.copy[1] /\ r.status = 201)
  <2>1. wire \in SUBSET wire
    OBVIOUS
  <2> QED BY <1>1, <1>2, <2>1, AnsweredKeeps DEF MutationInv
<1>5. ServerTypes'
  BY <1>2, <1>3 DEF MutationInv, ServerTypes
<1>6. ServerPressed'
  <2>1. \A q \in running : q.copy[1] \in Taps
    BY DEF MutationInv, ServerTypes, Handlers, Copies
  <2>2. \A c \in handled : c[1] \in Taps
    BY DEF MutationInv, ServerTypes, Copies
  <2>3. \A t \in applied : t \in Taps
    BY DEF MutationInv, ServerTypes
  <2> QED BY <1>2, <1>4, <2>1, <2>2, <2>3 DEF MutationInv, ServerPressed, Pressed, StagesGoOn
<1>7. /\ \A e \in idem : \E d \in idem' : d.key = e.key
      /\ \A d \in idem' : \E e \in idem :
           /\ d.key = e.key /\ d.body = e.body
           /\ d.status = e.status \/ (e.key = KeyOf(r) /\ d.status = r.status)
  <2>1. CASE idem' = idem
    BY <2>1
  <2>2. CASE idem' = {Stored(e) : e \in idem}
    BY <1>3, <2>2
  <2> QED BY <1>2, <2>1, <2>2
<1>8. \A q : KeyOf(q)' = KeyOf(q)
  BY <1>2 DEF KeyOf
<1>9. RowsKept'
  <2>1. \A q \in running' : \E d \in idem' : d.key = KeyOf(q)
    <3>1. \A q \in running' : \E e \in idem : e.key = KeyOf(q)
      BY <1>2 DEF MutationInv, RowsKept
    <3> QED BY <1>7, <3>1
  <2>2. \A c \in handled : \E d \in idem' : d.key = key[c[1]]
    <3>1. \A c \in handled : \E e \in idem : e.key = key[c[1]]
      BY DEF MutationInv, RowsKept
    <3> QED BY <1>7, <3>1
  <2> QED BY <1>2, <1>8, <2>1, <2>2 DEF RowsKept
<1>10. OneHandler'
  BY <1>2, <1>8 DEF MutationInv, OneHandler
<1>11. RowsTrue'
  <2>1. \A q \in running', d \in idem' : d.key = KeyOf(q) => d.body = body[q.copy[1]]
    <3>1. \A q \in running', e \in idem : e.key = KeyOf(q) => e.body = body[q.copy[1]]
      BY <1>2 DEF MutationInv, RowsTrue
    <3>2. \A d \in idem' : \E e \in idem : d.key = e.key /\ d.body = e.body
      BY <1>7
    <3> QED BY <3>1, <3>2
  <2>2. \A q \in running' : q.status = 201 => q.copy[1] \in applied
    BY <1>2 DEF MutationInv, RowsTrue
  <2>3. \A d \in idem' : d.status = 201 => \E u \in applied : body[u] = d.body
    BY <1>7 DEF MutationInv, RowsTrue
  <2> QED BY <1>2, <1>8, <2>1, <2>2, <2>3 DEF RowsTrue
<1>12. SuccessIsReal'
  BY <1>2, <1>4 DEF MutationInv, SuccessIsReal, RowsTrue
<1> QED BY <1>4, <1>5, <1>6, <1>9, <1>10, <1>11, <1>12 DEF MutationInv

LEMMA ServerStopsKeeps ==
  ASSUME MutationInv, ServerStops
  PROVE  MutationInv'
<1>1. /\ running' = {}
      /\ UNCHANGED <<stage, body, attempt, key, refKey, wire, idem, handled, applied>>
  BY DEF ServerStops, clientVars
<1>2. ClientTypes' /\ ServerTypes' /\ WirePressed' /\ ServerPressed' /\ SuccessIsReal'
  BY <1>1 DEF MutationInv, ClientTypes, ServerTypes, WirePressed, ServerPressed, Pressed, SuccessIsReal
<1>3. RowsKept' /\ OneHandler' /\ RowsTrue'
  BY <1>1 DEF MutationInv, RowsKept, OneHandler, RowsTrue
<1> QED BY <1>2, <1>3 DEF MutationInv
-----------------------------------------------------------------------------
(* The relayer, the chain and the indexer touch nothing of this. *)
ProofVars == <<stage, body, attempt, key, refKey, wire, running, idem, handled, applied>>

LEMMA MutationStutters ==
  ASSUME MutationInv, UNCHANGED ProofVars
  PROVE  MutationInv'
<1>1. ClientTypes' /\ ServerTypes' /\ WirePressed' /\ ServerPressed' /\ SuccessIsReal'
  BY DEF ProofVars, MutationInv, ClientTypes, ServerTypes, WirePressed, ServerPressed, Pressed, SuccessIsReal
<1>2. RowsKept' /\ OneHandler' /\ RowsTrue'
  BY DEF ProofVars, MutationInv, RowsKept, OneHandler, RowsTrue, KeyOf
<1> QED BY <1>1, <1>2 DEF MutationInv

LEMMA MutationNext == MutationInv /\ [Next]_vars => MutationInv'
<1> SUFFICES ASSUME MutationInv, [Next]_vars PROVE MutationInv'
  OBVIOUS
<1>1. CASE Client
  <2>1. CASE Free \/ Remount
    BY <2>1, SurfaceKeeps
  <2>2. CASE ServerStops
    BY <2>2, ServerStopsKeeps
  <2>3. CASE \E t \in Taps : SignFails(t) \/ Call(t) \/ FetchFails(t)
    BY <2>3, SignFailsKeeps, CallKeeps, FetchFailsKeeps
  <2>4. CASE \E c \in wire : Serve(c)
    BY <2>4, ServeKeeps
  <2>5. CASE \E r \in running : Save(r)
    BY <2>5, SaveKeeps
  <2> QED BY <1>1, <2>1, <2>2, <2>3, <2>4, <2>5 DEF Client
<1>2. ASSUME NEW t \in Taps, PressOrder(t) PROVE MutationInv'
  BY <1>2, PressKeeps DEF PressOrder
<1>3. ASSUME NEW r \in running, NEW outcome \in Outcomes, HandleOrder(r, outcome) PROVE MutationInv'
  BY <1>3, HandleKeeps DEF HandleOrder
<1>4. ASSUME NEW t \in Taps, RequestCancel(t) \/ Expire(t) PROVE UNCHANGED ProofVars
  BY <1>4 DEF RequestCancel, Expire, ProofVars, mutationVars, clientVars, serverVars
<1>5. CASE Claim \/ Submit \/ Receipt \/ GiveUp \/ RelayerStops
  <2>1. UNCHANGED ProofVars
    BY <1>5 DEF Claim, Submit, Receipt, GiveUp, RelayerStops, ProofVars, mutationVars, clientVars, serverVars
  <2> QED BY <2>1, MutationStutters
<1>6. CASE Mine \/ Index \/ EventLost
  <2>1. UNCHANGED ProofVars
    BY <1>6 DEF Mine, Index, EventLost, ProofVars, mutationVars, clientVars, serverVars
  <2> QED BY <2>1, MutationStutters
<1>7. CASE UNCHANGED vars
  <2>1. UNCHANGED ProofVars
    BY <1>7 DEF vars, ProofVars, mutationVars, clientVars, serverVars
  <2> QED BY <2>1, MutationStutters
<1> QED BY <1>1, <1>2, <1>3, <1>4, <1>5, <1>6, <1>7, MutationStutters DEF Next

(* What the server did, its rows and what the client believes stay in line.  *)
THEOREM MutationInvariance == Spec => []MutationInv
<1> QED BY MutationInit, MutationNext, PTL DEF Spec

(* However a request is retried, delayed or pressed again, its handler runs  *)
(* once for the press and once for the key (middleware.go idempotent).       *)
THEOREM HandlerRunsOnce == Spec => []HandledOnce
<1>1. MutationInv => HandledOnce
  BY DEF MutationInv, OneHandler, HandledOnce
<1> QED BY <1>1, MutationInvariance, PTL

(* What the client reports as done has been done, a replayed answer included *)
(* (the response stored under a key answers for one body only).              *)
THEOREM SuccessesAreReal == Spec => []SuccessIsReal
<1>1. MutationInv => SuccessIsReal
  BY DEF MutationInv
<1> QED BY <1>1, MutationInvariance, PTL

-----------------------------------------------------------------------------
(* The order and its row *)

(* A row is written by the handler of its order, once: created lists it once. *)
Rows == [status : {"none", "QUEUED", "RESTING", "CANCELED"}, held : BOOLEAN]
RowTypes ==
  /\ row \in [Taps -> Rows]
  /\ created \in Seq(Taps)
  /\ \A i, j \in DOMAIN created : created[i] = created[j] => i = j
  /\ \A t \in Taps : row[t].status = "none" <=> \A i \in DOMAIN created : created[i] # t
  /\ \A i \in DOMAIN created : \E c \in handled : c[1] = created[i]

(* Where the one order that is QUEUED can be, and whether it was executed.   *)
AtRest ==
  /\ relayer.step # "claimed" /\ mempool = <<>> /\ events = <<>>
  /\ \A t \in Queued : t \notin executed

Claimed(t) ==
  /\ relayer = [step |-> "claimed", batch |-> {t}] /\ mempool = <<>> /\ events = <<>>
  /\ t \notin executed

Sent(t) ==
  /\ relayer.step # "claimed" /\ mempool = <<<<t>>>> /\ events = <<>>
  /\ t \notin executed

Told(t) ==
  /\ relayer.step # "claimed" /\ mempool = <<>>
  /\ \/ events = <<"placed">> /\ t \in executed
     \/ events = <<"rejected">> /\ t \notin executed

OneAtATime == \A t, u \in Queued : t = u
OnItsWay == AtRest \/ \E t \in Queued : row[t].held /\ (Claimed(t) \/ Sent(t) \/ Told(t))
Decided ==
  \A t \in Taps :
    /\ row[t].status = "RESTING" => t \in executed
    /\ row[t].status \in {"none", "CANCELED"} => t \notin executed

JourneyInv == RowTypes /\ (~ disturbed => OneAtATime /\ OnItsWay /\ Decided)

LEMMA JourneyInit == Init => JourneyInv
<1> SUFFICES ASSUME Init PROVE JourneyInv
  OBVIOUS
<1>1. /\ row = [t \in Taps |-> NoRow] /\ created = <<>> /\ executed = {}
      /\ relayer = Idle /\ mempool = <<>> /\ events = <<>>
  BY DEF Init
<1>2. NoRow \in Rows /\ NoRow.status = "none" /\ Idle.step # "claimed"
  BY DEF NoRow, Rows, Idle
<1>3. RowTypes
  BY <1>1, <1>2 DEF RowTypes
<1>4. Queued = {}
  BY <1>1, <1>2 DEF Queued
<1>5. OneAtATime /\ AtRest /\ Decided
  BY <1>1, <1>2, <1>4 DEF OneAtATime, AtRest, Decided
<1> QED BY <1>3, <1>5 DEF JourneyInv, OnItsWay

(* A step that leaves the rows alone, and the chain's side of it.            *)
RowsSame == UNCHANGED <<row, created, executed>> /\ handled \subseteq handled'
PlaceSame == UNCHANGED <<relayer, mempool, events>>

LEMMA RowTypesKept ==
  ASSUME RowTypes, UNCHANGED created, handled \subseteq handled',
         row' \in [Taps -> Rows],
         \A t \in Taps : row'[t].status = "none" <=> row[t].status = "none"
  PROVE  RowTypes'
BY DEF RowTypes

LEMMA SameKeeps ==
  ASSUME JourneyInv, RowsSame, PlaceSame, disturbed' = disturbed
  PROVE  JourneyInv'
<1>1. RowTypes'
  BY RowTypesKept DEF JourneyInv, RowsSame, RowTypes
<1>2. Queued' = Queued
  BY DEF RowsSame, Queued
<1>3. ASSUME ~ disturbed PROVE OneAtATime' /\ OnItsWay' /\ Decided'
  BY <1>2, <1>3 DEF JourneyInv, RowsSame, PlaceSame, OneAtATime, OnItsWay, Decided, AtRest, Claimed, Sent, Told
<1> QED BY <1>1, <1>3 DEF JourneyInv

LEMMA DisturbedKeeps ==
  ASSUME JourneyInv, RowTypes', disturbed'
  PROVE  JourneyInv'
BY DEF JourneyInv

(* Nothing else is QUEUED, so the row inserted is the one under way.         *)
LEMMA InsertKeeps ==
  ASSUME JourneyInv, NEW t \in Taps, Insert(t), PlaceSame, UNCHANGED executed,
         handled \subseteq handled', \E c \in handled' : c[1] = t,
         \A i \in DOMAIN created : created[i] # t
  PROVE  JourneyInv'
<1>1. CASE UNCHANGED <<row, created, disturbed>>
  BY <1>1, SameKeeps DEF RowsSame
<1>2. CASE /\ row' = [row EXCEPT ![t] = [status |-> "QUEUED", held |-> FALSE]]
           /\ created' = Append(created, t)
           /\ disturbed' = (disturbed \/ Queued # {})
  <2> DEFINE new == [status |-> "QUEUED", held |-> FALSE]
  <2>1. new \in Rows /\ new.status = "QUEUED"
    BY DEF Rows
  <2>2. row \in [Taps -> Rows] /\ row' = [row EXCEPT ![t] = new]
    BY <1>2 DEF JourneyInv, RowTypes
  <2> HIDE DEF new
  <2>3. /\ row' \in [Taps -> Rows] /\ row'[t].status = "QUEUED"
        /\ \A u \in Taps \ {t} : row'[u] = row[u]
    BY <2>1, <2>2
  <2>4. /\ created' \in Seq(Taps) /\ DOMAIN created' = DOMAIN created \cup {Len(created) + 1}
        /\ \A i \in DOMAIN created : created'[i] = created[i]
        /\ created'[Len(created) + 1] = t
    BY <1>2 DEF JourneyInv, RowTypes
  <2>5. RowTypes'
    <3>1. \A i, j \in DOMAIN created' : created'[i] = created'[j] => i = j
      BY <2>4 DEF JourneyInv, RowTypes
    <3>2. ASSUME NEW u \in Taps
          PROVE  row'[u].status = "none" <=> \A i \in DOMAIN created' : created'[i] # u
      <4>1. CASE u = t
        BY <2>3, <2>4, <4>1
      <4>2. CASE u # t
        <5>1. row[u].status = "none" <=> \A i \in DOMAIN created : created[i] # u
          BY DEF JourneyInv, RowTypes
        <5> QED BY <2>3, <2>4, <4>2, <5>1
      <4> QED BY <4>1, <4>2
    <3>3. ASSUME NEW i \in DOMAIN created' PROVE \E c \in handled' : c[1] = created'[i]
      <4>1. CASE i \in DOMAIN created
        <5>1. \E c \in handled : c[1] = created[i]
          BY <4>1 DEF JourneyInv, RowTypes
        <5> QED BY <2>4, <4>1, <5>1
      <4>2. CASE i = Len(created) + 1
        BY <2>4, <4>2
      <4> QED BY <2>4, <4>1, <4>2
    <3> QED BY <2>3, <2>4, <3>1, <3>2, <3>3 DEF RowTypes
  <2>6. ASSUME ~ disturbed' PROVE OneAtATime' /\ OnItsWay' /\ Decided'
    <3>1. ~ disturbed /\ Queued = {}
      BY <1>2, <2>6
    <3>2. AtRest /\ Decided
      BY <3>1 DEF JourneyInv, OnItsWay
    <3>3. Queued' = {t}
      BY <2>3, <3>1 DEF Queued
    <3>4. row[t].status = "none"
      BY DEF JourneyInv, RowTypes
    <3>5. t \notin executed
      BY <3>2, <3>4 DEF Decided
    <3>6. OneAtATime' /\ AtRest'
      BY <3>2, <3>3, <3>5 DEF OneAtATime, AtRest, PlaceSame
    <3>7. Decided'
      BY <2>3, <3>2 DEF Decided
    <3> QED BY <3>6, <3>7 DEF OnItsWay
  <2> QED BY <2>5, <2>6 DEF JourneyInv
<1> QED BY <1>1, <1>2 DEF Insert

(* The handler that runs is the first of its tap: the tap has no row yet.    *)
LEMMA HandleOrderKeeps ==
  ASSUME JourneyInv, MutationInv, NEW r \in running, NEW outcome \in Outcomes, HandleOrder(r, outcome)
  PROVE  JourneyInv'
<1>1. /\ r.status = 0 /\ handled' = handled \cup {r.copy}
      /\ PlaceSame /\ UNCHANGED executed
  BY DEF HandleOrder, Handle, PlaceSame
<1>2. r.copy[1] \in Taps
  BY DEF MutationInv, ServerTypes, Handlers, Copies
<1>3. ASSUME NEW i \in DOMAIN created PROVE created[i] # r.copy[1]
  <2>1. PICK c \in handled : c[1] = created[i]
    BY DEF JourneyInv, RowTypes
  <2>2. key[c[1]] # key[r.copy[1]]
    BY <1>1 DEF MutationInv, OneHandler, KeyOf
  <2> QED BY <2>1, <2>2
<1>4. CASE UNCHANGED <<row, created, disturbed>>
  BY <1>1, <1>4, SameKeeps DEF RowsSame
<1>5. CASE Insert(r.copy[1])
  BY <1>1, <1>2, <1>3, <1>5, InsertKeeps
<1> QED BY <1>4, <1>5 DEF HandleOrder

(* A cancel reaches only a row that is in no batch. *)
LEMMA RequestCancelKeeps ==
  ASSUME JourneyInv, NEW t \in Taps, RequestCancel(t)
  PROVE  JourneyInv'
<1>1. /\ row[t].status = "QUEUED" /\ ~ row[t].held
      /\ row' = [row EXCEPT ![t].status = "CANCELED"]
      /\ PlaceSame /\ UNCHANGED <<created, executed, disturbed, handled>>
  BY DEF RequestCancel, Cancelable, PlaceSame, mutationVars, serverVars
<1>2. row \in [Taps -> Rows]
  BY DEF JourneyInv, RowTypes
<1>3. /\ row' \in [Taps -> Rows] /\ row'[t].status = "CANCELED"
      /\ \A u \in Taps \ {t} : row'[u] = row[u]
  BY <1>1, <1>2 DEF Rows
<1>4. RowTypes'
  <2>1. \A u \in Taps : row'[u].status = "none" <=> row[u].status = "none"
    BY <1>1, <1>3
  <2> QED BY <1>1, <1>3, <2>1, RowTypesKept DEF JourneyInv, RowTypes
<1>5. ASSUME ~ disturbed PROVE OneAtATime' /\ OnItsWay' /\ Decided'
  <2>1. OneAtATime /\ OnItsWay /\ Decided
    BY <1>5 DEF JourneyInv
  <2>2. Queued = {t} /\ Queued' = {}
    BY <1>1, <1>3, <2>1 DEF OneAtATime, Queued
  <2>3. AtRest
    BY <1>1, <2>1, <2>2 DEF OnItsWay
  <2>4. t \notin executed
    BY <2>2, <2>3 DEF AtRest
  <2>5. OneAtATime' /\ AtRest'
    BY <1>1, <2>2, <2>3 DEF OneAtATime, AtRest, PlaceSame
  <2>6. Decided'
    BY <1>1, <1>3, <2>1, <2>4 DEF Decided
  <2> QED BY <2>5, <2>6 DEF OnItsWay
<1> QED BY <1>1, <1>4, <1>5 DEF JourneyInv

LEMMA ClaimKeeps ==
  ASSUME JourneyInv, Claim
  PROVE  JourneyInv'
<1> DEFINE free == {t \in Queued : ~ row[t].held}
<1>1. /\ relayer.step = "idle" /\ free # {}
      /\ relayer' = [step |-> "claimed", batch |-> free]
      /\ row' = [t \in Taps |-> IF t \in free THEN [row[t] EXCEPT !.held = TRUE] ELSE row[t]]
      /\ UNCHANGED <<created, executed, mempool, events, disturbed, handled>>
  BY DEF Claim, mutationVars, serverVars
<1>2. row \in [Taps -> Rows]
  BY DEF JourneyInv, RowTypes
<1>3. /\ row' \in [Taps -> Rows]
      /\ \A t \in Taps : row'[t].status = row[t].status
      /\ \A t \in Taps : t \in free => row'[t].held
  BY <1>1, <1>2 DEF Rows
<1>4. RowTypes'
  BY <1>1, <1>3, RowTypesKept DEF JourneyInv, RowTypes
<1>5. Queued' = Queued
  BY <1>3 DEF Queued
<1>6. ASSUME ~ disturbed PROVE OneAtATime' /\ OnItsWay' /\ Decided'
  <2>1. OneAtATime /\ OnItsWay /\ Decided
    BY <1>6 DEF JourneyInv
  <2>2. PICK t \in Queued : ~ row[t].held
    BY <1>1
  <2>3. free = {t} /\ t \in Taps
    BY <2>1, <2>2 DEF OneAtATime, Queued
  <2>4. AtRest
    BY <2>1, <2>2 DEF OnItsWay, OneAtATime
  <2>5. Claimed(t)'
    BY <1>1, <2>2, <2>3, <2>4 DEF AtRest, Claimed
  <2>6. row'[t].held
    BY <1>3, <2>3
  <2>7. OneAtATime' /\ Decided'
    BY <1>1, <1>3, <1>5, <2>1 DEF OneAtATime, Decided
  <2> QED BY <1>5, <2>2, <2>5, <2>6, <2>7 DEF OnItsWay
<1> QED BY <1>1, <1>4, <1>6 DEF JourneyInv

-----------------------------------------------------------------------------
(* The relayer *)

LEMMA FailedRows ==
  ASSUME row \in [Taps -> Rows], NEW batch
  PROVE  /\ Failed(row, batch) \in [Taps -> Rows]
         /\ \A t \in Taps : Failed(row, batch)[t].held = row[t].held
         /\ \A t \in Taps \cap batch \cap expired : row[t].status = "QUEUED" => Failed(row, batch)[t].status = "CANCELED"
         /\ \A t \in Taps : \/ Failed(row, batch)[t].status = row[t].status
                            \/ t \in batch \cap expired /\ row[t].status = "QUEUED"
                                 /\ Failed(row, batch)[t].status = "CANCELED"
BY DEF Failed, Rows

LEMMA RequeuedRows ==
  ASSUME NEW rows \in [Taps -> Rows], NEW batch
  PROVE  /\ Requeued(rows, batch) \in [Taps -> Rows]
         /\ \A t \in Taps : Requeued(rows, batch)[t].status = rows[t].status
BY DEF Requeued, Rows

(* There is one way to send one order. *)
LEMMA OneSeq ==
  ASSUME NEW t, NEW batch \in SetToSeqs({t})
  PROVE  batch = <<t>>
<1>1. Cardinality({t}) = 1
  BY FS_Singleton
<1>2. batch \in [1 .. 1 -> {t}]
  BY <1>1 DEF SetToSeqs
<1> QED BY <1>2

LEMMA SubmitKeeps ==
  ASSUME JourneyInv, Submit
  PROVE  JourneyInv'
<1> DEFINE good == relayer.batch \ expired
           rows == Failed(row, relayer.batch)
<1>1. /\ relayer.step = "claimed"
      /\ UNCHANGED <<created, executed, events, disturbed, handled>>
  BY DEF Submit, serverVars
<1>2. \/ /\ good = {} /\ relayer' = Idle /\ row' = rows /\ UNCHANGED mempool
      \/ /\ good # {} /\ relayer' = [relayer EXCEPT !.step = "waiting"]
         /\ \E batch \in SetToSeqs(good) : mempool' = Append(mempool, batch)
         /\ row' = rows
      \/ /\ good # {} /\ relayer' = Idle
         /\ row' = Requeued(rows, relayer.batch) /\ UNCHANGED mempool
  BY DEF Submit
<1>3. row \in [Taps -> Rows]
  BY DEF JourneyInv, RowTypes
<1>4. /\ rows \in [Taps -> Rows]
      /\ \A t \in Taps : rows[t].held = row[t].held
      /\ \A t \in Taps \cap relayer.batch \cap expired : row[t].status = "QUEUED" => rows[t].status = "CANCELED"
      /\ \A t \in Taps : \/ rows[t].status = row[t].status
                         \/ /\ t \in relayer.batch \cap expired
                            /\ row[t].status = "QUEUED" /\ rows[t].status = "CANCELED"
  BY <1>3, FailedRows
<1> HIDE DEF rows
<1>5. row' \in [Taps -> Rows] /\ \A t \in Taps : row'[t].status = rows[t].status
  BY <1>2, <1>4, RequeuedRows
<1>6. RowTypes'
  <2>1. \A t \in Taps : row'[t].status = "none" <=> row[t].status = "none"
    BY <1>4, <1>5
  <2> QED BY <1>1, <1>5, <2>1, RowTypesKept DEF JourneyInv, RowTypes
<1>7. ASSUME ~ disturbed PROVE OneAtATime' /\ OnItsWay' /\ Decided'
  <2>1. OneAtATime /\ OnItsWay /\ Decided
    BY <1>7 DEF JourneyInv
  <2>2. PICK t \in Queued : row[t].held /\ Claimed(t)
    BY <1>1, <2>1 DEF OnItsWay, AtRest, Sent, Told
  <2>3. /\ Queued = {t} /\ t \in Taps /\ row[t].status = "QUEUED"
        /\ relayer.batch = {t} /\ mempool = <<>> /\ events = <<>> /\ t \notin executed
    BY <2>1, <2>2 DEF OneAtATime, Queued, Claimed
  <2>4. Idle.step # "claimed"
    BY DEF Idle
  <2>5. CASE t \in expired
    <3>1. relayer' = Idle /\ UNCHANGED mempool
      BY <1>2, <2>3, <2>5
    <3>2. /\ row'[t].status = "CANCELED"
          /\ \A u \in Taps \ {t} : row'[u].status = row[u].status
      BY <1>4, <1>5, <2>3, <2>5
    <3>3. Queued' = {}
      BY <2>3, <3>2 DEF Queued
    <3>4. OneAtATime' /\ AtRest'
      BY <1>1, <2>3, <2>4, <3>1, <3>3 DEF OneAtATime, AtRest
    <3>5. Decided'
      BY <1>1, <2>1, <2>3, <3>2 DEF Decided
    <3> QED BY <3>4, <3>5 DEF OnItsWay
  <2>6. CASE t \notin expired
    <3>1. \A u \in Taps : row'[u].status = row[u].status
      BY <1>4, <1>5, <2>3, <2>6
    <3>2. Queued' = Queued
      BY <3>1 DEF Queued
    <3>3. OneAtATime' /\ Decided'
      BY <1>1, <2>1, <3>1, <3>2 DEF OneAtATime, Decided
    <3>4. good = {t}
      BY <2>3, <2>6
    <3> HIDE DEF good
    <3>5. CASE relayer' = Idle /\ UNCHANGED mempool
      BY <1>1, <2>3, <2>4, <3>2, <3>3, <3>5 DEF OnItsWay, AtRest
    <3>6. CASE /\ relayer' = [relayer EXCEPT !.step = "waiting"] /\ row' = rows
               /\ \E batch \in SetToSeqs(good) : mempool' = Append(mempool, batch)
      <4>1. mempool' = <<<<t>>>>
        <5>1. PICK batch \in SetToSeqs(good) : mempool' = Append(mempool, batch)
          BY <3>6
        <5>2. batch = <<t>>
          BY <3>4, <5>1, OneSeq
        <5> QED BY <2>3, <5>1, <5>2
      <4>2. relayer'.step # "claimed"
        BY <2>2, <3>6 DEF Claimed
      <4>3. Sent(t)' /\ row'[t].held
        BY <1>1, <1>4, <2>2, <2>3, <3>6, <4>1, <4>2 DEF Sent
      <4> QED BY <2>2, <3>2, <3>3, <4>3 DEF OnItsWay
    <3> QED BY <1>2, <3>4, <3>5, <3>6
  <2> QED BY <2>5, <2>6
<1> QED BY <1>1, <1>6, <1>7 DEF JourneyInv

LEMMA ReceiptKeeps ==
  ASSUME JourneyInv, Receipt \/ RelayerStops
  PROVE  JourneyInv'
<1>1. /\ relayer.step \in {"claimed", "waiting"} \/ relayer.step # "idle"
      /\ relayer' = Idle
      /\ UNCHANGED <<row, created, executed, mempool, events, disturbed, handled>>
  BY DEF Receipt, RelayerStops, mutationVars, serverVars
<1>2. RowTypes'
  BY <1>1, RowTypesKept DEF JourneyInv, RowTypes
<1>3. Queued' = Queued /\ Idle.step # "claimed"
  BY <1>1 DEF Queued, Idle
<1>4. ASSUME ~ disturbed PROVE OneAtATime' /\ OnItsWay' /\ Decided'
  <2>1. OneAtATime /\ OnItsWay /\ Decided
    BY <1>4 DEF JourneyInv
  <2>2. OneAtATime' /\ Decided'
    BY <1>1, <1>3, <2>1 DEF OneAtATime, Decided
  <2>3. CASE AtRest
    BY <1>1, <1>3, <2>2, <2>3 DEF AtRest, OnItsWay
  <2>4. ASSUME NEW t \in Queued, row[t].held, Claimed(t) PROVE AtRest'
    BY <1>1, <1>3, <2>1, <2>4 DEF OneAtATime, Claimed, AtRest
  <2>5. ASSUME NEW t \in Queued, row[t].held, Sent(t) \/ Told(t) PROVE Sent(t)' \/ Told(t)'
    BY <1>1, <1>3, <2>5 DEF Sent, Told
  <2> QED BY <1>1, <1>3, <2>1, <2>2, <2>3, <2>4, <2>5 DEF OnItsWay
<1> QED BY <1>1, <1>2, <1>4 DEF JourneyInv

LEMMA GiveUpKeeps ==
  ASSUME JourneyInv, GiveUp
  PROVE  JourneyInv'
<1>1. /\ row' = Requeued(row, relayer.batch) /\ disturbed'
      /\ UNCHANGED <<created, executed, handled>>
  BY DEF GiveUp, serverVars
<1>2. row \in [Taps -> Rows]
  BY DEF JourneyInv, RowTypes
<1>3. row' \in [Taps -> Rows] /\ \A t \in Taps : row'[t].status = row[t].status
  BY <1>1, <1>2, RequeuedRows
<1> QED BY <1>1, <1>3, RowTypesKept, DisturbedKeeps DEF JourneyInv, RowTypes

LEMMA EventLostKeeps ==
  ASSUME JourneyInv, EventLost
  PROVE  JourneyInv'
<1>1. disturbed' /\ UNCHANGED <<row, created, executed, handled>>
  BY DEF EventLost, serverVars
<1> QED BY <1>1, RowTypesKept, DisturbedKeeps DEF JourneyInv, RowTypes
-----------------------------------------------------------------------------
(* The chain and the indexer *)

(* A batch of one order is that order. *)
LEMMA BatchOfOne ==
  ASSUME NEW c, NEW t
  PROVE  ProcessAll(c, <<t>>) = Process(c, t)
<1> DEFINE batch == <<t>>
           After(f) == [i \in 0 .. Len(batch) |-> IF i = 0 THEN c ELSE Process(f[i - 1], batch[i])]
           w == [i \in 0 .. 1 |-> IF i = 0 THEN c ELSE Process(c, t)]
           after == CHOOSE f : f = After(f)
<1>1. w = After(w)
  <2>1. Len(batch) = 1 /\ batch[1] = t
    OBVIOUS
  <2>2. \A i \in 0 .. 1 : w[i] = IF i = 0 THEN c ELSE Process(w[i - 1], batch[i])
    <3>1. w[0] = c
      OBVIOUS
    <3>2. w[1] = Process(w[1 - 1], batch[1])
      BY <2>1, <3>1
    <3>3. \A i \in 0 .. 1 : i = 0 \/ i = 1
      OBVIOUS
    <3> QED BY <3>1, <3>2, <3>3
  <2> QED BY <2>1, <2>2
<1>2. after = After(after)
  BY <1>1
<1>3. Len(batch) = 1 /\ batch[1] = t
  OBVIOUS
<1>4. ProcessAll(c, batch) = after[1]
  BY <1>3 DEF ProcessAll
<1> HIDE DEF after, batch, w
<1>5. after[0] = c
  BY <1>2, <1>3
<1>6. after[1] = Process(after[0], batch[1])
  BY <1>2, <1>3
<1> QED BY <1>3, <1>4, <1>5, <1>6 DEF batch

LEMMA MineKeeps ==
  ASSUME JourneyInv, Mine
  PROVE  JourneyInv'
<1> DEFINE before == [nonce |-> chainNonce, executed |-> executed, events |-> events]
           after == ProcessAll(before, Head(mempool))
<1>1. /\ mempool # <<>> /\ mempool' = Tail(mempool)
      /\ executed' = after.executed /\ events' = after.events
      /\ UNCHANGED <<row, created, relayer, disturbed, handled>>
  BY DEF Mine, mutationVars, serverVars
<1>2. RowTypes'
  BY <1>1, RowTypesKept DEF JourneyInv, RowTypes
<1>3. Queued' = Queued
  BY <1>1 DEF Queued
<1>4. ASSUME ~ disturbed PROVE OneAtATime' /\ OnItsWay' /\ Decided'
  <2>1. OneAtATime /\ OnItsWay /\ Decided
    BY <1>4 DEF JourneyInv
  <2>2. PICK t \in Queued : row[t].held /\ Sent(t)
    BY <1>1, <2>1 DEF OnItsWay, AtRest, Claimed, Told
  <2>3. /\ mempool = <<<<t>>>> /\ events = <<>> /\ t \notin executed
        /\ relayer.step # "claimed" /\ Queued = {t} /\ row[t].status = "QUEUED"
    BY <2>1, <2>2 DEF Sent, OneAtATime, Queued
  <2>4. mempool' = <<>> /\ after = Process(before, t)
    BY <1>1, <2>3, BatchOfOne
  <2> HIDE DEF after
  <2>5. \/ executed' = executed \cup {t} /\ events' = <<"placed">>
        \/ executed' = executed /\ events' = <<"rejected">>
    BY <1>1, <2>3, <2>4 DEF Process
  <2>6. Told(t)' /\ row'[t].held
    BY <1>1, <2>2, <2>3, <2>4, <2>5 DEF Told
  <2>7. OneAtATime' /\ Decided'
    BY <1>1, <1>3, <2>1, <2>3, <2>5 DEF OneAtATime, Decided
  <2> QED BY <1>3, <2>2, <2>6, <2>7 DEF OnItsWay
<1> QED BY <1>1, <1>2, <1>4 DEF JourneyInv

(* The guess of the indexer is right: only one row is QUEUED. *)
LEMMA IndexKeeps ==
  ASSUME JourneyInv, Index
  PROVE  JourneyInv'
<1> DEFINE status == IF Head(events) = "placed" THEN "RESTING" ELSE "CANCELED"
<1>1. /\ events # <<>> /\ events' = Tail(events)
      /\ row' = [t \in Taps |-> IF Oldest(t) THEN [row[t] EXCEPT !.status = status] ELSE row[t]]
      /\ UNCHANGED <<created, executed, relayer, mempool, disturbed, handled>>
  BY DEF Index, mutationVars, serverVars
<1>2. row \in [Taps -> Rows] /\ status \in {"RESTING", "CANCELED"}
  BY DEF JourneyInv, RowTypes
<1>3. (status = "RESTING") <=> (Head(events) = "placed")
  OBVIOUS
<1> HIDE DEF status
<1>4. /\ row' \in [Taps -> Rows]
      /\ \A t \in Taps : row'[t].status = IF Oldest(t) THEN status ELSE row[t].status
  BY <1>1, <1>2 DEF Rows
<1>5. RowTypes'
  <2>1. \A t \in Taps : row'[t].status = "none" <=> row[t].status = "none"
    BY <1>2, <1>4 DEF Oldest, Queued
  <2> QED BY <1>1, <1>4, <2>1, RowTypesKept DEF JourneyInv, RowTypes
<1>6. ASSUME ~ disturbed PROVE OneAtATime' /\ OnItsWay' /\ Decided'
  <2>1. OneAtATime /\ OnItsWay /\ Decided
    BY <1>6 DEF JourneyInv
  <2>2. PICK t \in Queued : row[t].held /\ Told(t)
    BY <1>1, <2>1 DEF OnItsWay, AtRest, Claimed, Sent
  <2>3. Queued = {t} /\ t \in Taps /\ row[t].status = "QUEUED"
    BY <2>1, <2>2 DEF OneAtATime, Queued
  <2>4. \A u \in Taps : Oldest(u) <=> u = t
    <3>1. \E i \in DOMAIN created : created[i] = t
      BY <2>3 DEF JourneyInv, RowTypes
    <3>2. PICK i \in DOMAIN created : created[i] = t
      BY <3>1
    <3>3. \A j \in 1 .. i - 1 : created[j] \notin Queued
      BY <2>3, <3>2 DEF JourneyInv, RowTypes
    <3> QED BY <2>3, <3>2, <3>3 DEF Oldest
  <2>5. /\ row'[t].status = status
        /\ \A u \in Taps \ {t} : row'[u].status = row[u].status
    BY <1>4, <2>3, <2>4
  <2>6. Queued' = {}
    BY <1>2, <2>3, <2>5 DEF Queued
  <2>7. /\ events' = <<>> /\ mempool' = <<>> /\ relayer'.step # "claimed"
        /\ (status = "RESTING") <=> (t \in executed)
    <3>1. CASE events = <<"placed">> /\ t \in executed
      BY <1>1, <1>3, <2>2, <3>1 DEF Told
    <3>2. CASE events = <<"rejected">> /\ t \notin executed
      BY <1>1, <1>3, <2>2, <3>2 DEF Told
    <3> QED BY <2>2, <3>1, <3>2 DEF Told
  <2>8. OneAtATime' /\ AtRest'
    BY <2>6, <2>7 DEF OneAtATime, AtRest
  <2>9. Decided'
    BY <1>1, <1>2, <2>1, <2>3, <2>5, <2>7 DEF Decided
  <2> QED BY <2>8, <2>9 DEF OnItsWay
<1> QED BY <1>1, <1>5, <1>6 DEF JourneyInv

LEMMA JourneyNext == JourneyInv /\ MutationInv /\ [Next]_vars => JourneyInv'
<1> SUFFICES ASSUME JourneyInv, MutationInv, [Next]_vars PROVE JourneyInv'
  OBVIOUS
<1>1. CASE Client
  <2>1. handled \subseteq handled'
    BY <1>1 DEF Client, Free, Remount, ServerStops, SignFails, Call, FetchFails, Serve, Save, serverVars
  <2>2. RowsSame /\ PlaceSame /\ disturbed' = disturbed
    BY <1>1, <2>1 DEF Client, journeyVars, RowsSame, PlaceSame
  <2> QED BY <2>2, SameKeeps
<1>2. ASSUME NEW t \in Taps, PressOrder(t) \/ Expire(t) PROVE JourneyInv'
  <2>1. RowsSame /\ PlaceSame /\ disturbed' = disturbed
    BY <1>2 DEF PressOrder, Press, Expire, serverVars, RowsSame, PlaceSame
  <2> QED BY <2>1, SameKeeps
<1>3. CASE UNCHANGED vars
  <2>1. RowsSame /\ PlaceSame /\ disturbed' = disturbed
    BY <1>3 DEF vars, mutationVars, serverVars, journeyVars, RowsSame, PlaceSame
  <2> QED BY <2>1, SameKeeps
<1> QED BY <1>1, <1>2, <1>3, HandleOrderKeeps, RequestCancelKeeps, ClaimKeeps, SubmitKeeps,
           ReceiptKeeps, GiveUpKeeps, MineKeeps, IndexKeeps, EventLostKeeps DEF Next

THEOREM JourneyInvariance == Spec => [](MutationInv /\ JourneyInv)
<1> QED BY MutationInvariance, JourneyInit, JourneyNext, PTL DEF Spec

(* The indexer binds a chain event to the oldest row that is QUEUED, by its   *)
(* maker alone: as long as the maker's orders reach the chain one at a time   *)
(* the rows say what the contract did, whatever is retried, canceled, refused *)
(* or never mined (store/chainops.go BindOrderPlaced; chain/indexer.go        *)
(* onOrderPlaced, onOrderRejected).                                           *)
THEOREM RowsAgreeWithChain == Spec => []UndisturbedAgrees
<1>1. JourneyInv => UndisturbedAgrees
  <2> SUFFICES ASSUME JourneyInv, ~ disturbed, NEW t \in ToSet(created)
               PROVE  /\ row[t].status = "RESTING" => t \in executed
                      /\ row[t].status = "CANCELED" => t \notin executed
                      /\ t \in executed /\ events = <<>> => row[t].status = "RESTING"
    BY DEF UndisturbedAgrees
  <2>1. OneAtATime /\ OnItsWay /\ Decided
    BY DEF JourneyInv
  <2>2. t \in Taps /\ row[t] \in Rows
    BY DEF JourneyInv, RowTypes, ToSet
  <2>3. row[t].status \in {"none", "QUEUED", "RESTING", "CANCELED"}
    BY <2>2 DEF Rows
  <2>4. CASE row[t].status = "QUEUED"
    <3>1. t \in Queued
      BY <2>2, <2>4 DEF Queued
    <3>2. t \in executed => events # <<>>
      BY <2>1, <3>1 DEF OneAtATime, OnItsWay, AtRest, Claimed, Sent, Told
    <3> QED BY <2>4, <3>2
  <2>5. CASE row[t].status # "QUEUED"
    BY <2>1, <2>2, <2>3, <2>5 DEF Decided
  <2> QED BY <2>4, <2>5
<1> QED BY <1>1, JourneyInvariance, PTL

===============================================================================
