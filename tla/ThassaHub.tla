------------------------------ MODULE ThassaHub ------------------------------
(***************************************************************************)
(* The oracle hub (contracts/src/ThassaHub.sol).  Requesters escrow bids   *)
(* for an answer to a client contract, nodes submit attested updates and   *)
(* are paid, and stake is put behind nodes.  The hub holds the bids and    *)
(* the stake in one balance of tokens.                                     *)
(*                                                                         *)
(* Each call is one action; a call that reverts, as when the client's      *)
(* callback does, changes nothing and is none.  Who must call is left out  *)
(* where any such account always exists: a requester cancels its own bid.  *)
(***************************************************************************)
EXTENDS Totals, Integers, Sequences

CONSTANTS
  Accounts,      \* whoever stakes, asks or answers
  Requesters,    \* those that place bids
  Nodes,         \* those that may register as nodes
  Nobody,        \* address(0)
  Clients,       \* oracle contracts
  MaxAge,        \* maxAttestationAge of each client
  Inputs,        \* what a question may be about: inputDataHash
  Answers,       \* callbackData of an update
  Base,          \* baseProtocolFee
  BidAmounts,    \* what is offered for an answer
  StakeAmounts,  \* what is staked at once
  MinAges,       \* what minimumAttestationAge may be set to
  SignerSets,    \* whose updates a verifier module may accept
  MaxBids,       \* bound: bids ever placed
  MaxReceived,   \* bound: updates ever delivered
  MaxStake,      \* bound: all stake
  MaxTime        \* bound: the last instant of the clock

ASSUME HubAmounts ==
  Base \in Nat \ {0} /\ BidAmounts \subseteq Nat /\ StakeAmounts \subseteq Nat \ {0}

ASSUME HubParties ==
  /\ IsFiniteSet(Accounts) /\ Nobody \notin Accounts
  /\ Requesters \subseteq Accounts /\ Nodes \subseteq Accounts
  /\ MaxAge \in [Clients -> Nat]
  /\ MinAges \subseteq Nat /\ SignerSets \subseteq SUBSET Accounts

ASSUME HubBounds ==
  MaxBids \in Nat /\ MaxReceived \in Nat /\ MaxStake \in Nat /\ MaxTime \in Nat

Bid ==
  [requester : Accounts, client : Clients, input : Inputs, amount : Nat,
   open : BOOLEAN, protocolFee : Nat, nodeFee : Nat, allocated : Accounts \cup {Nobody}]

NodeRecord ==
  [registered : BOOLEAN, active : BOOLEAN, selfStake : Nat, delegatedStake : Nat,
   fulfilledCount : Nat, earnedFees : Nat]

NoRecord ==
  [registered |-> FALSE, active |-> FALSE, selfStake |-> 0, delegatedStake |-> 0,
   fulfilledCount |-> 0, earnedFees |-> 0]

\* The spec hashes must match the client's, which never change, and responseId
\* must be the bid's, whose number the digest holds already: both are left out.
Update ==
  [client : Clients, input : Inputs, answer : Answers, timestamp : 0..MaxTime,
   fulfiller : Accounts]

VARIABLES
  bids,         \* _bids; nextBidId is one more than their number
  node,         \* _nodes
  delegated,    \* delegatedStake, by <<delegator, node>>
  totalStake,   \* totalStakeWeight
  consumed,     \* consumedDigests
  protocolFees, \* totalProtocolFeesAccrued
  nodeFees,     \* totalNodeFeesAccrued
  minAge,       \* minimumAttestationAge
  signers,      \* whose proofs the verifier module accepts
  held,         \* payment tokens the hub holds
  received,     \* the callbacks of the clients: [digest, fee], in order
  now           \* block.timestamp

stakeVars == <<delegated, totalStake>>
feeVars == <<protocolFees, nodeFees>>
updateVars == <<consumed, received>>
ownerVars == <<minAge, signers>>
vars == <<bids, node, stakeVars, updateVars, feeVars, ownerVars, held, now>>

-----------------------------------------------------------------------------
(* Bids *)

Half(n) == n \div 2

\* Mutant: both halves of an odd amount are rounded down.
LargerHalfDown(n) == n \div 2

LargerHalf(n) == n - n \div 2

\* _quoteFees: the protocol gets half of the base fee and half of the priority
\* fee, each rounded down; the node gets the rest.
ProtocolFee(priority) == Half(Base) + Half(priority)
NodeFee(priority) == LargerHalf(Base) + LargerHalf(priority)

\* Whoever calls pays, for itself or for another requester.
PlaceBid(requester, client, input, amount) ==
  /\ amount >= Base
  /\ Len(bids) < MaxBids
  /\ bids' = Append(bids,
       [requester |-> requester, client |-> client, input |-> input, amount |-> amount,
        open |-> TRUE, protocolFee |-> ProtocolFee(amount - Base),
        nodeFee |-> NodeFee(amount - Base), allocated |-> Nobody])
  /\ held' = held + amount
  /\ UNCHANGED <<node, stakeVars, updateVars, feeVars, ownerVars, now>>

CancelBid(b) ==
  /\ bids[b].open
  /\ bids' = [bids EXCEPT ![b].open = FALSE]
  /\ held' = held - bids[b].amount
  /\ UNCHANGED <<node, stakeVars, updateVars, feeVars, ownerVars, now>>

\* By the requester or the owner; to nobody, or to an active node.
AllocateBid(b, n) ==
  /\ bids[b].open
  /\ n # Nobody => node[n].registered /\ node[n].active
  /\ bids' = [bids EXCEPT ![b].allocated = n]
  /\ UNCHANGED <<node, stakeVars, updateVars, feeVars, ownerVars, held, now>>

-----------------------------------------------------------------------------
(* Nodes and stake *)

RegisterNode(n) ==
  /\ ~node[n].registered
  /\ node' = [node EXCEPT ![n].registered = TRUE, ![n].active = TRUE]
  /\ UNCHANGED <<bids, stakeVars, updateVars, feeVars, ownerVars, held, now>>

SetNodeActive(n, active) ==
  /\ node[n].registered
  /\ node' = [node EXCEPT ![n].active = active]
  /\ UNCHANGED <<bids, stakeVars, updateVars, feeVars, ownerVars, held, now>>

\* A node may stake on itself while it is inactive, others may not on it.
IncreaseStake(d, n, amount) ==
  /\ node[n].registered
  /\ d # n => node[n].active
  /\ totalStake + amount <= MaxStake
  /\ IF d = n
     THEN /\ node' = [node EXCEPT ![n].selfStake = @ + amount]
          /\ UNCHANGED delegated
     ELSE /\ delegated' = [delegated EXCEPT ![<<d, n>>] = @ + amount]
          /\ node' = [node EXCEPT ![n].delegatedStake = @ + amount]
  /\ totalStake' = totalStake + amount
  /\ held' = held + amount
  /\ UNCHANGED <<bids, updateVars, feeVars, ownerVars, now>>

\* Mutant: a delegator may take what others delegated to the node.
AvailableToAny(d, n) == IF d = n THEN node[n].selfStake ELSE node[n].delegatedStake

Available(d, n) == IF d = n THEN node[n].selfStake ELSE delegated[<<d, n>>]

DecreaseStake(d, n, amount) ==
  /\ node[n].registered
  /\ amount <= Available(d, n)
  /\ IF d = n
     THEN /\ node' = [node EXCEPT ![n].selfStake = @ - amount]
          /\ UNCHANGED delegated
     ELSE /\ delegated' = [delegated EXCEPT ![<<d, n>>] = @ - amount]
          /\ node' = [node EXCEPT ![n].delegatedStake = @ - amount]
  /\ totalStake' = totalStake - amount
  /\ held' = held - amount
  /\ UNCHANGED <<bids, updateVars, feeVars, ownerVars, now>>

-----------------------------------------------------------------------------
(* Updates *)

\* _computeUpdateDigest: b is 0 in the manual flow.
Digest(u, b, autoFlow) == <<u, b, autoFlow>>
Digests == Update \X Nat \X BOOLEAN

\* Mutant: a digest may be used again.
FreshAlways(digest) == TRUE

Fresh(digest) == digest \notin consumed

\* _validateAndConsumeUpdate: attested by an accepted signer, not in the
\* future, recent enough for the client, whose window the hub must allow.
Valid(u, digest) ==
  /\ u.timestamp <= now
  /\ MaxAge[u.client] >= minAge
  /\ u.timestamp + MaxAge[u.client] >= now
  /\ Fresh(digest)
  /\ u.fulfiller \in signers

\* The digest is consumed, the client called back, and the fees recorded.
Deliver(u, digest, protocolFee, nodeFee) ==
  /\ Len(received) < MaxReceived
  /\ consumed' = consumed \cup {digest}
  /\ received' = Append(received, [digest |-> digest, fee |-> protocolFee + nodeFee])
  /\ protocolFees' = protocolFees + protocolFee
  /\ nodeFees' = nodeFees + nodeFee
  /\ node' = IF node[u.fulfiller].registered
             THEN [node EXCEPT ![u.fulfiller].fulfilledCount = @ + 1,
                               ![u.fulfiller].earnedFees = @ + nodeFee]
             ELSE node

\* The caller pays the vault and the node directly.
SubmitManualUpdate(u, priority) ==
  LET digest == Digest(u, 0, FALSE)
  IN  /\ Valid(u, digest)
      /\ Deliver(u, digest, ProtocolFee(priority), NodeFee(priority))
      /\ UNCHANGED <<bids, stakeVars, ownerVars, held, now>>

\* Mutant: a bid stays open when it is answered.
KeepOpen(b) == bids

Close(b) == [bids EXCEPT ![b].open = FALSE]

\* The fulfiller submits its own update.  The lockup it deposits is returned
\* in the same call.
SubmitAutoUpdate(b, u) ==
  LET digest == Digest(u, b, TRUE)
      bid == bids[b]
  IN  /\ bid.open
      /\ bid.client = u.client /\ bid.input = u.input
      /\ bid.allocated # Nobody =>
           /\ bid.allocated = u.fulfiller
           /\ node[u.fulfiller].registered /\ node[u.fulfiller].active
      /\ Valid(u, digest)
      /\ Deliver(u, digest, bid.protocolFee, bid.nodeFee)
      /\ bids' = Close(b)
      /\ held' = held - (bid.protocolFee + bid.nodeFee)
      /\ UNCHANGED <<stakeVars, ownerVars, now>>

-----------------------------------------------------------------------------
(* The owner, and time *)

SetMinimumAttestationAge(age) ==
  /\ minAge' = age
  /\ UNCHANGED <<bids, node, stakeVars, updateVars, feeVars, signers, held, now>>

\* setVerifierModule, or a change of the signers in the module itself.
SetVerifierModule(accepted) ==
  /\ signers' = accepted
  /\ UNCHANGED <<bids, node, stakeVars, updateVars, feeVars, minAge, held, now>>

Tick ==
  /\ now < MaxTime
  /\ now' = now + 1
  /\ UNCHANGED <<bids, node, stakeVars, updateVars, feeVars, ownerVars, held>>

-----------------------------------------------------------------------------
Init ==
  /\ bids = << >>
  /\ node = [n \in Accounts |-> NoRecord]
  /\ delegated = [k \in Accounts \X Accounts |-> 0]
  /\ totalStake = 0
  /\ consumed = {} /\ received = << >>
  /\ protocolFees = 0 /\ nodeFees = 0
  /\ minAge \in MinAges /\ signers \in SignerSets
  /\ held = 0
  /\ now = 0

BidStep ==
  \/ \E r \in Requesters, c \in Clients, i \in Inputs, amount \in BidAmounts :
       PlaceBid(r, c, i, amount)
  \/ \E b \in DOMAIN bids :
       CancelBid(b) \/ \E n \in Nodes \cup {Nobody} : AllocateBid(b, n)

StakeStep ==
  \E n \in Nodes :
    \/ RegisterNode(n)
    \/ \E active \in BOOLEAN : SetNodeActive(n, active)
    \/ \E d \in Accounts, amount \in StakeAmounts :
         IncreaseStake(d, n, amount) \/ DecreaseStake(d, n, amount)

UpdateStep ==
  \E u \in Update :
    \/ \E amount \in BidAmounts : amount >= Base /\ SubmitManualUpdate(u, amount - Base)
    \/ \E b \in DOMAIN bids : SubmitAutoUpdate(b, u)

OwnerStep ==
  \/ \E age \in MinAges : SetMinimumAttestationAge(age)
  \/ \E accepted \in SignerSets : SetVerifierModule(accepted)

Next == BidStep \/ StakeStep \/ UpdateStep \/ OwnerStep \/ Tick

Spec == Init /\ [][Next]_vars

-----------------------------------------------------------------------------
(* Every variable keeps its type.                                            *)
TypeOK ==
  /\ bids \in Seq(Bid)
  /\ node \in [Accounts -> NodeRecord]
  /\ delegated \in [Accounts \X Accounts -> Nat]
  /\ totalStake \in Nat /\ protocolFees \in Nat /\ nodeFees \in Nat /\ held \in Nat
  /\ consumed \subseteq Digests /\ received \in Seq([digest : Digests, fee : Nat])
  /\ minAge \in Nat /\ signers \subseteq Accounts
  /\ now \in Nat

(* The hub holds exactly the open bids and the stake: paying a node, the     *)
(* vault, a cancelled bid or a delegator never uses what another is owed     *)
(* (submitAutoUpdate, cancelBid, unstake, undelegateStake).                  *)
OpenAmounts == [b \in DOMAIN bids |-> IF bids[b].open THEN bids[b].amount ELSE 0]
SelfStakes == [n \in Accounts |-> node[n].selfStake]

HubSolvent ==
  held = Total(OpenAmounts) + Total(SelfStakes) + Total(delegated)

(* The stake behind a node is what its delegators put there, and the total   *)
(* weight is all of it, own and delegated (_increaseStake, _decreaseStake).  *)
StakeAgrees ==
  /\ \A n \in Accounts :
       node[n].delegatedStake = Total([d \in Accounts |-> delegated[<<d, n>>]])
  /\ totalStake = Total([n \in Accounts |-> node[n].selfStake + node[n].delegatedStake])

(* No update reaches a client twice, and no bid is answered twice: not       *)
(* after it was answered or cancelled, whatever other update is signed.      *)
AnsweredOnce ==
  /\ \A i, j \in DOMAIN received :
       \/ i = j
       \/ /\ received[i].digest # received[j].digest
          /\ received[i].digest[2] = 0 \/ received[i].digest[2] # received[j].digest[2]
  /\ \A i \in DOMAIN received :
       received[i].digest[2] # 0 => ~bids[received[i].digest[2]].open

(* The fees of every delivered update are split without loss, and no node is *)
(* credited what it was not paid.                                            *)
FeesAccounted ==
  /\ protocolFees + nodeFees = Total([i \in DOMAIN received |-> received[i].fee])
  /\ \A i \in DOMAIN received :
       LET b == received[i].digest[2]
       IN  b # 0 => received[i].fee = bids[b].amount
  /\ Total([n \in Accounts |-> node[n].earnedFees]) <= nodeFees

=============================================================================
