------------------------------ MODULE Markets ------------------------------
(***************************************************************************)
(* TradeEscrow.sol and RFQMarket.sol over the same items, wallets and      *)
(* clock. An offer holds its maker's items in escrow until it is           *)
(* fulfilled, cancelled or reclaimed after its expiry; a request for quote *)
(* holds its maker's MMO. Each call is one transaction: the items move     *)
(* through Items' transfer hook, so equipment changes in the same step.    *)
(*                                                                         *)
(* The creation fee goes to the deployer and is left out. Approvals are    *)
(* assumed given: a missing one makes the call revert.                     *)
(***************************************************************************)
EXTENDS Equipment, Functions

CONSTANTS
  Escrow, Rfq,   \* the two contracts
  MaxOffers,     \* bound: offers created
  MaxRfqs,       \* bound: requests created
  Prices,        \* MMO amounts asked or offered
  StartMmo,      \* MMO of each player at the start
  OfferTtl, RfqMaxTtl,
  MaxItemsPerSide,
  MaxTime        \* bound: the clock

ASSUME MarketsAssumption ==
  /\ Contracts = {Escrow, Rfq} /\ Escrow # Rfq
  /\ MaxOffers \in Nat /\ MaxRfqs \in Nat /\ MaxTime \in Nat /\ StartMmo \in Nat
  /\ Prices \subseteq Nat
  /\ OfferTtl \in Nat \ {0} /\ RfqMaxTtl \in Nat \ {0} /\ MaxItemsPerSide \in Nat \ {0}

OfferIds == 1..MaxOffers
RfqIds   == 1..MaxRfqs

VARIABLES
  now,          \* block.timestamp
  mmo,          \* by account: MMO balance
  nextOfferId, offers,
  nextRfqId, rfqs

marketVars  == << now, mmo, nextOfferId, offers, nextRfqId, rfqs >>
marketsVars == << equipmentVars, marketVars >>

Offer   == [maker : Players \cup {Nobody}, offered : SUBSET ItemIds, requested : SUBSET ItemIds,
            requestedMmo : Prices \cup {0}, expiry : 0..(MaxTime + OfferTtl), active : BOOLEAN]
NoOffer == [maker |-> Nobody, offered |-> {}, requested |-> {}, requestedMmo |-> 0,
            expiry |-> 0, active |-> FALSE]

RFQ   == [maker : Players \cup {Nobody}, mmoOffered : Prices \cup {0}, minTier : Nat,
          slot : Slots \cup {NoItem}, setMask : SUBSET SetIds, expiry : 0..(MaxTime + RfqMaxTtl),
          active : BOOLEAN, filled : BOOLEAN]
NoRFQ == [maker |-> Nobody, mmoOffered |-> 0, minTier |-> 0, slot |-> NoItem, setMask |-> {},
          expiry |-> 0, active |-> FALSE, filled |-> FALSE]

MarketsInit ==
  /\ EquipmentInit
  /\ now = 0
  /\ mmo = [a \in Accounts |-> IF a \in Players THEN StartMmo ELSE 0]
  /\ nextOfferId = 1 /\ offers = [o \in OfferIds |-> NoOffer]
  /\ nextRfqId = 1   /\ rfqs = [r \in RfqIds |-> NoRFQ]

Paid(from, to, amount) == [[mmo EXCEPT ![from] = @ - amount] EXCEPT ![to] = @ + amount]

-----------------------------------------------------------------------------
(* TradeEscrow *)

\* Both sides are sets: _ensureUnique refuses a token named twice.
Side == {S \in SUBSET ItemIds : S # {} /\ Cardinality(S) <= MaxItemsPerSide}

\* Seeded fault: the offered tokens are not checked to be the sender's.
OwnsAnything(a, S) == S \subseteq ItemIds
OwnsAll(a, S)      == \A i \in S : ownerOf[i] = a

CreateOffer(p, offered, requested, price) ==
  /\ nextOfferId <= MaxOffers
  /\ OwnsAll(p, offered)
  /\ offers' = [offers EXCEPT ![nextOfferId] =
       [maker |-> p, offered |-> offered, requested |-> requested, requestedMmo |-> price,
        expiry |-> now + OfferTtl, active |-> TRUE]]
  /\ nextOfferId' = nextOfferId + 1
  /\ Transferred(offered, Escrow)
  /\ UNCHANGED << now, mmo, nextRfqId, rfqs >>

\* An offer that ends keeps its record and loses its two lists.
Closed(o) == [offers EXCEPT ![o].active = FALSE, ![o].offered = {}, ![o].requested = {}]

\* What cancelOffer and cancelExpiredOffer share.
ReturnOffer(o) ==
  /\ offers' = Closed(o)
  /\ Transferred(offers[o].offered, offers[o].maker)
  /\ UNCHANGED << now, mmo, nextOfferId, nextRfqId, rfqs >>

\* The maker may cancel at any time, before or after the expiry.
CancelOffer(p, o) == offers[o].active /\ offers[o].maker = p /\ ReturnOffer(o)

\* Anyone may, once it has expired.
CancelExpiredOffer(o) == offers[o].active /\ now > offers[o].expiry /\ ReturnOffer(o)

\* fulfillOffer: the requested items go from the sender to the maker, then the
\* escrowed ones to the sender, then the price. No item is on both sides: the
\* sender would have to own what the escrow holds. Seeded fault: the requested
\* items stay where they are.
DeliveredOffered(p, o) == OwnersAfter(offers[o].offered, p)
DeliveredBoth(p, o) ==
  [i \in ItemIds |-> IF i \in offers[o].offered THEN p
                     ELSE IF i \in offers[o].requested THEN offers[o].maker
                     ELSE ownerOf[i]]

InTime(expiry) == now <= expiry

FulfillOffer(p, o) ==
  LET offer == offers[o]
      price == offer.requestedMmo
  IN
  /\ offer.active
  /\ InTime(offer.expiry)
  /\ OwnsAll(p, offer.requested)
  /\ mmo[p] >= price
  /\ offers'  = Closed(o)
  /\ ownerOf' = DeliveredBoth(p, o)
  /\ Unequipped(Moving(offer.requested, offer.maker) \cup Moving(offer.offered, p))
  /\ mmo' = Paid(p, offer.maker, price)
  /\ UNCHANGED << setOf, itemNonce, bestLevel, runActive, now, nextOfferId, nextRfqId, rfqs >>

-----------------------------------------------------------------------------
(* RFQMarket *)

CreateRFQ(p, slot, minTier, setMask, amount, expiry) ==
  /\ nextRfqId <= MaxRfqs
  /\ amount > 0
  /\ expiry > now /\ expiry <= now + RfqMaxTtl
  /\ mmo[p] >= amount
  /\ rfqs' = [rfqs EXCEPT ![nextRfqId] =
       [maker |-> p, mmoOffered |-> amount, minTier |-> minTier, slot |-> slot,
        setMask |-> setMask, expiry |-> expiry, active |-> TRUE, filled |-> FALSE]]
  /\ nextRfqId' = nextRfqId + 1
  /\ mmo' = Paid(p, Rfq, amount)
  /\ UNCHANGED << equipmentVars, now, nextOfferId, offers >>

\* What fillRFQ requires of the item; an empty mask takes any.
Matches(i, r) ==
  /\ SlotOf[i] = rfqs[r].slot
  /\ TierOf[i] >= rfqs[r].minTier
  /\ rfqs[r].setMask # {} => setOf[i] \in rfqs[r].setMask

FillRFQ(p, r, i) ==
  /\ rfqs[r].active
  /\ InTime(rfqs[r].expiry)
  /\ ownerOf[i] = p
  /\ Matches(i, r)
  /\ rfqs' = [rfqs EXCEPT ![r].active = FALSE, ![r].filled = TRUE]
  /\ Transferred({i}, rfqs[r].maker)
  /\ mmo' = Paid(Rfq, p, rfqs[r].mmoOffered)
  /\ UNCHANGED << now, nextOfferId, offers, nextRfqId >>

CancelRFQ(p, r) ==
  /\ rfqs[r].active
  /\ rfqs[r].maker = p
  /\ rfqs' = [rfqs EXCEPT ![r].active = FALSE]
  /\ mmo'  = Paid(Rfq, p, rfqs[r].mmoOffered)
  /\ UNCHANGED << equipmentVars, now, nextOfferId, offers, nextRfqId >>

-----------------------------------------------------------------------------

Tick ==
  /\ now < MaxTime
  /\ now' = now + 1
  /\ UNCHANGED << equipmentVars, mmo, nextOfferId, offers, nextRfqId, rfqs >>

TradeNext ==
  \/ \E p \in Players, offered, requested \in Side, price \in Prices \cup {0} :
       CreateOffer(p, offered, requested, price)
  \/ \E p \in Players, o \in OfferIds : CancelOffer(p, o) \/ FulfillOffer(p, o)
  \/ \E o \in OfferIds : CancelExpiredOffer(o)

RfqNext ==
  \/ \E p \in Players, slot \in Slots, tier \in {TierOf[i] : i \in ItemIds},
        mask \in SUBSET SetIds, amount \in Prices, expiry \in 1..(MaxTime + RfqMaxTtl) :
       CreateRFQ(p, slot, tier, mask, amount, expiry)
  \/ \E p \in Players, r \in RfqIds :
       \/ CancelRFQ(p, r)
       \/ \E i \in ItemIds : FillRFQ(p, r, i)

MarketsNext ==
  \/ EquipmentNext /\ UNCHANGED marketVars
  \/ TradeNext
  \/ RfqNext
  \/ Tick

MarketsSpec == MarketsInit /\ [][MarketsNext]_marketsVars

-----------------------------------------------------------------------------

\* The variables of the two markets have their types.
MarketsTypeOK ==
  /\ EquipmentTypeOK
  /\ now \in 0..MaxTime
  /\ mmo \in [Accounts -> Nat]
  /\ nextOfferId \in 1..(MaxOffers + 1) /\ offers \in [OfferIds -> Offer]
  /\ nextRfqId \in 1..(MaxRfqs + 1) /\ rfqs \in [RfqIds -> RFQ]

\* The escrow holds every item of every active offer, each in one offer only:
\* each offer can be cancelled or fulfilled, in any order, and no item is
\* handed out twice.
OffersBacked ==
  /\ \A o \in OfferIds : \A i \in offers[o].offered : ownerOf[i] = Escrow
  /\ \A o1, o2 \in OfferIds : o1 # o2 => offers[o1].offered \cap offers[o2].offered = {}
  /\ \A o \in OfferIds : offers[o].active <=> offers[o].offered # {}

\* The RFQ contract holds exactly the MMO of the requests still active, so
\* each of them can be filled or cancelled.
RfqsBacked ==
  mmo[Rfq] = SumFunction([r \in {q \in RfqIds : rfqs[q].active} |-> rfqs[r].mmoOffered])

\* Nothing is lost in an offer: when it ends, its maker has back every item he
\* offered, or has every item and all the MMO he asked for, and it was not yet
\* expired.
OfferKeepsItsPromise ==
  [][\A o \in OfferIds : offers[o].active /\ ~offers'[o].active =>
       LET m == offers[o].maker IN
       \/ \A i \in offers[o].offered : ownerOf'[i] = m
       \/ /\ \A i \in offers[o].requested : ownerOf'[i] = m
          /\ mmo'[m] = mmo[m] + offers[o].requestedMmo
          /\ now <= offers[o].expiry
    ]_marketsVars

\* The same for a request: its maker gets the MMO back, or an item that was
\* another wallet's (or his own) and is of the slot, tier and set he asked for
\* at this moment, whatever was forged since the request was made.
RfqKeepsItsPromise ==
  [][\A r \in RfqIds : rfqs[r].active /\ ~rfqs'[r].active =>
       LET m == rfqs[r].maker IN
       \/ ~rfqs'[r].filled /\ mmo'[m] = mmo[m] + rfqs[r].mmoOffered
       \/ /\ rfqs'[r].filled
          /\ now <= rfqs[r].expiry
          /\ \E i \in ItemIds :
               /\ ownerOf'[i] = m
               /\ SlotOf[i] = rfqs[r].slot /\ TierOf[i] >= rfqs[r].minTier
               /\ rfqs[r].setMask = {} \/ setOf'[i] \in rfqs[r].setMask
    ]_marketsVars

\* What the markets hold covers what they have promised, and each promise is kept at its end.
PromisesBacked == MarketsTypeOK /\ OffersBacked /\ RfqsBacked
PromisesKept   == OfferKeepsItsPromise /\ RfqKeepsItsPromise
=============================================================================
