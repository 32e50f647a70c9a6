----------------------------- MODULE MCMarkets -----------------------------
(***************************************************************************)
(* One player with two characters, another with one, and three items: two  *)
(* for the head, one of them above the first level's reach, one for the    *)
(* feet. The variable part divides the behaviours by what the players are  *)
(* at, to keep them checkable: the gear of all the characters, worn and    *)
(* worked on between and during runs, while items come and go by plain     *)
(* transfers; or two promises on the markets, offers or requests or one of *)
(* each, while one character wears and forges items and plays no run. An   *)
(* item that a request matches may be forged into another set meanwhile.   *)
(***************************************************************************)
EXTENDS Markets, TLC

CONSTANTS p1, p2, c1, c2, c3, head, feet, s1, s2

VARIABLE part

MCOwner == (c1 :> p1) @@ (c2 :> p1) @@ (c3 :> p2)
MCSlot  == << head, head, feet >>
MCTier  == << 2, 3, 2 >>

partsVars == << part, marketsVars >>

MaxPromises == 2
Traded      == {1, 2}

PartsInit == part \in {"gear", "markets"} /\ MarketsInit

\* A request is open that the item matches because of its set.
Wanted(i) == \E r \in RfqIds : rfqs[r].active /\ setOf[i] \in rfqs[r].setMask

\* What a player does with an item beside the markets.
Own(i) ==
  \/ \E p \in Players : Mint(p, i, NoSet)
  \/ \E p, to \in Players : Transfer(p, to, i)
  \/ EquipItem(p1, c1, i)
  \/ ForgeSetPiece(p1, c1, i, s1)
  \/ Wanted(i) /\ ForgeSetPiece(p1, c1, i, s2)

\* The promises made stay within the bounds.
Bounded ==
  /\ nextOfferId + nextRfqId <= MaxPromises + 2
  /\ \A o \in OfferIds : offers[o].requested \subseteq Traded
  /\ \A r \in RfqIds : rfqs[r].slot \in {head, NoItem} /\ rfqs[r].setMask \subseteq {s1}

PartsNext ==
  /\ UNCHANGED part
  /\ \/ part = "gear" /\ EquipmentNext /\ UNCHANGED marketVars
        /\ \A i \in ItemIds : ownerOf'[i] # Rfq /\ setOf'[i] # s2
     \/ part = "markets" /\ (\E i \in Traded : Own(i)) /\ UNCHANGED marketVars
     \/ part = "markets" /\ (TradeNext \/ RfqNext \/ Tick) /\ Bounded'

PartsSpec == PartsInit /\ [][PartsNext]_partsVars
=============================================================================
