------------------------------ MODULE MCEngine ------------------------------
(***************************************************************************)
(* One loop and one action of each kind of program; two attempts, a crash  *)
(* and a change made by others; a short reveal window on a short chain.    *)
(***************************************************************************)
EXTENDS Engine

MCConflictKey == << NoKey >>

MCTypes == {"create_character", "start_dungeon", "buy_premium_lootboxes", "claim_deployer", "fulfill_trade_offer"}
=============================================================================
