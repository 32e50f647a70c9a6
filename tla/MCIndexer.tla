------------------------------ MODULE MCIndexer ------------------------------
(***************************************************************************)
(* One key and a short chain, on a public and on a development chain;      *)
(* chunks of two blocks that may shrink; two reorganizations, restarts or  *)
(* faults in all.                                                          *)
(***************************************************************************)
EXTENDS Indexer

CONSTANT k1
MCKeys == {k1}

MCEvents == {"CharacterCreated", "CharacterLevelUpdated", "LootboxCredited", "ItemUnequipped",
             "RFQCreated", "RFQClosed"}
=============================================================================
