--------------------------- MODULE MCGameWorldLoot ---------------------------
(***************************************************************************)
(* One character earning credits bound to two variance modes and opening   *)
(* them, with generic credits of the free and premium lootboxes, through   *)
(* two commits outstanding at once. The exact NEUTRAL and the legacy max   *)
(* intent have the same words: a commit of one can be revealed as the      *)
(* other.                                                                  *)
(***************************************************************************)
EXTENDS GameWorld, TLC

MCRunIntents == {
  [form |-> "start", legacy |-> FALSE, mode |-> "SWINGY",  difficulty |-> "EASY", level |-> 2],
  [form |-> "start", legacy |-> TRUE,  mode |-> "NEUTRAL", difficulty |-> "EASY", level |-> 3] }
MCLootIntents == {
  [form |-> "exact", legacy |-> TRUE,  mode |-> "NEUTRAL", tier |-> 3, amount |-> 1],
  [form |-> "exact", legacy |-> FALSE, mode |-> "NEUTRAL", tier |-> 3, amount |-> 2],
  [form |-> "max",   legacy |-> TRUE,  mode |-> "NEUTRAL", tier |-> 3, amount |-> 2],
  [form |-> "exact", legacy |-> FALSE, mode |-> "SWINGY",  tier |-> 3, amount |-> 1],
  [form |-> "max",   legacy |-> FALSE, mode |-> "SWINGY",  tier |-> 3, amount |-> 2] }
MCCommitModes    == {"NEUTRAL", "SWINGY"}
MCRequiredClears == << 1, 1, 1 >>
MCRequiredSlots  == << 0, 0, 0 >>
MCFailureDecay   == << 0, 0, 0 >>
MCRepairFee      == << 0, 0, 0 >>
MCEntryFee       == << 0, 0, 0 >>
MCPremiumMmoCost == << 0, 0, 0 >>
MCSymmetry       == Permutations(CommitIds)
=============================================================================
