-------------------------- MODULE MCGameWorldRivals --------------------------
(***************************************************************************)
(* Two players, one character each, sharing the contract's MMO balance and *)
(* the level histogram. Gear and stones are out of play here.              *)
(***************************************************************************)
EXTENDS GameWorld

MCRunIntents == {
  [form |-> "start", legacy |-> TRUE,  mode |-> "NEUTRAL", difficulty |-> "EASY", level |-> 2],
  [form |-> "start", legacy |-> FALSE, mode |-> "SWINGY",  difficulty |-> "HARD", level |-> 3] }
MCLootIntents    == {}
MCCommitModes    == {"NEUTRAL", "SWINGY"}
MCRequiredClears == << 1, 1, 3 >>
MCRequiredSlots  == << 0, 0, 0 >>
MCFailureDecay   == << 0, 0, 1 >>
MCRepairFee      == << 0, 1, 2 >>
MCEntryFee       == << 0, 0, 1 >>
MCPremiumMmoCost == << 0, 0, 0 >>
=============================================================================
