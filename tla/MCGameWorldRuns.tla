--------------------------- MODULE MCGameWorldRuns ---------------------------
(***************************************************************************)
(* One player with one character; runs on three levels, the last of which  *)
(* takes three clears, costs an entry fee and erodes on failure.           *)
(***************************************************************************)
EXTENDS GameWorld

MCRunIntents == {
  [form |-> "start", legacy |-> FALSE, mode |-> "SWINGY",  difficulty |-> "EASY", level |-> 1],
  [form |-> "start", legacy |-> TRUE,  mode |-> "NEUTRAL", difficulty |-> "HARD", level |-> 2],
  [form |-> "start", legacy |-> FALSE, mode |-> "SWINGY",  difficulty |-> "HARD", level |-> 3] }
MCLootIntents    == {}
MCCommitModes    == {"NEUTRAL", "SWINGY"}
MCRequiredClears == << 1, 1, 3 >>
MCRequiredSlots  == << 0, 1, 1 >>
MCFailureDecay   == << 0, 0, 1 >>
MCRepairFee      == << 0, 1, 2 >>
MCEntryFee       == << 0, 0, 1 >>
MCPremiumMmoCost == << 1, 1, 1 >>
MCForgeCosts     == { << 2, 1 >> }
=============================================================================
