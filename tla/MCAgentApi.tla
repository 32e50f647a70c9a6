----------------------------- MODULE MCAgentApi -----------------------------
(***************************************************************************)
(* The parts of the middleware and of the page that answer agents and      *)
(* visitors. They share no state, each has its own model of the chain and  *)
(* of the tables it uses, so that what one does is of no concern to the    *)
(* others: a behaviour is of one part, and the rest stay as they began.    *)
(***************************************************************************)
EXTENDS Advice, Faucet, XLink, Leaderboard, ToolSession, RecentFeed, ArenaPage, EquipBest

CONSTANTS wallet, other

VARIABLE part

partVars == << vars, faucetVars, linkVars, boardVars, sessionVars, feedVars, pageVars, wearVars >>

AllTypes == Owned \cup Listed \cup Claims \cup
  {"create_character", "finalize_epoch", "create_trade_offer", "create_rfq", "reveal_pending_commit"}

MCSlotOf == << "head", "head", "feet" >>
MCScore  == << 1, 2, 3 >>

Unasked == [of |-> "cost", type |-> "finalize_epoch", form |-> "one", arg |-> 0, fits |-> TRUE, commit |-> FALSE]

PartsInit ==
  /\ \/ part = "advice"
     \/ /\ part \in {"faucet", "link", "board", "tools", "feed", "page", "gear"}
        /\ asked = Unasked
  /\ Init /\ FaucetInit /\ XLinkInit /\ BoardInit /\ SessionInit /\ RecentFeedInit /\ ArenaPageInit /\ EquipBestInit

PartsNext ==
  \/ /\ part = "advice" /\ Next
     /\ UNCHANGED << part, faucetVars, linkVars, boardVars, sessionVars, feedVars, pageVars, wearVars >>
  \/ /\ part = "faucet" /\ FaucetNext
     /\ UNCHANGED << part, vars, linkVars, boardVars, sessionVars, feedVars, pageVars, wearVars >>
  \/ /\ part = "link" /\ XLinkNext
     /\ UNCHANGED << part, vars, faucetVars, boardVars, sessionVars, feedVars, pageVars, wearVars >>
  \/ /\ part = "board" /\ BoardNext
     /\ UNCHANGED << part, vars, faucetVars, linkVars, sessionVars, feedVars, pageVars, wearVars >>
  \/ /\ part = "tools" /\ SessionNext
     /\ UNCHANGED << part, vars, faucetVars, linkVars, boardVars, feedVars, pageVars, wearVars >>
  \/ /\ part = "feed" /\ RecentFeedNext
     /\ UNCHANGED << part, vars, faucetVars, linkVars, boardVars, sessionVars, pageVars, wearVars >>
  \/ /\ part = "page" /\ ArenaPageNext
     /\ UNCHANGED << part, vars, faucetVars, linkVars, boardVars, sessionVars, feedVars, wearVars >>
  \/ /\ part = "gear" /\ EquipBestNext
     /\ UNCHANGED << part, vars, faucetVars, linkVars, boardVars, sessionVars, feedVars, pageVars >>

PartsSpec == PartsInit /\ [][PartsNext]_<< part, partVars >>
=============================================================================
