------------------------------- MODULE Advice -------------------------------
(***************************************************************************)
(* What an agent asks before it acts: ActionPreflight (preflight.ts),      *)
(* ActionValidMenu (valid-actions.ts), ActionTxIntentBuilder               *)
(* (tx-intents.ts) and ActionCostEstimator (cost-estimator.ts).            *)
(*                                                                         *)
(* Each puts its answer together from several reads of the chain, which    *)
(* moves between two reads and after the last one. A plan of tx-intents is *)
(* then sent by its owner, one transaction after the other.                *)
(*                                                                         *)
(* One question is asked about one character, epoch, offer or RFQ, named   *)
(* by an id that exists. The number of a block is its time too. Codes are  *)
(* without their prefix (PRECHECK_, CHAIN_).                               *)
(***************************************************************************)
EXTENDS Naturals, Sequences, FiniteSets

CONSTANTS
  Types,          \* types of action asked about
  AllowDeployerClaims,
  RevealDelay,    \* 2
  RevealWindow,   \* 256
  DefaultTtl,     \* 3600, for an RFQ without an expiry
  MaxTtl,         \* RFQ_MAX_TTL
  OfferExpiry,    \* bound: when the offer or RFQ asked about expires
  MaxCount,       \* bound: slots worn, potions, credits, price
  MaxBlock        \* bound: height of the chain

ASSUME AdviceAssumption ==
  /\ AllowDeployerClaims \in BOOLEAN
  /\ {RevealDelay, RevealWindow, DefaultTtl, MaxTtl, OfferExpiry, MaxCount, MaxBlock} \subseteq Nat
  /\ 0 < DefaultTtl /\ DefaultTtl <= MaxTtl /\ RevealDelay <= RevealWindow

VARIABLES
  world,    \* what the chain says of what is asked about
  asked,    \* the question
  seen,     \* read so far
  answer,   \* once it is given
  sent,     \* transactions of the plan sent
  outcome,  \* of the last one: "none", "done", "failed", or "unfit" if the contract objects anyway
  held,     \* the contract would have served the action in full since the question
  calm      \* nobody has changed anything since the question

vars == << world, asked, seen, answer, sent, outcome, held, calm >>

Gear       == {"equip_best", "reroll_item", "forge_set_piece"}
Committed  == {"start_dungeon", "open_lootboxes_max"}
Owned      == Gear \cup Committed \cup {"next_room", "buy_premium_lootboxes", "claim_player"}
OnMenu     == (Owned \ {"claim_player"}) \cup {"reveal_pending_commit"}
Closing    == {"cancel_trade_offer", "cancel_rfq"}
Claims     == {"claim_player", "claim_deployer"}
Listed     == Closing \cup {"fulfill_trade_offer", "cancel_expired_trade_offer", "fill_rfq"}
\* What the contract takes items or MMO for.
Sellable   == {"create_trade_offer", "fulfill_trade_offer", "fill_rfq", "next_room", "create_rfq",
               "buy_premium_lootboxes", "forge_set_piece"}
Priced     == Committed \cup {"buy_premium_lootboxes", "create_trade_offer", "create_rfq"}

NoAnswer == [code |-> "NONE", value |-> 0, intents |-> {}, expiry |-> 0]
Pending  == answer = NoAnswer

-----------------------------------------------------------------------------
(* The contracts: the guards that the advice is about. A room is asked for *)
(* by itself, in a list that is not sent (of one room: what is sent then   *)
(* uses no potion) or in a list that is sent as a batch. A batch stops at  *)
(* the room that ends the run: the run lasts for so many of its potions.   *)

Expiry(q) == IF q.arg = 0 THEN world.block + DefaultTtl ELSE q.arg
InWindow  == world.block \in RevealDelay..RevealWindow

PotionsTaken(q) ==
  CASE q.form = "one"   -> q.arg
    [] q.form = "list"  -> 0
    [] q.form = "batch" -> IF q.arg <= world.run.lasts THEN q.arg ELSE world.run.lasts

Accepts(q) ==
  /\ q.commit => world.commit /\ InWindow
  /\ q.type \in Owned => world.mine
  /\ q.type \in {"start_dungeon"} \cup Gear => ~world.run.active
  /\ q.type = "start_dungeon" => world.slots >= q.arg
  /\ q.type = "next_room" => world.run.active /\ PotionsTaken(q) <= world.run.charges
  /\ q.type = "finalize_epoch" => world.epoch = "over"
  /\ q.type \in Claims => world.epoch = "finalized" /\ ~world.claimed
  /\ q.type \in Listed => world.listing.active
  /\ q.type \in Closing => world.listing.mine
  /\ q.type \in {"fulfill_trade_offer", "fill_rfq"} => world.block <= OfferExpiry
  /\ q.type = "cancel_expired_trade_offer" => world.block > OfferExpiry
  /\ q.type = "create_rfq" => Expiry(q) \in (world.block + 1)..(world.block + MaxTtl)
  /\ q.type \in {"create_rfq", "buy_premium_lootboxes"} => q.fits

\* A maximal opening without credits is accepted, and opens nothing; a batch whose run ends
\* does not get to its last potions. Only what is done in full has served the one who asked.
Serves(q) ==
  /\ Accepts(q)
  /\ q.type = "next_room" => q.arg <= world.run.charges
  /\ q.type = "open_lootboxes_max" => world.openable > 0

\* Approvals that the contract takes from the sender.
Takes(q) ==
  CASE q.type \in {"create_trade_offer", "fill_rfq"} -> {"items"}
    [] q.type \in {"next_room", "create_rfq", "buy_premium_lootboxes", "forge_set_piece"} -> {"mmo"}
    [] q.type = "fulfill_trade_offer" -> {"items"} \cup (IF world.listing.mmo THEN {"mmo"} ELSE {})
    [] OTHER -> {}

-----------------------------------------------------------------------------
(* The reads, in their order. The slots that a level requires depend on    *)
(* the level alone.                                                        *)

GateReads(q)  == IF q.commit THEN << "window", "height" >> ELSE << >>
OwnerReads(q) == IF q.type \in Owned THEN << "mine" >> ELSE << >>

StateReads(q) ==
  CASE q.type = "start_dungeon"      -> << "run", "slots" >>
    [] q.type \in Gear \cup {"next_room"} -> << "run" >>
    [] q.type = "open_lootboxes_max" -> << "openable" >>
    [] q.type = "finalize_epoch"     -> << "epoch" >>
    [] q.type \in Claims             -> << "epoch", "claimed" >>
    [] q.type \in Listed             -> << "listing", "now" >>
    [] q.type = "create_rfq"         -> << "now" >>
    [] OTHER                         -> << >>

PriceReads(q) == IF q.type \in Priced THEN << "price" >> ELSE << >>
\* The approvals that preflight reports and the builder adds, where they are missing.
Minds(q) ==
  CASE q.of = "preflight" -> q.type \in {"create_trade_offer", "fulfill_trade_offer"}
    [] q.of = "plan"      -> q.type \in {"create_trade_offer", "fulfill_trade_offer", "create_rfq"}
    [] OTHER              -> FALSE
ApprovalReads(q) == IF Minds(q) THEN << "approved" >> ELSE << >>

PreflightReads(q) == GateReads(q) \o PriceReads(q) \o OwnerReads(q) \o StateReads(q) \o ApprovalReads(q)
MenuReads(q)      == << "mine", "run", "slots", "openable", "price" >> \o GateReads(q)
PlanReads(q)      == OwnerReads(q) \o (IF q.type = "fulfill_trade_offer" THEN << "listing" >> ELSE << >>)
                       \o ApprovalReads(q) \o PriceReads(q)
CostReads(q)      == PriceReads(q)

Reads(q) ==
  CASE q.of = "preflight" -> PreflightReads(q)
    [] q.of = "menu"      -> MenuReads(q)
    [] q.of = "plan"      -> PlanReads(q)
    [] q.of = "cost"      -> CostReads(q)

Read(f) ==
  CASE f = "window" -> [resolved  |-> ~world.commit,
                        expired   |-> world.commit /\ world.block > RevealWindow,
                        canReveal |-> world.commit /\ InWindow]
    [] f \in {"now", "height"} -> world.block
    [] OTHER -> world[f]

-----------------------------------------------------------------------------
(* The answers. A refusal is the first one whose condition holds.          *)

Ok == "OK"
FirstOf(refusals) ==
  LET hit == {i \in DOMAIN refusals : refusals[i][1]}
  IN  IF hit = {} THEN Ok ELSE refusals[CHOOSE i \in hit : \A j \in hit : i <= j][2]

RevealWindowGate(s) == <<
  << s.window.resolved, "COMMIT_RESOLVED" >>,
  << s.window.expired, "REVEAL_EXPIRED" >>,
  << ~s.window.canReveal /\ s.height < RevealDelay, "REVEAL_TOO_EARLY" >> >>

CharacterOwner(s) == << << ~s.mine, "ONLY_CHARACTER_OWNER" >> >>

StartDungeon(q, s) == <<
  << s.run.active, "RUN_ALREADY_ACTIVE" >>,
  << s.slots < q.arg, "INSUFFICIENT_EQUIPPED_SLOTS" >> >>
NextRoom(q, s) == <<
  << ~s.run.active, "RUN_NOT_ACTIVE" >>,
  << q.arg > s.run.charges, "POTION_UNAVAILABLE" >> >>
OpenLootboxesMax(s) == << << s.openable = 0, "INSUFFICIENT_LOOTBOX_CREDITS" >> >>
GearAction(s)       == << << s.run.active, "GEAR_LOCKED_DURING_RUN" >> >>
CreateRfq(q, s) == <<
  << ~q.fits, "INVALID_AMOUNT" >>,
  << q.arg <= s.now \/ q.arg > s.now + MaxTtl, "INVALID_EXPIRY" >> >>
FinalizeEpoch(s) == << << s.epoch = "finalized", "EPOCH_ALREADY_FINALIZED" >> >>
Claim(s) == <<
  << s.epoch # "finalized", "EPOCH_NOT_FINALIZED" >>,
  << s.claimed, "ALREADY_CLAIMED" >> >>
ClaimDeployer(s) == << << ~AllowDeployerClaims, "DEPLOYER_CLAIM_DISABLED" >> >> \o Claim(s)
\* Seeded fault: an offer is called expired in its last second.
FulfillTradeOfferEarly(s) == <<
  << ~s.listing.active, "INACTIVE" >>,
  << s.now >= OfferExpiry, "EXPIRED" >> >>
FulfillTradeOffer(s) == <<
  << ~s.listing.active, "INACTIVE" >>,
  << s.now > OfferExpiry, "EXPIRED" >> >>
CancelTradeOffer(s) == <<
  << ~s.listing.active, "INACTIVE" >>,
  << ~s.listing.mine, "NOT_MAKER" >> >>
CancelExpiredTradeOffer(s) == <<
  << ~s.listing.active, "INACTIVE" >>,
  << s.now <= OfferExpiry, "OFFER_NOT_EXPIRED" >> >>

OfType(q, s) ==
  CASE q.type = "start_dungeon"      -> StartDungeon(q, s)
    [] q.type = "next_room"          -> NextRoom(q, s)
    [] q.type = "open_lootboxes_max" -> OpenLootboxesMax(s)
    [] q.type \in Gear               -> GearAction(s)
    [] q.type = "create_rfq"         -> CreateRfq(q, s)
    [] q.type = "finalize_epoch"     -> FinalizeEpoch(s)
    [] q.type = "claim_player"       -> Claim(s)
    [] q.type = "claim_deployer"     -> ClaimDeployer(s)
    [] q.type \in {"fulfill_trade_offer", "fill_rfq"} -> FulfillTradeOffer(s)
    [] q.type \in Closing            -> CancelTradeOffer(s)
    [] q.type = "cancel_expired_trade_offer" -> CancelExpiredTradeOffer(s)
    [] OTHER                         -> << >>

\* A quote for more than the vault sells at once reverts: no answer.
Quoted(q, code) == IF q.type = "buy_premium_lootboxes" /\ ~q.fits THEN "ERROR" ELSE code
OwnedBySigner(q, s) == IF q.type \in Owned THEN CharacterOwner(s) ELSE << >>

Preflight(q, s) ==
  LET code == FirstOf((IF q.commit THEN RevealWindowGate(s) ELSE << >>) \o OwnedBySigner(q, s) \o OfType(q, s))
  IN  IF code = Ok THEN Quoted(q, code) ELSE code

EvaluateRevealWindow(s) == <<
  << s.window.resolved, "COMMIT_RESOLVED" >>,
  << s.window.expired, "REVEAL_EXPIRED" >>,
  << ~s.window.canReveal, "REVEAL_TOO_EARLY" >> >>

Menu(q, s) ==
  Quoted(q, FirstOf(IF q.type = "reveal_pending_commit" THEN EvaluateRevealWindow(s)
                    ELSE OwnedBySigner(q, s) \o OfType(q, s)))

\* Seeded fault: the MMO that the maker wants is forgotten.
ItemApprovals(q, s) == IF ~Minds(q) THEN {} ELSE {"items"} \ s.approved
Approvals(q, s) ==
  IF ~Minds(q) THEN {}
  ELSE {kind \in {"items", "mmo"} \ s.approved :
          CASE q.type = "create_trade_offer"  -> kind = "items"
            [] q.type = "fulfill_trade_offer" -> kind = "items" \/ s.listing.mmo
            [] q.type = "create_rfq"          -> kind = "mmo"}

\* (That a plan fails for an offered item not held, or without an item to put on, is left out.)
Plan(q, s) == Quoted(q, FirstOf(OwnedBySigner(q, s)))

Code(q, s) ==
  CASE q.of = "preflight" -> Preflight(q, s)
    [] q.of = "menu"      -> Menu(q, s)
    [] q.of = "plan"      -> Plan(q, s)
    [] q.of = "cost"      -> Quoted(q, Ok)

ValueOf(q, s) == IF q.type \in Priced THEN s.price ELSE 0

Given(q, s) ==
  [code    |-> Code(q, s),
   value   |-> ValueOf(q, s),
   intents |-> Approvals(q, s),
   expiry  |-> IF q.type = "create_rfq" THEN Expiry(q) ELSE 0]

\* Seeded fault: that an offer has not expired yet is taken for final.
RetryableForgetful(code) == code \in {"REVEAL_TOO_EARLY", "EPOCH_NOT_FINALIZED"}
Retryable(code) == code \in {"REVEAL_TOO_EARLY", "EPOCH_NOT_FINALIZED", "OFFER_NOT_EXPIRED"}

-----------------------------------------------------------------------------
\* lasts: how many potions of the batch the run would live to use.
Runs == [active : BOOLEAN, charges : 0..MaxCount, lasts : 0..MaxCount]
RunsOf(q) == {r \in Runs : r.lasts > 0 => q.form = "batch"}

Questions ==
  {q \in [of : {"preflight", "menu", "plan", "cost"}, type : Types, form : {"one", "list", "batch"},
          arg : 0..MaxCount, fits : BOOLEAN, commit : BOOLEAN] :
     /\ q.commit => (q.of = "preflight" /\ q.type \in Committed) \/ q.type = "reveal_pending_commit"
     /\ q.type = "reveal_pending_commit" => q.of = "menu" /\ q.commit
     /\ q.of = "menu" => q.type \in OnMenu /\ q.form = "one"
     /\ q.form # "one" => q.type = "next_room"
     /\ q.type = "next_room" /\ q.form # "batch" => q.arg <= 1
     /\ q.arg > 0 => q.type \in {"start_dungeon", "next_room", "create_rfq"}
     /\ ~q.fits => q.type \in {"create_rfq", "buy_premium_lootboxes"}}

\* What the question does not concern has one value.
Of(q, types, values) == IF q.type \in types THEN values ELSE {CHOOSE v \in values : TRUE}

Worlds(q) ==
  [block    : {0},
   mine     : Of(q, Owned, BOOLEAN),
   run      : Of(q, Gear \cup {"start_dungeon", "next_room"}, RunsOf(q)),
   slots    : Of(q, {"start_dungeon"}, 0..MaxCount),
   openable : Of(q, {"open_lootboxes_max"}, 0..MaxCount),
   price    : {1},
   epoch    : {"running"},
   claimed  : {FALSE},
   listing  : Of(q, Listed, [active : BOOLEAN, mine : BOOLEAN, mmo : BOOLEAN]),
   approved : Of(q, Sellable, SUBSET {"items", "mmo"}),
   commit   : IF q.commit THEN BOOLEAN ELSE {FALSE}]

Init ==
  /\ asked \in Questions
  /\ world \in Worlds(asked)
  /\ seen = << >> /\ answer = NoAnswer /\ sent = {} /\ outcome = "none"
  /\ held = Serves(asked) /\ calm = TRUE

\* One more read of those that the answer takes.
AskChain ==
  /\ Pending
  /\ Cardinality(DOMAIN seen) < Cardinality({Reads(asked)[i] : i \in DOMAIN Reads(asked)})
  /\ LET next == Reads(asked)[CHOOSE i \in DOMAIN Reads(asked) :
                   /\ Reads(asked)[i] \notin DOMAIN seen
                   /\ \A j \in 1..(i - 1) : Reads(asked)[j] \in DOMAIN seen]
     IN  seen' = [f \in DOMAIN seen \cup {next} |-> IF f = next THEN Read(f) ELSE seen[f]]
  /\ UNCHANGED << world, asked, answer, sent, outcome, held, calm >>

Answer ==
  /\ Pending
  /\ \A i \in DOMAIN Reads(asked) : Reads(asked)[i] \in DOMAIN seen
  /\ answer' = Given(asked, seen)
  /\ UNCHANGED << world, asked, seen, sent, outcome, held, calm >>

\* The owner of the wallet sends the approvals it was told of, then the action with the value it was told.
\* Of an action that is committed, the commit is sent.
Advised == ~Pending /\ asked.of # "menu" /\ answer.code = Ok /\ outcome = "none"

Fit == IF asked.type \in Committed THEN world.mine
       ELSE /\ Accepts(asked)
            /\ asked.type = "create_rfq" => answer.expiry > world.block

SendApproval(kind) ==
  /\ Advised /\ kind \in answer.intents \ sent
  /\ sent' = sent \cup {kind}
  /\ world' = [world EXCEPT !.approved = @ \cup {kind}]
  /\ UNCHANGED << asked, seen, answer, outcome, held, calm >>

SendAction ==
  /\ Advised /\ answer.intents \subseteq sent
  /\ outcome' = IF ~Fit THEN "unfit"
                ELSE IF /\ Takes(asked) \subseteq world.approved
                        /\ asked.type \in Priced => answer.value >= world.price
                THEN "done" ELSE "failed"
  /\ UNCHANGED << world, asked, seen, answer, sent, held, calm >>

-----------------------------------------------------------------------------
(* The chain moves: time, the owner of the character and other players.    *)

Change(w) ==
  /\ world' = w
  /\ UNCHANGED << asked, seen, answer, sent, outcome >>
  /\ held' = (held /\ (Pending => Serves(asked)'))

NewBlock ==
  /\ world.block < MaxBlock
  /\ Change([world EXCEPT !.block = @ + 1])
  /\ UNCHANGED calm

\* A run begins with any potions, uses them and ends.
RunMoves == \E r \in RunsOf(asked) :
  /\ asked.type \in Gear \cup {"start_dungeon", "next_room"}
  /\ r # world.run /\ (r.active \/ world.run.active)
  /\ r.active /\ world.run.active => r.charges <= world.run.charges
  /\ Change([world EXCEPT !.run = r])
\* Items are put on only between runs, and sold at any time.
GearMoves == \E n \in 0..MaxCount :
  /\ asked.type = "start_dungeon" /\ n # world.slots
  /\ n > world.slots => ~world.run.active
  /\ Change([world EXCEPT !.slots = n])
CreditsMove == \E n \in (0..MaxCount) \ {world.openable} :
  asked.type = "open_lootboxes_max" /\ Change([world EXCEPT !.openable = n])
PriceMoves == \E n \in (1..MaxCount) \ {world.price} :
  asked.type = "buy_premium_lootboxes" /\ Change([world EXCEPT !.price = n])
EpochMoves ==
  /\ asked.type \in Claims \cup {"finalize_epoch"}
  /\ \/ world.epoch = "running" /\ Change([world EXCEPT !.epoch = "over"])
     \/ world.epoch = "over" /\ Change([world EXCEPT !.epoch = "finalized"])
     \/ world.epoch = "finalized" /\ ~world.claimed /\ Change([world EXCEPT !.claimed = TRUE])
ListingEnds == asked.type \in Listed /\ world.listing.active /\ Change([world EXCEPT !.listing.active = FALSE])
CommitEnds  == world.commit /\ world.block >= RevealDelay /\ Change([world EXCEPT !.commit = FALSE])
Revoke == \E kind \in world.approved :
  asked.type \in Sellable /\ Change([world EXCEPT !.approved = @ \ {kind}])

OthersAct ==
  /\ outcome = "none" /\ calm' = FALSE
  /\ \/ RunMoves \/ GearMoves \/ CreditsMove \/ PriceMoves
     \/ EpochMoves \/ ListingEnds \/ CommitEnds \/ Revoke

Next == AskChain \/ Answer \/ (\E kind \in {"items", "mmo"} : SendApproval(kind)) \/ SendAction \/ NewBlock \/ OthersAct
Spec == Init /\ [][Next]_vars

-----------------------------------------------------------------------------
(* Properties *)

Refused == ~Pending /\ answer.code \notin {Ok, "ERROR", "DEPLOYER_CLAIM_DISABLED"}

\* However the chain moved between the reads of preflight or of the menu, what they refuse the contract
\* would, at some moment between the question and the answer, have refused or not done in full: opened no
\* box, or not had the potion charges for every room listed, though it takes the call. (Preflight refuses an
\* RFQ without an expiry, which the engine and the builder give one: that question is left out.)
RefusedAtSomeMoment ==
  Refused /\ (asked.type = "create_rfq" => asked.arg > 0) => ~held

\* "retryable: false" about an owner, a commit, an epoch or an offer is final: the contract does not accept
\* the action later. (The state of a run, gear and credits passes, and with it the refusal.)
Passing == {"RUN_ALREADY_ACTIVE", "RUN_NOT_ACTIVE", "INSUFFICIENT_EQUIPPED_SLOTS", "POTION_UNAVAILABLE",
            "INSUFFICIENT_LOOTBOX_CREDITS", "GEAR_LOCKED_DURING_RUN", "INVALID_EXPIRY"}
RefusedForGood ==
  Refused /\ ~Retryable(answer.code) /\ answer.code \notin Passing => ~Accepts(asked)

\* Who follows an answer to the letter, the approvals it names and the value it names, while nobody else
\* acts, gets what he asked for if the contract has no other objection. Where the answer is silent on
\* approvals (an RFQ filled, MMO burned) they are given already.
AdviceSuffices ==
  calm /\ (Minds(asked) \/ Takes(asked) \subseteq world.approved) => outcome # "failed"
=============================================================================
