------------------------------- MODULE Engine -------------------------------
(***************************************************************************)
(* ActionEngine.execute (engine.ts) under the queue of ActionQueue: what   *)
(* ActionQueue takes for one transaction is here the program of each type  *)
(* of action: its checks, the approvals it sends first, commit, reveal and *)
(* expiry, every transaction from the send to the receipt.                 *)
(*                                                                         *)
(* A send fails at once when the transaction would revert now. Once sent   *)
(* it is mined some time or never, whoever waits, and reverts if the state *)
(* has changed by then. A call fails at any time, its request done or not. *)
(* The chain is what the programs ask of it: whether the action is         *)
(* possible, the price, the approvals and the commits.                     *)
(***************************************************************************)
EXTENDS ActionQueue, Sequences

CONSTANTS
  Types,           \* types of action that occur, of those execute knows
  LocalChain,      \* isLocalChain: the engine mines blocks itself
  RevealDelay,     \* 2
  RevealWindow,    \* 256
  MaxBlocks,       \* bound: height of the chain
  MaxChanges       \* bound: changes made by others

ActionTypes ==
  {"create_character", "start_dungeon", "next_room", "open_lootboxes_max", "equip_best", "reroll_item",
   "forge_set_piece", "buy_premium_lootboxes", "finalize_epoch", "claim_player", "claim_deployer",
   "create_trade_offer", "fulfill_trade_offer", "cancel_trade_offer", "cancel_expired_trade_offer",
   "create_rfq", "fill_rfq", "cancel_rfq"}

ASSUME EngineAssumption ==
  /\ Types \subseteq ActionTypes
  /\ LocalChain \in BOOLEAN
  /\ {RevealDelay, RevealWindow, MaxBlocks, MaxChanges} \subseteq Nat
  /\ RevealDelay < RevealWindow

VARIABLES
  block,    \* height of the chain
  changes,  \* made by others
  world,    \* types of the actions, permitted, possible, price, approvals
  commits,  \* sequence: who made it, in which block, still open
  pool,     \* transactions sent and not mined
  call      \* by worker: the call of execute under way

chainVars  == << block, changes, world, commits >>
engineVars == << chainVars, pool, call >>
vars       == << queueVars, engineVars >>

-----------------------------------------------------------------------------
(* The programs. "send" is the transaction that does what the action is    *)
(* for, or the reveal is; "aux" is another one. A transaction for an       *)
(* approval is sent only where it is missing. The offers fulfilled want    *)
(* MMO, and next_room's single room or batch is one transaction.           *)

CommitReveal == << "commit", "mined", "reveal" >>
Approvals    == {"items", "mmo"}

EquipBestForCharacter == << "gear", "aux" >>
CreateCharacter   == << "send", "created", "aux", "owner", "openable" >> \o CommitReveal \o EquipBestForCharacter
StartDungeon      == << "owner", "possible" >> \o CommitReveal
NextRoom          == << "owner", "possible", "send" >>
OpenLootboxesMax  == << "owner", "possible" >> \o CommitReveal
EquipBest         == << "owner", "possible", "send" >>
RerollItem        == << "owner", "send" >>
ForgeSetPiece     == << "owner", "send" >>
BuyPremiumLootboxes == << "owner", "price", "send" >>
FinalizeEpoch     == << "send" >>
ClaimPlayer       == << "owner", "send" >>
ClaimDeployer     == << "policy", "send" >>
CreateTradeOffer  == << "items", "send" >>
FulfillTradeOffer == << "items", "mmo", "send" >>
CancelTradeOffer  == << "send" >>
CancelExpiredTradeOffer == << "send" >>
CreateRfq         == << "mmo", "send" >>
FillRfq           == << "send" >>
CancelRfq         == << "send" >>

Program(t) ==
  CASE t = "create_character"      -> CreateCharacter
    [] t = "start_dungeon"         -> StartDungeon
    [] t = "next_room"             -> NextRoom
    [] t = "open_lootboxes_max"    -> OpenLootboxesMax
    [] t = "equip_best"            -> EquipBest
    [] t = "reroll_item"           -> RerollItem
    [] t = "forge_set_piece"       -> ForgeSetPiece
    [] t = "buy_premium_lootboxes" -> BuyPremiumLootboxes
    [] t = "finalize_epoch"        -> FinalizeEpoch
    [] t = "claim_player"          -> ClaimPlayer
    [] t = "claim_deployer"        -> ClaimDeployer
    [] t = "create_trade_offer"    -> CreateTradeOffer
    [] t = "fulfill_trade_offer"   -> FulfillTradeOffer
    [] t = "cancel_trade_offer"    -> CancelTradeOffer
    [] t = "cancel_expired_trade_offer" -> CancelExpiredTradeOffer
    [] t = "create_rfq"            -> CreateRfq
    [] t = "fill_rfq"              -> FillRfq
    [] t = "cancel_rfq"            -> CancelRfq

\* The operation that does what the action is for.
MainOp(t) == IF t \in {"start_dungeon", "open_lootboxes_max"} THEN "reveal" ELSE "send"

\* What the contract takes from the signer, whether the engine asks or not.
Takes(t) ==
  CASE t \in {"create_trade_offer", "fill_rfq"} -> {"items"}
    [] t \in {"start_dungeon", "next_room", "forge_set_piece", "buy_premium_lootboxes", "create_rfq"} -> {"mmo"}
    [] t = "fulfill_trade_offer" -> Approvals
    [] OTHER                     -> {}

\* Types that the contract does once, until somebody makes it possible again.
Once == {"start_dungeon", "open_lootboxes_max", "equip_best", "finalize_epoch", "claim_player", "claim_deployer",
         "fulfill_trade_offer", "cancel_trade_offer", "cancel_expired_trade_offer", "fill_rfq", "cancel_rfq"}

\* normalizeError: EpochNotFinalized and OfferNotExpired may pass.
RefusalIsRetryable(t) == t \in {"claim_player", "claim_deployer", "cancel_expired_trade_offer"}

IsCommitted(t) == "commit" \in {Program(t)[i] : i \in DOMAIN Program(t)}
IsPriced(t)    == t = "buy_premium_lootboxes"
Some(P(_))     == \E a \in Actions : P(world.type[a])

NoTx   == [kind |-> "none"]
NoCall == [pc |-> 0, tx |-> NoTx, receipt |-> "none", commit |-> 0, since |-> 0, tries |-> 0,
           price |-> 0, done |-> "no", reverted |-> FALSE]

Init ==
  /\ QueueInit
  /\ block = 0 /\ changes = 0 /\ commits = << >> /\ pool = {}
  /\ world \in [type : [Actions -> Types], permitted : BOOLEAN, possible : BOOLEAN, price : {0}, approved : SUBSET Approvals]
  /\ world.approved \subseteq UNION {Takes(world.type[a]) : a \in Actions}
  /\ call = [w \in Workers |-> NoCall]

-----------------------------------------------------------------------------
(* Transactions *)

Act(w)  == loop[w].action
Type(w) == world.type[Act(w)]
Op(w)   == Program(Type(w))[call[w].pc]

\* Signed and numbered: no two transactions are the same.
Tx(w, kind) ==
  [kind |-> kind, by |-> << Act(w), attempts[Act(w)], call[w].pc, call[w].tries >>,
   commit |-> call[w].commit, price |-> call[w].price]

ActOf(tx)    == tx.by[1]
TypeOfTx(tx) == world.type[ActOf(tx)]
Main(tx)     == tx.kind = MainOp(TypeOfTx(tx))
SameCall(tx, c) == << tx.by[1], tx.by[2] >> = c.by

\* cancelExpired and _validateRevealBase.
Known(n)    == n \in DOMAIN commits /\ commits[n].open
TooEarly(n) == block < commits[n].block + RevealDelay
Expired(n)  == block > commits[n].block + RevealWindow

MainPossible(tx) ==
  /\ world.possible
  /\ Takes(TypeOfTx(tx)) \subseteq world.approved
  /\ IsPriced(TypeOfTx(tx)) => tx.price >= world.price

\* The contract accepts the transaction in the present state.
Accepts(tx) ==
  CASE tx.kind = "reveal" ->
         /\ Known(tx.commit) /\ ~TooEarly(tx.commit) /\ ~Expired(tx.commit)
         /\ SameCall(tx, commits[tx.commit])
         /\ Main(tx) => MainPossible(tx)
    [] tx.kind = "cancel" -> Known(tx.commit) /\ Expired(tx.commit)
    [] tx.kind = "send"   -> MainPossible(tx)
    [] OTHER              -> TRUE

Awaiting(w, tx) == loop[w].at = "executing" /\ call[w].tx = tx

\* A transaction is mined, in a block of its own. It may run out of the gas
\* that was estimated for it.
Mine(tx, ok) ==
  LET main == ok /\ Main(tx) IN
  /\ ok => Accepts(tx)
  /\ tx \in pool /\ block < MaxBlocks
  /\ pool' = pool \ {tx}
  /\ block' = block + 1
  /\ commits' =
       IF ~ok THEN commits
       ELSE CASE tx.kind = "commit" ->
                   Append(commits, [by |-> << tx.by[1], tx.by[2] >>, block |-> block + 1, open |-> TRUE])
              [] tx.kind \in {"reveal", "cancel"} -> [commits EXCEPT ![tx.commit].open = FALSE]
              [] OTHER -> commits
  /\ world' = [world EXCEPT !.possible = @ /\ ~(main /\ TypeOfTx(tx) \in Once),
                            !.approved = IF tx.kind \in Approvals THEN @ \cup {tx.kind} ELSE @]
  /\ effects' = IF main THEN [effects EXCEPT ![ActOf(tx)] = @ + 1] ELSE effects
  /\ call' = [w \in Workers |->
       IF ~Awaiting(w, tx) THEN call[w]
       ELSE [call[w] EXCEPT !.receipt = IF ok THEN "success" ELSE "reverted", !.since = block + 1,
                            !.reverted = @ \/ ~ok, !.done = IF Main(tx) THEN (IF ok THEN "yes" ELSE "reverted") ELSE @]]
  /\ UNCHANGED << status, attempts, late, loop, crashes, changes >>

NewBlock ==
  /\ block < MaxBlocks
  /\ block' = block + 1
  /\ UNCHANGED << queueVars, changes, world, commits, pool, call >>

\* Others use the chain, the signer's other loops among them: they commit,
\* make the action possible or not, change the price, revoke an approval.
OthersAct ==
  /\ block < MaxBlocks /\ changes < MaxChanges
  /\ block' = block + 1 /\ changes' = changes + 1
  /\ \/ /\ Some(IsCommitted)
        /\ commits' = Append(commits, [by |-> << NoAction, 0 >>, block |-> block + 1, open |-> TRUE])
        /\ UNCHANGED world
     \/ /\ world' \in {[world EXCEPT !.possible = ~@],
                      [world EXCEPT !.price = IF Some(IsPriced) THEN 1 - @ ELSE @]}
                     \cup {[world EXCEPT !.approved = @ \ {x}] : x \in world.approved}
        /\ UNCHANGED commits
  /\ UNCHANGED << queueVars, pool, call >>

-----------------------------------------------------------------------------
(* Steps of a call *)

At(w, ops)    == loop[w].at = "executing" /\ call[w].tx = NoTx /\ call[w].pc <= Len(Program(Type(w))) /\ Op(w) \in ops
Set(w, c)     == call' = [call EXCEPT ![w] = c] /\ UNCHANGED loop
GoOn(w)       == Set(w, [call[w] EXCEPT !.pc = @ + 1])
Throws(w, at) == Goes(w, at) /\ call' = [call EXCEPT ![w] = NoCall]
Returns(w, done) == Goes(w, "answered") /\ call' = [call EXCEPT ![w].done = done]
Unsent        == UNCHANGED << status, attempts, late, effects, crashes, chainVars, pool >>

Executes(w) ==
  /\ CommitClaim(w)
  /\ call' = [call EXCEPT ![w] = [NoCall EXCEPT !.pc = 1]]
  /\ UNCHANGED << chainVars, pool >>

\* assertCharacterOwner; allowDeployerClaims.
CheckPermitted(w) ==
  /\ At(w, {"owner", "policy"})
  /\ IF world.permitted THEN GoOn(w) ELSE Throws(w, "fatal")
  /\ Unsent

\* The reads before the transaction, and their early returns.
CheckPossible(w) ==
  /\ At(w, {"possible"})
  /\ IF world.possible THEN GoOn(w) ELSE Returns(w, "nothing")
  /\ Unsent

\* createCharacter: no event, no character; no box, nothing to open; no item
\* to wear.
ReadCreated(w) ==
  /\ At(w, {"created"})
  /\ IF call[w].done = "yes" THEN GoOn(w) ELSE Returns(w, "reverted")
  /\ Unsent

ReadOpenable(w) ==
  /\ At(w, {"openable"})
  /\ GoOn(w) \/ Set(w, [call[w] EXCEPT !.pc = @ + 1 + Len(CommitReveal)])
  /\ Unsent

ReadGear(w) ==
  /\ At(w, {"gear"})
  /\ GoOn(w) \/ Returns(w, call[w].done)
  /\ Unsent

ReadPrice(w) ==
  /\ At(w, {"price"})
  /\ Set(w, [call[w] EXCEPT !.pc = @ + 1, !.price = world.price])
  /\ Unsent

Approved(w) ==
  /\ At(w, Approvals) /\ Op(w) \in world.approved
  /\ GoOn(w)
  /\ Unsent

Sends(w, tx) ==
  /\ pool' = pool \cup {tx}
  /\ Set(w, [call[w] EXCEPT !.tx = tx])
  /\ UNCHANGED << status, attempts, late, effects, crashes, chainVars >>

Send(w) ==
  /\ At(w, {"send", "aux", "commit"} \cup (Approvals \ world.approved))
  /\ Accepts(Tx(w, Op(w)))
  /\ Sends(w, Tx(w, Op(w)))

Refused(w) ==
  /\ At(w, {"send"}) /\ ~Accepts(Tx(w, "send"))
  /\ Throws(w, IF RefusalIsRetryable(Type(w)) THEN "retryable" ELSE "fatal")
  /\ Unsent

\* waitForReceipt answers. The receipt's status is not read: the commit's id
\* is that of its event, or else the last one there is. An approval that was
\* mined is not read again. Seeded fault: a send is enough.
AnsweredWhenSent(w) == call[w].tx # NoTx
Answered(w)         == call[w].tx # NoTx /\ call[w].receipt # "none"

CommitMade(w) ==
  LET own == {n \in DOMAIN commits : commits[n].by = << Act(w), attempts[Act(w)] >>}
  IN  IF call[w].receipt = "success" THEN CHOOSE n \in own : \A m \in own : m <= n ELSE Len(commits)

\* Seeded fault: a transaction that reverted is sent again.
AfterReceiptOrAgain(w) == IF call[w].receipt = "success" THEN call[w].pc + 1 ELSE call[w].pc
AfterReceipt(w)        == call[w].pc + 1

GotReceipt(w) ==
  /\ loop[w].at = "executing" /\ Answered(w)
  /\ LET c == [call[w] EXCEPT !.tx = NoTx, !.receipt = "none", !.pc = AfterReceipt(w)]
     IN  \/ Op(w) # "commit" /\ Set(w, c)
         \/ /\ Op(w) = "commit"
            /\ IF block >= call[w].since + RevealWindow THEN Throws(w, "fatal")
               ELSE Set(w, [c EXCEPT !.commit = CommitMade(w)])
  /\ Unsent

Return(w) ==
  /\ loop[w].at = "executing" /\ call[w].tx = NoTx /\ call[w].pc = Len(Program(Type(w))) + 1
  /\ Returns(w, call[w].done)
  /\ Unsent

\* waitForBlock, or evm_mine.
MineBlocks(n) ==
  /\ block' = block + n
  /\ UNCHANGED << status, attempts, late, effects, crashes, changes, world, commits, pool >>

WaitMined(w) ==
  /\ At(w, {"mined"})
  /\ GoOn(w)
  /\ \/ ~LocalChain /\ block >= call[w].since + RevealDelay /\ Unsent
     \/ LocalChain /\ MineBlocks(2)

MaxTries == 3

\* RevealTooEarly comes from the chain, or from a node that is a block behind:
\* the engine waits for the next block. RevealExpired sends a cancellation
\* nobody waits for.
Reveal(w) ==
  LET n == call[w].commit
      tx == Tx(w, "reveal")
  IN
  /\ At(w, {"reveal"})
  /\ \/ /\ call[w].tries = MaxTries
        /\ Throws(w, "retryable")
        /\ Unsent
     \/ /\ call[w].tries < MaxTries /\ Accepts(tx)
        /\ Sends(w, tx)
     \/ /\ call[w].tries < MaxTries
        /\ Known(n) /\ block <= commits[n].block + RevealDelay
        /\ IF LocalChain THEN Set(w, [call[w] EXCEPT !.tries = @ + 1]) /\ MineBlocks(1)
           ELSE Set(w, [call[w] EXCEPT !.tries = @ + 1, !.pc = @ - 1, !.since = block + 1 - RevealDelay]) /\ Unsent
     \/ /\ call[w].tries < MaxTries
        /\ Known(n) /\ Expired(n)
        /\ pool' = pool \cup {Tx(w, "cancel")}
        /\ Throws(w, "fatal")
        /\ UNCHANGED << status, attempts, late, effects, crashes, chainVars >>
     \/ /\ call[w].tries < MaxTries
        /\ ~Accepts(tx) /\ ~(Known(n) /\ (TooEarly(n) \/ Expired(n)))
        /\ Throws(w, "fatal")
        /\ Unsent

\* Any call to the chain fails or times out, waitForReceipt and waitForBlock
\* included. Seeded fault: waitForReceipt waits for ever.
CallFailsUnlessWaiting(w) ==
  /\ loop[w].at = "executing" /\ call[w].tx = NoTx
  /\ Throws(w, "retryable") \/ Throws(w, "fatal")
  /\ Unsent
CallFails(w) ==
  /\ loop[w].at = "executing"
  /\ Throws(w, "retryable") \/ Throws(w, "fatal")
  /\ Unsent

CallStep(w) ==
  \/ CheckPermitted(w)
  \/ CheckPossible(w)
  \/ ReadCreated(w)
  \/ ReadOpenable(w)
  \/ ReadGear(w)
  \/ ReadPrice(w)
  \/ Approved(w)
  \/ Send(w)
  \/ Refused(w)
  \/ GotReceipt(w)
  \/ Return(w)
  \/ WaitMined(w)
  \/ Reveal(w)
  \/ CallFails(w)

\* The steps of the worker's loop around the call, as in ActionQueue.
LoopStep(w) ==
  /\ \/ TakeSnapshot(w) \/ LockCandidate(w) \/ MarkSucceeded(w)
     \/ MarkSucceededFails(w) \/ MarkRetry(w) \/ MarkFailed(w)
  /\ call' = [call EXCEPT ![w] = NoCall]
  /\ UNCHANGED << chainVars, pool >>

Next ==
  \/ \E a \in Actions : Enqueue(a) /\ UNCHANGED engineVars
  \/ \E w \in Workers : LoopStep(w) \/ Executes(w) \/ CallStep(w)
  \/ \E tx \in pool, ok \in BOOLEAN : Mine(tx, ok)
  \/ NewBlock
  \/ OthersAct
  \/ /\ Crash /\ call' = [w \in Workers |-> NoCall]
     /\ UNCHANGED << chainVars, pool >>

Spec == Init /\ [][Next]_vars

\* The loop runs, and no call to the chain waits for ever.
FairSpec == Spec /\ \A w \in Workers : WF_vars(LoopStep(w) \/ Executes(w) \/ CallStep(w))

-----------------------------------------------------------------------------
(* Properties *)

\* Every call of execute behaves as ActionQueue says: whatever the program,
\* its approvals, retries of the reveal, refusals and timeouts, it takes effect
\* at most once, and a transaction it gave up at most once later.
Phase(w) ==
  IF loop[w].at # "executing" THEN loop[w].at
  ELSE IF call[w].done # "no" THEN "answered"
  ELSE IF call[w].tx \in {tx \in pool : Main(tx)} THEN "sent"
  ELSE "executing"

GivenUp(a) == {tx \in pool : ActOf(tx) = a /\ Main(tx) /\ \A w \in Workers : ~Awaiting(w, tx)}

Queue == INSTANCE ActionQueue WITH
  loop <- [w \in Workers |-> [loop[w] EXCEPT !.at = Phase(w)]],
  late <- [a \in Actions |-> Cardinality(GivenUp(a))]
ImplementsQueue == Queue!QueueSpec

\* When execute returns, what the action is for has been done, unless it had
\* nothing to do or a transaction reverted, and no commit of it is left open.
ReturnedMeansDone ==
  \A w \in Workers : loop[w].at = "answered" =>
    \/ call[w].reverted \/ call[w].done = "nothing"
    \/ /\ call[w].done = "yes"
       /\ \A n \in DOMAIN commits : commits[n].by = << Act(w), attempts[Act(w)] >> => ~commits[n].open

\* A call ends: no wait for a block, a receipt or a reveal is for ever.
CallsEnd == \A w \in Workers : loop[w].at = "executing" ~> loop[w].at # "executing"
=============================================================================
