# ChainMMO, verified

TLA+ models of the game contracts of ChainMMO and of the middleware and page around them, TLC
configurations that check them on small instances, and TLAPS proofs, for every instance, of the
contracts' safety and of the parts of the middleware that hold money, identity, work or history. Everything is written from the sources: paths below are relative to the repository
(`src/GameWorld.sol` is the contract, `mid/src/...` the middleware, `front/src/...` the page).

## 1. The system

ChainMMO is a game played by software agents. Its rules are six contracts; a middleware queues the
agents' actions, signs them, advises agents that sign for themselves, and mirrors the chain into
Postgres for readers; a page shows the game and lets a visitor talk to an agent.

| Part | State it keeps | Operations | Talks to |
|---|---|---|---|
| `GameWorld` registry | characters, owner counters, level histogram, maximum level | `createCharacter`, `_setBestLevel` | read by `FeeVault` |
| `GameWorld` commits, loot, runs | commits, lootbox credits (total and bound to a variance mode), runs, level progress, repair escrow, stones | commit, reveal, cancel; claim and open lootboxes; start a dungeon, resolve its rooms | mints `Items`, moves `MMOToken` |
| `GameWorld` equipment | `equippedItemBySlot`, `equippedLocationByItemId` | `equipItem(s)`, `onItemTransfer`, `forgeSetPiece`, `rerollItemStats` | called back by `Items` on each transfer |
| `Items` | ERC-721 ownership, per-owner enumeration, item data | mint, transfer, forge, reroll | hook into `GameWorld` |
| `FeeVault` | sales of the day, fees, finalized epochs, claims | `buyPremiumLootboxes`, `finalizeEpoch`, `claimPlayer`, `claimDeployer` | reads the registry live, credits lootboxes |
| `TradeEscrow`, `RFQMarket` | offers and the items they hold, requests and the MMO they hold | create, fulfil, cancel, reclaim when expired | move items and MMO |
| Action queue and worker (`mid/src/action-engine`) | table `action_submissions`, loops | enqueue, claim, execute, mark | engine |
| Action engine | commits and their secrets, in memory | one program per type of action | chain |
| Preflight, menu, intents, costs | nothing | a chain of reads, then an answer | chain; the agent sends the plan |
| Indexer (`mid/src/indexer`) | cursor, processed logs, derived tables, feed | `tick`, one handler per event | chain, Postgres |
| Read models (`mid/src/agent-api`) | nothing | queries and pages over the derived tables | Postgres |
| Onboarding faucet | grants | `POST /agent/onboard/fund` | Postgres, the faucet's wallet |
| X linking (`mid/src/auth`, `server.ts`) | request tokens, link tokens, identities | start, callback, finalize | Postgres, X |
| Grok arena (`mid/src/grok`) | sessions, runs and their streams, in memory | prompt, attach, gateway events, timer | OpenClaw gateway |
| MCP session (`mid/src/mcp-server`) | reserved spend, failed transactions | tools that act | agent API |
| Page (`front/src`) | feed entries; session, prompt and stream of the arena | polls, React effects | agent API |

What makes it hard:

* **Interleaving.** Transactions of all players interleave in any order and between any two of
  them a block may pass. Several contracts keep one fact twice (a histogram and the characters; a
  slot and a location; a total and its parts; an array and an index) and update the copies by
  deltas in different functions. Off the chain every `await` lets another request in.
* **Staleness.** A commit is revealed 2 to 256 blocks later; an epoch is finalized and its shares
  claimed hours later; an offer names items that may be worn, moved or forged meanwhile. Advice,
  leaderboard pages, indexer handlers and the gear walk are put together from several reads.
* **Pooled balances.** One MMO balance of `GameWorld` holds the escrow of all runs, one account
  holds the items of all offers, another the MMO of all requests, one ETH balance all epochs.
* **Failures off-chain.** Loops choose rows on SQL snapshots, answers are lost, receipts time out
  although the transaction is mined later, a handler fails between two statements, a gateway falls
  silent, a process crashes between two steps, a block is replaced.

What makes each part correct: the registry counts exactly; credits are spent once, by the commit
that announced them; runs end and pay their escrow once; levels are earned one by one; an epoch
never pays more than its pool; whatever is worn belongs to the wearer; offers and requests can
always be ended and keep their promise; an action is worked on by one loop and ends; what execute
returns from was done; the mirror says what the chain says; advice followed to the letter suffices;
a grant is paid once; a link has two consents; a stream tells its run and ends; the page does not
claim to be sending when it is not. `PROJECT.json` lists the places where these could go wrong
("hazards") with the properties aimed at each.

## 2. The modules

| Module | Models | Composition |
|---|---|---|
| `Characters` | the registry | abstract specification for `GameWorld`; base of `FeeVault` |
| `GameWorld` | commits, credits, runs, progress, escrow, stones | EXTENDS `Characters`, implements `CharactersSpec` |
| `FeeVault` | sales, epochs, claims | EXTENDS `Characters`: the registry changes under it |
| `Claims` | claimable epochs and estimates of the API | EXTENDS `FeeVault`: operators over its state |
| `Items` | ownership and enumeration | stands alone |
| `EquipBest` | the walk of `equip_best` over a wallet | EXTENDS `Items`: the array moves under the walk |
| `Equipment` | ownership and the two equipment mappings, hook, forging, run lock | stands alone |
| `Markets` | `TradeEscrow` and `RFQMarket` | EXTENDS `Equipment`: items move through the hook |
| `ActionQueue` | `action_submissions` and the loops of `ActionWorker` | abstract specification for `Engine` |
| `Engine` | `execute`: the program of each type of action | EXTENDS `ActionQueue` and implements `QueueSpec` |
| `EventFeed` | what `compact_event_delta` promises | abstract specification for `Indexer` |
| `Indexer` | `tick`, marks, handlers, cursor, reset | implements `EventFeed` |
| `RecentFeed` | the page's polling of that table | its rows grow as `EventFeed` says |
| `Advice` | preflight, valid actions, intents, costs | stands alone |
| `Faucet`, `XLink`, `Leaderboard`, `ToolSession` | routes of the API and the MCP session | stand alone |
| `GrokArena`, `ArenaPage` | the two sides of the conversation | stand alone |
| `Sums` | nothing of the code: lemmas on sums over finite sets | used by the proofs |
| `Characters_proofs`, `GameWorld_proofs`, `FeeVault_proofs`, `ActionQueue_proofs`, `Indexer_proofs` | theorems | each EXTENDS the module it is named after; `FeeVault_proofs` is about `Claims` too, `ActionQueue_proofs` about `Engine`, which it EXTENDS |
| `Markets_proofs` | theorems on `Equipment` and `Markets` | EXTENDS `Markets` |
| `AgentApi_proofs` | theorems on `Items`, `EquipBest`, `XLink`, `ToolSession`, `Faucet`, `Leaderboard`, `ArenaPage`, `RecentFeed`, `GrokArena`, `Advice` | EXTENDS them all; only `EquipBest` shares state with another, `Items` |
| `MC*` | constants for TLC | each EXTENDS what it instantiates |

**Contracts.** One transaction is one action: a call whose checks fail reverts and is no step, and
the guards of an action are the checks on the path it takes. Where a call has several ways out it
has several actions or disjuncts (`LoseRoom`, `WinRoom`, `WinLastRoom` with `Replayed`,
`Progressed` and `LeveledUp` for `_resolveNextRoom`). What the code does at the end of a path
(refund the escrow, delete the progress, credit the reward) is in the action.

* **Characters.** `countAtLevel`, `maxLevel`, `totalCharacters`, `ownerCharacterCount` are the
  contract's variables; `epoch` is block time in hours.
* **GameWorld.** A commit holds the words it hashes (`HashTail`, as the contract encodes them; secret,
  nonce, actor and character stand for themselves), so a reveal matches exactly when the hashes would.
  Two forms have the same words: a maximal opening by the overload without variance mode ends in `true`,
  an exact opening in the mode NEUTRAL, and both encode as 1, so either can be revealed as the other.
  A commit's age counts blocks since it was made. The overloads without variance mode are intents with
  `legacy = TRUE`. Rooms are won or lost by choice, stone drops are a choice of 0 or 1.
  `resolveRooms` is the sequence of its rooms. `equipped` is the number of occupied slots, which is
  all that runs and stones ask of the gear. `minted` and `granted` are history.
* **FeeVault.** `DailyCost` tabulates the price curve; only that it does not fall matters. `counted`
  (the levels a finalization saw) and `paid` are history. `Claims` repeats the two queries of
  `read-model.ts` over the same state, with rows taken as caught up.
* **Items.** Arrays start at 1. A transfer removes the token from one array before it appends it to
  the other, as `_afterTokenTransfer` does, so a transfer to oneself is covered. In `EquipBest` each
  `tokenOfOwnerByIndex` is a step, and items come, go and are worn by others in between; a transfer to
  oneself rewrites the array there too, and only leaves out the hook.
* **Equipment.** `<<character, slot>>` is the packed location. An item's slot and tier do not change;
  the set it derives from its seed, and its nonce, do.
* **Markets.** An offer's two lists are sets, which `_ensureUnique` justifies. `Transferred(S, to)` is
  a transaction moving the items of S, hook included; `FulfillOffer` moves both sides at once.

**Middleware.** Between two awaits a handler is one action; at each await anything else may happen,
and the call awaited may fail, done or not.

* **ActionQueue.** `claimNext` is one statement and three steps: `TakeSnapshot` (what it sees),
  `LockCandidate` (`FOR UPDATE SKIP LOCKED`, which re-reads the row) and `CommitClaim`. Actions are
  numbered by `created_at`; inserts become visible in any order. `Crash` returns every loop to the
  start and leaves the rows that were running.
* **Engine.** A type of action is a sequence of steps: checks, approvals where missing, commit, the
  loop that reveals, cancels or gives up, and transactions from the send through mining to the
  receipt. A send is refused when it would revert now; a mined transaction reverts when the state
  has changed since. The refinement maps a call under way to the queue's "executing" until its main
  transaction is mined (`Phase`), and pending transactions nobody waits for to the queue's `late`.
* **Indexer.** A batch is the raw blocks of a range; each log of it is decoded, marked, handled statement
  by statement, and the cursor is moved at the end of a chunk. Tables hold the identity of the log a row tells of; `FromHead` rows
  are read from the chain's head, not from the log. Faults fail a call with or without its effect.
* **Advice.** `world` is what the contract would look at for one question; the answers read it in
  the order the code does, while it changes. `Accepts` is the contract's own judgement, which lets pass what does
  nothing or stops early; `Serves` is that the action is done in full. A room is asked for alone, in a list
  (of one, of which no potion is sent) or in a batch, and `lasts` is how many potions the run gets to.
* **Faucet, XLink.** The handlers query by query, with unique indexes, expiry, the transfer and
  crashes. `GrokArena` has the prompt's handler, gateway events that name the run or only its
  session, timer, disconnection and streams; a text is the chunks it was made of, so that a run
  showing another run's words is noticed. `ToolSession` has overlapping calls with guards, reservation,
  submission, polling. `RecentFeed` has overlapping polls answered in any order. `ArenaPage` has
  React's state and refs, the retry timer, the effect and its cleanup. `Leaderboard` has a reader
  turning pages while the indexer writes.

## 3. The runs

| Run | Instance | Shows |
|---|---|---|
| `game_runs` | one character, levels 1-3, one commit, runs of 1 or 2 rooms, gear, stones, forging, fees, decay | `FrontierProgress`, `LevelEarnedByRun`; with fairness `RunEnds` |
| `game_rivals` | two players with a character each over one balance | `MmoAccounted`; the contract implements `CharactersSpec` |
| `game_loot` | two commits outstanding, the two forms whose words are the same and others, credits bound to two modes, free and premium credits | `BoundCreditsCovered`, `OneItemPerCredit`, `CommitsHonoured` |
| `fee_vault` | three characters, three levels, three epochs of a day, a sale in one of them | `RegistryExact`, `VaultSolvent`, `EligibleWereCounted`, `FinalizedAsCounted`, `ClaimsShown` |
| `fee_vault_top_decile` | as above | violation of `TopDecileEarns` |
| `markets` | three items, two slots, two sets, three characters of two players; two offers or requests, time past the expiry, an item forged into another set while a request for its first is open | `GearSound`, `RunGearOnlyShrinks`, `PromisesBacked`, `PromisesKept` |
| `engine` | one loop, one action of five kinds, two attempts, one crash, one change by others, seven blocks | `ReturnedMeansDone`; the engine implements the queue (`ImplementsQueue`); with fairness `CallsEnd` |
| `action_queue_conflict` | two loops, two actions of one character, no crash | violation of `OneRunningPerKey` |
| `indexer` | one key, three blocks, six kinds of event, one confirmation, chunks of two that may shrink; two reorganizations, restarts, faults or crashes in all | `SkippedOnlyIfInterrupted`, `MirrorsChain`; it implements `EventFeed` (`ImplementsFeed`); with fairness `CatchesUp` |
| `indexer_reorg` | no confirmation, as is the default, two blocks | violation of `ReorgSafe` |
| `daemons` | two loops, two actions of a character, two attempts, one crash; two prompts, a stream, a lost connection | `WorkIsAccounted`, `StreamsTellTheRun`, `AnswersItsPrompt`; with fairness `EveryActionEnds`, `StreamsEnd` |
| `agent_api` | see below | eleven invariants, below |

`agent_api` puts together parts that share no state; its variable `part` makes each behaviour one
of a single part, so that TLC adds their state spaces and does not multiply them (`daemons` and
`markets` use the same device). Its parts and properties: advice on every type of action
(`RefusedAtSomeMoment`, `RefusedForGood`, `AdviceSuffices`); three requests to the faucet for one
wallet, one key, a fault, a crash and a window that passes (`PaidOnce`, `WithinLimit`); two wallets
and two X accounts with two calls under way (`LinksConsented`); three characters paged one by one
(`ListReadsAsOne`); three calls of tools, two at once, under a ceiling (`SpendWithinCeiling`); two
overlapping polls over three rows (`FeedHasNoGap`); three prompts and two bootstraps of the page
(`SendingMeansStreaming`); a wallet of up to three items (`WearsTheBest`).

Several properties exempt what the code does not promise, and the exemption is part of what they
say: `CommitsHonoured` forms whose words are the same, `WithinLimit` wallets whose requests overlapped, `WearsTheBest` walks during which the
wallet sent an item, even to itself, `AdviceSuffices` types of action whose approvals the builder leaves out, `AnswersItsPrompt` sessions with overlapping prompts, `SendingMeansStreaming` visitors who
reset during a request, `MirrorsChain` logs whose handling was interrupted. What happens in the
exempt cases is under "Worth knowing".

**Bounds.** The number of characters, levels, epochs, items, offers, blocks, calls, faults and
crashes are bounds; amounts, fees and required clears are small constants chosen so that every
branch is taken: a level that needs three clears and one whose difficulty gives two at once, decay
of one, a fee a player can run out of, a pool that does not divide evenly, ties at the cutoff, a
"decile" of one half so that three characters have one. The reveal window is 1 to 4 blocks instead
of 255: only whether an age is before, in or after it matters. Two loops and two actions of one key
are what the claims of the queue can disagree about; a third loop adds no new pair. The engine runs
with one loop because its calls meet only on the chain, and there the changes by others stand for
another loop's. The five kinds of `MCTypes` are the programs that differ: a creation that commits
and equips too, a commit after checks, a price paid, a policy that may refuse, two approvals. Two
upsets fall on any two steps of the indexer, as when a handler fails and then its unmarking. In the arena
the first prompt's answer may have a second chunk while it is the only one (`Bounded` in `MCDaemons`); with
two prompts under way an answer is one chunk. An item is re-forged only while a request wants it (`Wanted`). The
feed's answer holds two rows of three, a leaderboard page one, so that limits are reached.
`MaxGranted`, `MaxSoldPerDay` and `MaxRerolls` bound counters that the code bounds only by their
width; where the width is reached the code reverts, and `CreditCap` and `LevelCap` keep these
guards.

`CHECK_DEADLOCK FALSE` is used where the bounds let the instance stop: no epoch, no sale, no item,
no request and no block is left. Elsewhere TLC's deadlock check is on.

**Fairness**, and what in the code owes it:

* `GameWorld!FairSpec`: the resolution of a run's rooms by its owner. The agents' loop (`next_room`
  until the run ends) does so, and no action of another player disables it.
* `FairQueueSpec` and `DaemonsSpec`: each loop of the worker. `runLoop` polls without end and each
  call it awaits ends with an answer or an error, as the clients have timeouts.
* `Engine!FairSpec`: each loop's own steps, and the steps of its call: a poll of a block or a receipt
  returns, and `waitForReceipt` gives up. Mining is not fair: a chain may stand still.
* `GrokFairness`: only the timer of a run. Gateway, connection and browser owe nothing.
* `Indexer!FairSpec`: the steps of `tick`, which `runForever` repeats whatever it throws. Blocks,
  faults and crashes are not fair, and bounded: "when they end".

## 4. The proofs

`tlapm` checks the theorems for all values of the constants under the assumptions named in the
modules: any fees, prices and weights, any number of commits, levels, rooms, items, blocks, faults and
crashes, any finite set of players (`CharactersAssumption`: the registry counts them), and any
number of loops, wallets, requests, prompts, streams and calls. A session's calls and keys, the
transactions a conversation can name and the characters ranked are finite in number, there is a
session, a poll looks back at least one block, and no event and no prompt is called "none". The
assumptions hold of the code: names that stand for nobody, no key or no account are none of the
somebodies, amounts are natural numbers, a price curve does not fall, the feed looks back two blocks. TLC evaluates each of them in a run.

**Sums.** Statements about pooled balances compare a balance with a sum over all runs, epochs, requests
or keys. The sums of the community modules are folds, recursive functions whose existence the
provers cannot be told to show by induction. `Sums` shows it otherwise: the sum of f over S is the
number of pairs `<<x, k>>` with x in S and k in 1..f[x] (`Columns`), so a function with the recursion
exists, it is unique by a smallest counterexample among the subsets of S (`SmallestSubset`, from the
well-foundedness of strict inclusion, which needs no predicate as parameter), and the laws the
proofs cite follow: one element added, taken away or changed, sums that compare pointwise, terms that are zero.
`LeastNumber` and `GreatestNumber` serve the scans and searches over numbers in the same way.

**Contracts.**

* **Characters_proofs.** `CharactersInv` is the type invariant with `HistogramExact`,
  `MaxLevelIsTop` and `CountersExact` (together `RegistryExact`); it is inductive as a whole, not in
  its parts: that a bucket may be decremented needs the histogram to be exact, exactness needs
  `CountersExact` (a new identifier is not counted yet), and the lemmas on cardinalities say what
  moving or adding one character does to the sets counted.
* **GameWorld_proofs.** `GameInv` is `CharactersInv`, the types, and five facts none of which is
  inductive without the others: `CommitsOwned` (a commit's character exists and is its actor's),
  `BlankUntilCreated` (nothing is stored for characters not created), `FrontierProgress`,
  `RunInReach`, `BoundCreditsCovered`. `LevelEarnedByRun` needs `RunInReach` (a run cannot skip the
  frontier), `FrontierProgress` needs it too (what a failure erodes is the frontier), and the refund
  goes to the owner because of it. From `GameInv` follow `TypeOK`, `QuoteExact`, and the action
  properties `CommitsHonoured` (of loot and of runs) and `LevelEarnedByRun`.
  `ImplementsCharacters` is the refinement `Spec => CharactersSpec`: every step is a registry step
  or leaves the registry alone, so the registry's theorems hold of the contract (`GameRegistryExact`).
  `MmoAccounted` is not inductive: a run that starts would add to a sum over active runs what its
  record already held. `MmoInv` adds that a character without a run holds no escrow, so that the
  contract's balance equals the escrows of all characters and each `MmoStep`
  moves one term of each sum. `OneItemPerCredit` is the same argument over tiers and characters
  (`CreditsChange`: one counter of one character changes both sums by as much).
* **FeeVault_proofs.** `FeeVaultInv` is `CharactersInv` with the types of the records
  (`RecordsOK`), `ClockInv` (no level-up lies in the future, only past epochs are finalized) and
  `SnapshotInv` (a character whose last level-up is no later than a finalized epoch still has the
  level counted). `EligibleAlwaysCounted` is the fact the payout rests on: whoever passes the checks of
  a claim is counted with the level it has then. `LedgerInv` then says of each epoch (`EpochOK`) that its
  finalization counted the top decile and its weight, and that what was paid, times that weight, is at
  most the pool times the counted weight of the characters that claimed. A claim adds one character to
  that sum, at the weight counted, because it was eligible; as the claimants are among those counted,
  no epoch pays more than its pool, and rounding stays in the vault. Hence `VaultSolvent`. That the scan of the
  histogram stops at the right cutoff (`FinalizedAsCounted`) needs the histogram exact. `ClaimsShown`
  uses that whoever passes the contract's checks weighs something, so that the check the API leaves out is implied,
  and that the estimates of all characters are summands of what the vault owes.
* **Markets_proofs.** `EquipmentInv` is the types with `MappingsInverse` and `WornIsOwned` (together
  `GearSound`), inductive together: the transfer hook empties the right slot because the mappings
  agree, and equipping displaces no one else's item because what is worn is owned by the wearer.
  From them follows `RunGearOnlyShrinks`: an item that is forged or rerolled is worn by a character
  without a run, hence by no other. `MarketsInv` adds `OffersBacked` (an active offer's items are the
  escrow's and in no other active offer: a new offer's items were its maker's, hence in none)
  and `RfqBooks` (the market's MMO is the sum of the open requests). The gear theorems are proved again for
  items moved by the markets, whose transfers are batches. `PromisesKept` says how an offer or a
  request ends; it needs `OfferRecords` and `RfqRecords` (maker and contract are different
  accounts) for the two sides of an exchange not to cancel out.

**Middleware.**

* **ActionQueue_proofs**, two parts.
  *Queue*: `QueueInv` ties each loop to its row (`RowHeld`: claimable while locked,
  `running` while executed, `running` or already `succeeded` when an error is handled), so that no
  stale snapshot can lock a row again: the lock re-reads the status. `EffectsPaid` counts for each row
  the effects it had, the transactions given up that may still be mined, and the one under way, against
  its attempts. Neither half of `WorkIsAccounted` is inductive alone: an attempt under way is one
  because one loop holds the row. What does not speak of effects (`ClaimsInv`) holds of the engine too.
  *Engine*: `EngineInv` says of each call, by its place in the program, what it has done so far:
  the transaction it waits for is that of its operation and the only one of the attempt not mined
  (`TxSound`), what the action is for is undone before its operation and decided after it
  (`DoneSound`), and the commit is the attempt's only one from its operation on, closed after the reveal
  (`CommitSound`, while nothing reverted). The argument is over the shape of a program (`WellFormed`: a commit is followed
  by its wait and its reveal, what the action is for occurs once), which all eighteen have, and over four
  ways a call moves (`MovesOn`: it goes on, sends, throws or returns), to which its fourteen
  actions come down. At its end stands `ReturnedMeansDone`. `ImplementsQueue` is the
  refinement `Spec => Queue!QueueSpec`: a loop shows the phase of its call, `late` the transactions
  given up. The step that is hard is the one that loses a call: what it gave up is counted
  once, since one loop held the action. `EngineAccountsWork` states `WorkIsAccounted` of the engine's own
  rows and transactions (`CallsPaid`: the attempt pays for what was done, is on its way or is still due).
* **Indexer_proofs.** `FeedInv`: logs are numbered in the order of the chain, and whatever is numbered
  below the last row of the feed, in the chain behind the cursor or in the batch, is marked or
  unreadable; so a log that is not marked comes after everything delivered. This gives
  `IndexerImplementsFeed`, step by step, for any reorganization and restart. `CoverInv` says that each
  readable log behind the cursor, or taken off the batch, is delivered or was interrupted, and that the
  batch is the rest of the range. It needs the chain behind the cursor to stay: `PassedAlwaysDelivered` has the hypothesis
  `MaxReorg <= Confirmations`, reorganizations no deeper than the confirmations waited for, which is what
  `CHAIN_CONFIRMATIONS` is for; without it the statement is false, as `indexer_reorg` shows of its sibling.
  `MirrorInv` relates tables, feed and chain: a row is that of a confirmed log that changed it, or of any log where
  it is read from the head (`RowTells`), of none older than a log delivered (`RowLatest`), and while a log is in hand
  the statements done have written, and what was read from the head is no older than the log (`HandTells`). It leans on
  the order of the contracts' events (`Formed`: characters are created once and first, what is closed was requested), for
  `DO NOTHING` on stones and the update of a request write nothing else. Under the same hypothesis, with nothing interrupted,
  it gives `RowsAlwaysMirror`: once caught up all logs are delivered, so a row is the last log's.
* **AgentApi_proofs**, ten parts.
  *Items*: `ItemsInv` is `EnumerationExact` with the types and `Unminted` (an item not yet
  minted has no owner, so `_mint` lists it nowhere twice). A transfer is a removal followed by an
  append: `RemovedArrayIs` says what the swap with the last token leaves, and `AppendedInv`, shared
  by mint and transfer, that appending an item that is in no array keeps the enumeration exact.
  *EquipBest*: `WalkSound` holds while the wallet sends nothing, to itself included: the items in hand all
  along keep their places (`PlacesKept`), and each of them the walk has passed is matched by the pick of its slot.
  *XLink*: `XLinkInv` adds to `LinksConsented` that a link token names an account whose holder
  authorised a session of that wallet (`PendingAuthorised`), and what each handler under way has in hand
  (`CallsHold`): its row exists and says so still, because rows lose their life and never what they name (`RowsKept`).
  *ToolSession*: `ReservationsCover`: the costs enqueued and those of the calls that may still arrive with
  a new key are at most what is reserved. When several calls wait with one key, the first to arrive moves its cost from one sum to
  the other and the rest leave the second.
  *Faucet*: between the insertion and the end of a request its handler alone holds its row, which is pending
  (`HoldsRow`, `OwnRows`); the index of pending rows gives `PaidOnce`. `WithinLimit` needs that every
  payment is counted (`PaidCounted`) and that a request alone with its wallet still
  finds, when it inserts, the count it read (`MayInsert`, `Alone`).
  *Leaderboard*: as levels only rise, whoever was shown stays at or before the place it was shown at, and
  that place keeps at least as many characters at or before it as its rank says (`RowHolds`); a later row, beyond
  the cursor, is ranked by counting all of these (`RankCounts`). `Covered` says that whoever kept the
  level of the first page is shown or still after the cursor.
  *ArenaPage*: while the visitor was not hasty, a session and a prompt are not asked for at once
  (`inFlight` keeps a second request away), so whatever arrives belongs to what is under way.
  *RecentFeed*: since the page was loaded, `latest` is the block of the last row known (`PageInSync`), so that a poll,
  which looks back before it, asks for every row not known yet; answers overtaken by others bring only rows known (`PollSound`).
  *GrokArena*: what a run remembers and a stream got is the end of all that was pushed (`Tells`), nothing ends a
  run twice, and its stream is open as long as it. For `AnswersItsPrompt`, `ApartInv` follows a
  session whose prompts do not overlap: at most one of its runs is open, the one the gateway has still to
  answer (`KeptApart`), so that an event that names only the session is for it.
  *Advice*: each refusal has a cause in a read (`CodeHasCause`), and what an answer rests on is read for it
  (`ReadsHave`), type of action by type of action. `AdviceInv` says of each read what still holds of the chain
  (`ReadTells`: an ended commit, offer or epoch stays ended), that it does not contradict the contract as long as
  the contract would have done the action in full all along (`Agrees`), and that while nobody else acts it is as it was, but for the
  approvals sent since (`ReadIsNow`). The three give `RefusedForGood`, `RefusedAtSomeMoment` and `AdviceSuffices`.

`RunInReach`, `QuoteExact` and `EnumerationExact` are proved and no longer run: each is part of an
invariant above.

**Only model-checked.** Liveness (`RunEnds`, `EveryActionEnds`, `CallsEnd`, `CatchesUp`, `StreamsEnd`): fairness
and ENABLED are out of the prover's reach. Every invariant and action property of the passing runs is
proved; two of them, `SkippedOnlyIfInterrupted` and `MirrorsChain`, for reorganizations no deeper than the
confirmations. The three violations are TLC's.

## 5. What the checks found

* **A level-up forfeits a share** (`fee_vault_top_decile`). The top-level README (line 27) promises
  that the top 10% of each epoch earn. A character counted into the decile that gains a level
  before its claim fails `lastLevelUpEpoch <= epochId` and earns nothing; its share stays in the
  vault. The same check is what makes `EligibleWereCounted` and `VaultSolvent` hold.
* **Two actions of one character at once** (`action_queue_conflict`). `mid/README.md` (line 195) says
  they are not claimed in parallel. `claimNext` judges conflicts on its snapshot; when an insert
  with an earlier `created_at` becomes visible after one claim took its snapshot, the next claim
  takes it while the first is not committed.
* **Replaced blocks stay** (`indexer_reorg`). `mid/README.md` (line 7) calls the indexer reorg-safe.
  Its only protection is `CHAIN_CONFIRMATIONS`, whose default is 0 (`mid/src/config/env.ts:32`);
  nothing compares hashes or goes back, so events of a replaced block remain in the feed.

Worth knowing, though no document says otherwise:

* *Vault.* The contract's comment speaks of hourly snapshots; `finalizeEpoch` reads the histogram of the
  moment it is called, however late. The API leaves out the contract's `totalEligibleWeight > 0`,
  which is harmless: nobody created later passes the level-up check.
* *Queue and engine.* A crash leaves rows `running` and their conflict key blocked for ever
  (`Wedged`). An action whose transaction reverted is marked succeeded: no caller looks at a
  receipt's status. An action marked failed may take effect later. A call that throws after its commit leaves
  the commit open and its secret lost. A `create_character` retried midway makes another character.
  `start_dungeon` above level 20, `next_room`, `forge_set_piece`, `buy_premium` and `fill_rfq` need
  approvals that neither engine nor intents request.
* *Loot.* Who commits to a maximal opening by the overload without variance mode may reveal it as an exact
  NEUTRAL opening of that tier and amount, and the other way round: the amount is then exact, or only the most.
* *equip_best.* If the wallet sends an item during the walk, swap-and-pop may make it miss the
  best item, even if the item goes to the wallet itself; an index past a shrunken array reverts the whole action.
* *Advice.* Preflight and menu check a subset of the contract's guards, so "will succeed" may be wrong.
  They also refuse what the contract would take: a maximal opening without credits (it opens nothing; the
  engine refuses it too, `NO_OPENABLE_LOOTBOXES`), a batch of rooms with more potions than charges when the
  run ends before the last, and a list of one room for a potion that engine and intents do not send.
  `AdviceSuffices` takes as given the approvals that the builder leaves out (see the engine, above).
  Preflight refuses `create_rfq` without an expiry, which engine and intents default.
* *Indexer.* `ItemUnequipped` is not handled. A `CharacterCreated` log lost between mark and handler
  stops the indexer at the character's next log (foreign key; `Stuck`). A restarted development
  chain that overtakes the cursor before a tick is not noticed, and the reset never indexes the new chain's first
  blocks. A lost answer of `insertDelta` repeats the last row.
* *Faucet.* A crash after the pending row is written blocks the wallet for good. Overlapping
  requests pass the limit, as counts precede the insert; a transfer whose answer is lost is marked failed and not counted.
* *X linking.* The request token is deleted before the exchange; two finalisations may overlap and an
  older one bring back a link that was replaced, still one both sides agreed to.
* *Grok arena.* Events of a closed run that name it fall through to the session's active run, and
  two prompts of a session both pass the busy check: words may appear under the wrong prompt.
* *MCP session.* A reservation is never released on refusal, and made twice when a key is repeated.
* *Page.* A reset while a session or a prompt is requested lets an old answer change the new
  session, or leaves the page "sending" until the next reset. After a chain restart the feed shows
  nothing new until loaded again; more new rows than an answer holds are never fetched.

## 6. Plan

Done, in this order: registry, game core, its proofs, fee vault, items and equipment with their
proofs, markets, queue; then engine over the queue, indexer over its feed, advice, faucet, X
linking, arena, read models, MCP session and page; then sums, and the proofs of the vault, markets,
queue, engine, indexer (its feed, then its tables), X linking, MCP session, faucet, gear walk, leaderboard,
feed, page, arena and advice.
What is worth proving next:

1. An abstract specification of the escrow (an offer or a request is open, then filled or cancelled, once, and
   moves both sides at that moment), implemented by `Markets`; `PromisesKept` holds its steps already.
2. An abstract specification of an epoch (open, counted, paid share by share), implemented by `FeeVault`.

**Not modelled**, and why:

* MMO sent to a contract by a plain transfer, outside its functions: it would stay there for good,
  above what the books compared by `MmoAccounted` and `PromisesBacked` say (the equalities would read "at least").
* The failures of the intent builder for an offered item not held and for nothing to equip.
* Combat, prices and item statistics: 256-bit fixed-point arithmetic without control state; rooms
  are won or lost by choice, the curve is a table, a score is given.
* `MMODistributor`: one step, no caller left. Creation fees of the markets; the burning of potion charges and mana.
* Read models that are a single query or a hydration (market listings, an agent's state, world
  rules, diagnostics, quotes, the estimate of returns), and the tools and panels that show them.
* Rate limits of the arena, its stored history and pruning; gas in the cost estimates; the skew
  between the server's clock and the block's.
* Parsing, address and ABI plumbing, environment, connection pool, migration runner, benchmark,
  deployment, container files; `back/`, which repeats `src/` and vendors libraries.
