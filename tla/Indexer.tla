------------------------------ MODULE Indexer ------------------------------
(***************************************************************************)
(* The indexer (indexer.ts, repository.ts): it polls the chain, applies    *)
(* each log once to the read model's tables, and moves its cursor when a   *)
(* chunk of blocks is done. A log is marked in processed_logs before it is *)
(* handled; a handler is several statements, none in a transaction, and    *)
(* some of them write what the chain's head says rather than the log.      *)
(*                                                                         *)
(* A block holds one log or none. A log is identified by <<tx, index>>     *)
(* (its id, increasing along the chain), and a value of a table or of the  *)
(* chain by the id of the log it comes from. One event stands for those    *)
(* handled alike: LootboxCredited for LootboxOpened and -OpenMaxResolved,  *)
(* UpgradeStoneGranted for ItemRerolled and SetPieceForged, RFQCreated and *)
(* RFQClosed for the requests and the offers, EpochFinalized for           *)
(* PlayerClaimed, ItemUnequipped for any other event of a character,       *)
(* Transfer for any other, Unknown for one that no ABI decodes.            *)
(***************************************************************************)
EXTENDS Integers, Sequences, FiniteSets

CONSTANTS
  Keys,               \* characters, requests, epochs
  Events,             \* the events that occur
  Confirmations,      \* CHAIN_CONFIRMATIONS
  BlockChunk,         \* INDEXER_BLOCK_CHUNK
  MaxBlocksPerTick,   \* INDEXER_MAX_BLOCKS_PER_TICK
  RateLimitRetryMax,  \* INDEXER_RATE_LIMIT_RETRY_MAX
  MaxBlocks,          \* bound: length of the chain
  MaxReorg,           \* bound: blocks replaced by reorganizations, in all
  MaxUpsets           \* bound: reorganizations, restarts, failed calls and crashes

ASSUME IndexerAssumption ==
  /\ {BlockChunk, MaxBlocksPerTick} \subseteq Nat \ {0}
  /\ {Confirmations, RateLimitRetryMax, MaxBlocks, MaxReorg, MaxUpsets}
       \subseteq Nat
  /\ "none" \notin Events    \* the name of no event

VARIABLES
  local,      \* CHAIN_ID = 31337, a development chain: fixed
  chain,      \* sequence of logs and empty blocks
  nextId,
  db,         \* cursor, processed_logs, the derived tables, compact_event_delta
  tick,       \* where the indexer is in tick
  interrupted,\* history: logs whose marker stood when a fault ended the tick
  reorgs, restarts, faults

vars == << local, chain, nextId, db, tick, interrupted, reorgs, restarts, faults >>

Min2(a, b) == IF a < b THEN a ELSE b

Tables == {"characters", "levels", "levelEpochs", "lootboxes", "stones", "equipment", "rfqs", "epochs"}

\* Tables with a foreign key to characters.
OfCharacter == {"levels", "levelEpochs", "lootboxes", "stones", "equipment"}

NoLog   == [event |-> "none", key |-> "none", id |-> 0]
NoRow   == -1
Nothing == 0

NoRows == [r \in Tables \X Keys |-> NoRow]

\* What an event changes on the chain.
Changes(e) ==
  CASE e = "CharacterCreated"      -> {"characters", "levels", "levelEpochs", "stones"}
    [] e = "CharacterLevelUpdated" -> {"levels", "levelEpochs"}
    [] e = "LootboxCredited"       -> {"lootboxes"}
    [] e = "UpgradeStoneGranted"   -> {"stones"}
    [] e \in {"ItemEquipped", "ItemUnequipped"} -> {"equipment"}
    [] e \in {"RFQCreated", "RFQClosed"}        -> {"rfqs"}
    [] e = "EpochFinalized"        -> {"epochs"}
    [] OTHER                       -> {}

Blocks == DOMAIN chain
LogsOf(k) == {n \in Blocks : chain[n].key = k}

\* The chain's value: the last log that changed it, as the head has it now.
Truth(t, k) ==
  LET S == {chain[n].id : n \in {m \in LogsOf(k) : t \in Changes(chain[m].event)}}
  IN  IF S = {} THEN Nothing ELSE CHOOSE i \in S : \A j \in S : j <= i

Exists(k) == Truth("characters", k) # Nothing
IsOpen(k) == \E n \in LogsOf(k) : chain[n].event = "RFQCreated" /\ chain[n].id = Truth("rfqs", k)

\* The contracts emit events in these orders only.
CanHappen(e, k) ==
  CASE e = "CharacterCreated" -> ~Exists(k)
    [] e = "RFQCreated"       -> Truth("rfqs", k) = Nothing
    [] e = "RFQClosed"        -> IsOpen(k)
    [] e = "EpochFinalized"   -> Truth("epochs", k) = Nothing
    [] e \in {"Transfer", "Unknown"} -> TRUE
    [] OTHER                  -> Exists(k)

-----------------------------------------------------------------------------
(* The handlers of handleLog *)

\* The statements a handler runs before insertDelta, by the tables they write.
Statements(e) ==
  CASE e = "CharacterCreated"      -> << {"characters"}, {"levels", "levelEpochs"}, {"stones"} >>
    [] e = "CharacterLevelUpdated" -> << {"levels", "levelEpochs"} >>
    [] e = "LootboxCredited"       -> << {"lootboxes"} >>
    [] e = "UpgradeStoneGranted"   -> << {"stones"} >>
    [] e = "ItemEquipped"          -> << {"equipment"} >>
    [] e \in {"RFQCreated", "RFQClosed"} -> << {"rfqs"} >>
    [] e = "EpochFinalized"        -> << {"epochs"} >>
    [] OTHER                       -> << >>

\* What a handler takes from the head instead of the log.
FromHead(e) ==
  CASE e = "CharacterCreated"    -> {"levelEpochs"}
    [] e = "LootboxCredited"     -> {"lootboxes"}
    [] e = "UpgradeStoneGranted" -> {"stones"}
    [] OTHER                     -> {}

\* Seeded fault: rows are inserted and never updated.
RowInserted(l, t, held) == IF db.rows[<<t, l.key>>] = NoRow THEN l.id ELSE db.rows[<<t, l.key>>]

\* The row after the statement for log l writes it: DO NOTHING keeps a stone
\* balance, closing updates only a request that is there, the rest is upserts.
RowAfter(l, t, held) ==
  LET row == db.rows[<<t, l.key>>]
  IN  CASE l.event = "CharacterCreated" /\ t = "stones" /\ row # NoRow -> row
        [] l.event = "RFQClosed" /\ row = NoRow                        -> NoRow
        [] t \in FromHead(l.event)                                     -> held
        [] OTHER                                                       -> l.id

HasDelta(e) == e \notin {"Transfer", "Unknown"}

-----------------------------------------------------------------------------

Asleep == [at |-> "sleeping", from |-> 0, to |-> 0, target |-> 0, chunk |-> BlockChunk, tries |-> 0,
           batch |-> << >>, stmt |-> 0, held |-> Nothing]

Init ==
  /\ local \in BOOLEAN
  /\ chain = << >> /\ nextId = 1
  /\ db = [cursor |-> 0, marked |-> {}, rows |-> NoRows, deltas |-> << >>]
  /\ tick = Asleep
  /\ interrupted = {}
  /\ reorgs = 0 /\ restarts = 0 /\ faults = 0

Calm == reorgs + restarts + faults < MaxUpsets

\* The chain grows by an empty block or by one with a log.
MineEmpty ==
  /\ Len(chain) < MaxBlocks
  /\ chain' = Append(chain, NoLog)
  /\ UNCHANGED << local, nextId, db, tick, interrupted, reorgs, restarts, faults >>

Mine(e, k) ==
  /\ Len(chain) < MaxBlocks
  /\ CanHappen(e, k)
  /\ chain' = Append(chain, [event |-> e, key |-> k, id |-> nextId])
  /\ nextId' = nextId + 1
  /\ UNCHANGED << local, db, tick, interrupted, reorgs, restarts, faults >>

\* The last blocks of a public chain are replaced.
Reorganize(d) ==
  /\ ~local /\ Calm
  /\ d <= Len(chain) /\ reorgs + d <= MaxReorg
  /\ reorgs' = reorgs + d
  /\ chain' = SubSeq(chain, 1, Len(chain) - d)
  /\ UNCHANGED << local, nextId, db, tick, interrupted, restarts, faults >>

\* A development chain is started again from its first block.
Restart ==
  /\ local /\ Calm
  /\ restarts' = restarts + 1
  /\ chain' = << >>
  /\ UNCHANGED << local, nextId, db, tick, interrupted, reorgs, faults >>

-----------------------------------------------------------------------------
(* tick *)

SafeHead == IF Len(chain) <= Confirmations THEN 0 ELSE Len(chain) - Confirmations

\* Seeded fault: the cursor of the chain that is gone is kept.
ResetKeepingCursor == [cursor |-> db.cursor, marked |-> {}, rows |-> NoRows, deltas |-> << >>]

\* resetForChainRestart empties every table; the cursor goes one block below
\* the new head, whatever the new chain holds further down.
AfterReset == [cursor |-> IF SafeHead > 0 THEN SafeHead - 1 ELSE 0,
               marked |-> {}, rows |-> NoRows, deltas |-> << >>]

BeginTick ==
  LET found  == IF local /\ db.cursor > SafeHead THEN AfterReset ELSE db
      target == Min2(SafeHead, found.cursor + MaxBlocksPerTick)
  IN /\ tick.at = "sleeping"
     /\ db' = found
     /\ tick' = IF target <= found.cursor THEN tick
                ELSE [Asleep EXCEPT !.at = "fetching", !.from = found.cursor + 1, !.target = target]
     /\ UNCHANGED << local, chain, nextId, interrupted, reorgs, restarts, faults >>

\* The logs of a range, block by block.
Logs(from, to) == SubSeq(chain, from, Min2(to, Len(chain)))

\* getLogs answers.
Fetch ==
  LET to == Min2(tick.from + tick.chunk - 1, tick.target)
  IN /\ tick.at = "fetching"
     /\ tick' = [tick EXCEPT !.at = "draining", !.to = to, !.batch = Logs(tick.from, to), !.tries = 0]
     /\ UNCHANGED << local, chain, nextId, db, interrupted, reorgs, restarts, faults >>

\* The provider refuses the range, or the rate.
ShrinkChunk ==
  /\ tick.at = "fetching" /\ tick.chunk > 1
  /\ tick' = [tick EXCEPT !.chunk = @ \div 2, !.tries = 0]
  /\ UNCHANGED << local, chain, nextId, db, interrupted, reorgs, restarts, faults >>

BackOff ==
  /\ tick.at = "fetching" /\ tick.tries < RateLimitRetryMax
  /\ tick' = [tick EXCEPT !.tries = @ + 1]
  /\ UNCHANGED << local, chain, nextId, db, interrupted, reorgs, restarts, faults >>

Current == Head(tick.batch)

\* Seeded fault: processed_logs is not asked.
FreshAlways == Current.event \notin {"none", "Unknown"}
Fresh       == Current.event \notin {"none", "Unknown"} /\ Current.id \notin db.marked

\* A log that cannot be decoded, or is marked, is passed over; so is a block
\* without one.
PassOver ==
  /\ tick.at = "draining" /\ tick.batch # << >> /\ ~Fresh
  /\ tick' = [tick EXCEPT !.batch = Tail(@)]
  /\ UNCHANGED << local, chain, nextId, db, interrupted, reorgs, restarts, faults >>

Marked(d) == [d EXCEPT !.marked = @ \cup {Current.id}]

\* markProcessed.
Mark ==
  /\ tick.at = "draining" /\ tick.batch # << >> /\ Fresh
  /\ db' = Marked(db)
  /\ tick' = [tick EXCEPT !.at = "handling", !.stmt = IF FromHead(Current.event) = {} THEN 1 ELSE 0]
  /\ UNCHANGED << local, chain, nextId, interrupted, reorgs, restarts, faults >>

ReadHead ==
  /\ tick.at = "handling" /\ tick.stmt = 0
  /\ \E t \in FromHead(Current.event) : tick' = [tick EXCEPT !.stmt = 1, !.held = Truth(t, Current.key)]
  /\ UNCHANGED << local, chain, nextId, db, interrupted, reorgs, restarts, faults >>

Wrote(d) ==
  [d EXCEPT !.rows = [r \in Tables \X Keys |->
     IF r[2] = Current.key /\ r[1] \in Statements(Current.event)[tick.stmt]
     THEN RowAfter(Current, r[1], tick.held) ELSE d.rows[r]]]

Writing == tick.at = "handling" /\ tick.stmt \in 1..Len(Statements(Current.event))

\* Only an update of a row that is not there needs no character.
ForeignKeyHolds ==
  \/ Statements(Current.event)[tick.stmt] \cap OfCharacter = {}
  \/ db.rows[<<"characters", Current.key>>] # NoRow

WriteRows ==
  /\ Writing /\ ForeignKeyHolds
  /\ db' = Wrote(db)
  /\ tick' = [tick EXCEPT !.stmt = @ + 1]
  /\ UNCHANGED << local, chain, nextId, interrupted, reorgs, restarts, faults >>

Ending == tick.at = "handling" /\ tick.stmt > Len(Statements(Current.event))

Delivered(d) ==
  IF HasDelta(Current.event) THEN [d EXCEPT !.deltas = Append(@, Current.id)] ELSE d

\* insertDelta, where the handler has one; the log is done.
InsertDelta ==
  /\ Ending
  /\ db' = Delivered(db)
  /\ tick' = [tick EXCEPT !.at = "draining", !.batch = Tail(@), !.stmt = 0, !.held = Nothing]
  /\ UNCHANGED << local, chain, nextId, interrupted, reorgs, restarts, faults >>

\* The handler throws for want of a character.
ForeignKeyFails ==
  /\ Writing /\ ~ForeignKeyHolds
  /\ tick' = [tick EXCEPT !.at = "unmarking"]
  /\ UNCHANGED << local, chain, nextId, db, interrupted, reorgs, restarts, faults >>

\* Seeded fault: the error ends the tick and the marker stays.
UnmarkForgotten ==
  /\ tick.at = "unmarking"
  /\ tick' = Asleep
  /\ UNCHANGED << local, chain, nextId, db, interrupted, reorgs, restarts, faults >>

\* The catch block; the error then ends the tick.
Unmark ==
  /\ tick.at = "unmarking"
  /\ db' = [db EXCEPT !.marked = @ \ {Current.id}]
  /\ tick' = Asleep
  /\ UNCHANGED << local, chain, nextId, interrupted, reorgs, restarts, faults >>

\* setCursor, when every log of the chunk is done.
Checkpoint ==
  /\ tick.at = "draining" /\ tick.batch = << >>
  /\ db' = [db EXCEPT !.cursor = tick.to]
  /\ tick' = IF tick.to >= tick.target THEN Asleep
             ELSE [tick EXCEPT !.at = "fetching", !.from = tick.to + 1]
  /\ UNCHANGED << local, chain, nextId, interrupted, reorgs, restarts, faults >>

-----------------------------------------------------------------------------
(* Faults: a call fails, with its effect or without, or the process ends. *)

Fault == Calm /\ faults' = faults + 1

TickFails == tick' = Asleep /\ UNCHANGED << local, chain, nextId, reorgs, restarts >>

FetchFails ==
  /\ tick.at = "fetching" /\ Fault /\ TickFails
  /\ UNCHANGED << db, interrupted >>

MarkFails ==
  /\ tick.at = "draining" /\ tick.batch # << >> /\ Fresh
  /\ Fault /\ TickFails
  /\ \/ UNCHANGED << db, interrupted >>
     \/ db' = Marked(db) /\ interrupted' = interrupted \cup {Current.id}

StatementFails ==
  /\ tick.at = "handling" /\ Fault
  /\ \/ UNCHANGED db
     \/ Writing /\ ForeignKeyHolds /\ db' = Wrote(db)
     \/ Ending /\ db' = Delivered(db)
  /\ tick' = [tick EXCEPT !.at = "unmarking"]
  /\ UNCHANGED << local, chain, nextId, interrupted, reorgs, restarts >>

UnmarkFails ==
  /\ tick.at = "unmarking" /\ Fault /\ TickFails
  /\ interrupted' = interrupted \cup {Current.id}
  /\ UNCHANGED db

CheckpointFails ==
  /\ tick.at = "draining" /\ tick.batch = << >> /\ Fault /\ TickFails
  /\ UNCHANGED << db, interrupted >>

Crash ==
  /\ tick.at # "sleeping" /\ Fault /\ TickFails
  /\ interrupted' = IF tick.at \in {"handling", "unmarking"}
                    THEN interrupted \cup {Current.id} ELSE interrupted
  /\ UNCHANGED db

-----------------------------------------------------------------------------

TickStep ==
  \/ BeginTick
  \/ Fetch
  \/ ShrinkChunk
  \/ BackOff
  \/ PassOver
  \/ Mark
  \/ ReadHead
  \/ WriteRows
  \/ InsertDelta
  \/ ForeignKeyFails
  \/ Unmark
  \/ Checkpoint

Next ==
  \/ TickStep
  \/ MineEmpty
  \/ \E e \in Events, k \in Keys : Mine(e, k)
  \/ \E d \in 1..MaxReorg : Reorganize(d)
  \/ Restart
  \/ FetchFails
  \/ MarkFails
  \/ StatementFails
  \/ UnmarkFails
  \/ CheckpointFails
  \/ Crash

Spec == Init /\ [][Next]_vars

\* runForever polls, whatever the last tick threw, and is started again.
FairSpec == Spec /\ WF_vars(TickStep)

-----------------------------------------------------------------------------
(* Properties *)

Delivers(i) == \E n \in DOMAIN db.deltas : db.deltas[n] = i

\* A log the cursor has passed is in the feed, unless a crash, a lost answer
\* of markProcessed or a failed unmarkProcessed struck while it was handled:
\* no failing handler, retry, chunking or replay loses a log.
SkippedOnlyIfInterrupted ==
  restarts = 0 =>
    \A n \in 1..Min2(db.cursor, Len(chain)) :
      chain[n] # NoLog /\ HasDelta(chain[n].event) =>
        Delivers(chain[n].id) \/ chain[n].id \in interrupted

\* compact_event_delta lists the events in chain order, each once but for a
\* repetition of the last one, as EventFeed says.
Feed == INSTANCE EventFeed WITH Event <- Nat, feed <- db.deltas
ImplementsFeed == Feed!FeedSpec

CaughtUp == db.cursor >= SafeHead /\ (local => db.cursor = SafeHead)
Settled  == CaughtUp /\ tick.at = "sleeping" /\ \A n \in SafeHead + 1..Len(chain) : chain[n] = NoLog

\* Values read from the head may be those of blocks that are then replaced.
HeadRows == {"levelEpochs", "lootboxes", "stones"}
Mirrored(t, k) ==
  \/ db.rows[<<t, k>>] = Truth(t, k)
  \/ db.rows[<<t, k>>] = NoRow /\ Truth(t, k) = Nothing

\* Once the indexer has caught up and the chain is quiet, every table says
\* what the chain says, whatever was read from the head in between and
\* whatever failed or was replayed, provided no log was interrupted.
MirrorsChain ==
  Settled /\ interrupted = {} /\ restarts = 0 =>
    \A t \in Tables, k \in Keys :
      \/ Mirrored(t, k)
      \/ t \in HeadRows /\ reorgs > 0
      \/ t = "equipment" /\ \E n \in LogsOf(k) : /\ chain[n].event = "ItemUnequipped"
                                                 /\ chain[n].id = Truth(t, k)

\* Every log of a character waits for the row of the character; it waits for
\* ever when the log that creates the row is marked or passed already.
CreationLost(k) ==
  /\ db.rows[<<"characters", k>>] = NoRow
  /\ \A n \in LogsOf(k) : chain[n].event = "CharacterCreated" => n <= db.cursor \/ chain[n].id \in db.marked
Stuck ==
  \E n \in db.cursor + 1..Len(chain) :
    /\ \E s \in DOMAIN Statements(chain[n].event) : Statements(chain[n].event)[s] \cap OfCharacter # {}
    /\ chain[n].event # "CharacterCreated"
    /\ CreationLost(chain[n].key)

\* When faults and blocks end, the indexer reaches the safe head and stays
\* there, on a restarted chain too, unless the creation of a character with
\* later logs was lost.
CatchesUp == <>[](CaughtUp \/ Stuck)

\* mid/README.md:7 "reorg-safe event indexer": no event of a replaced block
\* is left in the feed of an indexer that has caught up.
ReorgSafe ==
  Settled /\ faults = 0 /\ restarts = 0 =>
    \A i \in DOMAIN db.deltas : \E n \in Blocks : chain[n].id = db.deltas[i]
=============================================================================
