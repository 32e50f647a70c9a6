--------------------------- MODULE Indexer_proofs ---------------------------
(***************************************************************************)
(* The indexer feeds events in the order of the chain and loses none but   *)
(* those a fault struck while they were handled, for any chain, any range  *)
(* of blocks a call may fetch and any number of faults, reorganizations    *)
(* and restarts. The feed is ordered because whatever lies below its last  *)
(* event, in the chain or in the batch, is marked or unreadable; no event  *)
(* is lost because what is marked is delivered, interrupted or in hand.    *)
(* The tables say what the chain says because a row is that of a log, and  *)
(* of none older than any that has been delivered.                         *)
(***************************************************************************)
EXTENDS Indexer, Sums

Block == [event : Events \cup {"none"}, key : Keys \cup {"none"}, id : Nat]

ChainType == Seq(Block)
DbType    == [cursor : Nat, marked : SUBSET Nat, rows : [Tables \X Keys -> Int], deltas : Seq(Nat)]
TickType  == [at : {"sleeping", "fetching", "draining", "handling", "unmarking"},
              from : Nat, to : Nat, target : Nat, chunk : Nat \ {0}, tries : Nat,
              batch : Seq(Block), stmt : Nat, held : Nat]

\* The logs of the sequence c are numbered below m.
Numbered(c, m) == \A n \in 1..Len(c) : c[n].id < m

IndexerTypeOK ==
  /\ chain \in ChainType /\ nextId \in Nat \ {0} /\ Numbered(chain, nextId)
  /\ db \in DbType
  /\ tick \in TickType
  /\ interrupted \subseteq Nat
  /\ reorgs \in Nat /\ restarts \in Nat

\* A log is in hand while it is handled or being unmarked.
InHand == tick.at \in {"handling", "unmarking"}
BatchInUse == InHand => tick.batch # << >>

-----------------------------------------------------------------------------

\* The chain's value is the id of a log, or zero.
LEMMA TruthNat ==
  ASSUME IndexerTypeOK, NEW t, NEW k
  PROVE  Truth(t, k) \in Nat
  <1> DEFINE N == {m \in LogsOf(k) : t \in Changes(chain[m].event)}
             S == {chain[n].id : n \in N}
  <1>1. CASE S = {}
    BY <1>1 DEF Truth, Nothing
  <1>2. CASE S # {}
    <2>1. N \subseteq Blocks
      BY DEF LogsOf
    <2>2. \A n \in Blocks : chain[n].id \in 0..nextId
      <3> SUFFICES ASSUME NEW n \in Blocks PROVE chain[n].id \in 0..nextId
        OBVIOUS
      <3>1. chain[n] \in Block
        BY DEF IndexerTypeOK, Blocks, ChainType
      <3>2. chain[n].id \in Nat /\ chain[n].id < nextId /\ nextId \in Nat
        BY <3>1 DEF Block, IndexerTypeOK, Numbered, Blocks
      <3> QED BY <3>2
    <2>4. S \subseteq 0..nextId /\ nextId \in Nat
      <3>1. nextId \in Nat
        BY DEF IndexerTypeOK
      <3> HIDE DEF N
      <3> QED BY <2>1, <2>2, <3>1
    <2>5. \E i \in S : \A j \in S : j <= i
      <3> HIDE DEF S
      <3> QED BY <1>2, <2>4, GreatestNumber
    <2> DEFINE top == CHOOSE i \in S : \A j \in S : j <= i
    <2>6. top \in S
      <3> HIDE DEF S
      <3> QED BY <2>5
    <2>7. Truth(t, k) = top
      BY <1>2 DEF Truth
    <2> HIDE DEF S, top
    <2> QED BY <2>4, <2>6, <2>7
  <1> QED BY <1>1, <1>2

\* The log in hand is one of the batch, and what is left of the batch is one.
LEMMA BatchFacts ==
  ASSUME IndexerTypeOK, tick.batch # << >>
  PROVE  /\ Current \in Block /\ Current = tick.batch[1]
         /\ Tail(tick.batch) \in Seq(Block) /\ Len(Tail(tick.batch)) = Len(tick.batch) - 1
         /\ \A i \in 1..Len(tick.batch) - 1 : Tail(tick.batch)[i] = tick.batch[i + 1]
         /\ Len(tick.batch) \in Nat /\ Len(tick.batch) >= 1
  BY DEF IndexerTypeOK, TickType, Current

\* Handlers keep the shape of the tables.
LEMMA WroteOK ==
  ASSUME IndexerTypeOK, tick.batch # << >>
  PROVE  /\ Wrote(db).rows \in [Tables \X Keys -> Int]
         /\ Wrote(db) = [db EXCEPT !.rows = Wrote(db).rows]
  <1> DEFINE W == [r \in Tables \X Keys |->
                     IF r[2] = Current.key /\ r[1] \in Statements(Current.event)[tick.stmt]
                     THEN RowAfter(Current, r[1], tick.held) ELSE db.rows[r]]
  <1>1. Wrote(db) = [db EXCEPT !.rows = W]
    BY DEF Wrote
  <1>2. Wrote(db).rows = W
    BY <1>1 DEF IndexerTypeOK, DbType
  <1>3. ASSUME NEW r \in Tables \X Keys PROVE W[r] \in Int
    <2>1. Current.id \in Int /\ tick.held \in Int /\ db.rows[r] \in Int /\ NoRow \in Int
      BY BatchFacts DEF IndexerTypeOK, DbType, TickType, Block, NoRow
    <2>2. CASE r[2] = Current.key
      <3>1. r = << r[1], Current.key >>
        BY <1>3, <2>2
      <3>2. RowAfter(Current, r[1], tick.held) \in Int
        BY <2>1, <3>1 DEF RowAfter
      <3> QED BY <2>1, <3>2
    <2>3. CASE r[2] # Current.key
      BY <2>1, <2>3
    <2> QED BY <2>2, <2>3
  <1>4. W \in [Tables \X Keys -> Int]
    BY <1>3
  <1> QED BY <1>1, <1>2, <1>4

\* So do delivering and marking.
LEMMA DeliveredOK ==
  ASSUME IndexerTypeOK, tick.batch # << >>
  PROVE  /\ Delivered(db).deltas \in Seq(Nat)
         /\ Delivered(db) = [db EXCEPT !.deltas = Delivered(db).deltas]
         /\ Marked(db) = [db EXCEPT !.marked = db.marked \cup {Current.id}]
  <1>1. Current.id \in Nat /\ db.deltas \in Seq(Nat)
    BY BatchFacts DEF IndexerTypeOK, DbType, Block
  <1>2. CASE HasDelta(Current.event)
    <2>1. Delivered(db) = [db EXCEPT !.deltas = Append(db.deltas, Current.id)]
      BY <1>2 DEF Delivered
    <2>2. Delivered(db).deltas = Append(db.deltas, Current.id)
      BY <2>1 DEF IndexerTypeOK, DbType
    <2> QED BY <1>1, <2>1, <2>2 DEF Marked
  <1>3. CASE ~HasDelta(Current.event)
    <2>1. Delivered(db) = db
      BY <1>3 DEF Delivered
    <2> QED BY <1>1, <2>1 DEF Marked, IndexerTypeOK, DbType
  <1> QED BY <1>2, <1>3

\* The bounds are numbers.
LEMMA IndexerBounds ==
  /\ BlockChunk \in Nat \ {0} /\ MaxBlocksPerTick \in Nat \ {0}
  /\ Confirmations \in Nat /\ MaxReorg \in Nat /\ MaxUpsets \in Nat
  BY IndexerAssumption

\* An idle tick is one.
LEMMA AsleepOK == Asleep \in TickType
  <1>1. << >> \in Seq(Block)
    OBVIOUS
  <1> QED BY <1>1, IndexerBounds DEF Asleep, Nothing, TickType

\* A block more, or less, leaves a numbered chain.
LEMMA MinedOK ==
  ASSUME NEW c \in Seq(Block), NEW m \in Nat, NEW w \in Nat, NEW b \in Block,
         Numbered(c, m), m <= w, b.id < w
  PROVE  Append(c, b) \in Seq(Block) /\ Numbered(Append(c, b), w)
  <1>1. Append(c, b) \in Seq(Block)
    OBVIOUS
  <1>2. ASSUME NEW n \in 1..Len(Append(c, b)) PROVE Append(c, b)[n].id < w
    <2>1. CASE n = Len(c) + 1
      BY <2>1
    <2>2. CASE n \in 1..Len(c)
      <3>1. Append(c, b)[n] = c[n] /\ c[n] \in Block
        BY <2>2
      <3>2. c[n].id < m /\ c[n].id \in Nat
        BY <2>2, <3>1 DEF Numbered, Block
      <3> QED BY <3>1, <3>2
    <2> QED BY <2>1, <2>2
  <1> QED BY <1>1, <1>2 DEF Numbered

LEMMA CutOK ==
  ASSUME NEW c \in Seq(Block), NEW m \in Nat, NEW d \in Nat, d <= Len(c), Numbered(c, m)
  PROVE  LET s == SubSeq(c, 1, Len(c) - d)
         IN  /\ s \in Seq(Block) /\ Numbered(s, m) /\ Len(s) = Len(c) - d
             /\ \A n \in 1..Len(c) - d : s[n] = c[n]
  BY DEF Numbered

\* Blocks mined or replaced: only the chain changes, and its logs are numbered
\* below nextId.
LEMMA ChainStepType ==
  ASSUME IndexerTypeOK,
         MineEmpty \/ (\E e \in Events, k \in Keys : Mine(e, k))
           \/ (\E d \in 1..MaxReorg : Reorganize(d)) \/ Restart
  PROVE  IndexerTypeOK'
  <1>0. chain \in Seq(Block) /\ nextId \in Nat \ {0} /\ Numbered(chain, nextId)
    BY DEF IndexerTypeOK, ChainType
  <1>1. CASE MineEmpty
    <2>1. NoLog \in Block /\ NoLog.id < nextId
      BY <1>0 DEF NoLog, Block
    <2>2. Append(chain, NoLog) \in Seq(Block) /\ Numbered(Append(chain, NoLog), nextId)
      BY <1>0, <2>1, MinedOK
    <2> QED BY <1>1, <2>2 DEF MineEmpty, IndexerTypeOK, ChainType
  <1>2. ASSUME NEW e \in Events, NEW k \in Keys, Mine(e, k) PROVE IndexerTypeOK'
    <2> DEFINE new == [event |-> e, key |-> k, id |-> nextId]
    <2>1. new \in Block /\ new.id = nextId
      BY <1>0 DEF Block
    <2>2. chain' = Append(chain, new) /\ nextId' = nextId + 1
      BY <1>2 DEF Mine
    <2> HIDE DEF new
    <2>3. Append(chain, new) \in Seq(Block) /\ Numbered(Append(chain, new), nextId + 1)
      BY <1>0, <2>1, MinedOK
    <2> QED BY <1>0, <1>2, <2>2, <2>3 DEF Mine, IndexerTypeOK, ChainType
  <1>3. ASSUME NEW d \in 1..MaxReorg, Reorganize(d) PROVE IndexerTypeOK'
    <2>1. chain' = SubSeq(chain, 1, Len(chain) - d) /\ d \in Nat /\ d <= Len(chain)
      BY <1>3, IndexerBounds DEF Reorganize
    <2>2. chain' \in Seq(Block) /\ Numbered(chain', nextId)
      BY <1>0, <2>1, CutOK
    <2> QED BY <1>3, <2>1, <2>2 DEF Reorganize, IndexerTypeOK, ChainType
  <1>4. CASE Restart
    <2>1. << >> \in Seq(Block) /\ Numbered(<< >>, nextId)
      BY DEF Numbered
    <2> QED BY <1>4, <2>1 DEF Restart, IndexerTypeOK, ChainType
  <1> QED BY <1>1, <1>2, <1>3, <1>4

\* What getLogs answers about a range of blocks.
LEMMA LogsFacts ==
  ASSUME chain \in Seq(Block), NEW from \in Nat \ {0}, NEW to \in Nat
  PROVE  /\ Logs(from, to) \in Seq(Block)
         /\ from <= to /\ to <= Len(chain) => Len(Logs(from, to)) = to - from + 1
         /\ \A i \in 1..Len(Logs(from, to)) :
              /\ Logs(from, to)[i] = chain[from + i - 1]
              /\ from + i - 1 \in Blocks /\ from + i - 1 <= to
  <1> DEFINE last == Min2(to, Len(chain))
  <1>1. last \in Nat /\ last <= to /\ last <= Len(chain)
    BY DEF Min2
  <1> HIDE DEF last
  <1>2. Logs(from, to) = SubSeq(chain, from, last)
    BY DEF Logs, last
  <1>3. from <= to /\ to <= Len(chain) => Len(Logs(from, to)) = to - from + 1
    BY <1>1, <1>2 DEF last, Min2
  <1> QED BY <1>1, <1>2, <1>3 DEF Blocks, last

\* What stays true of a tick, wherever it is.
TickOK ==
  /\ InHand => tick.batch # << >>
  /\ tick.at # "draining" /\ ~InHand => tick.batch = << >>
  /\ tick.at # "sleeping" => tick.from = db.cursor + 1 /\ tick.from <= tick.target
  /\ tick.at = "draining" \/ InHand => tick.from <= tick.to /\ tick.to <= tick.target

\* A step of the tick or a fault leaves the chain alone and the tables in shape.
LEMMA TickStepType ==
  ASSUME IndexerTypeOK, TickOK,
         \/ TickStep \/ FetchFails \/ MarkFails \/ StatementFails \/ UnmarkFails
         \/ CheckpointFails \/ Crash
  PROVE  IndexerTypeOK'
  <1>0. db \in DbType /\ tick \in TickType /\ chain \in Seq(Block)
    BY DEF IndexerTypeOK, ChainType
  <1>a. ASSUME tick.batch # << >>
        PROVE  /\ Current \in Block /\ Current.id \in Nat
               /\ Tail(tick.batch) \in Seq(Block)
    BY <1>a, BatchFacts DEF Block
  <1>b. ASSUME InHand PROVE tick.batch # << >>
    BY <1>b DEF TickOK
  <1>1. CASE BeginTick
    <2>1. SafeHead \in Nat
      BY <1>0, IndexerBounds DEF SafeHead
    <2>2. AfterReset \in DbType
      <3>1. NoRows \in [Tables \X Keys -> Int]
        BY DEF NoRows, NoRow
      <3> QED BY <2>1, <3>1 DEF AfterReset, DbType
    <2>3. db' \in DbType
      BY <1>0, <1>1, <2>2 DEF BeginTick
    <2> DEFINE target == Min2(SafeHead, db'.cursor + MaxBlocksPerTick)
    <2>4. tick' = tick \/ tick' = [Asleep EXCEPT !.at = "fetching", !.from = db'.cursor + 1, !.target = target]
      BY <1>1 DEF BeginTick
    <2>5. target \in Nat /\ db'.cursor + 1 \in Nat
      BY <2>1, <2>3, IndexerBounds DEF Min2, DbType
    <2> HIDE DEF target
    <2>6. tick' \in TickType
      BY <1>0, <2>4, <2>5, AsleepOK DEF TickType
    <2> QED BY <1>1, <2>3, <2>6 DEF BeginTick, IndexerTypeOK
  <1>2. CASE Fetch
    <2> DEFINE to == Min2(tick.from + tick.chunk - 1, tick.target)
    <2>1. to \in Nat /\ tick.from \in Nat \ {0}
      BY <1>0, <1>2 DEF Min2, TickType, DbType, Fetch, TickOK
    <2>2. tick' = [tick EXCEPT !.at = "draining", !.to = to, !.batch = Logs(tick.from, to), !.tries = 0]
      BY <1>2 DEF Fetch
    <2> HIDE DEF to
    <2>3. Logs(tick.from, to) \in Seq(Block)
      BY <1>0, <2>1, LogsFacts
    <2>4. tick' \in TickType
      BY <1>0, <2>1, <2>2, <2>3 DEF TickType
    <2> QED BY <1>2, <2>4 DEF Fetch, IndexerTypeOK
  <1>3. CASE ShrinkChunk
    <2>1. tick.chunk \div 2 \in Nat \ {0}
      BY <1>0, <1>3 DEF ShrinkChunk, TickType
    <2>2. tick' \in TickType
      BY <1>0, <1>3, <2>1 DEF ShrinkChunk, TickType
    <2> QED BY <1>3, <2>2 DEF ShrinkChunk, IndexerTypeOK
  <1>4. CASE BackOff
    <2>1. tick' \in TickType
      BY <1>0, <1>4 DEF BackOff, TickType
    <2> QED BY <1>4, <2>1 DEF BackOff, IndexerTypeOK
  <1>5. CASE PassOver
    <2>1. tick' \in TickType
      BY <1>0, <1>5, <1>a DEF PassOver, TickType
    <2> QED BY <1>5, <2>1 DEF PassOver, IndexerTypeOK
  <1>6. CASE Mark
    <2>1. tick' \in TickType
      BY <1>0, <1>6 DEF Mark, TickType
    <2>2. db' \in DbType
      BY <1>0, <1>6, <1>a DEF Mark, Marked, DbType
    <2> QED BY <1>6, <2>1, <2>2 DEF Mark, IndexerTypeOK
  <1>7. CASE ReadHead
    <2>1. PICK t \in FromHead(Current.event) : tick' = [tick EXCEPT !.stmt = 1, !.held = Truth(t, Current.key)]
      BY <1>7 DEF ReadHead
    <2>2. tick' \in TickType
      BY <1>0, <2>1, TruthNat DEF TickType
    <2> QED BY <1>7, <2>2 DEF ReadHead, IndexerTypeOK
  <1>8. CASE WriteRows
    <2>1. tick' \in TickType
      BY <1>0, <1>8 DEF WriteRows, TickType
    <2>2. db' \in DbType
      BY <1>0, <1>8, <1>b, WroteOK DEF WriteRows, Writing, InHand, DbType
    <2> QED BY <1>8, <2>1, <2>2 DEF WriteRows, IndexerTypeOK
  <1>9. CASE InsertDelta
    <2>0. tick.batch # << >>
      BY <1>9, <1>b DEF InsertDelta, Ending, InHand
    <2>1. tick' \in TickType
      BY <1>0, <1>9, <1>a, <2>0 DEF InsertDelta, TickType, Nothing
    <2>2. db' \in DbType
      BY <1>0, <1>9, <2>0, DeliveredOK DEF InsertDelta, DbType
    <2> QED BY <1>9, <2>1, <2>2 DEF InsertDelta, IndexerTypeOK
  <1>10. CASE ForeignKeyFails
    <2>1. tick' \in TickType
      BY <1>0, <1>10 DEF ForeignKeyFails, TickType
    <2> QED BY <1>10, <2>1 DEF ForeignKeyFails, IndexerTypeOK
  <1>11. CASE Unmark
    <2>1. db' \in DbType
      BY <1>0, <1>11 DEF Unmark, DbType
    <2> QED BY <1>11, <2>1, AsleepOK DEF Unmark, IndexerTypeOK
  <1>12. CASE Checkpoint
    <2>1. db' \in DbType
      BY <1>0, <1>12 DEF Checkpoint, DbType, TickType
    <2>2. tick' = Asleep \/ tick' = [tick EXCEPT !.at = "fetching", !.from = tick.to + 1]
      BY <1>12 DEF Checkpoint
    <2>3. tick' \in TickType
      <3>0. tick.to + 1 \in Nat
        BY <1>0 DEF TickType
      <3>1. ASSUME NEW from \in Nat PROVE [tick EXCEPT !.at = "fetching", !.from = from] \in TickType
        BY <1>0 DEF TickType
      <3> QED BY <2>2, <3>0, <3>1, AsleepOK
    <2> QED BY <1>12, <2>1, <2>3 DEF Checkpoint, IndexerTypeOK
  <1>13. CASE FetchFails \/ CheckpointFails
    BY <1>13, AsleepOK DEF FetchFails, CheckpointFails, TickFails, IndexerTypeOK
  <1>14. CASE MarkFails
    <2>1. db' \in DbType
      BY <1>0, <1>14, <1>a DEF MarkFails, Marked, DbType
    <2>2. interrupted' = interrupted \/ interrupted' = interrupted \cup {Current.id}
      BY <1>14 DEF MarkFails
    <2>3. interrupted' \subseteq Nat
      <3>1. Current.id \in Nat /\ interrupted \subseteq Nat
        BY <1>14, <1>a DEF MarkFails, IndexerTypeOK
      <3> QED BY <2>2, <3>1
    <2> QED BY <1>14, <2>1, <2>3, AsleepOK DEF MarkFails, TickFails, IndexerTypeOK
  <1>15. CASE StatementFails
    <2>0. tick.batch # << >>
      BY <1>15, <1>b DEF StatementFails, InHand
    <2>1. Wrote(db) \in DbType /\ Delivered(db) \in DbType
      BY <1>0, <2>0, WroteOK, DeliveredOK DEF DbType
    <2>2. db' \in DbType
      BY <1>0, <1>15, <2>1 DEF StatementFails
    <2>3. tick' \in TickType
      BY <1>0, <1>15 DEF StatementFails, TickType
    <2> QED BY <1>15, <2>2, <2>3 DEF StatementFails, IndexerTypeOK
  <1>16. CASE UnmarkFails \/ Crash
    <2>1. interrupted' \subseteq Nat
      BY <1>16, <1>a, <1>b DEF UnmarkFails, Crash, InHand, IndexerTypeOK
    <2> QED BY <1>16, <2>1, AsleepOK DEF UnmarkFails, Crash, TickFails, IndexerTypeOK
  <1> QED
    BY <1>1, <1>2, <1>3, <1>4, <1>5, <1>6, <1>7, <1>8, <1>9, <1>10, <1>11, <1>12, <1>13,
       <1>14, <1>15, <1>16 DEF TickStep

-----------------------------------------------------------------------------
(* The order of the feed                                                   *)

Readable(b) == b.event \notin {"none", "Unknown"}

\* The logs of c that can be decoded are in the order of their ids.
InOrder(c) ==
  \A m, n \in 1..Len(c) : m < n /\ Readable(c[m]) /\ Readable(c[n]) => c[m].id < c[n].id

\* The last event of the feed d, zero when it has none.
LastOf(d) == IF d = << >> THEN 0 ELSE d[Len(d)]

\* What lies below the last event, ahead of the cursor or in the batch, will be
\* passed over, and what lies ahead of the cursor below a log of the batch is
\* marked or comes before it in the batch.
Below(ch, cursor, marked, last, batch) ==
  /\ \A n \in 1..Len(ch) :
       n > cursor /\ Readable(ch[n]) => ch[n].id \in marked \/ ch[n].id >= last
  /\ \A i \in 1..Len(batch) :
       Readable(batch[i]) => batch[i].id \in marked \/ batch[i].id >= last
  /\ \A n \in 1..Len(ch), i \in 1..Len(batch) :
       n > cursor /\ Readable(ch[n]) /\ Readable(batch[i]) /\ ch[n].id < batch[i].id =>
         ch[n].id \in marked \/ \E j \in 1..i - 1 : batch[j] = ch[n]

InHandOK(b, marked, last) == Readable(b) /\ b.id \in marked /\ last <= b.id

FeedInv ==
  /\ IndexerTypeOK /\ TickOK
  /\ InOrder(chain) /\ InOrder(tick.batch) /\ Numbered(tick.batch, nextId)
  /\ LastOf(db.deltas) < nextId
  /\ Below(chain, db.cursor, db.marked, LastOf(db.deltas), tick.batch)
  /\ InHand => InHandOK(Current, db.marked, LastOf(db.deltas))

\* The arguments of Below, together.
Scene(ch, cursor, marked, last, batch) ==
  /\ ch \in Seq(Block) /\ cursor \in Nat /\ marked \in SUBSET Nat /\ last \in Nat
  /\ batch \in Seq(Block)
  /\ Below(ch, cursor, marked, last, batch)

LEMMA IdNat ==
  ASSUME NEW c \in Seq(Block), NEW n \in 1..Len(c)
  PROVE  c[n] \in Block /\ c[n].id \in Nat
  <1>1. c[n] \in Block
    OBVIOUS
  <1> QED BY <1>1 DEF Block

\* A block mined late, a later cursor, more markers and an empty batch keep Below.
LEMMA BelowMined ==
  ASSUME NEW ch, NEW cursor, NEW marked, NEW last, NEW batch, Scene(ch, cursor, marked, last, batch),
         NEW b \in Block, Readable(b) => last <= b.id /\ Numbered(batch, b.id)
  PROVE  Below(Append(ch, b), cursor, marked, last, batch)
  <1>0. /\ ch \in Seq(Block) /\ cursor \in Nat /\ last \in Nat /\ batch \in Seq(Block)
        /\ Below(ch, cursor, marked, last, batch)
    BY DEF Scene
  <1>1. ASSUME NEW n \in 1..Len(Append(ch, b))
        PROVE  \/ n \in 1..Len(ch) /\ Append(ch, b)[n] = ch[n]
               \/ Append(ch, b)[n] = b
    BY <1>0
  <1>2. ASSUME NEW n \in 1..Len(Append(ch, b)), n > cursor, Readable(Append(ch, b)[n])
        PROVE  Append(ch, b)[n].id \in marked \/ Append(ch, b)[n].id >= last
    <2>1. CASE n \in 1..Len(ch) /\ Append(ch, b)[n] = ch[n]
      BY <1>0, <1>2, <2>1 DEF Below
    <2>2. CASE Append(ch, b)[n] = b
      BY <1>0, <1>2, <2>2 DEF Block
    <2> QED BY <1>1, <2>1, <2>2
  <1>3. ASSUME NEW n \in 1..Len(Append(ch, b)), NEW i \in 1..Len(batch), n > cursor,
               Readable(Append(ch, b)[n]), Readable(batch[i]), Append(ch, b)[n].id < batch[i].id
        PROVE  Append(ch, b)[n].id \in marked \/ \E j \in 1..i - 1 : batch[j] = Append(ch, b)[n]
    <2>1. CASE n \in 1..Len(ch) /\ Append(ch, b)[n] = ch[n]
      BY <1>0, <1>3, <2>1 DEF Below
    <2>2. CASE Append(ch, b)[n] = b
      <3>1. batch[i].id < b.id /\ batch[i].id \in Nat /\ b.id \in Nat
        BY <1>0, <1>3, <2>2, IdNat DEF Numbered, Block
      <3> QED BY <1>3, <2>2, <3>1
    <2> QED BY <1>1, <2>1, <2>2
  <1> QED BY <1>0, <1>2, <1>3 DEF Below

LEMMA BelowCut ==
  ASSUME NEW ch, NEW cursor, NEW marked, NEW last, NEW batch, Scene(ch, cursor, marked, last, batch),
         NEW s \in Seq(Block), Len(s) <= Len(ch), \A n \in 1..Len(s) : s[n] = ch[n]
  PROVE  Below(s, cursor, marked, last, batch)
  <1>0. ch \in Seq(Block) /\ Below(ch, cursor, marked, last, batch)
    BY DEF Scene
  <1>1. \A n \in 1..Len(s) : n \in 1..Len(ch) /\ s[n] = ch[n]
    BY <1>0
  <1> QED BY <1>0, <1>1 DEF Below

LEMMA BelowLater ==
  ASSUME NEW ch, NEW cursor, NEW marked, NEW last, NEW batch, Scene(ch, cursor, marked, last, batch),
         NEW c \in Nat, cursor <= c
  PROVE  Below(ch, c, marked, last, << >>)
  <1>0. ch \in Seq(Block) /\ cursor \in Nat /\ Below(ch, cursor, marked, last, batch)
    BY DEF Scene
  <1> QED BY <1>0 DEF Below

LEMMA BelowMarked ==
  ASSUME NEW ch, NEW cursor, NEW marked, NEW last, NEW batch, Scene(ch, cursor, marked, last, batch),
         NEW m \in SUBSET Nat, marked \subseteq m
  PROVE  Below(ch, cursor, m, last, batch)
  BY DEF Scene, Below

\* A log taken back is not below the last event.
LEMMA BelowUnmarked ==
  ASSUME NEW ch, NEW cursor, NEW marked, NEW last, NEW batch, Scene(ch, cursor, marked, last, batch),
         NEW i \in Nat, last <= i
  PROVE  Below(ch, cursor, marked \ {i}, last, << >>)
  <1>0. ch \in Seq(Block) /\ last \in Nat /\ Below(ch, cursor, marked, last, batch)
    BY DEF Scene
  <1>1. ASSUME NEW n \in 1..Len(ch), n > cursor, Readable(ch[n])
        PROVE  ch[n].id \in marked \ {i} \/ ch[n].id >= last
    <2>1. ch[n].id \in marked \/ ch[n].id >= last
      BY <1>0, <1>1 DEF Below
    <2> QED BY <2>1
  <1> QED BY <1>1 DEF Below

\* What a call fetches from the cursor on continues the chain's order.
LEMMA BelowFetched ==
  ASSUME NEW ch, NEW cursor, NEW marked, NEW last, NEW old, Scene(ch, cursor, marked, last, old),
         InOrder(ch),
         NEW batch \in Seq(Block),
         \A i \in 1..Len(batch) : cursor + i \in 1..Len(ch) /\ batch[i] = ch[cursor + i]
  PROVE  Below(ch, cursor, marked, last, batch) /\ InOrder(batch)
  <1>0. ch \in Seq(Block) /\ cursor \in Nat /\ last \in Nat /\ Below(ch, cursor, marked, last, old)
    BY DEF Scene
  <1>1. ASSUME NEW i \in 1..Len(batch), Readable(batch[i])
        PROVE  batch[i].id \in marked \/ batch[i].id >= last
    <2>1. cursor + i \in 1..Len(ch) /\ batch[i] = ch[cursor + i] /\ cursor + i > cursor
      BY <1>0
    <2> QED BY <1>0, <1>1, <2>1 DEF Below
  <1>2. ASSUME NEW n \in 1..Len(ch), NEW i \in 1..Len(batch), n > cursor,
               Readable(ch[n]), Readable(batch[i]), ch[n].id < batch[i].id
        PROVE  \E j \in 1..i - 1 : batch[j] = ch[n]
    <2>1. cursor + i \in 1..Len(ch) /\ batch[i] = ch[cursor + i]
      OBVIOUS
    <2>2. ~(cursor + i < n) /\ cursor + i # n
      <3>1. ch[n].id \in Nat /\ ch[cursor + i].id \in Nat
        BY <1>0, <2>1, IdNat
      <3>2. ASSUME cursor + i < n PROVE FALSE
        <4>1. ch[cursor + i].id < ch[n].id
          BY <1>2, <2>1, <3>2 DEF InOrder
        <4> QED BY <1>2, <2>1, <3>1, <4>1
      <3>3. ASSUME cursor + i = n PROVE FALSE
        BY <1>2, <2>1, <3>1, <3>3
      <3> QED BY <3>2, <3>3
    <2>3. n - cursor \in 1..i - 1 /\ n - cursor \in 1..Len(batch)
      BY <1>0, <1>2, <2>2
    <2>4. batch[n - cursor] = ch[cursor + (n - cursor)] /\ cursor + (n - cursor) = n
      BY <1>0, <2>3
    <2> QED BY <2>3, <2>4
  <1>3. ASSUME NEW m \in 1..Len(batch), NEW n \in 1..Len(batch), m < n,
               Readable(batch[m]), Readable(batch[n])
        PROVE  batch[m].id < batch[n].id
    <2>1. /\ cursor + m \in 1..Len(ch) /\ batch[m] = ch[cursor + m]
          /\ cursor + n \in 1..Len(ch) /\ batch[n] = ch[cursor + n]
          /\ cursor + m < cursor + n
      BY <1>0, <1>3
    <2> QED BY <1>3, <2>1 DEF InOrder
  <1> QED BY <1>0, <1>1, <1>2, <1>3 DEF Below, InOrder

\* The facts a batch has of its first log pass to the rest of it.
LEMMA BelowPassed ==
  ASSUME NEW ch, NEW cursor, NEW marked, NEW last, NEW batch, Scene(ch, cursor, marked, last, batch),
         NEW tail \in Seq(Block), Len(tail) = Len(batch) - 1,
         \A i \in 1..Len(tail) : tail[i] = batch[i + 1],
         Readable(batch[1]) => batch[1].id \in marked
  PROVE  Below(ch, cursor, marked, last, tail)
  <1>0. ch \in Seq(Block) /\ batch \in Seq(Block) /\ Below(ch, cursor, marked, last, batch)
    BY DEF Scene
  <1>1. ASSUME NEW i \in 1..Len(tail)
        PROVE  tail[i] = batch[i + 1] /\ i + 1 \in 1..Len(batch)
    BY <1>0
  <1>2. ASSUME NEW n \in 1..Len(ch), NEW i \in 1..Len(tail), n > cursor,
               Readable(ch[n]), Readable(tail[i]), ch[n].id < tail[i].id
        PROVE  ch[n].id \in marked \/ \E j \in 1..i - 1 : tail[j] = ch[n]
    <2>0. i + 1 \in 1..Len(batch) /\ Readable(batch[i + 1]) /\ ch[n].id < batch[i + 1].id
          /\ (i + 1) - 1 = i
      BY <1>0, <1>1, <1>2
    <2>1. ch[n].id \in marked \/ \E j \in 1..i : batch[j] = ch[n]
      <3>1. ch[n].id \in marked \/ \E j \in 1..(i + 1) - 1 : batch[j] = ch[n]
        BY <1>0, <1>2, <2>0 DEF Below
      <3> QED BY <2>0, <3>1
    <2>2. ASSUME NEW j \in 1..i, batch[j] = ch[n]
          PROVE  ch[n].id \in marked \/ \E k \in 1..i - 1 : tail[k] = ch[n]
      <3>1. CASE j = 1
        BY <1>2, <2>2, <3>1
      <3>2. CASE j # 1
        <4>1. j - 1 \in 1..i - 1 /\ j - 1 \in 1..Len(tail)
          BY <3>2
        <4>2. tail[j - 1] = batch[(j - 1) + 1] /\ (j - 1) + 1 = j
          BY <4>1
        <4> QED BY <2>2, <4>1, <4>2
      <3> QED BY <3>1, <3>2
    <2> QED BY <2>1, <2>2
  <1>3. \A i \in 1..Len(tail) : Readable(tail[i]) => tail[i].id \in marked \/ tail[i].id >= last
    BY <1>0, <1>1 DEF Below
  <1> QED BY <1>0, <1>2, <1>3 DEF Below

\* The first log of the batch may become the last event.
LEMMA BelowFed ==
  ASSUME NEW ch, NEW cursor, NEW marked, NEW last, NEW batch, Scene(ch, cursor, marked, last, batch),
         InOrder(batch), batch # << >>, Readable(batch[1])
  PROVE  Below(ch, cursor, marked, batch[1].id, batch)
  <1>0. ch \in Seq(Block) /\ batch \in Seq(Block) /\ Below(ch, cursor, marked, last, batch)
        /\ 1 \in 1..Len(batch)
    BY DEF Scene
  <1>1. ASSUME NEW n \in 1..Len(ch), n > cursor, Readable(ch[n])
        PROVE  ch[n].id \in marked \/ ch[n].id >= batch[1].id
    <2>1. ch[n].id \in Nat /\ batch[1].id \in Nat
      BY <1>0, IdNat
    <2>2. ASSUME ch[n].id < batch[1].id PROVE ch[n].id \in marked
      <3>1. ch[n].id \in marked \/ \E j \in 1..1 - 1 : batch[j] = ch[n]
        BY <1>0, <1>1, <2>2 DEF Below
      <3> QED BY <3>1
    <2> QED BY <2>1, <2>2
  <1>2. ASSUME NEW i \in 1..Len(batch), Readable(batch[i]) PROVE batch[i].id >= batch[1].id
    <2>1. batch[i].id \in Nat /\ batch[1].id \in Nat
      BY <1>0, IdNat
    <2>2. CASE i = 1
      BY <2>1, <2>2
    <2>3. CASE i # 1
      <3>1. batch[1].id < batch[i].id
        BY <1>0, <1>2, <2>3 DEF InOrder
      <3> QED BY <2>1, <3>1
    <2> QED BY <2>2, <2>3
  <1> QED BY <1>0, <1>1, <1>2 DEF Below

LEMMA TailInOrder ==
  ASSUME NEW batch \in Seq(Block), NEW tail \in Seq(Block), Len(tail) = Len(batch) - 1,
         \A i \in 1..Len(tail) : tail[i] = batch[i + 1],
         NEW w \in Nat, InOrder(batch), Numbered(batch, w)
  PROVE  InOrder(tail) /\ Numbered(tail, w)
  <1>1. ASSUME NEW i \in 1..Len(tail)
        PROVE  tail[i] = batch[i + 1] /\ i + 1 \in 1..Len(batch)
    OBVIOUS
  <1>2. ASSUME NEW m \in 1..Len(tail), NEW n \in 1..Len(tail), m < n,
               Readable(tail[m]), Readable(tail[n])
        PROVE  tail[m].id < tail[n].id
    <2>1. m + 1 < n + 1
      BY <1>2
    <2> QED BY <1>1, <1>2, <2>1 DEF InOrder
  <1> QED BY <1>1, <1>2 DEF InOrder, Numbered

LEMMA LastNat == ASSUME NEW d \in Seq(Nat) PROVE LastOf(d) \in Nat
  <1>1. CASE d = << >>
    BY <1>1 DEF LastOf
  <1>2. CASE d # << >>
    <2>1. Len(d) \in 1..Len(d)
      BY <1>2
    <2> QED BY <1>2, <2>1 DEF LastOf
  <1> QED BY <1>1, <1>2

\* The invariant, as the lemmas above take it.
LEMMA FeedScene ==
  ASSUME FeedInv
  PROVE  /\ Scene(chain, db.cursor, db.marked, LastOf(db.deltas), tick.batch)
         /\ chain \in Seq(Block) /\ db \in DbType /\ tick \in TickType /\ nextId \in Nat
         /\ LastOf(db.deltas) \in Nat /\ LastOf(db.deltas) < nextId
         /\ tick.batch \in Seq(Block) /\ db.cursor \in Nat /\ db.marked \in SUBSET Nat
  <1>1. chain \in Seq(Block) /\ db \in DbType /\ tick \in TickType /\ nextId \in Nat
    BY DEF FeedInv, IndexerTypeOK, ChainType
  <1>2. /\ db.cursor \in Nat /\ db.marked \in SUBSET Nat /\ db.deltas \in Seq(Nat)
        /\ tick.batch \in Seq(Block)
    BY <1>1 DEF DbType, TickType
  <1>3. LastOf(db.deltas) \in Nat
    BY <1>2, LastNat
  <1> QED BY <1>1, <1>2, <1>3 DEF Scene, FeedInv

LEMMA FeedInitInv == Init => FeedInv
  <1> SUFFICES ASSUME Init PROVE FeedInv
    OBVIOUS
  <1> USE DEF Init
  <1>1. << >> \in Seq(Block) /\ << >> \in Seq(Nat) /\ NoRows \in [Tables \X Keys -> Int]
    BY DEF NoRows, NoRow
  <1>2. db \in DbType /\ db.cursor = 0 /\ db.deltas = << >>
    BY <1>1 DEF DbType
  <1>3. tick.at = "sleeping" /\ tick.batch = << >>
    BY DEF Asleep
  <1>4. IndexerTypeOK
    BY <1>1, <1>2, AsleepOK DEF IndexerTypeOK, ChainType, Numbered
  <1>5. TickOK /\ ~InHand
    BY <1>3 DEF TickOK, InHand
  <1>6. LastOf(db.deltas) < nextId
    BY <1>2 DEF LastOf
  <1>7. InOrder(chain) /\ InOrder(tick.batch) /\ Numbered(tick.batch, nextId)
    BY <1>3 DEF InOrder, Numbered
  <1>8. Below(chain, db.cursor, db.marked, LastOf(db.deltas), tick.batch)
    BY <1>3 DEF Below
  <1> QED BY <1>4, <1>5, <1>6, <1>7, <1>8 DEF FeedInv

\* What is mined or replaced lies above every event and every log of the batch.
LEMMA ChainStepFeed ==
  ASSUME FeedInv,
         MineEmpty \/ (\E e \in Events, k \in Keys : Mine(e, k))
           \/ (\E d \in 1..MaxReorg : Reorganize(d)) \/ Restart
  PROVE  FeedInv'
  <1> DEFINE last == LastOf(db.deltas)
  <1>0. /\ Scene(chain, db.cursor, db.marked, last, tick.batch)
        /\ chain \in Seq(Block) /\ nextId \in Nat /\ last \in Nat /\ last < nextId
        /\ InOrder(chain) /\ Numbered(chain, nextId) /\ Numbered(tick.batch, nextId)
        /\ tick.batch \in Seq(Block)
    BY FeedScene DEF FeedInv, IndexerTypeOK
  <1>1. db' = db /\ tick' = tick
    BY DEF MineEmpty, Mine, Reorganize, Restart
  <1>2. IndexerTypeOK'
    BY ChainStepType DEF FeedInv
  <1>3. /\ TickOK' /\ InOrder(tick'.batch)
        /\ InHand' => InHandOK(Current', db'.marked, LastOf(db'.deltas))
    BY <1>1 DEF FeedInv, TickOK, InHand, Current
  <1>4. ASSUME InOrder(chain'), Below(chain', db.cursor, db.marked, last, tick.batch),
               Numbered(tick.batch, nextId'), last < nextId'
        PROVE  FeedInv'
    BY <1>1, <1>2, <1>3, <1>4 DEF FeedInv
  <1> HIDE DEF last
  <1>5. CASE MineEmpty
    <2>1. NoLog \in Block /\ ~Readable(NoLog)
      BY DEF NoLog, Block, Readable
    <2>2. Below(Append(chain, NoLog), db.cursor, db.marked, last, tick.batch)
      BY <1>0, <2>1, BelowMined
    <2>3. InOrder(Append(chain, NoLog))
      BY <1>0, <2>1 DEF InOrder
    <2> QED BY <1>0, <1>4, <1>5, <2>2, <2>3 DEF MineEmpty
  <1>6. ASSUME NEW e \in Events, NEW k \in Keys, Mine(e, k) PROVE FeedInv'
    <2> DEFINE new == [event |-> e, key |-> k, id |-> nextId]
    <2>1. new \in Block /\ new.id = nextId
      BY <1>0 DEF Block
    <2>2. chain' = Append(chain, new) /\ nextId' = nextId + 1
      BY <1>6 DEF Mine
    <2> HIDE DEF new
    <2>3. Below(Append(chain, new), db.cursor, db.marked, last, tick.batch)
      BY <1>0, <2>1, BelowMined
    <2>4. InOrder(Append(chain, new))
      <3>1. ASSUME NEW m \in 1..Len(Append(chain, new)), NEW n \in 1..Len(Append(chain, new)), m < n,
                   Readable(Append(chain, new)[m]), Readable(Append(chain, new)[n])
            PROVE  Append(chain, new)[m].id < Append(chain, new)[n].id
        <4>1. m \in 1..Len(chain) /\ Append(chain, new)[m] = chain[m]
          BY <1>0, <3>1
        <4>2. CASE n \in 1..Len(chain)
          <5>1. Append(chain, new)[n] = chain[n]
            BY <1>0, <4>2
          <5> QED BY <1>0, <3>1, <4>1, <4>2, <5>1 DEF InOrder
        <4>3. CASE n = Len(chain) + 1
          <5>1. Append(chain, new)[n] = new
            BY <1>0, <4>3
          <5> QED BY <1>0, <2>1, <4>1, <5>1 DEF Numbered
        <4> QED BY <1>0, <3>1, <4>2, <4>3
      <3> QED BY <3>1 DEF InOrder
    <2>5. Numbered(tick.batch, nextId + 1)
      <3>1. \A i \in 1..Len(tick.batch) : tick.batch[i].id \in Nat /\ tick.batch[i].id < nextId
        BY <1>0, IdNat DEF Numbered
      <3> QED BY <1>0, <3>1 DEF Numbered
    <2> QED BY <1>0, <1>4, <2>2, <2>3, <2>4, <2>5
  <1>7. ASSUME NEW d \in 1..MaxReorg, Reorganize(d) PROVE FeedInv'
    <2> DEFINE s == SubSeq(chain, 1, Len(chain) - d)
    <2>1. chain' = s /\ nextId' = nextId /\ d \in Nat /\ d <= Len(chain)
      BY <1>7, IndexerBounds DEF Reorganize
    <2>2. s \in Seq(Block) /\ Len(s) = Len(chain) - d /\ \A n \in 1..Len(s) : s[n] = chain[n]
      BY <1>0, <2>1
    <2> HIDE DEF s
    <2>3. Len(s) <= Len(chain) /\ \A n \in 1..Len(s) : n \in 1..Len(chain)
      BY <1>0, <2>1, <2>2
    <2>4. Below(s, db.cursor, db.marked, last, tick.batch)
      BY <1>0, <2>2, <2>3, BelowCut
    <2>5. InOrder(s)
      BY <1>0, <2>2, <2>3 DEF InOrder
    <2> QED BY <1>0, <1>4, <2>1, <2>4, <2>5
  <1>8. CASE Restart
    <2> DEFINE s == << >>
    <2>1. chain' = s /\ nextId' = nextId
      BY <1>8 DEF Restart
    <2>2. s \in Seq(Block) /\ InOrder(s) /\ Len(s) = 0
      BY DEF InOrder
    <2> HIDE DEF s
    <2>3. Len(s) <= Len(chain) /\ \A n \in 1..Len(s) : s[n] = chain[n]
      BY <1>0, <2>2
    <2>4. Below(s, db.cursor, db.marked, last, tick.batch)
      BY <1>0, <2>2, <2>3, BelowCut
    <2> QED BY <1>0, <1>4, <2>1, <2>2, <2>4
  <1> QED BY <1>5, <1>6, <1>7, <1>8

\* Nothing fetched is left, and nothing in hand.
LEMMA EmptyFeed ==
  ASSUME FeedInv, IndexerTypeOK', TickOK', ~InHand', tick'.batch = << >>,
         chain' = chain, nextId' = nextId,
         LastOf(db'.deltas) < nextId,
         Below(chain, db'.cursor, db'.marked, LastOf(db'.deltas), << >>)
  PROVE  FeedInv'
  <1>1. InOrder(tick'.batch) /\ Numbered(tick'.batch, nextId)
    BY DEF InOrder, Numbered
  <1> QED BY <1>1 DEF FeedInv

LEMMA AsleepFeed ==
  ASSUME FeedInv, IndexerTypeOK', tick' = Asleep, chain' = chain, nextId' = nextId,
         LastOf(db'.deltas) < nextId,
         Below(chain, db'.cursor, db'.marked, LastOf(db'.deltas), << >>)
  PROVE  FeedInv'
  <1>1. tick'.at = "sleeping" /\ tick'.batch = << >>
    BY DEF Asleep
  <1>2. TickOK' /\ ~InHand'
    BY <1>1 DEF TickOK, InHand
  <1> QED BY <1>1, <1>2, EmptyFeed

\* What delivering does to the feed.
LEMMA DeliveredFeed ==
  ASSUME IndexerTypeOK, tick.batch # << >>
  PROVE  /\ Delivered(db).cursor = db.cursor /\ Delivered(db).marked = db.marked
         /\ \/ ~HasDelta(Current.event) /\ Delivered(db).deltas = db.deltas
            \/ /\ Delivered(db).deltas = Append(db.deltas, Current.id)
               /\ LastOf(Delivered(db).deltas) = Current.id
  <1>0. db \in DbType /\ db.deltas \in Seq(Nat) /\ Current.id \in Nat
    BY BatchFacts DEF IndexerTypeOK, DbType, Block
  <1>1. CASE HasDelta(Current.event)
    <2>1. Delivered(db) = [db EXCEPT !.deltas = Append(db.deltas, Current.id)]
      BY <1>1 DEF Delivered
    <2>2. LastOf(Append(db.deltas, Current.id)) = Current.id
      BY <1>0 DEF LastOf
    <2> QED BY <1>0, <2>1, <2>2 DEF DbType
  <1>2. CASE ~HasDelta(Current.event)
    BY <1>2 DEF Delivered
  <1> QED BY <1>1, <1>2

\* While a log is in hand its event may become the last one.
LEMMA HandFed ==
  ASSUME FeedInv, InHand
  PROVE  /\ tick.batch # << >> /\ Current = tick.batch[1] /\ Readable(Current)
         /\ Current.id \in db.marked /\ Current.id \in Nat
         /\ LastOf(db.deltas) <= Current.id /\ Current.id < nextId
         /\ Below(chain, db.cursor, db.marked, Current.id, tick.batch)
  <1>1. tick.batch # << >>
    BY DEF FeedInv, TickOK
  <1>2. Readable(Current) /\ Current.id \in db.marked /\ LastOf(db.deltas) <= Current.id
    BY DEF FeedInv, InHandOK
  <1>3. Current = tick.batch[1] /\ Current.id \in Nat /\ 1 \in 1..Len(tick.batch)
    BY <1>1, BatchFacts, FeedScene DEF FeedInv, Block
  <1>4. Current.id < nextId
    BY <1>3 DEF FeedInv, Numbered
  <1>5. Below(chain, db.cursor, db.marked, tick.batch[1].id, tick.batch)
    <2>1. InOrder(tick.batch) /\ Readable(tick.batch[1])
      BY <1>2, <1>3 DEF FeedInv
    <2> QED BY <1>1, <2>1, FeedScene, BelowFed
  <1> QED BY <1>1, <1>2, <1>3, <1>4, <1>5

\* A step that keeps the batch, the cursor, the markers and the feed keeps the invariant.
LEMMA QuietFeed ==
  ASSUME FeedInv, IndexerTypeOK', TickOK', chain' = chain, nextId' = nextId,
         db'.cursor = db.cursor, db'.marked = db.marked, db'.deltas = db.deltas,
         tick'.batch = tick.batch, InHand' => InHand
  PROVE  FeedInv'
  BY DEF FeedInv, Current

LEMMA TickStepFeed ==
  ASSUME FeedInv,
         \/ TickStep \/ FetchFails \/ MarkFails \/ StatementFails \/ UnmarkFails
         \/ CheckpointFails \/ Crash
  PROVE  FeedInv'
  <1> DEFINE last == LastOf(db.deltas)
  <1>t. IndexerTypeOK'
    BY TickStepType DEF FeedInv
  <1>0. /\ Scene(chain, db.cursor, db.marked, last, tick.batch)
        /\ chain \in Seq(Block) /\ db \in DbType /\ tick \in TickType /\ nextId \in Nat
        /\ last \in Nat /\ last < nextId
        /\ tick.batch \in Seq(Block) /\ db.cursor \in Nat /\ db.marked \in SUBSET Nat
    BY FeedScene
  <1>c. chain' = chain /\ nextId' = nextId
    BY DEF TickStep, BeginTick, Fetch, ShrinkChunk, BackOff, PassOver, Mark, ReadHead, WriteRows,
           InsertDelta, ForeignKeyFails, Unmark, Checkpoint, FetchFails, MarkFails, StatementFails,
           UnmarkFails, CheckpointFails, Crash, TickFails
  <1>d. db' \in DbType /\ tick' \in TickType /\ db'.cursor \in Nat
    BY <1>t DEF IndexerTypeOK, DbType
  <1>e. TickOK
    BY DEF FeedInv
  <1>s. ASSUME db' = db, tick' = Asleep PROVE FeedInv'
    <2>1. Below(chain, db.cursor, db.marked, last, << >>)
      BY <1>0, BelowLater
    <2> QED BY <1>0, <1>t, <1>c, <1>s, <2>1, AsleepFeed
  <1>1. CASE BeginTick
    <2>0. tick.at = "sleeping" /\ tick.batch = << >>
      BY <1>1, <1>e DEF BeginTick, TickOK, InHand
    <2>1. Below(chain, db'.cursor, db'.marked, LastOf(db'.deltas), << >>) /\ LastOf(db'.deltas) < nextId
      <3>1. CASE db' = db
        BY <1>0, <3>1, BelowLater
      <3>2. CASE db' = AfterReset
        <4>1. db'.marked = {} /\ LastOf(db'.deltas) = 0
          BY <3>2 DEF AfterReset, LastOf
        <4>2. Below(chain, db'.cursor, {}, 0, << >>)
          <5>1. \A n \in 1..Len(chain) : chain[n].id >= 0
            BY <1>0, IdNat
          <5> QED BY <5>1 DEF Below
        <4> QED BY <1>0, <4>1, <4>2
      <3> QED BY <1>1, <3>1, <3>2 DEF BeginTick
    <2> DEFINE target == Min2(SafeHead, db'.cursor + MaxBlocksPerTick)
    <2>2. \/ target <= db'.cursor /\ tick' = tick
          \/ /\ ~(target <= db'.cursor)
             /\ tick' = [Asleep EXCEPT !.at = "fetching", !.from = db'.cursor + 1, !.target = target]
      BY <1>1 DEF BeginTick
    <2>3. target \in Int
      BY <1>0, <1>d, IndexerBounds DEF Min2, SafeHead
    <2> HIDE DEF target
    <2>4. TickOK' /\ ~InHand' /\ tick'.batch = << >>
      <3>1. CASE tick' = tick
        BY <2>0, <3>1 DEF TickOK, InHand
      <3>2. CASE ~(target <= db'.cursor)
              /\ tick' = [Asleep EXCEPT !.at = "fetching", !.from = db'.cursor + 1, !.target = target]
        <4>1. /\ tick'.at = "fetching" /\ tick'.from = db'.cursor + 1 /\ tick'.target = target
              /\ tick'.batch = << >>
          BY <3>2 DEF Asleep
        <4> QED BY <1>d, <2>3, <3>2, <4>1 DEF TickOK, InHand
      <3> QED BY <2>2, <3>1, <3>2
    <2> QED BY <1>t, <1>c, <2>1, <2>4, EmptyFeed
  <1>2. CASE Fetch
    <2> DEFINE to == Min2(tick.from + tick.chunk - 1, tick.target)
    <2>0. /\ tick.from = db.cursor + 1 /\ tick.from <= tick.target
          /\ tick.from \in Nat \ {0} /\ tick.target \in Nat /\ tick.chunk \in Nat \ {0}
      BY <1>0, <1>2, <1>e DEF Fetch, TickOK, TickType
    <2>1. to \in Nat /\ tick.from <= to /\ to <= tick.target
      BY <2>0 DEF Min2
    <2>2. tick' = [tick EXCEPT !.at = "draining", !.to = to, !.batch = Logs(tick.from, to), !.tries = 0]
          /\ db' = db
      BY <1>2 DEF Fetch
    <2> HIDE DEF to
    <2> DEFINE batch == Logs(tick.from, to)
    <2>3. /\ tick'.batch = batch /\ tick'.at = "draining" /\ tick'.from = tick.from
          /\ tick'.to = to /\ tick'.target = tick.target
      BY <1>0, <2>2 DEF TickType
    <2>4. /\ batch \in Seq(Block)
          /\ \A i \in 1..Len(batch) : /\ tick.from + i - 1 \in 1..Len(chain)
                                      /\ batch[i] = chain[tick.from + i - 1]
      <3>1. tick.from \in Nat \ {0} /\ to \in Nat /\ chain \in Seq(Block)
        BY <1>0, <2>0, <2>1
      <3>2. /\ Logs(tick.from, to) \in Seq(Block)
            /\ \A i \in 1..Len(Logs(tick.from, to)) :
                 /\ Logs(tick.from, to)[i] = chain[tick.from + i - 1]
                 /\ tick.from + i - 1 \in Blocks /\ tick.from + i - 1 <= to
        BY <3>1, LogsFacts
      <3>3. Blocks = 1..Len(chain)
        BY <3>1 DEF Blocks
      <3> QED BY <3>2, <3>3
    <2> HIDE DEF batch
    <2>5. \A i \in 1..Len(batch) : db.cursor + i \in 1..Len(chain) /\ batch[i] = chain[db.cursor + i]
      <3> SUFFICES ASSUME NEW i \in 1..Len(batch)
                   PROVE  db.cursor + i \in 1..Len(chain) /\ batch[i] = chain[db.cursor + i]
        OBVIOUS
      <3>1. tick.from + i - 1 = db.cursor + i
        BY <1>0, <2>0
      <3> QED BY <2>4, <3>1
    <2>6. Below(chain, db.cursor, db.marked, last, batch) /\ InOrder(batch)
      <3>1. InOrder(chain)
        BY DEF FeedInv
      <3> HIDE DEF last
      <3>2. Scene(chain, db.cursor, db.marked, last, tick.batch)
        BY <1>0
      <3>3. batch \in Seq(Block)
        BY <2>4
      <3> QED BY <2>5, <3>1, <3>2, <3>3, BelowFetched
    <2>7. Numbered(batch, nextId)
      <3>1. Numbered(chain, nextId)
        BY DEF FeedInv, IndexerTypeOK
      <3> QED BY <2>5, <3>1 DEF Numbered
    <2>8. TickOK' /\ ~InHand'
      BY <2>0, <2>1, <2>2, <2>3 DEF TickOK, InHand
    <2> QED BY <1>t, <1>c, <2>2, <2>3, <2>6, <2>7, <2>8 DEF FeedInv
  <1>3. CASE ShrinkChunk \/ BackOff
    <2>1. /\ db' = db /\ tick'.at = tick.at /\ tick'.batch = tick.batch /\ tick'.from = tick.from
          /\ tick'.to = tick.to /\ tick'.target = tick.target
      BY <1>0, <1>3 DEF ShrinkChunk, BackOff, TickType
    <2>2. TickOK' /\ (InHand' => InHand)
      BY <1>e, <2>1 DEF TickOK, InHand
    <2> QED BY <1>t, <1>c, <2>1, <2>2, QuietFeed
  <1>4. CASE PassOver
    <2>1. /\ db' = db /\ tick'.at = "draining" /\ tick'.batch = Tail(tick.batch)
          /\ tick'.from = tick.from /\ tick'.to = tick.to /\ tick'.target = tick.target
          /\ tick.at = "draining" /\ tick.batch # << >> /\ ~Fresh
      BY <1>0, <1>4 DEF PassOver, TickType
    <2>2. TickOK' /\ ~InHand'
      BY <1>e, <2>1 DEF TickOK, InHand
    <2> DEFINE tail == Tail(tick.batch)
    <2>3. /\ tail \in Seq(Block) /\ Len(tail) = Len(tick.batch) - 1
          /\ \A i \in 1..Len(tail) : tail[i] = tick.batch[i + 1]
      BY <1>0, <2>1
    <2>4. Readable(tick.batch[1]) => tick.batch[1].id \in db.marked
      BY <1>0, <2>1 DEF Fresh, Current, Readable
    <2> HIDE DEF tail
    <2>5. Below(chain, db.cursor, db.marked, last, tail)
      <3> HIDE DEF last
      <3> QED BY <1>0, <2>3, <2>4, BelowPassed
    <2>6. InOrder(tail) /\ Numbered(tail, nextId)
      <3>1. InOrder(tick.batch) /\ Numbered(tick.batch, nextId)
        BY DEF FeedInv
      <3> QED BY <1>0, <2>3, <3>1, TailInOrder
    <2> QED BY <1>t, <1>c, <2>1, <2>2, <2>5, <2>6 DEF FeedInv, tail
  <1>m. ASSUME tick.batch # << >>, Fresh
        PROVE  /\ Current.id \in Nat /\ Current.id \notin db.marked /\ Readable(Current)
               /\ last <= Current.id /\ Current = tick.batch[1]
               /\ Below(chain, db.cursor, db.marked \cup {Current.id}, last, tick.batch)
    <2>1. Readable(Current) /\ Current.id \notin db.marked
      BY <1>m DEF Fresh, Readable
    <2>2. Current = tick.batch[1] /\ Current.id \in Nat /\ 1 \in 1..Len(tick.batch)
      BY <1>0, <1>m, BatchFacts DEF FeedInv, Block
    <2>3. last <= Current.id
      BY <1>0, <2>1, <2>2 DEF Scene, Below
    <2>4. Below(chain, db.cursor, db.marked \cup {Current.id}, last, tick.batch)
      <3>1. db.marked \cup {Current.id} \in SUBSET Nat
        BY <1>0, <2>2
      <3> HIDE DEF last
      <3> QED BY <1>0, <3>1, BelowMarked
    <2> QED BY <2>1, <2>2, <2>3, <2>4
  <1>5. CASE Mark
    <2>1. tick.batch # << >> /\ Fresh /\ tick.at = "draining"
      BY <1>5 DEF Mark
    <2>2. /\ tick'.at = "handling" /\ tick'.batch = tick.batch /\ tick'.from = tick.from
          /\ tick'.to = tick.to /\ tick'.target = tick.target
      BY <1>0, <1>5 DEF Mark, TickType
    <2>3. /\ db'.marked = db.marked \cup {Current.id} /\ db'.cursor = db.cursor
          /\ db'.deltas = db.deltas
      BY <1>0, <1>5 DEF Mark, Marked, DbType
    <2>4. TickOK' /\ Current' = Current
      BY <1>e, <2>1, <2>2, <2>3 DEF TickOK, InHand, Current
    <2>5. InHandOK(Current, db'.marked, last)
      BY <1>m, <2>1, <2>3 DEF InHandOK
    <2> QED BY <1>t, <1>c, <1>m, <2>1, <2>2, <2>3, <2>4, <2>5 DEF FeedInv
  <1>6. CASE ReadHead \/ WriteRows \/ ForeignKeyFails
    <2>1. tick.at = "handling" /\ tick.batch # << >>
      BY <1>6, <1>e DEF ReadHead, WriteRows, ForeignKeyFails, Writing, TickOK, InHand
    <2>2. db' = db \/ db' = Wrote(db)
      BY <1>6 DEF ReadHead, WriteRows, ForeignKeyFails
    <2>3. db'.cursor = db.cursor /\ db'.marked = db.marked /\ db'.deltas = db.deltas
      BY <1>0, <2>1, <2>2, WroteOK DEF FeedInv, DbType
    <2>4. /\ tick'.at \in {"handling", "unmarking"} /\ tick'.batch = tick.batch
          /\ tick'.from = tick.from /\ tick'.to = tick.to /\ tick'.target = tick.target
      BY <1>0, <1>6, <2>1 DEF ReadHead, WriteRows, ForeignKeyFails, TickType
    <2>5. TickOK' /\ InHand
      BY <1>e, <2>1, <2>3, <2>4 DEF TickOK, InHand
    <2> QED BY <1>t, <1>c, <2>3, <2>4, <2>5, QuietFeed
  <1>h. ASSUME InHand
        PROVE  /\ Delivered(db).cursor = db.cursor /\ Delivered(db).marked = db.marked
               /\ LastOf(Delivered(db).deltas) <= Current.id
               /\ LastOf(Delivered(db).deltas) < nextId
               /\ Below(chain, db.cursor, db.marked, LastOf(Delivered(db).deltas), tick.batch)
    <2>1. /\ tick.batch # << >> /\ Current.id \in Nat /\ last <= Current.id
          /\ Current.id < nextId
          /\ Below(chain, db.cursor, db.marked, Current.id, tick.batch)
      BY <1>h, HandFed
    <2>2. /\ Delivered(db).cursor = db.cursor /\ Delivered(db).marked = db.marked
          /\ \/ LastOf(Delivered(db).deltas) = last
             \/ LastOf(Delivered(db).deltas) = Current.id
      BY <2>1, DeliveredFeed DEF FeedInv
    <2>3. Below(chain, db.cursor, db.marked, last, tick.batch)
      BY <1>0 DEF Scene
    <2>4. CASE LastOf(Delivered(db).deltas) = last
      BY <1>0, <2>1, <2>2, <2>3, <2>4
    <2>5. CASE LastOf(Delivered(db).deltas) = Current.id
      BY <1>0, <2>1, <2>2, <2>5
    <2> QED BY <2>2, <2>4, <2>5
  <1>7. CASE InsertDelta
    <2>1. InHand /\ tick.batch # << >>
      BY <1>7, <1>e DEF InsertDelta, Ending, TickOK, InHand
    <2>2. /\ db' = Delivered(db) /\ tick'.at = "draining" /\ tick'.batch = Tail(tick.batch)
          /\ tick'.from = tick.from /\ tick'.to = tick.to /\ tick'.target = tick.target
      BY <1>0, <1>7 DEF InsertDelta, TickType
    <2> DEFINE tail == Tail(tick.batch)
               l    == LastOf(Delivered(db).deltas)
    <2>3. /\ tail \in Seq(Block) /\ Len(tail) = Len(tick.batch) - 1
          /\ \A i \in 1..Len(tail) : tail[i] = tick.batch[i + 1]
      BY <1>0, <2>1
    <2>4. tick.batch[1].id \in db.marked
      BY <2>1, HandFed
    <2>5. TickOK' /\ ~InHand'
      BY <1>e, <1>h, <2>1, <2>2 DEF TickOK, InHand
    <2>6. InOrder(tail) /\ Numbered(tail, nextId)
      <3>1. InOrder(tick.batch) /\ Numbered(tick.batch, nextId)
        BY DEF FeedInv
      <3> HIDE DEF tail
      <3> QED BY <1>0, <2>3, <3>1, TailInOrder
    <2>7. Below(chain, db.cursor, db.marked, l, tail)
      <3>0. l \in Nat
        BY <2>1, DeliveredOK, LastNat DEF FeedInv
      <3>1. Scene(chain, db.cursor, db.marked, l, tick.batch)
        BY <1>0, <1>h, <2>1, <3>0 DEF Scene
      <3> HIDE DEF l, tail
      <3> QED BY <2>3, <2>4, <3>1, BelowPassed
    <2> QED BY <1>t, <1>c, <1>h, <2>1, <2>2, <2>5, <2>6, <2>7 DEF FeedInv
  <1>8. CASE StatementFails
    <2>1. InHand /\ tick.batch # << >>
      BY <1>8, <1>e DEF StatementFails, TickOK, InHand
    <2>2. /\ tick'.at = "unmarking" /\ tick'.batch = tick.batch
          /\ tick'.from = tick.from /\ tick'.to = tick.to /\ tick'.target = tick.target
      BY <1>0, <1>8 DEF StatementFails, TickType
    <2>3. db' = db \/ db' = Wrote(db) \/ db' = Delivered(db)
      BY <1>8 DEF StatementFails
    <2>4. CASE db' = db \/ db' = Wrote(db)
      <3>1. db'.cursor = db.cursor /\ db'.marked = db.marked /\ db'.deltas = db.deltas
        BY <1>0, <2>1, <2>4, WroteOK DEF FeedInv, DbType
      <3>2. TickOK'
        BY <1>e, <2>1, <2>2, <3>1 DEF TickOK, InHand
      <3> QED BY <1>t, <1>c, <2>1, <2>2, <3>1, <3>2, QuietFeed
    <2>5. CASE db' = Delivered(db)
      <3>1. TickOK' /\ Current' = Current
        BY <1>e, <1>h, <2>1, <2>2, <2>5 DEF TickOK, InHand, Current
      <3>2. InHandOK(Current, db'.marked, LastOf(db'.deltas))
        BY <1>h, <2>1, <2>5, HandFed DEF InHandOK
      <3> QED BY <1>t, <1>c, <1>h, <2>1, <2>2, <2>5, <3>1, <3>2 DEF FeedInv
    <2> QED BY <2>3, <2>4, <2>5
  <1>9. CASE Unmark
    <2>1. InHand
      BY <1>9 DEF Unmark, InHand
    <2>2. /\ tick' = Asleep /\ db'.marked = db.marked \ {Current.id} /\ db'.cursor = db.cursor
          /\ db'.deltas = db.deltas
      BY <1>0, <1>9 DEF Unmark, DbType
    <2>3. Below(chain, db.cursor, db.marked \ {Current.id}, last, << >>)
      <3>1. Current.id \in Nat /\ last <= Current.id
        BY <2>1, HandFed
      <3> HIDE DEF last
      <3> QED BY <1>0, <3>1, BelowUnmarked
    <2> QED BY <1>0, <1>t, <1>c, <2>2, <2>3, AsleepFeed
  <1>10. CASE Checkpoint
    <2>1. /\ tick.at = "draining" /\ tick.batch = << >>
          /\ tick.from = db.cursor + 1 /\ tick.from <= tick.to /\ tick.to <= tick.target
          /\ tick.to \in Nat /\ tick.from \in Nat /\ tick.target \in Nat
      BY <1>0, <1>10, <1>e DEF Checkpoint, TickOK, TickType
    <2>2. db'.cursor = tick.to /\ db'.marked = db.marked /\ db'.deltas = db.deltas
      BY <1>0, <1>10 DEF Checkpoint, DbType
    <2>3. Below(chain, tick.to, db.marked, last, << >>)
      <3> HIDE DEF last
      <3> QED BY <1>0, <2>1, BelowLater
    <2>4. CASE tick.to >= tick.target
      <3>1. tick' = Asleep
        BY <1>10, <2>4 DEF Checkpoint
      <3> QED BY <1>0, <1>t, <1>c, <2>2, <2>3, <3>1, AsleepFeed
    <2>5. CASE ~(tick.to >= tick.target)
      <3>1. tick' = [tick EXCEPT !.at = "fetching", !.from = tick.to + 1]
        BY <1>10, <2>5 DEF Checkpoint
      <3>2. /\ tick'.at = "fetching" /\ tick'.from = tick.to + 1 /\ tick'.target = tick.target
            /\ tick'.batch = << >>
        BY <1>0, <2>1, <3>1 DEF TickType
      <3>3. TickOK' /\ ~InHand'
        BY <2>1, <2>2, <2>5, <3>2 DEF TickOK, InHand
      <3> QED BY <1>0, <1>t, <1>c, <2>2, <2>3, <3>2, <3>3, EmptyFeed
    <2> QED BY <2>4, <2>5
  <1>11. CASE FetchFails \/ UnmarkFails \/ CheckpointFails \/ Crash
    BY <1>11, <1>s DEF FetchFails, UnmarkFails, CheckpointFails, Crash, TickFails
  <1>12. CASE MarkFails
    <2>1. tick.batch # << >> /\ Fresh /\ tick' = Asleep
      BY <1>12 DEF MarkFails, TickFails
    <2>2. CASE db' = db
      BY <1>s, <2>1, <2>2
    <2>3. CASE db' = Marked(db)
      <3>1. /\ db'.marked = db.marked \cup {Current.id} /\ db'.cursor = db.cursor
            /\ db'.deltas = db.deltas
        BY <1>0, <2>3 DEF Marked, DbType
      <3>2. Scene(chain, db.cursor, db.marked \cup {Current.id}, last, tick.batch)
        BY <1>0, <1>m, <2>1 DEF Scene
      <3>3. Below(chain, db.cursor, db.marked \cup {Current.id}, last, << >>)
        <4> HIDE DEF last
        <4> QED BY <1>0, <3>2, BelowLater
      <3> QED BY <1>0, <1>t, <1>c, <2>1, <3>1, <3>3, AsleepFeed
    <2> QED BY <1>12, <2>2, <2>3 DEF MarkFails
  <1> QED
    BY <1>1, <1>2, <1>3, <1>4, <1>5, <1>6, <1>7, <1>8, <1>9, <1>10, <1>11, <1>12 DEF TickStep

\* The feed's last event is never above what the indexer has still to handle.
THEOREM FeedAlwaysOrdered == Spec => []FeedInv
  <1>1. FeedInv /\ [Next]_vars => FeedInv'
    <2> SUFFICES ASSUME FeedInv, [Next]_vars PROVE FeedInv'
      OBVIOUS
    <2>1. CASE UNCHANGED vars
      BY <2>1 DEF vars, FeedInv, IndexerTypeOK, TickOK, InHand, Current
    <2> QED BY <2>1, ChainStepFeed, TickStepFeed DEF Next
  <1> QED BY <1>1, FeedInitInv, PTL DEF Spec

\* A delivery appends an event that is no earlier than the last one.
LEMMA DeliveredImplements ==
  ASSUME FeedInv, InHand, db' = Delivered(db)
  PROVE  [Feed!FeedNext]_(db.deltas)
  <1>1. /\ db.deltas \in Seq(Nat) /\ Current.id \in Nat /\ LastOf(db.deltas) <= Current.id
        /\ tick.batch # << >>
    BY FeedScene, HandFed DEF DbType
  <1>2. CASE db'.deltas = db.deltas
    BY <1>2
  <1>3. CASE db'.deltas = Append(db.deltas, Current.id)
    <2>1. db'.deltas # << >> /\ db'.deltas[Len(db'.deltas)] = Current.id
      <3> DEFINE d == db.deltas
                 i == Current.id
      <3>1. d \in Seq(Nat) /\ i \in Nat
        BY <1>1
      <3> HIDE DEF d, i
      <3>2. Append(d, i) # << >> /\ Append(d, i)[Len(Append(d, i))] = i
        BY <3>1
      <3> QED BY <1>3, <3>2 DEF d, i
    <2>2. CASE db.deltas = << >>
      BY <1>1, <1>3, <2>1, <2>2 DEF Feed!FeedNext, Feed!Deliver, Feed!Grows, Feed!Newest
    <2>3. CASE db.deltas # << >>
      <3>1. db.deltas[Len(db.deltas)] \in Nat /\ db.deltas[Len(db.deltas)] <= Current.id
        BY <1>1, <2>3 DEF LastOf
      <3>2. CASE db.deltas[Len(db.deltas)] = Current.id
        BY <1>3, <2>3, <3>2 DEF Feed!FeedNext, Feed!Redeliver, Feed!Grows
      <3>3. CASE db.deltas[Len(db.deltas)] < Current.id
        BY <1>1, <1>3, <2>1, <3>3 DEF Feed!FeedNext, Feed!Deliver, Feed!Grows, Feed!Newest
      <3> QED BY <1>1, <3>1, <3>2, <3>3
    <2> QED BY <2>2, <2>3
  <1> QED BY <1>1, <1>2, <1>3, DeliveredFeed DEF FeedInv

\* Every other step leaves the feed alone, but for the reset after a restart.
LEMMA StepImplements ==
  ASSUME FeedInv, [Next]_vars
  PROVE  [Feed!FeedNext]_(db.deltas)
  <1>0. db \in DbType /\ (InHand => tick.batch # << >>)
    BY FeedScene DEF FeedInv, TickOK
  <1>1. CASE BeginTick
    BY <1>1 DEF BeginTick, AfterReset, Feed!FeedNext, Feed!Clear
  <1>2. CASE Mark \/ MarkFails \/ Unmark \/ Checkpoint
    BY <1>0, <1>2 DEF Mark, MarkFails, Unmark, Checkpoint, Marked, DbType
  <1>3. CASE WriteRows
    <2>1. db' = Wrote(db) /\ tick.batch # << >>
      BY <1>0, <1>3 DEF WriteRows, Writing, InHand
    <2> QED BY <1>0, <2>1, WroteOK DEF FeedInv, DbType
  <1>4. CASE InsertDelta
    BY <1>4, DeliveredImplements DEF InsertDelta, Ending, InHand
  <1>5. CASE StatementFails
    <2>1. InHand
      BY <1>5 DEF StatementFails, InHand
    <2>2. CASE db' = Delivered(db)
      BY <2>1, <2>2, DeliveredImplements
    <2>3. CASE db' = Wrote(db)
      BY <1>0, <2>1, <2>3, WroteOK DEF FeedInv, DbType
    <2> QED BY <1>5, <2>2, <2>3 DEF StatementFails
  <1>6. CASE UNCHANGED db
    BY <1>6
  <1> QED
    BY <1>1, <1>2, <1>3, <1>4, <1>5, <1>6
    DEF Next, TickStep, vars, Fetch, ShrinkChunk, BackOff, PassOver, ReadHead, ForeignKeyFails,
        MineEmpty, Mine, Reorganize, Restart, FetchFails, UnmarkFails, CheckpointFails, Crash

\* compact_event_delta is the feed EventFeed promises: handlers retried after a
\* failure, calls that failed after they took effect, chunks fetched again, replaced
\* blocks and restarted chains bring no event back out of order.
THEOREM IndexerImplementsFeed == Spec => ImplementsFeed
  <1>1. Init => Feed!FeedInit
    BY DEF Init, Feed!FeedInit
  <1>2. FeedInv /\ [Next]_vars => [Feed!FeedNext]_(db.deltas)
    BY StepImplements
  <1> QED BY <1>1, <1>2, FeedAlwaysOrdered, PTL DEF Spec, ImplementsFeed, Feed!FeedSpec

-----------------------------------------------------------------------------
(* What is passed is in the feed                                           *)

\* The block b needs no more: it has nothing to deliver, has been delivered, or was
\* interrupted.
Handled(b, deltas, stopped) ==
  \/ b = NoLog \/ ~HasDelta(b.event)
  \/ (\E n \in DOMAIN deltas : deltas[n] = b.id) \/ b.id \in stopped

\* The block c was confirmed when the chain had lost fewer blocks than reorged.
Confirmed(c, length, reorged) == c = 0 \/ c + Confirmations <= length + reorged

\* Blocks are empty or hold one of the events, all in the order of their ids.
WellFormed(c) ==
  /\ \A n \in 1..Len(c) : c[n] = NoLog \/ c[n].event \in Events
  /\ \A m, n \in 1..Len(c) : m < n /\ c[m] # NoLog /\ c[n] # NoLog => c[m].id < c[n].id

\* The batch is the end of the chunk, and what came before it is handled.
BatchIsRest(ch, cursor, to, batch, deltas, stopped) ==
  /\ Len(batch) <= to - cursor
  /\ \A i \in 1..Len(batch) : batch[i] = ch[to - Len(batch) + i]
  /\ \A n \in cursor + 1..to - Len(batch) : Handled(ch[n], deltas, stopped)

Fetched == tick.at = "draining" \/ InHand

Covered ==
  /\ Confirmed(db.cursor, Len(chain), reorgs)
  /\ tick.at # "sleeping" => Confirmed(tick.target, Len(chain), reorgs)
  /\ \A n \in 1..db.cursor : Handled(chain[n], db.deltas, interrupted)
  /\ Fetched => BatchIsRest(chain, db.cursor, tick.to, tick.batch, db.deltas, interrupted)
  /\ \A n \in Blocks : chain[n].id \in db.marked =>
       Handled(chain[n], db.deltas, interrupted) \/ (InHand /\ chain[n].id = Current.id)

CoverInv ==
  /\ FeedInv
  /\ reorgs <= MaxReorg /\ (local => reorgs = 0)
  /\ WellFormed(chain)
  /\ \A i \in db.marked : i < nextId
  /\ restarts = 0 => Covered

\* A longer feed, or more interruptions, leave handled what was.
More(deltas, d, stopped, s) ==
  /\ deltas \in Seq(Nat) /\ (d = deltas \/ \E i \in Nat : d = Append(deltas, i))
  /\ stopped \subseteq s

LEMMA HandledMore ==
  ASSUME NEW b, NEW deltas, NEW d, NEW stopped, NEW s, More(deltas, d, stopped, s),
         Handled(b, deltas, stopped)
  PROVE  Handled(b, d, s)
  <1>1. ASSUME NEW n \in DOMAIN deltas, deltas[n] = b.id PROVE \E m \in DOMAIN d : d[m] = b.id
    <2>1. CASE d = deltas
      BY <1>1, <2>1
    <2>2. ASSUME NEW i \in Nat, d = Append(deltas, i) PROVE \E m \in DOMAIN d : d[m] = b.id
      <3>1. n \in DOMAIN d /\ d[n] = deltas[n]
        BY <2>2 DEF More
      <3> QED BY <1>1, <3>1
    <2> QED BY <2>1, <2>2 DEF More
  <1> QED BY <1>1 DEF Handled, More

LEMMA RestMore ==
  ASSUME NEW ch, NEW cursor \in Nat, NEW to \in Nat, NEW batch \in Seq(Block),
         NEW deltas, NEW d, NEW stopped, NEW s, More(deltas, d, stopped, s),
         BatchIsRest(ch, cursor, to, batch, deltas, stopped),
         NEW c, \A n \in 1..to : c[n] = ch[n]
  PROVE  BatchIsRest(c, cursor, to, batch, d, s)
  <1>1. ASSUME NEW i \in 1..Len(batch) PROVE batch[i] = c[to - Len(batch) + i]
    <2>1. to - Len(batch) + i \in 1..to
      BY DEF BatchIsRest
    <2> QED BY <2>1 DEF BatchIsRest
  <1>2. ASSUME NEW n \in cursor + 1..to - Len(batch) PROVE Handled(c[n], d, s)
    <2>1. n \in 1..to
      OBVIOUS
    <2>2. Handled(ch[n], deltas, stopped)
      BY DEF BatchIsRest
    <2> QED BY <2>1, <2>2, HandledMore
  <1> QED BY <1>1, <1>2 DEF BatchIsRest

\* Handling the first log of the batch moves it to what is handled.
LEMMA RestPassed ==
  ASSUME NEW ch, NEW cursor \in Nat, NEW to \in Nat, NEW batch \in Seq(Block), batch # << >>,
         NEW deltas, NEW stopped,
         BatchIsRest(ch, cursor, to, batch, deltas, stopped),
         NEW tail \in Seq(Block), Len(tail) = Len(batch) - 1,
         \A i \in 1..Len(tail) : tail[i] = batch[i + 1],
         Handled(batch[1], deltas, stopped)
  PROVE  BatchIsRest(ch, cursor, to, tail, deltas, stopped)
  <1>0. Len(batch) \in Nat \ {0} /\ Len(tail) \in Nat /\ 1 \in 1..Len(batch)
    OBVIOUS
  <1>1. ASSUME NEW i \in 1..Len(tail) PROVE tail[i] = ch[to - Len(tail) + i]
    <2>1. i + 1 \in 1..Len(batch) /\ to - Len(batch) + (i + 1) = to - Len(tail) + i
      BY <1>0
    <2> QED BY <2>1 DEF BatchIsRest
  <1>2. ASSUME NEW n \in cursor + 1..to - Len(tail) PROVE Handled(ch[n], deltas, stopped)
    <2>1. CASE n \in cursor + 1..to - Len(batch)
      BY <2>1 DEF BatchIsRest
    <2>2. CASE n = to - Len(batch) + 1
      BY <1>0, <2>2 DEF BatchIsRest
    <2>3. n \in cursor + 1..to - Len(batch) \/ n = to - Len(batch) + 1
      <3>1. to - Len(tail) = to - Len(batch) + 1
        BY <1>0
      <3> QED BY <1>0, <3>1
    <2> QED BY <2>1, <2>2, <2>3
  <1>3. Len(tail) <= to - cursor
    BY <1>0 DEF BatchIsRest
  <1> QED BY <1>1, <1>2, <1>3 DEF BatchIsRest

LEMMA CoverInitInv == Init => CoverInv
  <1> SUFFICES ASSUME Init PROVE CoverInv
    OBVIOUS
  <1>1. FeedInv
    BY FeedInitInv
  <1>2. db.cursor = 0 /\ db.marked = {} /\ tick.at = "sleeping" /\ chain = << >>
    BY DEF Init, Asleep
  <1>3. reorgs <= MaxReorg /\ (local => reorgs = 0)
    BY IndexerBounds DEF Init
  <1>4. WellFormed(chain)
    BY <1>2 DEF WellFormed
  <1>5. Covered
    BY <1>2 DEF Covered, Confirmed, Fetched, InHand, Blocks
  <1> QED BY <1>1, <1>2, <1>3, <1>4, <1>5 DEF CoverInv

\* With no more blocks replaced than CHAIN_CONFIRMATIONS allows for, the cursor, the
\* target and the chunk stay within the chain.
LEMMA CoverFacts ==
  ASSUME MaxReorg <= Confirmations, CoverInv, restarts = 0
  PROVE  /\ db.cursor \in Nat /\ db.cursor <= Len(chain) /\ Len(chain) \in Nat /\ reorgs \in Nat
         /\ tick.to \in Nat /\ tick.target \in Nat /\ tick.from \in Nat
         /\ db.deltas \in Seq(Nat) /\ interrupted \subseteq Nat
         /\ tick.at # "sleeping" =>
              /\ tick.target <= Len(chain) /\ tick.target > 0
              /\ tick.from = db.cursor + 1 /\ tick.from <= tick.target
         /\ Fetched => tick.to <= Len(chain) /\ tick.from <= tick.to /\ tick.to <= tick.target
  <1>1. chain \in Seq(Block) /\ db \in DbType /\ tick \in TickType
    BY FeedScene DEF CoverInv
  <1>2. /\ Len(chain) \in Nat /\ db.cursor \in Nat /\ db.deltas \in Seq(Nat)
        /\ tick.to \in Nat /\ tick.target \in Nat /\ tick.from \in Nat
    BY <1>1 DEF DbType, TickType
  <1>3. reorgs \in Nat /\ interrupted \subseteq Nat /\ reorgs <= MaxReorg
    BY DEF CoverInv, FeedInv, IndexerTypeOK
  <1>4. Covered /\ TickOK
    BY DEF CoverInv, FeedInv
  <1>5. ASSUME NEW c \in Nat, Confirmed(c, Len(chain), reorgs) PROVE c <= Len(chain)
    BY <1>2, <1>3, <1>5, IndexerBounds DEF Confirmed
  <1>6. db.cursor <= Len(chain)
    BY <1>2, <1>4, <1>5 DEF Covered
  <1>7. ASSUME tick.at # "sleeping"
        PROVE  /\ tick.target <= Len(chain) /\ tick.target > 0
               /\ tick.from = db.cursor + 1 /\ tick.from <= tick.target
    <2>1. tick.target <= Len(chain)
      BY <1>2, <1>4, <1>5, <1>7 DEF Covered
    <2>2. tick.from = db.cursor + 1 /\ tick.from <= tick.target
      BY <1>4, <1>7 DEF TickOK
    <2> QED BY <1>2, <2>1, <2>2
  <1>8. ASSUME Fetched PROVE tick.to <= Len(chain) /\ tick.from <= tick.to /\ tick.to <= tick.target
    <2>1. tick.at # "sleeping" /\ (tick.at = "draining" \/ InHand)
      BY <1>8 DEF Fetched, InHand
    <2>2. tick.from <= tick.to /\ tick.to <= tick.target
      BY <1>4, <2>1 DEF TickOK
    <2> QED BY <1>2, <1>7, <2>1, <2>2
  <1> QED BY <1>2, <1>3, <1>6, <1>7, <1>8

\* The first m blocks are kept, the others replaced, and no block above m holds a log
\* that is marked.
ChainKept(m) ==
  /\ m \in Nat /\ m <= Len(chain) /\ m <= Len(chain') /\ Len(chain') \in Nat
  /\ reorgs' \in Nat /\ m + reorgs' = Len(chain) + reorgs
  /\ \A n \in 1..m : chain'[n] = chain[n]
  /\ \A n \in Blocks' : n \in 1..m \/ chain'[n] = NoLog \/ chain'[n].id \notin db.marked

\* Blocks mined at the end, or replaced above what was confirmed, leave it alone.
LEMMA CoverChain ==
  ASSUME MaxReorg <= Confirmations, CoverInv,
         MineEmpty \/ (\E e \in Events, k \in Keys : Mine(e, k))
           \/ (\E d \in 1..MaxReorg : Reorganize(d)) \/ Restart
  PROVE  CoverInv'
  <1>0. /\ chain \in Seq(Block) /\ nextId \in Nat /\ Len(chain) \in Nat
        /\ WellFormed(chain) /\ Numbered(chain, nextId) /\ reorgs \in Nat /\ restarts \in Nat
        /\ db.marked \in SUBSET Nat /\ tick.batch \in Seq(Block)
    BY FeedScene DEF CoverInv, FeedInv, IndexerTypeOK
  <1>1. db' = db /\ tick' = tick /\ interrupted' = interrupted /\ local' = local
    BY DEF MineEmpty, Mine, Reorganize, Restart
  <1>2. FeedInv'
    BY ChainStepFeed DEF CoverInv
  <1>3. reorgs' <= MaxReorg /\ (local' => reorgs' = 0)
    <2>1. reorgs <= MaxReorg /\ (local => reorgs = 0)
      BY DEF CoverInv
    <2> QED BY <1>1, <2>1 DEF MineEmpty, Mine, Reorganize, Restart
  <1>4. \A i \in db'.marked : i < nextId'
    <2>1. \A i \in db.marked : i < nextId /\ i \in Nat
      BY <1>0 DEF CoverInv
    <2>2. nextId' = nextId \/ nextId' = nextId + 1
      BY DEF MineEmpty, Mine, Reorganize, Restart
    <2> QED BY <1>0, <1>1, <2>1, <2>2
  \* All but the changes to the chain.
  <1>5. ASSUME restarts = 0, NEW m, ChainKept(m)
        PROVE  Covered'
    <2>0. /\ m \in Nat /\ m <= Len(chain) /\ m <= Len(chain') /\ Len(chain') \in Nat
          /\ reorgs' \in Nat /\ m + reorgs' = Len(chain) + reorgs
          /\ \A n \in 1..m : chain'[n] = chain[n]
          /\ \A n \in Blocks' : n \in 1..m \/ chain'[n] = NoLog \/ chain'[n].id \notin db.marked
      BY <1>5 DEF ChainKept
    <2>1. /\ db.cursor \in Nat /\ db.cursor <= Len(chain) /\ db.deltas \in Seq(Nat)
          /\ tick.to \in Nat /\ tick.target \in Nat
          /\ tick.at # "sleeping" => tick.target <= Len(chain)
          /\ Fetched => tick.to <= tick.target /\ tick.at # "sleeping"
          /\ Covered
      BY <1>5, CoverFacts DEF CoverInv, Fetched, InHand
    <2>2. ASSUME NEW c \in Nat, Confirmed(c, Len(chain), reorgs)
          PROVE  Confirmed(c, Len(chain'), reorgs') /\ c <= m
      <3>1. Confirmed(c, Len(chain'), reorgs')
        BY <1>0, <1>3, <2>0, <2>2, IndexerBounds DEF Confirmed
      <3>2. c <= m
        BY <1>0, <1>3, <2>0, <2>2, IndexerBounds DEF Confirmed
      <3> QED BY <3>1, <3>2
    <2>3. Confirmed(db.cursor, Len(chain'), reorgs') /\ db.cursor <= m
      BY <2>1, <2>2 DEF Covered
    <2>4. tick.at # "sleeping" => Confirmed(tick.target, Len(chain'), reorgs') /\ tick.target <= m
      BY <2>1, <2>2 DEF Covered
    <2>5. \A n \in 1..db.cursor : Handled(chain'[n], db.deltas, interrupted)
      BY <2>0, <2>1, <2>3 DEF Covered
    <2>6. ASSUME Fetched
          PROVE  BatchIsRest(chain', db.cursor, tick.to, tick.batch, db.deltas, interrupted)
      <3>1. tick.to <= m
        BY <2>0, <2>1, <2>4, <2>6
      <3>2. \A n \in 1..tick.to : chain'[n] = chain[n]
        BY <2>0, <2>1, <3>1
      <3>3. BatchIsRest(chain, db.cursor, tick.to, tick.batch, db.deltas, interrupted)
        BY <2>1, <2>6 DEF Covered
      <3>4. More(db.deltas, db.deltas, interrupted, interrupted)
        BY <2>1 DEF More
      <3> QED BY <1>0, <2>1, <3>2, <3>3, <3>4, RestMore
    <2>7. ASSUME NEW n \in Blocks', chain'[n].id \in db.marked
          PROVE  \/ Handled(chain'[n], db.deltas, interrupted)
                 \/ InHand /\ chain'[n].id = Current.id
      <3>1. CASE n \in 1..m
        <4>1. n \in Blocks /\ chain'[n] = chain[n]
          BY <1>0, <2>0, <3>1 DEF Blocks
        <4> QED BY <2>1, <2>7, <4>1 DEF Covered
      <3>2. CASE chain'[n] = NoLog
        BY <3>2 DEF Handled
      <3> QED BY <2>0, <2>7, <3>1, <3>2
    <2>8. Fetched' = Fetched /\ InHand' = InHand /\ Current' = Current
      BY <1>1 DEF Fetched, InHand, Current
    <2> QED BY <1>1, <2>3, <2>4, <2>5, <2>6, <2>7, <2>8 DEF Covered
  <1>m. \A i \in db.marked : i < nextId
    BY DEF CoverInv
  <1>6. CASE MineEmpty
    <2>1. chain' = Append(chain, NoLog) /\ reorgs' = reorgs /\ restarts' = restarts
      BY <1>6 DEF MineEmpty
    <2>2. /\ Len(chain') = Len(chain) + 1 /\ chain'[Len(chain) + 1] = NoLog
          /\ \A n \in 1..Len(chain) : chain'[n] = chain[n]
      BY <1>0, <2>1
    <2>3. WellFormed(chain')
      BY <1>0, <2>2 DEF WellFormed
    <2>4. \A n \in Blocks' : n \in 1..Len(chain) \/ chain'[n] = NoLog
      BY <1>0, <2>1, <2>2 DEF Blocks
    <2>5. ChainKept(Len(chain))
      <3> DEFINE m == Len(chain)
      <3>1. m \in Nat /\ m <= Len(chain) /\ m <= Len(chain') /\ Len(chain') \in Nat
        BY <1>0, <2>1, <2>2
      <3>2. reorgs' \in Nat /\ m + reorgs' = Len(chain) + reorgs
        BY <1>0, <2>1, <2>2
      <3>3. \A n \in 1..m : chain'[n] = chain[n]
        BY <2>2
      <3>4. \A n \in Blocks' : n \in 1..m \/ chain'[n] = NoLog \/ chain'[n].id \notin db.marked
        BY <2>4
      <3> HIDE DEF m
      <3>5. ChainKept(m)
        BY <3>1, <3>2, <3>3, <3>4 DEF ChainKept
      <3> QED BY <3>5 DEF m
    <2> QED BY <1>2, <1>3, <1>4, <1>5, <2>1, <2>3, <2>5 DEF CoverInv
  <1>7. ASSUME NEW e \in Events, NEW k \in Keys, Mine(e, k) PROVE CoverInv'
    <2> DEFINE new == [event |-> e, key |-> k, id |-> nextId]
    <2>0. new.event \in Events /\ new.id = nextId /\ new \in Block
      BY <1>0 DEF Block
    <2>1. chain' = Append(chain, new) /\ reorgs' = reorgs /\ restarts' = restarts
      BY <1>7 DEF Mine
    <2> HIDE DEF new
    <2>2. /\ Len(chain') = Len(chain) + 1 /\ chain'[Len(chain) + 1] = new
          /\ \A n \in 1..Len(chain) : chain'[n] = chain[n]
      BY <1>0, <2>0, <2>1
    <2>3. WellFormed(chain')
      <3>1. \A n \in 1..Len(chain') : n \in 1..Len(chain) \/ n = Len(chain) + 1
        BY <1>0, <2>2
      <3>2. \A n \in 1..Len(chain') : chain'[n] = NoLog \/ chain'[n].event \in Events
        BY <1>0, <2>0, <2>2, <3>1 DEF WellFormed
      <3>3. ASSUME NEW a \in 1..Len(chain'), NEW n \in 1..Len(chain'), a < n,
                   chain'[a] # NoLog, chain'[n] # NoLog
            PROVE  chain'[a].id < chain'[n].id
        <4>1. a \in 1..Len(chain)
          BY <1>0, <2>2, <3>3
        <4>2. CASE n \in 1..Len(chain)
          BY <1>0, <2>2, <3>3, <4>1, <4>2 DEF WellFormed
        <4>3. CASE n = Len(chain) + 1
          BY <1>0, <2>0, <2>2, <4>1, <4>3 DEF Numbered
        <4> QED BY <3>1, <4>2, <4>3
      <3> QED BY <3>2, <3>3 DEF WellFormed
    <2>4. \A n \in Blocks' : n \in 1..Len(chain) \/ chain'[n].id \notin db.marked
      <3>1. nextId \notin db.marked
        BY <1>0, <1>m
      <3> QED BY <1>0, <2>0, <2>1, <2>2, <3>1 DEF Blocks
    <2>5. ChainKept(Len(chain))
      <3> DEFINE m == Len(chain)
      <3>1. m \in Nat /\ m <= Len(chain) /\ m <= Len(chain') /\ Len(chain') \in Nat
        BY <1>0, <2>1, <2>2
      <3>2. reorgs' \in Nat /\ m + reorgs' = Len(chain) + reorgs
        BY <1>0, <2>1, <2>2
      <3>3. \A n \in 1..m : chain'[n] = chain[n]
        BY <2>2
      <3>4. \A n \in Blocks' : n \in 1..m \/ chain'[n] = NoLog \/ chain'[n].id \notin db.marked
        BY <2>4
      <3> HIDE DEF m
      <3>5. ChainKept(m)
        BY <3>1, <3>2, <3>3, <3>4 DEF ChainKept
      <3> QED BY <3>5 DEF m
    <2> QED BY <1>2, <1>3, <1>4, <1>5, <2>1, <2>3, <2>5 DEF CoverInv
  <1>8. ASSUME NEW d \in 1..MaxReorg, Reorganize(d) PROVE CoverInv'
    <2>1. /\ chain' = SubSeq(chain, 1, Len(chain) - d) /\ reorgs' = reorgs + d
          /\ restarts' = restarts /\ d \in Nat \ {0} /\ d <= Len(chain)
      BY <1>8, IndexerBounds DEF Reorganize
    <2>2. /\ Len(chain') = Len(chain) - d
          /\ \A n \in 1..Len(chain') : chain'[n] = chain[n]
      BY <1>0, <2>1
    <2>3. WellFormed(chain')
      <3>1. \A n \in 1..Len(chain') : n \in 1..Len(chain)
        BY <1>0, <2>1, <2>2
      <3> QED BY <1>0, <2>2, <3>1 DEF WellFormed
    <2>4. \A n \in Blocks' : n \in 1..Len(chain')
      BY <1>0, <2>1 DEF Blocks
    <2>5. ChainKept(Len(chain'))
      <3> DEFINE m == Len(chain')
      <3>1. m \in Nat /\ m <= Len(chain) /\ m <= Len(chain') /\ Len(chain') \in Nat
        BY <1>0, <2>1, <2>2
      <3>2. reorgs' \in Nat /\ m + reorgs' = Len(chain) + reorgs
        <4>1. Len(chain') = Len(chain) - d /\ reorgs' = reorgs + d /\ d \in Nat
          BY <2>1, <2>2
        <4> QED BY <1>0, <4>1
      <3>3. \A n \in 1..m : chain'[n] = chain[n]
        BY <2>2
      <3>4. \A n \in Blocks' : n \in 1..m \/ chain'[n] = NoLog \/ chain'[n].id \notin db.marked
        BY <2>4
      <3> HIDE DEF m
      <3>5. ChainKept(m)
        BY <3>1, <3>2, <3>3, <3>4 DEF ChainKept
      <3> QED BY <3>5 DEF m
    <2> QED BY <1>2, <1>3, <1>4, <1>5, <2>1, <2>3, <2>5 DEF CoverInv
  <1>9. CASE Restart
    <2>1. chain' = << >> /\ restarts' = restarts + 1
      BY <1>9 DEF Restart
    <2>2. WellFormed(chain') /\ restarts' # 0
      BY <1>0, <2>1 DEF WellFormed
    <2> QED BY <1>2, <1>3, <1>4, <2>2 DEF CoverInv
  <1> QED BY <1>6, <1>7, <1>8, <1>9

\* Chain logs with one id are one log.
LEMMA SameLog ==
  ASSUME NEW c \in Seq(Block), WellFormed(c), NEW m \in 1..Len(c), NEW n \in 1..Len(c),
         c[m] # NoLog, c[n] # NoLog, c[m].id = c[n].id
  PROVE  m = n
  <1>1. c[m].id \in Nat /\ c[n].id \in Nat
    BY IdNat
  <1>2. ~(m < n) /\ ~(n < m)
    BY <1>1 DEF WellFormed
  <1> QED BY <1>2

\* The markers stay below nextId: a log is marked from the batch.
LEMMA MarkedNumbered ==
  ASSUME FeedInv, \A i \in db.marked : i < nextId,
         \/ TickStep \/ FetchFails \/ MarkFails \/ StatementFails \/ UnmarkFails
         \/ CheckpointFails \/ Crash
  PROVE  \A i \in db'.marked : i < nextId'
  <1>0. db \in DbType /\ tick \in TickType /\ (InHand => tick.batch # << >>)
    BY FeedScene DEF FeedInv, TickOK
  <1>1. nextId' = nextId
    BY DEF TickStep, BeginTick, Fetch, ShrinkChunk, BackOff, PassOver, Mark, ReadHead, WriteRows,
           InsertDelta, ForeignKeyFails, Unmark, Checkpoint, FetchFails, MarkFails, StatementFails,
           UnmarkFails, CheckpointFails, Crash, TickFails
  <1>2. ASSUME db'.marked \subseteq db.marked PROVE \A i \in db'.marked : i < nextId'
    BY <1>1, <1>2
  <1>3. CASE Mark \/ MarkFails
    <2>1. tick.batch # << >> /\ (db' = db \/ db' = Marked(db))
      BY <1>3 DEF Mark, MarkFails
    <2>2. Current.id < nextId
      <3>1. Current = tick.batch[1] /\ 1 \in 1..Len(tick.batch)
        BY <2>1, BatchFacts DEF FeedInv
      <3> QED BY <3>1 DEF FeedInv, Numbered
    <2>3. db'.marked \subseteq db.marked \cup {Current.id}
      BY <1>0, <2>1 DEF Marked, DbType
    <2> QED BY <1>1, <2>2, <2>3
  <1>4. CASE BeginTick
    BY <1>0, <1>2, <1>4 DEF BeginTick, AfterReset, DbType
  <1>5. CASE WriteRows
    <2>1. db' = Wrote(db) /\ tick.batch # << >>
      BY <1>0, <1>5 DEF WriteRows, Writing, InHand
    <2> QED BY <1>0, <1>2, <2>1, WroteOK DEF FeedInv, DbType
  <1>6. CASE InsertDelta
    <2>1. db' = Delivered(db) /\ tick.batch # << >>
      BY <1>0, <1>6 DEF InsertDelta, Ending, InHand
    <2> QED BY <1>0, <1>2, <2>1, DeliveredFeed DEF FeedInv
  <1>7. CASE StatementFails
    <2>1. /\ db' = db \/ db' = Delivered(db) \/ db' = Wrote(db)
          /\ tick.batch # << >>
      BY <1>0, <1>7 DEF StatementFails, InHand
    <2>2. CASE db' = db \/ db' = Delivered(db)
      BY <1>0, <1>2, <2>1, <2>2, DeliveredFeed DEF FeedInv
    <2>3. CASE db' = Wrote(db)
      BY <1>0, <1>2, <2>1, <2>3, WroteOK DEF FeedInv, DbType
    <2> QED BY <2>1, <2>2, <2>3
  <1>8. CASE Unmark \/ Checkpoint
    BY <1>0, <1>2, <1>8 DEF Unmark, Checkpoint, DbType
  <1>9. CASE UNCHANGED db
    BY <1>2, <1>9
  <1> QED
    BY <1>3, <1>4, <1>5, <1>6, <1>7, <1>8, <1>9
    DEF TickStep, Fetch, ShrinkChunk, BackOff, PassOver, ReadHead, ForeignKeyFails,
        FetchFails, UnmarkFails, CheckpointFails, Crash

\* A development chain that was never restarted is not reset, and no target lies
\* ahead of what is confirmed.
LEMMA BeginCovered ==
  ASSUME CoverInv, restarts = 0, BeginTick
  PROVE  /\ db' = db /\ tick.at = "sleeping"
         /\ \/ tick' = tick
            \/ /\ tick'.at = "fetching" /\ Confirmed(tick'.target, Len(chain), reorgs)
  <1>0. /\ Len(chain) \in Nat /\ db.cursor \in Nat /\ reorgs \in Nat
        /\ Confirmed(db.cursor, Len(chain), reorgs) /\ (local => reorgs = 0)
    BY FeedScene DEF CoverInv, Covered, FeedInv, IndexerTypeOK
  <1>1. ~(local /\ db.cursor > SafeHead)
    BY <1>0, IndexerBounds DEF Confirmed, SafeHead
  <1>2. db' = db /\ tick.at = "sleeping"
    BY <1>1 DEF BeginTick
  <1> DEFINE target == Min2(SafeHead, db.cursor + MaxBlocksPerTick)
  <1>3. CASE target <= db.cursor
    <2>1. tick' = tick
      BY <1>1, <1>3 DEF BeginTick
    <2> QED BY <1>2, <2>1
  <1>4. CASE ~(target <= db.cursor)
    <2>1. tick' = [Asleep EXCEPT !.at = "fetching", !.from = db.cursor + 1, !.target = target]
      BY <1>1, <1>4 DEF BeginTick
    <2>2. tick'.at = "fetching" /\ tick'.target = target
      BY <2>1 DEF Asleep
    <2>3. target \in Nat /\ target <= SafeHead /\ target > 0
      BY <1>0, <1>4, IndexerBounds DEF Min2, SafeHead
    <2>4. Confirmed(target, Len(chain), reorgs)
      <3> HIDE DEF target
      <3> QED BY <1>0, <2>3, IndexerBounds DEF Confirmed, SafeHead
    <2> QED BY <1>2, <2>2, <2>4
  <1> QED BY <1>3, <1>4

\* Handling goes through the batch in order, and only what was interrupted keeps a
\* marker without its event.
LEMMA CoverTick ==
  ASSUME MaxReorg <= Confirmations, CoverInv, restarts = 0,
         \/ TickStep \/ FetchFails \/ MarkFails \/ StatementFails \/ UnmarkFails
         \/ CheckpointFails \/ Crash
  PROVE  Covered'
  <1>0. /\ chain \in Seq(Block) /\ db \in DbType /\ tick \in TickType
        /\ tick.batch \in Seq(Block) /\ db.cursor \in Nat /\ db.marked \in SUBSET Nat
        /\ WellFormed(chain) /\ FeedInv /\ TickOK /\ IndexerTypeOK /\ Covered
    BY FeedScene DEF CoverInv, FeedInv
  <1>f. /\ db.cursor <= Len(chain) /\ Len(chain) \in Nat /\ reorgs \in Nat
        /\ tick.to \in Nat /\ tick.target \in Nat /\ tick.from \in Nat
        /\ db.deltas \in Seq(Nat) /\ interrupted \subseteq Nat
        /\ tick.at # "sleeping" =>
             /\ tick.target <= Len(chain) /\ tick.target > 0
             /\ tick.from = db.cursor + 1 /\ tick.from <= tick.target
        /\ Fetched => tick.to <= Len(chain) /\ tick.from <= tick.to /\ tick.to <= tick.target
    BY CoverFacts
  <1>c. chain' = chain /\ reorgs' = reorgs /\ Blocks' = Blocks /\ Blocks = 1..Len(chain)
    <2>1. chain' = chain /\ reorgs' = reorgs
      BY DEF TickStep, BeginTick, Fetch, ShrinkChunk, BackOff, PassOver, Mark, ReadHead, WriteRows,
             InsertDelta, ForeignKeyFails, Unmark, Checkpoint, FetchFails, MarkFails, StatementFails,
             UnmarkFails, CheckpointFails, Crash, TickFails
    <2> QED BY <1>0, <2>1 DEF Blocks
  <1> DEFINE Fed(d, s)  == More(db.deltas, d, interrupted, s)
             OK(n)      == Handled(chain[n], db.deltas, interrupted)
             OKNext(n)  == Handled(chain[n], db'.deltas, interrupted')
             Held(n)    == InHand /\ chain[n].id = Current.id
  \* What was so before.
  <1>1. /\ Confirmed(db.cursor, Len(chain), reorgs)
        /\ tick.at # "sleeping" => Confirmed(tick.target, Len(chain), reorgs)
        /\ \A n \in 1..db.cursor : OK(n)
        /\ Fetched => BatchIsRest(chain, db.cursor, tick.to, tick.batch, db.deltas, interrupted)
        /\ \A n \in Blocks : chain[n].id \in db.marked => OK(n) \/ Held(n)
    BY <1>0 DEF Covered
  <1>2. ASSUME Fed(db'.deltas, interrupted')
        PROVE  /\ \A n \in Blocks : OK(n) => OKNext(n)
               /\ \A n \in 1..db.cursor : OKNext(n)
               /\ Fetched => BatchIsRest(chain, db.cursor, tick.to, tick.batch, db'.deltas, interrupted')
    <2>1. \A n : OK(n) => OKNext(n)
      BY <1>2, HandledMore
    <2>2. Fetched => BatchIsRest(chain, db.cursor, tick.to, tick.batch, db'.deltas, interrupted')
      BY <1>0, <1>1, <1>2, <1>f, RestMore
    <2> QED BY <1>1, <2>1, <2>2
  \* The tick rests or ends.
  <1>3. ASSUME Fed(db'.deltas, interrupted'), ~Fetched', db'.cursor = db.cursor,
               tick'.at # "sleeping" => Confirmed(tick'.target, Len(chain), reorgs),
               \A n \in Blocks : chain[n].id \in db'.marked => OKNext(n)
        PROVE  Covered'
    BY <1>1, <1>2, <1>3, <1>c DEF Covered
  \* The tick goes on with the log it has in hand, or takes it in hand.
  <1>4. ASSUME Fed(db'.deltas, interrupted'), Fetched, InHand', Current' = Current,
               db'.cursor = db.cursor, tick'.to = tick.to, tick'.target = tick.target,
               tick'.batch = tick.batch,
               \A n \in Blocks : chain[n].id \in db'.marked => OKNext(n) \/ chain[n].id = Current.id
        PROVE  Covered'
    <2>1. tick.at # "sleeping"
      BY <1>4 DEF Fetched, InHand
    <2>2. BatchIsRest(chain, db.cursor, tick.to, tick.batch, db'.deltas, interrupted')
      BY <1>2, <1>4
    <2>3. \A n \in 1..db.cursor : OKNext(n)
      BY <1>2, <1>4
    <2> QED BY <1>1, <1>4, <1>c, <2>1, <2>2, <2>3 DEF Covered
  \* It goes on with the next log of the batch.
  <1>5. ASSUME Fed(db'.deltas, interrupted'), Fetched, tick.batch # << >>, tick'.at = "draining",
               tick'.batch = Tail(tick.batch), db'.cursor = db.cursor, tick'.to = tick.to,
               tick'.target = tick.target,
               Handled(tick.batch[1], db'.deltas, interrupted'),
               \A n \in Blocks : chain[n].id \in db'.marked => OKNext(n)
        PROVE  Covered'
    <2>1. tick.at # "sleeping" /\ tick'.at # "sleeping"
      BY <1>5 DEF Fetched, InHand
    <2> DEFINE tail == Tail(tick.batch)
    <2>2. /\ tail \in Seq(Block) /\ Len(tail) = Len(tick.batch) - 1
          /\ \A i \in 1..Len(tail) : tail[i] = tick.batch[i + 1]
      BY <1>0, <1>5
    <2> HIDE DEF tail
    <2>3. BatchIsRest(chain, db.cursor, tick.to, tick.batch, db'.deltas, interrupted')
      BY <1>2, <1>5
    <2>4. BatchIsRest(chain, db.cursor, tick.to, tail, db'.deltas, interrupted')
      BY <1>0, <1>5, <1>f, <2>2, <2>3, RestPassed
    <2>5. \A n \in 1..db.cursor : OKNext(n)
      BY <1>2, <1>5
    <2> QED BY <1>1, <1>5, <1>c, <2>1, <2>4, <2>5 DEF Covered, tail
  <1>6. db' = db /\ interrupted' = interrupted => Fed(db'.deltas, interrupted')
    BY <1>f DEF More
  \* The first log of the batch is one of the chain.
  <1>7. ASSUME Fetched, tick.batch # << >>
        PROVE  \E p \in Blocks : chain[p] = Current /\ Current = tick.batch[1]
    <2>1. /\ Len(tick.batch) <= tick.to - db.cursor
          /\ tick.batch[1] = chain[tick.to - Len(tick.batch) + 1]
          /\ Len(tick.batch) \in Nat /\ Len(tick.batch) >= 1
      BY <1>0, <1>1, <1>7 DEF BatchIsRest
    <2>2. tick.to - Len(tick.batch) + 1 \in Blocks
      BY <1>0, <1>7, <1>f, <1>c, <2>1
    <2>3. Current = tick.batch[1]
      BY <1>0, <1>7, BatchFacts
    <2> QED BY <2>1, <2>2, <2>3
  <1> HIDE DEF Fed, OK, OKNext, Held
  <1>8. ASSUME ~InHand, db' = db, interrupted' = interrupted
        PROVE  \A n \in Blocks : chain[n].id \in db'.marked => OKNext(n)
    BY <1>1, <1>2, <1>6, <1>8 DEF Held
  <1>a. tick' = Asleep => ~Fetched' /\ tick'.at = "sleeping"
    BY DEF Asleep, Fetched, InHand
  <1>i. InHand => tick.batch # << >> /\ Fetched /\ Current.id \in Nat
    BY <1>0, HandFed DEF Fetched
  <1>9. CASE BeginTick
    <2>1. /\ db' = db /\ tick.at = "sleeping"
          /\ \/ tick' = tick
             \/ tick'.at = "fetching" /\ Confirmed(tick'.target, Len(chain), reorgs)
      BY <1>9, BeginCovered
    <2>2. ~InHand /\ interrupted' = interrupted /\ ~Fetched'
      BY <1>9, <2>1 DEF BeginTick, InHand, Fetched
    <2> QED BY <1>3, <1>6, <1>8, <2>1, <2>2
  <1>10. CASE Fetch
    <2> DEFINE to == Min2(tick.from + tick.chunk - 1, tick.target)
    <2>0. /\ tick.from = db.cursor + 1 /\ tick.from <= tick.target
          /\ tick.from \in Nat \ {0} /\ tick.chunk \in Nat \ {0}
          /\ tick.target <= Len(chain) /\ tick.at = "fetching"
      BY <1>0, <1>10, <1>f DEF Fetch, TickType
    <2>1. to \in Nat /\ tick.from <= to /\ to <= tick.target
      BY <1>f, <2>0 DEF Min2
    <2>2. /\ db' = db /\ interrupted' = interrupted
          /\ tick' = [tick EXCEPT !.at = "draining", !.to = to, !.batch = Logs(tick.from, to), !.tries = 0]
      BY <1>10 DEF Fetch
    <2> HIDE DEF to
    <2> DEFINE batch == Logs(tick.from, to)
    <2>3. tick'.batch = batch /\ tick'.at = "draining" /\ tick'.to = to /\ tick'.target = tick.target
      BY <1>0, <2>2 DEF TickType
    <2>4. /\ batch \in Seq(Block)
          /\ Len(batch) = to - tick.from + 1
          /\ \A i \in 1..Len(batch) : batch[i] = chain[tick.from + i - 1]
      <3>1. tick.from \in Nat \ {0} /\ to \in Nat /\ chain \in Seq(Block)
        BY <1>0, <2>0, <2>1
      <3>2. /\ Logs(tick.from, to) \in Seq(Block)
            /\ tick.from <= to /\ to <= Len(chain) =>
                 Len(Logs(tick.from, to)) = to - tick.from + 1
        BY <3>1, LogsFacts
      <3>3. \A i \in 1..Len(Logs(tick.from, to)) : Logs(tick.from, to)[i] = chain[tick.from + i - 1]
        BY <3>1, LogsFacts
      <3>4. tick.from <= to /\ to <= Len(chain)
        BY <1>f, <2>0, <2>1
      <3> QED BY <3>2, <3>3, <3>4
    <2> HIDE DEF batch
    <2>5. Len(batch) = to - db.cursor
      BY <1>0, <2>0, <2>1, <2>4
    <2>6. BatchIsRest(chain, db.cursor, to, batch, db.deltas, interrupted)
      <3>1. \A i \in 1..Len(batch) : tick.from + i - 1 = to - Len(batch) + i
        BY <1>0, <2>0, <2>1, <2>5
      <3>2. \A i \in 1..Len(batch) : batch[i] = chain[to - Len(batch) + i]
        BY <2>4, <3>1
      <3>3. to - Len(batch) = db.cursor /\ Len(batch) <= to - db.cursor
        BY <1>0, <2>1, <2>5
      <3>4. db.cursor + 1..db.cursor = {}
        BY <1>0
      <3> QED BY <3>2, <3>3, <3>4 DEF BatchIsRest
    <2>7. \A n \in Blocks : chain[n].id \in db'.marked => OKNext(n)
      BY <1>8, <2>0, <2>2 DEF InHand
    <2>8. \A n \in 1..db.cursor : OKNext(n)
      BY <1>2, <1>6, <2>2
    <2>9. tick.at # "sleeping"
      BY <2>0
    <2> QED BY <1>1, <1>c, <2>2, <2>3, <2>6, <2>7, <2>8, <2>9 DEF Covered, OKNext
  <1>11. CASE ShrinkChunk \/ BackOff
    <2>1. /\ db' = db /\ interrupted' = interrupted /\ tick'.at = "fetching" /\ tick.at = "fetching"
          /\ tick'.target = tick.target
      BY <1>0, <1>11 DEF ShrinkChunk, BackOff, TickType
    <2>2. ~InHand /\ ~Fetched'
      BY <2>1 DEF InHand, Fetched
    <2> QED BY <1>1, <1>3, <1>6, <1>8, <2>1, <2>2
  <1>12. CASE PassOver
    <2>1. /\ db' = db /\ interrupted' = interrupted /\ tick'.at = "draining" /\ ~InHand /\ Fetched
          /\ tick'.batch = Tail(tick.batch) /\ tick'.to = tick.to /\ tick'.target = tick.target
          /\ tick.batch # << >> /\ ~Fresh
      BY <1>0, <1>12 DEF PassOver, TickType, InHand, Fetched
    <2>2. PICK p \in Blocks : chain[p] = Current /\ Current = tick.batch[1]
      BY <1>7, <2>1
    <2>3. Handled(tick.batch[1], db'.deltas, interrupted')
      <3>1. CASE Current.id \in db.marked
        BY <1>8, <2>1, <2>2, <3>1 DEF OKNext
      <3>2. CASE Current.event = "Unknown"
        BY <2>2, <3>2 DEF Handled, HasDelta
      <3>3. CASE Current.event = "none"
        <4>1. chain[p] = NoLog
          BY <1>0, <1>c, <2>2, <3>3, IndexerAssumption DEF WellFormed
        <4> QED BY <2>2, <4>1 DEF Handled
      <3> QED BY <2>1, <3>1, <3>2, <3>3 DEF Fresh
    <2> QED BY <1>5, <1>6, <1>8, <2>1, <2>3
  <1>13. CASE Mark
    <2>1. /\ tick.at = "draining" /\ tick.batch # << >> /\ tick'.at = "handling"
          /\ interrupted' = interrupted
          /\ tick'.batch = tick.batch /\ tick'.to = tick.to /\ tick'.target = tick.target
      BY <1>0, <1>13 DEF Mark, TickType
    <2>2. /\ db'.marked = db.marked \cup {Current.id} /\ db'.cursor = db.cursor
          /\ db'.deltas = db.deltas
      BY <1>0, <1>13 DEF Mark, Marked, DbType
    <2>3. Fetched /\ ~InHand /\ InHand' /\ Current' = Current
      BY <2>1 DEF Fetched, InHand, Current
    <2>4. Fed(db'.deltas, interrupted')
      BY <1>f, <2>1, <2>2 DEF Fed, More
    <2>5. \A n \in Blocks : chain[n].id \in db'.marked => OKNext(n) \/ chain[n].id = Current.id
      BY <1>1, <1>2, <2>2, <2>3, <2>4 DEF Held
    <2> QED BY <1>4, <2>1, <2>2, <2>3, <2>4, <2>5
  \* In hand, whatever is fed next: the log stays the only one that may wait.
  <1>14. ASSUME InHand, Fed(db'.deltas, interrupted'), db'.marked = db.marked
         PROVE  \A n \in Blocks : chain[n].id \in db'.marked => OKNext(n) \/ chain[n].id = Current.id
    BY <1>1, <1>2, <1>14 DEF Held
  <1>15. CASE ReadHead \/ WriteRows \/ ForeignKeyFails \/ StatementFails
    <2>1. /\ InHand /\ InHand' /\ tick.batch # << >> /\ interrupted' = interrupted
          /\ tick'.batch = tick.batch /\ tick'.to = tick.to /\ tick'.target = tick.target
      <3>1. InHand /\ interrupted' = interrupted
        BY <1>15 DEF ReadHead, WriteRows, ForeignKeyFails, StatementFails, Writing, InHand
      <3>2. /\ tick'.at \in {"handling", "unmarking"}
            /\ tick'.batch = tick.batch /\ tick'.to = tick.to /\ tick'.target = tick.target
        BY <1>0, <1>15 DEF ReadHead, WriteRows, ForeignKeyFails, StatementFails, TickType, Writing
      <3> QED BY <1>i, <3>1, <3>2 DEF InHand
    <2>2. db' = db \/ db' = Wrote(db) \/ db' = Delivered(db)
      BY <1>15 DEF ReadHead, WriteRows, ForeignKeyFails, StatementFails
    <2>3. /\ db'.cursor = db.cursor /\ db'.marked = db.marked
          /\ db'.deltas = db.deltas \/ db'.deltas = Append(db.deltas, Current.id)
      <3>1. CASE db' = db
        BY <3>1
      <3>2. CASE db' = Wrote(db)
        BY <1>0, <2>1, <3>2, WroteOK DEF DbType
      <3>3. CASE db' = Delivered(db)
        BY <1>0, <2>1, <3>3, DeliveredFeed
      <3> QED BY <2>2, <3>1, <3>2, <3>3
    <2>4. Fed(db'.deltas, interrupted')
      BY <1>f, <1>i, <2>1, <2>3 DEF Fed, More
    <2>5. Fetched /\ Current' = Current
      BY <1>i, <2>1 DEF Current
    <2> QED BY <1>4, <1>14, <2>1, <2>3, <2>4, <2>5
  <1>16. CASE InsertDelta
    <2>1. InHand /\ interrupted' = interrupted /\ db' = Delivered(db)
      BY <1>16 DEF InsertDelta, Ending, InHand
    <2>2. /\ tick'.at = "draining" /\ tick'.batch = Tail(tick.batch) /\ tick'.to = tick.to
          /\ tick'.target = tick.target
      BY <1>0, <1>16 DEF InsertDelta, TickType
    <2>3. /\ db'.cursor = db.cursor /\ db'.marked = db.marked
          /\ \/ ~HasDelta(Current.event) /\ db'.deltas = db.deltas
             \/ db'.deltas = Append(db.deltas, Current.id)
      BY <1>0, <1>i, <2>1, DeliveredFeed
    <2>4. Fed(db'.deltas, interrupted')
      BY <1>f, <1>i, <2>1, <2>3 DEF Fed, More
    <2>5. PICK p \in Blocks : chain[p] = Current /\ Current = tick.batch[1]
      BY <1>7, <1>i, <2>1
    <2>6. Handled(Current, db'.deltas, interrupted')
      <3>1. CASE ~HasDelta(Current.event)
        BY <3>1 DEF Handled
      <3>2. CASE db'.deltas = Append(db.deltas, Current.id)
        <4> DEFINE d == db.deltas
                   i == Current.id
        <4>1. d \in Seq(Nat) /\ i \in Nat
          BY <1>f, <1>i, <2>1
        <4> HIDE DEF d, i
        <4>2. Len(d) + 1 \in DOMAIN Append(d, i) /\ Append(d, i)[Len(d) + 1] = i
          BY <4>1
        <4> QED BY <3>2, <4>2 DEF Handled, d, i
      <3> QED BY <2>3, <3>1, <3>2
    <2>7. \A n \in Blocks : chain[n].id \in db'.marked => OKNext(n)
      <3> SUFFICES ASSUME NEW n \in Blocks, chain[n].id \in db'.marked, ~OKNext(n) PROVE FALSE
        OBVIOUS
      <3>1. chain[n].id = Current.id
        BY <1>14, <2>1, <2>3, <2>4
      <3>2. chain[n] # NoLog
        BY DEF OKNext, Handled
      <3>3. chain[p] # NoLog
        BY <1>0, <2>1, <2>5, HandFed DEF Readable, NoLog
      <3>4. n = p
        BY <1>0, <1>c, <2>5, <3>1, <3>2, <3>3, SameLog
      <3> QED BY <2>5, <2>6, <3>4 DEF OKNext
    <2> QED BY <1>5, <1>i, <2>1, <2>2, <2>3, <2>4, <2>5, <2>6, <2>7
  <1>17. CASE Unmark
    <2>1. InHand /\ tick' = Asleep /\ interrupted' = interrupted
      BY <1>17 DEF Unmark, InHand
    <2>2. /\ db'.marked = db.marked \ {Current.id} /\ db'.cursor = db.cursor
          /\ db'.deltas = db.deltas
      BY <1>0, <1>17 DEF Unmark, DbType
    <2>3. Fed(db'.deltas, interrupted')
      BY <1>f, <2>1, <2>2 DEF Fed, More
    <2>4. \A n \in Blocks : chain[n].id \in db'.marked => OKNext(n)
      BY <1>1, <1>2, <2>2, <2>3 DEF Held
    <2> QED BY <1>3, <1>a, <2>1, <2>2, <2>3, <2>4
  <1>18. CASE Checkpoint
    <2>1. /\ tick.at = "draining" /\ tick.batch = << >> /\ interrupted' = interrupted
          /\ Fetched /\ ~InHand
      BY <1>18 DEF Checkpoint, Fetched, InHand
    <2>2. db'.cursor = tick.to /\ db'.marked = db.marked /\ db'.deltas = db.deltas
      BY <1>0, <1>18 DEF Checkpoint, DbType
    <2>3. Fed(db'.deltas, interrupted')
      BY <1>f, <2>1, <2>2 DEF Fed, More
    <2>4. \A n \in 1..tick.to : OKNext(n)
      <3>1. \A n \in 1..db.cursor : OKNext(n)
        BY <1>2, <2>3
      <3>2. \A n \in db.cursor + 1..tick.to : OKNext(n)
        <4>1. BatchIsRest(chain, db.cursor, tick.to, tick.batch, db'.deltas, interrupted')
          BY <1>2, <2>1, <2>3
        <4>2. tick.to - Len(tick.batch) = tick.to
          BY <1>f, <2>1
        <4> QED BY <4>1, <4>2 DEF BatchIsRest, OKNext
      <3> QED BY <1>0, <1>f, <3>1, <3>2
    <2>5. Confirmed(tick.to, Len(chain), reorgs) /\ Confirmed(tick.target, Len(chain), reorgs)
      BY <1>1, <1>f, <2>1, IndexerBounds DEF Confirmed
    <2>6. \A n \in Blocks : chain[n].id \in db'.marked => OKNext(n)
      BY <1>1, <1>2, <2>1, <2>2, <2>3 DEF Held
    <2>7. ~Fetched' /\ (tick'.at = "sleeping" \/ tick'.target = tick.target)
      <3>1. CASE tick' = Asleep
        BY <1>a, <3>1
      <3>2. CASE tick' = [tick EXCEPT !.at = "fetching", !.from = tick.to + 1]
        BY <1>0, <3>2 DEF Fetched, InHand, TickType
      <3> QED BY <1>18, <3>1, <3>2 DEF Checkpoint
    <2> QED BY <1>c, <2>2, <2>4, <2>5, <2>6, <2>7 DEF Covered, OKNext
  <1>19. CASE FetchFails \/ CheckpointFails
    <2>1. db' = db /\ interrupted' = interrupted /\ tick' = Asleep /\ ~InHand
      BY <1>19 DEF FetchFails, CheckpointFails, TickFails, InHand
    <2> QED BY <1>3, <1>6, <1>8, <1>a, <2>1
  <1>20. CASE MarkFails
    <2>1. tick.batch # << >> /\ tick' = Asleep /\ ~InHand /\ Fetched
      BY <1>20 DEF MarkFails, TickFails, InHand, Fetched
    <2>2. CASE db' = db /\ interrupted' = interrupted
      BY <1>3, <1>6, <1>8, <1>a, <2>1, <2>2
    <2>3. CASE db' = Marked(db) /\ interrupted' = interrupted \cup {Current.id}
      <3>1. /\ db'.marked = db.marked \cup {Current.id} /\ db'.cursor = db.cursor
            /\ db'.deltas = db.deltas
        BY <1>0, <2>3 DEF Marked, DbType
      <3>2. Fed(db'.deltas, interrupted')
        BY <1>f, <2>3, <3>1 DEF Fed, More
      <3>3. \A n \in Blocks : chain[n].id = Current.id => OKNext(n)
        BY <2>3 DEF OKNext, Handled
      <3>4. \A n \in Blocks : chain[n].id \in db'.marked => OKNext(n)
        BY <1>1, <1>2, <2>1, <3>1, <3>2, <3>3 DEF Held
      <3> QED BY <1>3, <1>a, <2>1, <3>1, <3>2, <3>4
    <2> QED BY <1>20, <2>2, <2>3 DEF MarkFails
  <1>21. CASE UnmarkFails \/ Crash
    <2>1. /\ db' = db /\ tick' = Asleep
          /\ \/ InHand /\ interrupted' = interrupted \cup {Current.id}
             \/ ~InHand /\ interrupted' = interrupted
      BY <1>21 DEF UnmarkFails, Crash, TickFails, InHand
    <2>2. CASE InHand /\ interrupted' = interrupted \cup {Current.id}
      <3>1. Fed(db'.deltas, interrupted')
        BY <1>f, <2>1, <2>2 DEF Fed, More
      <3>2. \A n \in Blocks : chain[n].id = Current.id => OKNext(n)
        BY <2>2 DEF OKNext, Handled
      <3>3. \A n \in Blocks : chain[n].id \in db'.marked => OKNext(n)
        BY <1>14, <2>1, <2>2, <3>1, <3>2
      <3> QED BY <1>3, <1>a, <2>1, <3>1, <3>3
    <2>3. CASE ~InHand /\ interrupted' = interrupted
      BY <1>3, <1>6, <1>8, <1>a, <2>1, <2>3
    <2> QED BY <2>1, <2>2, <2>3
  <1> QED
    BY <1>9, <1>10, <1>11, <1>12, <1>13, <1>15, <1>16, <1>17, <1>18, <1>19, <1>20, <1>21
    DEF TickStep

LEMMA CoverNext ==
  ASSUME MaxReorg <= Confirmations, CoverInv, [Next]_vars
  PROVE  CoverInv'
  <1>1. CASE UNCHANGED vars
    <2>1. FeedInv'
      BY <1>1 DEF CoverInv, vars, FeedInv, IndexerTypeOK, TickOK, InHand, Current
    <2>2. Covered' = Covered
      BY <1>1 DEF vars, Covered, Fetched, InHand, Current, Blocks
    <2> QED BY <1>1, <2>1, <2>2 DEF vars, CoverInv
  <1>2. CASE MineEmpty \/ (\E e \in Events, k \in Keys : Mine(e, k))
               \/ (\E d \in 1..MaxReorg : Reorganize(d)) \/ Restart
    BY <1>2, CoverChain
  <1>3. CASE \/ TickStep \/ FetchFails \/ MarkFails \/ StatementFails \/ UnmarkFails
             \/ CheckpointFails \/ Crash
    <2>1. FeedInv'
      BY <1>3, TickStepFeed DEF CoverInv
    <2>2. \A i \in db'.marked : i < nextId'
      BY <1>3, MarkedNumbered DEF CoverInv
    <2>3. UNCHANGED << chain, local, reorgs, restarts >>
      BY <1>3 DEF TickStep, BeginTick, Fetch, ShrinkChunk, BackOff, PassOver, Mark, ReadHead, WriteRows,
             InsertDelta, ForeignKeyFails, Unmark, Checkpoint, FetchFails, MarkFails, StatementFails,
             UnmarkFails, CheckpointFails, Crash, TickFails
    <2>4. restarts = 0 => Covered'
      BY <1>3, CoverTick
    <2> QED BY <2>1, <2>2, <2>3, <2>4 DEF CoverInv
  <1> QED BY <1>1, <1>2, <1>3 DEF Next

\* No log the cursor has passed is lost to the feed but by a fault that struck while it
\* was handled, as long as no more blocks are replaced than CHAIN_CONFIRMATIONS waits
\* for: no failing handler, refused range, retry or replay loses one.
THEOREM PassedAlwaysDelivered ==
  ASSUME MaxReorg <= Confirmations
  PROVE  Spec => []SkippedOnlyIfInterrupted
  <1>1. CoverInv /\ [Next]_vars => CoverInv'
    BY CoverNext
  <1>2. CoverInv => SkippedOnlyIfInterrupted
    <2> SUFFICES ASSUME CoverInv, restarts = 0, NEW n \in 1..Min2(db.cursor, Len(chain)),
                        chain[n] # NoLog, HasDelta(chain[n].event)
                 PROVE  Delivers(chain[n].id) \/ chain[n].id \in interrupted
      BY DEF SkippedOnlyIfInterrupted
    <2>1. db.cursor \in Nat /\ Len(chain) \in Nat
      BY CoverFacts
    <2>2. n \in 1..db.cursor
      BY <2>1 DEF Min2
    <2>3. Handled(chain[n], db.deltas, interrupted)
      BY <2>2 DEF CoverInv, Covered
    <2> QED BY <2>3 DEF Handled, Delivers
  <1> QED BY <1>1, <1>2, CoverInitInv, PTL DEF Spec

-----------------------------------------------------------------------------
(***************************************************************************)
(* What the tables say: each row that can be relied on is that of a log of *)
(* the chain that changed it (RowTells), and of none older than any that   *)
(* has been delivered (RowLatest); while a log is handled, its statements  *)
(* so far have written, and what it read from the head is not older than   *)
(* itself (HandTells). What is read from the head is relied on as long as  *)
(* no block was replaced.                                                  *)
(***************************************************************************)

\* What a handler writes.
Writes(e) == UNION {Statements(e)[s] : s \in DOMAIN Statements(e)}

\* Characters are created once, before all that is theirs; what is closed was created.
Formed(c) ==
  /\ \A n \in 1..Len(c) : c[n] # NoLog => c[n].id > 0
  /\ \A n \in 1..Len(c) : "stones" \in Changes(c[n].event) =>
       \E m \in 1..n : c[m].event = "CharacterCreated" /\ c[m].key = c[n].key
  /\ \A m, n \in 1..Len(c) :
       c[m].event = "CharacterCreated" /\ c[n].event = "CharacterCreated" /\ c[m].key = c[n].key => m = n
  /\ \A n \in 1..Len(c) : c[n].event = "RFQClosed" =>
       \E m \in 1..n - 1 : c[m].event = "RFQCreated" /\ c[m].key = c[n].key

\* The last event of the feed is the highest.
LastIsHighest(d) == \A n \in 1..Len(d) : d[n] <= LastOf(d)

Steady(t) == t \in HeadRows => reorgs = 0

\* The block n changes the row of t and k for good.
Changed(n, t, k) ==
  /\ chain[n].key = k /\ t \in Changes(chain[n].event)
  /\ t \in HeadRows \/ Confirmed(n, Len(chain), reorgs)

RowTells(t, k) ==
  db.rows[<<t, k>>] = NoRow \/ \E n \in Blocks : Changed(n, t, k) /\ db.rows[<<t, k>>] = chain[n].id

RowLatest(t, k) ==
  \A n \in Blocks : chain[n].key = k /\ t \in Writes(chain[n].event) /\ Delivers(chain[n].id) =>
    db.rows[<<t, k>>] >= chain[n].id

WrittenBy(l, s, t) == \E i \in 1..s - 1 : i \in DOMAIN Statements(l.event) /\ t \in Statements(l.event)[i]

HandTells(t, k) ==
  tick.at = "handling" /\ Current.key = k =>
    /\ WrittenBy(Current, tick.stmt, t) => db.rows[<<t, k>>] >= Current.id
    /\ tick.stmt > 0 /\ t \in FromHead(Current.event) =>
         tick.held >= Current.id /\ \E n \in Blocks : Changed(n, t, k) /\ tick.held = chain[n].id

RowsTold == \A t \in Tables, k \in Keys : Steady(t) => RowTells(t, k) /\ RowLatest(t, k) /\ HandTells(t, k)

MirrorInv ==
  /\ CoverInv /\ Formed(chain) /\ LastIsHighest(db.deltas)
  /\ restarts = 0 /\ interrupted = {} => RowsTold

-----------------------------------------------------------------------------

\* Events and the tables they are about.
LEMMA StatementsAre ==
  ASSUME NEW e
  PROVE  /\ e = "CharacterCreated" => Statements(e) = << {"characters"}, {"levels", "levelEpochs"}, {"stones"} >>
         /\ e = "CharacterLevelUpdated" => Statements(e) = << {"levels", "levelEpochs"} >>
         /\ e = "LootboxCredited" => Statements(e) = << {"lootboxes"} >>
         /\ e = "UpgradeStoneGranted" => Statements(e) = << {"stones"} >>
         /\ e = "ItemEquipped" => Statements(e) = << {"equipment"} >>
         /\ e \in {"RFQCreated", "RFQClosed"} => Statements(e) = << {"rfqs"} >>
         /\ e = "EpochFinalized" => Statements(e) = << {"epochs"} >>
         /\ e \notin {"CharacterCreated", "CharacterLevelUpdated", "LootboxCredited", "UpgradeStoneGranted", "ItemEquipped",
                      "RFQCreated", "RFQClosed", "EpochFinalized"} => Statements(e) = << >>
  BY DEF Statements

\* Statements in a row.
LEMMA RowOfStatements ==
  ASSUME NEW a \in SUBSET Tables, NEW b \in SUBSET Tables, NEW c \in SUBSET Tables
  PROVE  /\ << >> \in Seq(SUBSET Tables) /\ << a >> \in Seq(SUBSET Tables) /\ << a, b, c >> \in Seq(SUBSET Tables)
         /\ DOMAIN << >> = {} /\ DOMAIN << a >> = {1} /\ DOMAIN << a, b, c >> = {1, 2, 3}
         /\ << a >>[1] = a /\ << a, b, c >>[1] = a /\ << a, b, c >>[2] = b /\ << a, b, c >>[3] = c
  OBVIOUS

\* What a handler writes, event by event.
LEMMA WritesAre ==
  ASSUME NEW e
  PROVE  /\ Statements(e) \in Seq(SUBSET Tables)
         /\ Writes(e) =
              CASE e = "CharacterCreated" -> {"characters", "levels", "levelEpochs", "stones"}
                [] e = "CharacterLevelUpdated" -> {"levels", "levelEpochs"}
                [] e = "LootboxCredited" -> {"lootboxes"}
                [] e = "UpgradeStoneGranted" -> {"stones"}
                [] e = "ItemEquipped" -> {"equipment"}
                [] e \in {"RFQCreated", "RFQClosed"} -> {"rfqs"}
                [] e = "EpochFinalized" -> {"epochs"}
                [] OTHER -> {}
  <1>0. /\ {"characters"} \in SUBSET Tables /\ {"levels", "levelEpochs"} \in SUBSET Tables /\ {"stones"} \in SUBSET Tables
        /\ {"lootboxes"} \in SUBSET Tables /\ {"equipment"} \in SUBSET Tables /\ {"rfqs"} \in SUBSET Tables
        /\ {"epochs"} \in SUBSET Tables
    BY DEF Tables
  <1>1. ASSUME NEW a \in SUBSET Tables, Statements(e) = << a >> PROVE Statements(e) \in Seq(SUBSET Tables) /\ Writes(e) = a
    BY <1>1, RowOfStatements DEF Writes
  <1>2. CASE e = "CharacterCreated"
    <2>1. PICK a, b, c : a = {"characters"} /\ b = {"levels", "levelEpochs"} /\ c = {"stones"}
      OBVIOUS
    <2>2. Statements(e) = << a, b, c >>
      BY <1>2, <2>1, StatementsAre
    <2>3. Statements(e) \in Seq(SUBSET Tables) /\ Writes(e) = a \cup b \cup c
      BY <1>0, <2>1, <2>2, RowOfStatements DEF Writes
    <2> QED BY <1>2, <2>1, <2>3
  <1>3. CASE e = "CharacterLevelUpdated"
    BY <1>0, <1>1, <1>3, StatementsAre
  <1>4. CASE e = "LootboxCredited"
    BY <1>0, <1>1, <1>4, StatementsAre
  <1>5. CASE e = "UpgradeStoneGranted"
    BY <1>0, <1>1, <1>5, StatementsAre
  <1>6. CASE e = "ItemEquipped"
    BY <1>0, <1>1, <1>6, StatementsAre
  <1>7. CASE e \in {"RFQCreated", "RFQClosed"}
    BY <1>0, <1>1, <1>7, StatementsAre
  <1>8. CASE e = "EpochFinalized"
    BY <1>0, <1>1, <1>8, StatementsAre
  <1>9. CASE e \notin {"CharacterCreated", "CharacterLevelUpdated", "LootboxCredited", "UpgradeStoneGranted", "ItemEquipped",
                       "RFQCreated", "RFQClosed", "EpochFinalized"}
    <2>1. Statements(e) = << >>
      BY <1>9, StatementsAre
    <2>2. Writes(e) = {}
      BY <2>1 DEF Writes
    <2> QED BY <1>9, <2>1, <2>2, RowOfStatements
  <1> QED BY <1>2, <1>3, <1>4, <1>5, <1>6, <1>7, <1>8, <1>9

\* A handler writes tables its event changes, all but those of ItemUnequipped, and feeds an event if it writes.
LEMMA WritesFacts ==
  ASSUME NEW e
  PROVE  /\ Statements(e) \in Seq(SUBSET Tables)
         /\ \A i \in DOMAIN Statements(e) : Statements(e)[i] \subseteq Writes(e)
         /\ Writes(e) \subseteq Changes(e) /\ (Writes(e) # {} => HasDelta(e))
         /\ Changes(e) \subseteq Tables
         /\ \A t \in Changes(e) \ Writes(e) : e = "ItemUnequipped" /\ t = "equipment"
         /\ FromHead(e) \subseteq HeadRows /\ FromHead(e) \subseteq Writes(e) /\ \A t, u \in FromHead(e) : t = u
         /\ e = "RFQClosed" => Writes(e) = {"rfqs"}
         /\ e = "RFQCreated" => Writes(e) = {"rfqs"}
         /\ "characters" \in Changes(e) <=> e = "CharacterCreated"
         /\ e = "CharacterCreated" => "stones" \in Changes(e)
  <1>1. Statements(e) \in Seq(SUBSET Tables) /\ \A i \in DOMAIN Statements(e) : Statements(e)[i] \subseteq Writes(e)
    BY WritesAre DEF Writes
  <1>2. Writes(e) \subseteq Changes(e) /\ (Writes(e) # {} => HasDelta(e))
    BY WritesAre DEF Changes, HasDelta
  <1>3. \A t \in Changes(e) \ Writes(e) : e = "ItemUnequipped" /\ t = "equipment"
    BY WritesAre DEF Changes
  <1>4. FromHead(e) \subseteq HeadRows /\ \A t, u \in FromHead(e) : t = u
    BY DEF FromHead, HeadRows
  <1>5. FromHead(e) \subseteq Writes(e)
    BY WritesAre DEF FromHead
  <1>6. (e = "RFQClosed" => Writes(e) = {"rfqs"}) /\ (e = "RFQCreated" => Writes(e) = {"rfqs"})
    BY WritesAre
  <1>7. ("characters" \in Changes(e) <=> e = "CharacterCreated") /\ (e = "CharacterCreated" => "stones" \in Changes(e))
    BY DEF Changes
  <1>8. Changes(e) \subseteq Tables
    BY DEF Changes, Tables
  <1> QED BY <1>1, <1>2, <1>3, <1>4, <1>5, <1>6, <1>7, <1>8

\* The chain's value is the id of the last log that changed it.
LEMMA TruthIsLast ==
  ASSUME IndexerTypeOK, NEW t, NEW k
  PROVE  \/ Truth(t, k) = Nothing /\ \A n \in Blocks : ~(chain[n].key = k /\ t \in Changes(chain[n].event))
         \/ \E n \in Blocks : /\ chain[n].key = k /\ t \in Changes(chain[n].event) /\ chain[n].id = Truth(t, k)
                              /\ \A m \in Blocks : chain[m].key = k /\ t \in Changes(chain[m].event) => chain[m].id <= Truth(t, k)
  <1> DEFINE N == {m \in LogsOf(k) : t \in Changes(chain[m].event)}
             S == {chain[n].id : n \in N}
  <1>1. \A n : n \in N <=> n \in Blocks /\ chain[n].key = k /\ t \in Changes(chain[n].event)
    BY DEF LogsOf
  <1>2. \A n \in Blocks : chain[n].id \in 0..nextId
    <2> SUFFICES ASSUME NEW n \in Blocks PROVE chain[n].id \in 0..nextId
      OBVIOUS
    <2>1. chain[n] \in Block
      BY DEF IndexerTypeOK, Blocks, ChainType
    <2>2. chain[n].id \in Nat /\ chain[n].id < nextId /\ nextId \in Nat
      BY <2>1 DEF Block, IndexerTypeOK, Numbered, Blocks
    <2> QED BY <2>2
  <1>3. S \subseteq 0..nextId /\ nextId \in Nat
    <2>1. nextId \in Nat
      BY DEF IndexerTypeOK
    <2> HIDE DEF N
    <2> QED BY <1>1, <1>2, <2>1
  <1>4. Truth(t, k) = IF S = {} THEN Nothing ELSE CHOOSE i \in S : \A j \in S : j <= i
    BY DEF Truth
  <1> HIDE DEF N
  <1>5. CASE S = {}
    BY <1>1, <1>4, <1>5
  <1>6. CASE S # {}
    <2>1. PICK V : V = S
      OBVIOUS
    <2>2. \E i \in V : \A j \in V : j <= i
      BY <1>3, <1>6, <2>1, GreatestNumber
    <2>3. PICK i : i = CHOOSE l \in V : \A j \in V : j <= l
      OBVIOUS
    <2>4. i \in V /\ \A j \in V : j <= i
      BY <2>2, <2>3
    <2>5. Truth(t, k) = i
      BY <1>4, <1>6, <2>1, <2>3
    <2>6. PICK n \in N : chain[n].id = i
      BY <2>1, <2>4
    <2>7. \A m \in N : chain[m].id <= i
      BY <2>1, <2>4
    <2> QED BY <1>1, <2>5, <2>6, <2>7
  <1> QED BY <1>5, <1>6

\* What the contracts emit keeps the chain formed.
LEMMA FormedMined ==
  ASSUME IndexerTypeOK, Formed(chain), NEW e \in Events, NEW k \in Keys, Mine(e, k)
  PROVE  Formed(chain')
  <1>1. PICK b, c, d, l : b = [event |-> e, key |-> k, id |-> nextId] /\ c = chain /\ d = chain' /\ l = Len(chain)
    OBVIOUS
  <1>2. c \in Seq(Block) /\ nextId \in Nat \ {0} /\ Blocks = 1..l /\ l \in Nat
    BY <1>1 DEF IndexerTypeOK, ChainType, Blocks
  <1>3. b.event = e /\ b.key = k /\ b.id = nextId /\ b \in Block
    BY <1>1, <1>2 DEF Block
  <1>4. d = Append(c, b)
    BY <1>1 DEF Mine
  <1>5. Len(d) = l + 1 /\ d[l + 1] = b /\ \A n \in 1..l : d[n] = c[n]
    BY <1>1, <1>2, <1>3, <1>4
  <1>6. /\ \A n \in 1..l : c[n] # NoLog => c[n].id > 0
        /\ \A n \in 1..l : "stones" \in Changes(c[n].event) =>
             \E m \in 1..n : c[m].event = "CharacterCreated" /\ c[m].key = c[n].key
        /\ \A m, n \in 1..l :
             c[m].event = "CharacterCreated" /\ c[n].event = "CharacterCreated" /\ c[m].key = c[n].key => m = n
        /\ \A n \in 1..l : c[n].event = "RFQClosed" =>
             \E m \in 1..n - 1 : c[m].event = "RFQCreated" /\ c[m].key = c[n].key
    BY <1>1 DEF Formed
  <1>7. CanHappen(e, k)
    BY DEF Mine
  <1>8. Exists(k) => \E n \in 1..l : c[n].event = "CharacterCreated" /\ c[n].key = k
    BY <1>1, <1>2, TruthIsLast, WritesFacts DEF Exists
  <1>9. ~Exists(k) => \A n \in 1..l : ~(c[n].event = "CharacterCreated" /\ c[n].key = k)
    <2> SUFFICES ASSUME ~Exists(k), NEW n \in 1..l, c[n].event = "CharacterCreated", c[n].key = k PROVE FALSE
      OBVIOUS
    <2>1. Truth("characters", k) = 0
      BY DEF Exists, Nothing
    <2>2. n \in Blocks /\ chain[n].key = k /\ "characters" \in Changes(chain[n].event)
      BY <1>1, <1>2, WritesFacts
    <2>3. PICK m \in Blocks : chain[m].id = 0 /\ "characters" \in Changes(chain[m].event)
      BY <2>1, <2>2, TruthIsLast
    <2>4. c[m].event = "CharacterCreated" /\ c[m].id = 0 /\ m \in 1..l
      BY <1>1, <1>2, <2>3, WritesFacts
    <2>5. c[m] # NoLog
      BY <2>4 DEF NoLog
    <2> QED BY <1>6, <2>4, <2>5
  <1>10. "stones" \in Changes(e) => e = "CharacterCreated" \/ Exists(k)
    BY <1>7 DEF Changes, CanHappen
  <1>11. e = "CharacterCreated" => ~Exists(k)
    BY <1>7 DEF CanHappen
  <1>12. e = "RFQClosed" => \E m \in 1..l : c[m].event = "RFQCreated" /\ c[m].key = k
    <2>1. e = "RFQClosed" => IsOpen(k)
      BY <1>7 DEF CanHappen
    <2> QED BY <1>1, <1>2, <2>1 DEF IsOpen, LogsOf
  <1>13. \A n \in 1..Len(d) : n \in 1..l \/ n = l + 1
    BY <1>2, <1>5
  <1>14. ASSUME NEW n \in 1..Len(d), d[n] # NoLog PROVE d[n].id > 0
    BY <1>2, <1>3, <1>5, <1>6, <1>13, <1>14
  <1>15. ASSUME NEW n \in 1..Len(d), "stones" \in Changes(d[n].event)
         PROVE  \E m \in 1..n : d[m].event = "CharacterCreated" /\ d[m].key = d[n].key
    <2>1. CASE n \in 1..l
      <3>1. PICK m \in 1..n : c[m].event = "CharacterCreated" /\ c[m].key = c[n].key
        BY <1>5, <1>6, <1>15, <2>1
      <3>2. m \in 1..l
        BY <1>2, <2>1
      <3> QED BY <1>5, <2>1, <3>1, <3>2
    <2>2. CASE n = l + 1
      <3>1. CASE e = "CharacterCreated"
        BY <1>2, <1>3, <1>5, <2>2, <3>1
      <3>2. CASE e # "CharacterCreated"
        <4>1. PICK m \in 1..l : c[m].event = "CharacterCreated" /\ c[m].key = k
          BY <1>3, <1>5, <1>8, <1>10, <1>15, <2>2, <3>2
        <4> QED BY <1>2, <1>3, <1>5, <2>2, <4>1
      <3> QED BY <3>1, <3>2
    <2> QED BY <1>13, <2>1, <2>2
  <1>16. ASSUME NEW m \in 1..Len(d), NEW n \in 1..Len(d), d[m].event = "CharacterCreated", d[n].event = "CharacterCreated",
                d[m].key = d[n].key
         PROVE  m = n
    <2>1. CASE m \in 1..l /\ n \in 1..l
      BY <1>5, <1>6, <1>16, <2>1
    <2>2. CASE m = l + 1 /\ n \in 1..l
      BY <1>3, <1>5, <1>9, <1>11, <1>16, <2>2
    <2>3. CASE n = l + 1 /\ m \in 1..l
      BY <1>3, <1>5, <1>9, <1>11, <1>16, <2>3
    <2> QED BY <1>13, <2>1, <2>2, <2>3
  <1>17. ASSUME NEW n \in 1..Len(d), d[n].event = "RFQClosed"
         PROVE  \E m \in 1..n - 1 : d[m].event = "RFQCreated" /\ d[m].key = d[n].key
    <2>1. CASE n \in 1..l
      <3>1. PICK m \in 1..n - 1 : c[m].event = "RFQCreated" /\ c[m].key = c[n].key
        BY <1>5, <1>6, <1>17, <2>1
      <3>2. m \in 1..l
        BY <1>2, <2>1
      <3> QED BY <1>5, <2>1, <3>1, <3>2
    <2>2. CASE n = l + 1
      <3>1. PICK m \in 1..l : c[m].event = "RFQCreated" /\ c[m].key = k
        BY <1>3, <1>5, <1>12, <1>17, <2>2
      <3>2. m \in 1..n - 1
        BY <1>2, <2>2
      <3> QED BY <1>3, <1>5, <2>2, <3>1, <3>2
    <2> QED BY <1>13, <2>1, <2>2
  <1> QED BY <1>1, <1>14, <1>15, <1>16, <1>17 DEF Formed

\* So do an empty block and a shorter chain.
LEMMA FormedOthers ==
  ASSUME IndexerTypeOK, Formed(chain), MineEmpty \/ (\E d \in 1..MaxReorg : Reorganize(d)) \/ Restart
  PROVE  Formed(chain')
  <1>1. PICK c, d, l : c = chain /\ d = chain' /\ l = Len(chain)
    OBVIOUS
  <1>2. c \in Seq(Block) /\ l \in Nat
    BY <1>1 DEF IndexerTypeOK, ChainType
  <1>3. \E h \in 0..l : /\ Len(d) \in Nat /\ h <= Len(d) /\ \A n \in 1..h : d[n] = c[n]
                        /\ \A n \in 1..Len(d) : n \in 1..h \/ d[n] = NoLog
    <2>1. CASE MineEmpty
      <3>1. d = Append(c, NoLog)
        BY <1>1, <2>1 DEF MineEmpty
      <3>2. Len(d) = l + 1 /\ d[l + 1] = NoLog /\ \A n \in 1..l : d[n] = c[n]
        BY <1>1, <1>2, <3>1
      <3> QED BY <1>2, <3>2
    <2>2. ASSUME NEW r \in 1..MaxReorg, Reorganize(r) PROVE \E h \in 0..l : /\ Len(d) \in Nat /\ h <= Len(d) /\ \A n \in 1..h : d[n] = c[n]
                        /\ \A n \in 1..Len(d) : n \in 1..h \/ d[n] = NoLog
      <3>1. r \in Nat /\ r <= l /\ d = SubSeq(c, 1, l - r)
        BY <1>1, <2>2, IndexerBounds DEF Reorganize
      <3>2. l - r \in 0..l
        BY <1>2, <3>1
      <3>3. Len(d) = l - r /\ \A n \in 1..l - r : d[n] = c[n]
        BY <1>1, <1>2, <3>1, <3>2
      <3> QED BY <3>2, <3>3
    <2>3. CASE Restart
      <3>1. d = << >>
        BY <1>1, <2>3 DEF Restart
      <3> QED BY <1>2, <3>1
    <2> QED BY <2>1, <2>2, <2>3
  <1>4. PICK h \in 0..l : /\ Len(d) \in Nat /\ h <= Len(d) /\ \A n \in 1..h : d[n] = c[n]
                          /\ \A n \in 1..Len(d) : n \in 1..h \/ d[n] = NoLog
    BY <1>3
  <1>5. /\ \A n \in 1..h : c[n] # NoLog => c[n].id > 0
        /\ \A n \in 1..h : "stones" \in Changes(c[n].event) =>
             \E m \in 1..n : c[m].event = "CharacterCreated" /\ c[m].key = c[n].key
        /\ \A m, n \in 1..h :
             c[m].event = "CharacterCreated" /\ c[n].event = "CharacterCreated" /\ c[m].key = c[n].key => m = n
        /\ \A n \in 1..h : c[n].event = "RFQClosed" =>
             \E m \in 1..n - 1 : c[m].event = "RFQCreated" /\ c[m].key = c[n].key
    <2>1. 1..h \subseteq 1..l
      BY <1>2
    <2> QED BY <1>1, <2>1 DEF Formed
  <1>6. NoLog.event = "none" /\ "stones" \notin Changes("none")
    BY DEF NoLog, Changes
  <1>7. \A n \in 1..h : (\A m \in 1..n : m \in 1..h) /\ \A m \in 1..n - 1 : m \in 1..h
    BY <1>2
  <1>8. ASSUME NEW n \in 1..Len(d), d[n].event # "none" PROVE n \in 1..h /\ d[n] = c[n]
    BY <1>4, <1>6, <1>8
  <1>9. ASSUME NEW n \in 1..h PROVE n \in 1..Len(d) /\ d[n] = c[n]
    BY <1>4
  <1>10. ASSUME NEW n \in 1..Len(d), d[n] # NoLog PROVE d[n].id > 0
    <2>1. n \in 1..h
      BY <1>4, <1>10
    <2> QED BY <1>5, <1>9, <1>10, <2>1
  <1>11. ASSUME NEW n \in 1..Len(d), "stones" \in Changes(d[n].event)
         PROVE  \E m \in 1..n : d[m].event = "CharacterCreated" /\ d[m].key = d[n].key
    <2>1. d[n].event # "none"
      BY <1>6, <1>11
    <2>2. n \in 1..h /\ d[n] = c[n]
      BY <1>8, <2>1
    <2>3. PICK m \in 1..n : c[m].event = "CharacterCreated" /\ c[m].key = c[n].key
      BY <1>5, <1>11, <2>2
    <2>4. m \in 1..h /\ d[m] = c[m]
      BY <1>7, <1>9, <2>2
    <2> QED BY <2>2, <2>3, <2>4
  <1>12. ASSUME NEW m \in 1..Len(d), NEW n \in 1..Len(d), d[m].event = "CharacterCreated", d[n].event = "CharacterCreated",
                d[m].key = d[n].key
         PROVE  m = n
    <2>1. m \in 1..h /\ d[m] = c[m] /\ n \in 1..h /\ d[n] = c[n]
      BY <1>8, <1>12
    <2> QED BY <1>5, <1>12, <2>1
  <1>13. ASSUME NEW n \in 1..Len(d), d[n].event = "RFQClosed"
         PROVE  \E m \in 1..n - 1 : d[m].event = "RFQCreated" /\ d[m].key = d[n].key
    <2>2. n \in 1..h /\ d[n] = c[n]
      BY <1>8, <1>13
    <2>3. PICK m \in 1..n - 1 : c[m].event = "RFQCreated" /\ c[m].key = c[n].key
      BY <1>5, <1>13, <2>2
    <2>4. m \in 1..h /\ d[m] = c[m]
      BY <1>7, <1>9, <2>2
    <2> QED BY <2>2, <2>3, <2>4
  <1> QED BY <1>1, <1>10, <1>11, <1>12, <1>13 DEF Formed

-----------------------------------------------------------------------------

\* The log in hand is one of the chain for good, and all before it are handled.
LEMMA CurrentPlace ==
  ASSUME MaxReorg <= Confirmations, CoverInv, restarts = 0, Fetched, tick.batch # << >>
  PROVE  \E p \in Blocks : /\ chain[p] = Current /\ Confirmed(p, Len(chain), reorgs)
                           /\ \A m \in 1..p - 1 : Handled(chain[m], db.deltas, interrupted)
  <1>1. /\ chain \in Seq(Block) /\ tick.batch \in Seq(Block) /\ Covered /\ IndexerTypeOK
    BY FeedScene DEF CoverInv, FeedInv
  <1>2. /\ db.cursor \in Nat /\ db.cursor <= Len(chain) /\ Len(chain) \in Nat /\ reorgs \in Nat
        /\ tick.to \in Nat /\ tick.target \in Nat
        /\ tick.to <= Len(chain) /\ tick.to <= tick.target
    BY CoverFacts
  <1>3. tick.at # "sleeping"
    BY DEF Fetched, InHand
  <1>4. /\ Confirmed(tick.target, Len(chain), reorgs)
        /\ \A n \in 1..db.cursor : Handled(chain[n], db.deltas, interrupted)
        /\ BatchIsRest(chain, db.cursor, tick.to, tick.batch, db.deltas, interrupted)
    BY <1>1, <1>3 DEF Covered
  <1>5. PICK l : l = Len(tick.batch)
    OBVIOUS
  <1>6. l \in Nat /\ l >= 1 /\ 1 \in 1..l
    BY <1>1, <1>5
  <1>7. /\ l <= tick.to - db.cursor /\ tick.batch[1] = chain[tick.to - l + 1]
        /\ \A n \in db.cursor + 1..tick.to - l : Handled(chain[n], db.deltas, interrupted)
    BY <1>4, <1>5, <1>6 DEF BatchIsRest
  <1>8. PICK p : p = tick.to - l + 1
    OBVIOUS
  <1>9. p \in 1..Len(chain) /\ p <= tick.target
    BY <1>2, <1>6, <1>7, <1>8
  <1>10. p \in Blocks
    BY <1>1, <1>9 DEF Blocks
  <1>11. chain[p] = Current
    BY <1>1, <1>7, <1>8, BatchFacts
  <1>12. Confirmed(p, Len(chain), reorgs)
    BY <1>2, <1>4, <1>9, IndexerBounds DEF Confirmed
  <1>13. \A m \in 1..p - 1 : m \in 1..db.cursor \/ m \in db.cursor + 1..tick.to - l
    BY <1>2, <1>6, <1>7, <1>8
  <1> QED BY <1>4, <1>7, <1>10, <1>11, <1>12, <1>13

\* Each step feeds nothing, the log in hand, or starts the feed again.
LEMMA FeedSteps ==
  ASSUME CoverInv, LastIsHighest(db.deltas), [Next]_vars
  PROVE  LastIsHighest(db'.deltas)
  <1>1. /\ db \in DbType /\ IndexerTypeOK /\ (InHand => tick.batch # << >>) /\ db.deltas \in Seq(Nat)
    BY FeedScene DEF CoverInv, FeedInv, TickOK, DbType
  <1>2. LastIsHighest(<< >>)
    BY DEF LastIsHighest
  <1>3. ASSUME InHand PROVE LastIsHighest(Delivered(db).deltas)
    <2>1. Current.id \in Nat /\ LastOf(db.deltas) <= Current.id /\ LastOf(db.deltas) \in Nat
      BY <1>1, <1>3, HandFed, LastNat DEF CoverInv
    <2>2. PICK d, i, e : d = db.deltas /\ i = Current.id /\ e = Delivered(db).deltas
      OBVIOUS
    <2>3. e = d \/ e = Append(d, i)
      BY <1>1, <1>3, <2>2, DeliveredFeed
    <2>4. CASE e = d
      BY <2>2, <2>4
    <2>5. CASE e = Append(d, i)
      <3>1. d \in Seq(Nat) /\ i \in Nat /\ \A n \in 1..Len(d) : d[n] <= LastOf(d) /\ d[n] \in Nat
        BY <1>1, <2>1, <2>2 DEF LastIsHighest
      <3>2. Len(e) = Len(d) + 1 /\ e[Len(d) + 1] = i /\ e # << >> /\ \A n \in 1..Len(d) : e[n] = d[n]
        BY <2>5, <3>1
      <3>3. LastOf(e) = i /\ LastOf(d) \in Nat /\ LastOf(d) <= i
        BY <2>1, <2>2, <3>1, <3>2, LastNat DEF LastOf
      <3>4. \A n \in 1..Len(e) : n \in 1..Len(d) \/ n = Len(d) + 1
        BY <3>1, <3>2
      <3>5. \A n \in 1..Len(e) : e[n] <= LastOf(e)
        BY <3>1, <3>2, <3>3, <3>4
      <3> QED BY <2>2, <3>5 DEF LastIsHighest
    <2> QED BY <2>3, <2>4, <2>5
  <1>4. CASE db' = db
    BY <1>4
  <1>5. CASE BeginTick
    <2>1. db' = db \/ db' = AfterReset
      BY <1>5 DEF BeginTick
    <2>2. AfterReset.deltas = << >>
      BY DEF AfterReset
    <2> QED BY <1>2, <2>1, <2>2
  <1>6. CASE Mark \/ MarkFails
    <2>1. db' = db \/ db' = Marked(db)
      BY <1>6 DEF Mark, MarkFails
    <2> QED BY <1>1, <2>1 DEF Marked, DbType
  <1>7. CASE WriteRows \/ InsertDelta \/ StatementFails
    <2>1. InHand /\ (db' = db \/ db' = Wrote(db) \/ db' = Delivered(db))
      BY <1>7 DEF WriteRows, InsertDelta, StatementFails, Writing, Ending, InHand
    <2>2. CASE db' = Wrote(db)
      BY <1>1, <2>1, <2>2, WroteOK DEF DbType
    <2> QED BY <1>3, <2>1, <2>2
  <1>8. CASE Unmark \/ Checkpoint
    BY <1>1, <1>8 DEF Unmark, Checkpoint, DbType
  <1> QED BY <1>4, <1>5, <1>6, <1>7, <1>8
    DEF Next, TickStep, Fetch, ShrinkChunk, BackOff, PassOver, ReadHead, ForeignKeyFails, MineEmpty, Mine, Reorganize,
        Restart, FetchFails, UnmarkFails, CheckpointFails, Crash, vars

-----------------------------------------------------------------------------

\* The first h blocks are kept, and what is above them is new.
Kept(h) ==
  /\ h \in Nat /\ h <= Len(chain) /\ h <= Len(chain') /\ Len(chain) \in Nat /\ Len(chain') \in Nat
  /\ reorgs' \in Nat /\ reorgs <= reorgs' /\ h + reorgs' = Len(chain) + reorgs
  /\ Blocks = 1..Len(chain) /\ Blocks' = 1..Len(chain')
  /\ \A n \in 1..h : chain'[n] = chain[n]
  /\ \A n \in Blocks' : n \in 1..h \/ chain'[n] = NoLog \/ chain'[n].id = nextId

\* Mining keeps all blocks, a reorganization all but the last.
LEMMA KeptBlocks ==
  ASSUME IndexerTypeOK, MineEmpty \/ (\E e \in Events, k \in Keys : Mine(e, k)) \/ (\E d \in 1..MaxReorg : Reorganize(d))
  PROVE  \E h : Kept(h)
  <1>1. PICK c, d, l, r, s : c = chain /\ d = chain' /\ l = Len(chain) /\ r = reorgs /\ s = reorgs'
    OBVIOUS
  <1>2. c \in Seq(Block) /\ l \in Nat /\ r \in Nat /\ nextId \in Nat /\ Blocks = 1..l
    BY <1>1 DEF IndexerTypeOK, ChainType, Blocks
  <1>3. CASE MineEmpty \/ \E e \in Events, k \in Keys : Mine(e, k)
    <2>1. \E b \in Block : d = Append(c, b) /\ s = r /\ (b = NoLog \/ b.id = nextId)
      <3>1. CASE MineEmpty
        <4>1. NoLog \in Block
          BY DEF NoLog, Block
        <4> QED BY <1>1, <3>1, <4>1 DEF MineEmpty
      <3>2. ASSUME NEW e \in Events, NEW k \in Keys, Mine(e, k)
            PROVE  \E b \in Block : d = Append(c, b) /\ s = r /\ (b = NoLog \/ b.id = nextId)
        <4>1. [event |-> e, key |-> k, id |-> nextId] \in Block
          BY <1>2 DEF Block
        <4> QED BY <1>1, <3>2, <4>1 DEF Mine
      <3> QED BY <1>3, <3>1, <3>2
    <2>2. PICK b \in Block : d = Append(c, b) /\ s = r /\ (b = NoLog \/ b.id = nextId)
      BY <2>1
    <2>3. Len(d) = l + 1 /\ d[l + 1] = b /\ DOMAIN d = 1..l + 1 /\ \A n \in 1..l : d[n] = c[n]
      BY <1>1, <1>2, <2>2
    <2>4. \A n \in 1..l + 1 : n \in 1..l \/ n = l + 1
      BY <1>2
    <2>5. Kept(l)
      BY <1>1, <1>2, <2>2, <2>3, <2>4 DEF Kept, Blocks
    <2> QED BY <2>5
  <1>4. ASSUME NEW q \in 1..MaxReorg, Reorganize(q) PROVE \E h : Kept(h)
    <2>1. q \in Nat /\ q <= l /\ d = SubSeq(c, 1, l - q) /\ s = r + q
      BY <1>1, <1>4, IndexerBounds DEF Reorganize
    <2>2. PICK h : h = l - q
      OBVIOUS
    <2>3. h \in 0..l /\ h + s = l + r /\ s \in Nat /\ r <= s
      BY <1>2, <2>1, <2>2
    <2>4. d = SubSeq(c, 1, h)
      BY <2>1, <2>2
    <2>5. Len(d) = h /\ DOMAIN d = 1..h /\ \A n \in 1..h : d[n] = c[n]
      BY <1>1, <1>2, <2>3, <2>4
    <2>6. Kept(h)
      BY <1>1, <1>2, <2>3, <2>5 DEF Kept, Blocks
    <2> QED BY <2>6
  <1> QED BY <1>3, <1>4

\* No event of the feed is above the numbers in use.
LEMMA FedBelow ==
  ASSUME FeedInv, LastIsHighest(db.deltas), NEW i, Delivers(i)
  PROVE  i \in Nat /\ i <= LastOf(db.deltas) /\ i < nextId
  <1>1. db.deltas \in Seq(Nat) /\ LastOf(db.deltas) \in Nat /\ LastOf(db.deltas) < nextId /\ nextId \in Nat
    BY FeedScene DEF DbType
  <1>2. PICK n \in DOMAIN db.deltas : db.deltas[n] = i
    BY DEF Delivers
  <1>3. n \in 1..Len(db.deltas) /\ db.deltas[n] \in Nat
    BY <1>1, <1>2
  <1>4. i \in Nat /\ i <= LastOf(db.deltas)
    BY <1>2, <1>3 DEF LastIsHighest
  <1> QED BY <1>1, <1>4

\* What can be relied on is not replaced.
LEMMA ToldChain ==
  ASSUME MaxReorg <= Confirmations, CoverInv, CoverInv', LastIsHighest(db.deltas), restarts = 0, RowsTold,
         MineEmpty \/ (\E e \in Events, k \in Keys : Mine(e, k)) \/ (\E d \in 1..MaxReorg : Reorganize(d))
  PROVE  RowsTold'
  <1>1. IndexerTypeOK /\ FeedInv /\ reorgs' <= MaxReorg /\ reorgs \in Nat /\ nextId \in Nat
    BY DEF CoverInv, FeedInv, IndexerTypeOK
  <1>2. PICK h : Kept(h)
    BY <1>1, KeptBlocks
  <1>3. db' = db /\ tick' = tick
    BY DEF MineEmpty, Mine, Reorganize
  <1>4. ASSUME NEW t, Steady(t)' PROVE Steady(t)
    BY <1>1, <1>2, <1>4 DEF Steady, Kept
  <1>5. ASSUME NEW n \in Blocks, NEW t, NEW k, Changed(n, t, k), Steady(t)'
        PROVE  n \in Blocks' /\ Changed(n, t, k)' /\ chain'[n] = chain[n]
    <2>1. n \in 1..Len(chain) /\ n \in Nat \ {0}
      BY <1>2 DEF Kept
    <2>2. n <= h
      <3>1. CASE t \in HeadRows
        BY <1>1, <1>2, <1>5, <2>1, <3>1 DEF Steady, Kept
      <3>2. CASE Confirmed(n, Len(chain), reorgs)
        <4>1. n + Confirmations <= h + reorgs'
          BY <1>2, <2>1, <3>2, IndexerBounds DEF Confirmed, Kept
        <4>2. h \in Nat /\ reorgs' \in Nat
          BY <1>2 DEF Kept
        <4>3. PICK g, r, a, b : g = h /\ r = reorgs' /\ a = Confirmations /\ b = MaxReorg
          OBVIOUS
        <4>4. n \in Nat /\ g \in Nat /\ r \in Nat /\ a \in Nat /\ b \in Nat /\ n + a <= g + r /\ r <= b /\ b <= a
          BY <1>1, <2>1, <4>1, <4>2, <4>3, IndexerBounds
        <4>5. n <= g
          BY <4>4
        <4> QED BY <4>3, <4>5
      <3> QED BY <1>5, <3>1, <3>2 DEF Changed
    <2>3. n \in 1..h /\ n \in Blocks' /\ chain'[n] = chain[n]
      BY <1>2, <2>1, <2>2 DEF Kept
    <2>4. Confirmed(n, Len(chain), reorgs) => Confirmed(n, Len(chain'), reorgs')
      BY <1>1, <1>2, <2>1, IndexerBounds DEF Confirmed, Kept
    <2> QED BY <1>5, <2>3, <2>4 DEF Changed
  <1>6. ASSUME NEW t \in Tables, NEW k \in Keys, Steady(t)' PROVE RowTells(t, k)' /\ RowLatest(t, k)' /\ HandTells(t, k)'
    <2>1. RowTells(t, k) /\ RowLatest(t, k) /\ HandTells(t, k)
      BY <1>4, <1>6 DEF RowsTold
    <2>2. RowTells(t, k)'
      BY <1>3, <1>5, <1>6, <2>1 DEF RowTells
    <2>3. ASSUME NEW n \in Blocks', chain'[n].key = k, t \in Writes(chain'[n].event),
                 \E j \in DOMAIN db'.deltas : db'.deltas[j] = chain'[n].id
          PROVE  db'.rows[<<t, k>>] >= chain'[n].id
      <3>1. Delivers(chain'[n].id)
        BY <1>3, <2>3 DEF Delivers
      <3>2. chain'[n].id < nextId /\ chain'[n].id \in Nat
        BY <1>1, <3>1, FedBelow
      <3>3. chain'[n] # NoLog
        <4>1. Writes("none") = {}
          BY WritesFacts DEF Changes
        <4> QED BY <2>3, <4>1 DEF NoLog
      <3>4. n \in 1..h
        BY <1>1, <1>2, <3>2, <3>3 DEF Kept
      <3>5. n \in Blocks /\ chain'[n] = chain[n]
        BY <1>2, <3>4 DEF Kept
      <3> QED BY <1>3, <2>1, <2>3, <3>1, <3>5 DEF RowLatest
    <2>4. RowLatest(t, k)'
      BY <2>3 DEF RowLatest, Delivers
    <2>5. HandTells(t, k)'
      <3>1. Current' = Current
        BY <1>3 DEF Current
      <3>2. ASSUME tick.at = "handling", Current.key = k
            PROVE  /\ WrittenBy(Current, tick.stmt, t) => db.rows[<<t, k>>] >= Current.id
                   /\ tick.stmt > 0 /\ t \in FromHead(Current.event) =>
                        tick.held >= Current.id /\ \E n \in Blocks' : Changed(n, t, k)' /\ tick.held = chain'[n].id
        BY <1>5, <1>6, <2>1, <3>2 DEF HandTells
      <3> QED BY <1>3, <3>1, <3>2 DEF HandTells, WrittenBy
    <2> QED BY <2>2, <2>4, <2>5
  <1> QED BY <1>6 DEF RowsTold

-----------------------------------------------------------------------------

\* Steps that leave the tables and the feed alone.
LEMMA ToldHand ==
  ASSUME RowsTold, chain' = chain, reorgs' = reorgs, db'.rows = db.rows, db'.deltas = db.deltas,
         \A t \in Tables, k \in Keys : Steady(t) => HandTells(t, k)'
  PROVE  RowsTold'
  <1>1. ASSUME NEW t \in Tables, NEW k \in Keys, Steady(t)' PROVE RowTells(t, k)' /\ RowLatest(t, k)' /\ HandTells(t, k)'
    <2>1. Steady(t)
      BY <1>1 DEF Steady
    <2>2. RowTells(t, k) /\ RowLatest(t, k)
      BY <2>1 DEF RowsTold
    <2>3. RowTells(t, k)'
      BY <2>2 DEF RowTells, Changed, Blocks
    <2>4. RowLatest(t, k)'
      BY <2>2 DEF RowLatest, Blocks, Delivers
    <2> QED BY <2>1, <2>3, <2>4
  <1> QED BY <1>1 DEF RowsTold

\* So do those that have no log in hand.
LEMMA ToldQuiet ==
  ASSUME RowsTold, chain' = chain, reorgs' = reorgs, db'.rows = db.rows, db'.deltas = db.deltas,
         tick'.at # "handling"
  PROVE  RowsTold'
  <1>1. \A t \in Tables, k \in Keys : HandTells(t, k)'
    BY DEF HandTells
  <1> QED BY <1>1, ToldHand

\* A log is taken in hand with nothing written.
LEMMA ToldMark ==
  ASSUME RowsTold, IndexerTypeOK, Mark
  PROVE  RowsTold'
  <1>1. db \in DbType /\ tick \in TickType
    BY DEF IndexerTypeOK
  <1>2. db'.rows = db.rows /\ db'.deltas = db.deltas /\ chain' = chain /\ reorgs' = reorgs
    BY <1>1 DEF Mark, Marked, DbType
  <1>3. /\ tick'.batch = tick.batch
        /\ (tick'.stmt = 1 /\ FromHead(Current.event) = {}) \/ tick'.stmt = 0
    BY <1>1 DEF Mark, TickType
  <1>4. Current' = Current
    BY <1>3 DEF Current
  <1>5. ASSUME NEW t \in Tables, NEW k \in Keys PROVE HandTells(t, k)'
    <2>1. ~WrittenBy(Current, tick'.stmt, t)
      <3>1. 1..tick'.stmt - 1 = {}
        BY <1>3
      <3> QED BY <3>1 DEF WrittenBy
    <2>2. ~(tick'.stmt > 0 /\ t \in FromHead(Current.event))
      BY <1>3
    <2> QED BY <1>4, <2>1, <2>2 DEF HandTells
  <1> QED BY <1>2, <1>5, ToldHand DEF RowsTold

\* What the head says is not older than the log in hand.
LEMMA ToldRead ==
  ASSUME MaxReorg <= Confirmations, CoverInv, restarts = 0, RowsTold, ReadHead
  PROVE  RowsTold'
  <1>1. db \in DbType /\ tick \in TickType /\ IndexerTypeOK /\ TickOK
    BY DEF CoverInv, FeedInv, IndexerTypeOK
  <1>2. Fetched /\ tick.batch # << >>
    BY <1>1 DEF ReadHead, Fetched, InHand, TickOK
  <1>3. PICK p \in Blocks : chain[p] = Current
    BY <1>2, CurrentPlace
  <1>4. PICK u \in FromHead(Current.event) : tick' = [tick EXCEPT !.stmt = 1, !.held = Truth(u, Current.key)]
    BY DEF ReadHead
  <1>5. tick'.batch = tick.batch /\ tick'.stmt = 1 /\ tick'.held = Truth(u, Current.key)
    BY <1>1, <1>4 DEF TickType
  <1>6. Current' = Current
    BY <1>5 DEF Current
  <1>7. db' = db /\ chain' = chain /\ reorgs' = reorgs /\ Blocks' = Blocks
    BY DEF ReadHead, Blocks
  <1>8. u \in HeadRows /\ u \in Changes(Current.event)
    BY WritesFacts
  <1>9. PICK n \in Blocks : /\ chain[n].key = Current.key /\ u \in Changes(chain[n].event) /\ chain[n].id = Truth(u, Current.key)
                            /\ \A m \in Blocks : chain[m].key = Current.key /\ u \in Changes(chain[m].event) =>
                                 chain[m].id <= Truth(u, Current.key)
    BY <1>1, <1>3, <1>8, TruthIsLast
  <1>10. Current.id <= Truth(u, Current.key) /\ Current.id \in Nat /\ Truth(u, Current.key) \in Nat
    BY <1>1, <1>2, <1>3, <1>8, <1>9, TruthNat, BatchFacts DEF Block
  <1>11. ASSUME NEW t \in Tables, NEW k \in Keys, Steady(t) PROVE HandTells(t, k)'
    <2>1. ~WrittenBy(Current, 1, t)
      <3>1. 1..1 - 1 = {}
        OBVIOUS
      <3> QED BY <3>1 DEF WrittenBy
    <2>2. ASSUME Current.key = k, t \in FromHead(Current.event)
          PROVE  tick'.held >= Current.id /\ \E m \in Blocks : Changed(m, t, k) /\ tick'.held = chain[m].id
      <3>1. t = u
        BY <2>2, WritesFacts
      <3>2. Changed(n, t, k)
        BY <1>8, <1>9, <2>2, <3>1 DEF Changed
      <3> QED BY <1>5, <1>9, <1>10, <3>2
    <2>3. \A m : Changed(m, t, k)' <=> Changed(m, t, k)
      BY <1>7 DEF Changed
    <2> QED BY <1>5, <1>6, <1>7, <2>1, <2>2, <2>3 DEF HandTells, WrittenBy
  <1> QED BY <1>7, <1>11, ToldHand

\* A statement writes what a log of the chain says that is not older than the one in hand.
LEMMA RowWritten ==
  ASSUME MaxReorg <= Confirmations, CoverInv, Formed(chain), restarts = 0, interrupted = {}, RowsTold,
         tick.at = "handling", tick.stmt \in DOMAIN Statements(Current.event),
         NEW t \in Statements(Current.event)[tick.stmt], Current.key \in Keys, Steady(t)
  PROVE  \E n \in Blocks : /\ Changed(n, t, Current.key) /\ RowAfter(Current, t, tick.held) = chain[n].id
                           /\ chain[n].id >= Current.id
  <1>1. /\ db \in DbType /\ tick \in TickType /\ IndexerTypeOK /\ TickOK /\ chain \in Seq(Block) /\ Blocks = 1..Len(chain)
        /\ Len(chain) \in Nat /\ WellFormed(chain)
    BY FeedScene DEF CoverInv, FeedInv, IndexerTypeOK, Blocks
  <1>2. Fetched /\ tick.batch # << >>
    BY <1>1 DEF Fetched, InHand, TickOK
  <1>3. PICK p \in Blocks : /\ chain[p] = Current /\ Confirmed(p, Len(chain), reorgs)
                            /\ \A m \in 1..p - 1 : Handled(chain[m], db.deltas, interrupted)
    BY <1>2, CurrentPlace
  <1>4. PICK k, e, row : k = Current.key /\ e = Current.event /\ row = db.rows[<<t, k>>]
    OBVIOUS
  <1>5. t \in Writes(e) /\ t \in Changes(e) /\ t \in Tables
    BY <1>4, WritesFacts
  <1>6. RowTells(t, k) /\ RowLatest(t, k) /\ HandTells(t, k)
    BY <1>4, <1>5 DEF RowsTold
  <1>7. Changed(p, t, k) /\ Current.id \in Nat
    BY <1>1, <1>2, <1>3, <1>4, <1>5, BatchFacts DEF Changed, Block
  <1>8. CASE e = "CharacterCreated" /\ t = "stones" /\ row # NoRow
    <2>0. t \notin FromHead(e) /\ e # "RFQClosed"
      BY <1>8 DEF FromHead
    <2>1. RowAfter(Current, t, tick.held) = row
      BY <1>4, <1>8, <2>0 DEF RowAfter
    <2>2. PICK n \in Blocks : Changed(n, t, k) /\ row = chain[n].id
      BY <1>4, <1>6, <1>8 DEF RowTells
    <2>3. PICK m \in 1..n : chain[m].event = "CharacterCreated" /\ chain[m].key = k
      BY <1>1, <1>8, <2>2 DEF Formed, Changed
    <2>4. m \in 1..Len(chain) /\ n \in 1..Len(chain)
      BY <1>1, <2>2, <2>3
    <2>5. m = p
      BY <1>1, <1>3, <1>4, <1>8, <2>3, <2>4 DEF Formed
    <2>6. chain[n].id >= chain[p].id
      <3>1. CASE n = p
        BY <1>1, <1>3, <1>7, <3>1
      <3>2. CASE n # p
        <4>1. p < n
          BY <1>1, <2>3, <2>4, <2>5, <3>2
        <4>0. NoLog.event = "none" /\ t \notin Changes("none") /\ t \in Changes(chain[n].event)
          BY <2>2 DEF NoLog, Changed, Changes
        <4>2. chain[n] # NoLog /\ chain[p] # NoLog
          BY <1>3, <1>4, <1>8, <4>0
        <4>3. chain[p].id < chain[n].id
          BY <1>1, <2>4, <2>5, <4>1, <4>2 DEF WellFormed
        <4>4. chain[p].id \in Nat /\ chain[n].id \in Nat
          BY <1>1, <2>4, <2>5, IdNat
        <4> QED BY <4>3, <4>4
      <3> QED BY <3>1, <3>2
    <2> QED BY <1>3, <1>4, <2>1, <2>2, <2>6
  <1>9. ~(e = "RFQClosed" /\ row = NoRow)
    <2> SUFFICES ASSUME e = "RFQClosed", row = NoRow PROVE FALSE
      OBVIOUS
    <2>1. PICK m \in 1..p - 1 : chain[m].event = "RFQCreated" /\ chain[m].key = k
      BY <1>1, <1>3, <1>4 DEF Formed
    <2>2. m \in Blocks /\ m \in 1..Len(chain)
      BY <1>1, <2>1
    <2>3. Writes("RFQCreated") = {"rfqs"} /\ Writes("RFQClosed") = {"rfqs"} /\ HasDelta("RFQCreated")
      BY WritesFacts DEF HasDelta
    <2>4. chain[m] # NoLog
      BY <2>1 DEF NoLog
    <2>5. Delivers(chain[m].id)
      BY <1>3, <2>1, <2>3, <2>4 DEF Handled, Delivers
    <2>6. row >= chain[m].id
      BY <1>4, <1>5, <1>6, <2>1, <2>2, <2>3, <2>5 DEF RowLatest
    <2>7. chain[m].id > 0 /\ chain[m].id \in Nat
      BY <1>1, <2>2, <2>4, IdNat DEF Formed
    <2> QED BY <2>6, <2>7 DEF NoRow
  <1>10. CASE t \in FromHead(e)
    <2>1. ~(e = "CharacterCreated" /\ t = "stones")
      BY <1>10 DEF FromHead
    <2>2. RowAfter(Current, t, tick.held) = tick.held
      BY <1>4, <1>9, <1>10, <2>1 DEF RowAfter
    <2>3. tick.stmt > 0
      BY <1>4, WritesFacts
    <2> QED BY <1>4, <1>6, <1>10, <2>2, <2>3 DEF HandTells
  <1>11. CASE t \notin FromHead(e) /\ ~(e = "CharacterCreated" /\ t = "stones" /\ row # NoRow)
    <2>1. RowAfter(Current, t, tick.held) = Current.id
      BY <1>4, <1>9, <1>11 DEF RowAfter
    <2> QED BY <1>3, <1>4, <1>7, <2>1
  <1> QED BY <1>8, <1>10, <1>11

\* A statement that is done leaves rows that can be relied on.
LEMMA ToldWrote ==
  ASSUME MaxReorg <= Confirmations, CoverInv, Formed(chain), LastIsHighest(db.deltas), restarts = 0, interrupted = {},
         RowsTold, Writing, db' = Wrote(db), chain' = chain, reorgs' = reorgs,
         tick' = [tick EXCEPT !.stmt = @ + 1] \/ tick' = [tick EXCEPT !.at = "unmarking"]
  PROVE  RowsTold'
  <1>1. /\ db \in DbType /\ tick \in TickType /\ IndexerTypeOK /\ TickOK /\ FeedInv
        /\ chain \in Seq(Block) /\ Blocks = 1..Len(chain)
    BY FeedScene DEF CoverInv, FeedInv, IndexerTypeOK, Blocks
  <1>2. tick.at = "handling" /\ InHand /\ tick.batch # << >>
    BY <1>1 DEF Writing, InHand, TickOK
  <1>3. PICK S, s, h : S = Statements(Current.event) /\ s = tick.stmt /\ h = tick.held
    OBVIOUS
  <1>4. S \in Seq(SUBSET Tables) /\ s \in 1..Len(S) /\ s \in DOMAIN S /\ s \in Nat /\ DOMAIN S = 1..Len(S)
    BY <1>3, WritesFacts DEF Writing
  <1>5. Current.id \in Nat /\ LastOf(db.deltas) <= Current.id /\ LastOf(db.deltas) \in Nat
    BY <1>1, <1>2, HandFed, FeedScene
  <1>6. db'.deltas = db.deltas /\ db'.rows = Wrote(db).rows
    BY <1>1, <1>2, WroteOK DEF DbType
  <1>7. ASSUME NEW t \in Tables, NEW k \in Keys
        PROVE  db'.rows[<<t, k>>] = IF k = Current.key /\ t \in S[s] THEN RowAfter(Current, t, h) ELSE db.rows[<<t, k>>]
    <2>1. PICK W : W = [r \in Tables \X Keys |-> IF r[2] = Current.key /\ r[1] \in S[s] THEN RowAfter(Current, r[1], h)
                                                ELSE db.rows[r]]
      OBVIOUS
    <2>2. Wrote(db) = [db EXCEPT !.rows = W]
      BY <1>3, <2>1 DEF Wrote
    <2>3. Wrote(db).rows = W
      BY <1>1, <2>2 DEF DbType
    <2>4. <<t, k>> \in Tables \X Keys /\ <<t, k>>[1] = t /\ <<t, k>>[2] = k
      OBVIOUS
    <2> QED BY <1>6, <2>1, <2>3, <2>4
  <1>8. ASSUME NEW t \in S[s], Current.key \in Keys, Steady(t)
        PROVE  \E n \in Blocks : /\ Changed(n, t, Current.key) /\ RowAfter(Current, t, h) = chain[n].id
                                 /\ chain[n].id >= Current.id
    BY <1>2, <1>3, <1>4, <1>8, RowWritten
  <1>9. tick'.at = "handling" => tick'.stmt = s + 1 /\ tick'.held = h
    BY <1>1, <1>3 DEF TickType
  <1>10. tick'.batch = tick.batch /\ Current' = Current
    <2>1. tick'.batch = tick.batch
      BY <1>1 DEF TickType
    <2> QED BY <2>1 DEF Current
  <1>11. \A m, t, k : Changed(m, t, k)' <=> Changed(m, t, k)
    BY DEF Changed
  <1>12. ASSUME NEW t \in Tables, NEW k \in Keys, Steady(t)' PROVE RowTells(t, k)' /\ RowLatest(t, k)' /\ HandTells(t, k)'
    <2>1. Steady(t)
      BY <1>12 DEF Steady
    <2>2. RowTells(t, k) /\ RowLatest(t, k) /\ HandTells(t, k)
      BY <2>1 DEF RowsTold
    <2>3. PICK old, new : old = db.rows[<<t, k>>] /\ new = db'.rows[<<t, k>>]
      OBVIOUS
    <2>4. \/ k = Current.key /\ t \in S[s] /\ \E n \in Blocks : Changed(n, t, k) /\ new = chain[n].id /\ new >= Current.id
          \/ new = old /\ ~(k = Current.key /\ t \in S[s])
      BY <1>7, <1>8, <2>1, <2>3
    <2>5. RowTells(t, k)'
      BY <1>11, <2>2, <2>3, <2>4 DEF RowTells, Blocks
    <2>6. ASSUME NEW n \in Blocks, chain[n].key = k, t \in Writes(chain[n].event), Delivers(chain[n].id)
          PROVE  new >= chain[n].id
      <3>1. chain[n].id <= LastOf(db.deltas) /\ chain[n].id \in Nat
        BY <1>1, <2>6, FedBelow
      <3>2. CASE new = old
        BY <2>2, <2>3, <2>6, <3>2 DEF RowLatest
      <3>3. ASSUME NEW m \in Blocks, new = chain[m].id, new >= Current.id PROVE new >= chain[n].id
        <4>1. chain[m].id \in Nat
          BY <1>1, IdNat
        <4> QED BY <1>5, <3>1, <3>3, <4>1
      <3> QED BY <2>4, <3>2, <3>3
    <2>7. RowLatest(t, k)'
      <3>1. \A n \in Blocks : Delivers(chain[n].id)' <=> Delivers(chain[n].id)
        BY <1>6 DEF Delivers
      <3> QED BY <2>3, <2>6, <3>1 DEF RowLatest, Blocks
    <2>8. ASSUME tick'.at = "handling", Current.key = k
          PROVE  /\ WrittenBy(Current, s + 1, t) => new >= Current.id
                 /\ t \in FromHead(Current.event) => h >= Current.id /\ \E n \in Blocks : Changed(n, t, k) /\ h = chain[n].id
      <3>1. ASSUME NEW i \in 1..s, i \in DOMAIN S, t \in S[i], t \notin S[s] PROVE new >= Current.id
        <4>1. new = old
          BY <2>4, <3>1
        <4>2. i \in 1..s - 1
          BY <1>4, <3>1
        <4>3. WrittenBy(Current, tick.stmt, t)
          BY <1>3, <3>1, <4>2 DEF WrittenBy
        <4> QED BY <1>2, <2>2, <2>3, <2>8, <4>1, <4>3 DEF HandTells
      <3>2. WrittenBy(Current, s + 1, t) => \E i \in 1..s : i \in DOMAIN S /\ t \in S[i]
        <4>1. PICK q : q = s + 1
          OBVIOUS
        <4>2. 1..q - 1 = 1..s
          BY <1>4, <4>1
        <4> QED BY <1>3, <4>1, <4>2 DEF WrittenBy
      <3>3. WrittenBy(Current, s + 1, t) => new >= Current.id
        BY <2>4, <2>8, <3>1, <3>2
      <3>4. tick.stmt > 0
        BY <1>3, <1>4
      <3> QED BY <1>2, <1>3, <2>2, <2>8, <3>3, <3>4 DEF HandTells
    <2>9. HandTells(t, k)'
      <3>1. ASSUME tick'.at = "handling", Current.key = k
            PROVE  /\ WrittenBy(Current, tick'.stmt, t) => new >= Current.id
                   /\ tick'.stmt > 0 /\ t \in FromHead(Current.event) =>
                        tick'.held >= Current.id /\ \E n \in Blocks : Changed(n, t, k) /\ tick'.held = chain[n].id
        BY <1>9, <2>8, <3>1
      <3>2. Blocks' = Blocks
        BY DEF Blocks
      <3> QED BY <1>10, <1>11, <2>3, <3>1, <3>2 DEF HandTells, WrittenBy
    <2> QED BY <2>5, <2>7, <2>9
  <1> QED BY <1>12 DEF RowsTold

\* A log that is delivered has written all its rows.
LEMMA ToldDelivered ==
  ASSUME MaxReorg <= Confirmations, CoverInv, restarts = 0, RowsTold, Ending, db' = Delivered(db), chain' = chain,
         reorgs' = reorgs, tick'.at # "handling"
  PROVE  RowsTold'
  <1>1. /\ db \in DbType /\ tick \in TickType /\ IndexerTypeOK /\ TickOK /\ FeedInv /\ WellFormed(chain)
        /\ chain \in Seq(Block) /\ Blocks = 1..Len(chain) /\ db.deltas \in Seq(Nat)
    BY FeedScene DEF CoverInv, FeedInv, IndexerTypeOK, Blocks, DbType
  <1>2. tick.at = "handling" /\ InHand /\ Fetched /\ tick.batch # << >>
    BY <1>1 DEF Ending, InHand, Fetched, TickOK
  <1>3. PICK p \in Blocks : chain[p] = Current
    BY <1>2, CurrentPlace
  <1>4. chain[p] # NoLog
    BY <1>1, <1>2, <1>3, HandFed DEF Readable, NoLog
  <1>5. db'.rows = db.rows /\ (db'.deltas = db.deltas \/ db'.deltas = Append(db.deltas, Current.id))
    BY <1>1, <1>2, DeliveredFeed, DeliveredOK DEF DbType
  <1>6. ASSUME NEW i, Delivers(i)' PROVE Delivers(i) \/ i = Current.id
    <2>1. CASE db'.deltas = db.deltas
      BY <1>6, <2>1 DEF Delivers
    <2>2. CASE db'.deltas = Append(db.deltas, Current.id)
      <3>1. PICK d, j, e : d = db.deltas /\ j = Current.id /\ e = db'.deltas
        OBVIOUS
      <3>2. PICK n \in DOMAIN e : e[n] = i
        BY <1>6, <3>1 DEF Delivers
      <3>3. d \in Seq(Nat) /\ j \in Nat /\ e = Append(d, j)
        BY <1>1, <1>2, <2>2, <3>1, HandFed
      <3>4. (n \in DOMAIN d /\ e[n] = d[n]) \/ e[n] = j
        BY <3>2, <3>3
      <3> QED BY <3>1, <3>2, <3>4 DEF Delivers
    <2> QED BY <1>5, <2>1, <2>2
  <1>7. ASSUME NEW t \in Tables, NEW k \in Keys, Steady(t)' PROVE RowTells(t, k)' /\ RowLatest(t, k)' /\ HandTells(t, k)'
    <2>1. Steady(t)
      BY <1>7 DEF Steady
    <2>2. RowTells(t, k) /\ RowLatest(t, k) /\ HandTells(t, k)
      BY <2>1 DEF RowsTold
    <2>3. RowTells(t, k)'
      BY <1>5, <2>2 DEF RowTells, Changed, Blocks
    <2>4. ASSUME NEW n \in Blocks, chain[n].key = k, t \in Writes(chain[n].event),
                 Delivers(chain[n].id) \/ chain[n].id = Current.id
          PROVE  db.rows[<<t, k>>] >= chain[n].id
      <3>1. CASE Delivers(chain[n].id)
        BY <2>2, <2>4, <3>1 DEF RowLatest
      <3>2. CASE chain[n].id = Current.id
        <4>1. chain[n] # NoLog
          <5>1. Writes("none") = {}
            BY WritesFacts DEF Changes
          <5> QED BY <2>4, <5>1 DEF NoLog
        <4>2. n = p
          BY <1>1, <1>3, <1>4, <3>2, <4>1, SameLog
        <4>3. t \in Writes(Current.event) /\ Current.key = k
          BY <1>3, <2>4, <4>2
        <4>4. PICK S, s : S = Statements(Current.event) /\ s = tick.stmt
          OBVIOUS
        <4>5. S \in Seq(SUBSET Tables) /\ s \in Nat /\ s > Len(S)
          BY <1>1, <4>4, WritesFacts DEF Ending, TickType
        <4>6. PICK i \in DOMAIN S : t \in S[i]
          BY <4>3, <4>4 DEF Writes
        <4>7. i \in 1..s - 1
          BY <4>5
        <4>8. WrittenBy(Current, tick.stmt, t)
          BY <4>4, <4>6, <4>7 DEF WrittenBy
        <4> QED BY <1>2, <2>2, <3>2, <4>3, <4>8 DEF HandTells
      <3> QED BY <2>4, <3>1, <3>2
    <2>5. RowLatest(t, k)'
      <3>1. \A n \in Blocks : Delivers(chain[n].id)' => Delivers(chain[n].id) \/ chain[n].id = Current.id
        <4> SUFFICES ASSUME NEW n \in Blocks, \E j \in DOMAIN db'.deltas : db'.deltas[j] = chain[n].id
                     PROVE  Delivers(chain[n].id) \/ chain[n].id = Current.id
          BY DEF Delivers
        <4>1. PICK i : i = chain[n].id
          OBVIOUS
        <4>2. Delivers(i)'
          BY <4>1 DEF Delivers
        <4> QED BY <1>6, <4>1, <4>2
      <3> QED BY <1>5, <2>4, <3>1 DEF RowLatest, Blocks
    <2> QED BY <2>3, <2>5 DEF HandTells
  <1> QED BY <1>7 DEF RowsTold

-----------------------------------------------------------------------------

\* The tables are empty at first.
LEMMA MirrorInit == Init => MirrorInv
  <1> SUFFICES ASSUME Init PROVE MirrorInv
    OBVIOUS
  <1>1. CoverInv
    BY CoverInitInv
  <1>2. chain = << >> /\ db.deltas = << >> /\ db.rows = NoRows /\ tick.at = "sleeping"
    BY DEF Init, Asleep
  <1>3. Formed(chain)
    BY <1>2 DEF Formed
  <1>4. LastIsHighest(db.deltas)
    BY <1>2 DEF LastIsHighest
  <1>5. ASSUME NEW t \in Tables, NEW k \in Keys PROVE RowTells(t, k) /\ RowLatest(t, k) /\ HandTells(t, k)
    BY <1>2 DEF RowTells, RowLatest, HandTells, NoRows, Blocks
  <1> QED BY <1>1, <1>3, <1>4, <1>5 DEF MirrorInv, RowsTold

\* A step of the tick or a fault leaves rows that can be relied on.
LEMMA ToldTick ==
  ASSUME MaxReorg <= Confirmations, MirrorInv, restarts = 0, interrupted = {}, RowsTold,
         \/ TickStep \/ FetchFails \/ MarkFails \/ StatementFails \/ UnmarkFails
         \/ CheckpointFails \/ Crash
  PROVE  RowsTold'
  <1>1. /\ CoverInv /\ Formed(chain) /\ LastIsHighest(db.deltas) /\ db \in DbType /\ tick \in TickType /\ IndexerTypeOK /\ TickOK
    BY DEF MirrorInv, CoverInv, FeedInv, IndexerTypeOK
  <1>2. chain' = chain /\ reorgs' = reorgs
    BY DEF TickStep, BeginTick, Fetch, ShrinkChunk, BackOff, PassOver, Mark, ReadHead, WriteRows,
           InsertDelta, ForeignKeyFails, Unmark, Checkpoint, FetchFails, MarkFails, StatementFails,
           UnmarkFails, CheckpointFails, Crash, TickFails
  <1>3. ASSUME db'.rows = db.rows, db'.deltas = db.deltas, tick'.at # "handling" PROVE RowsTold'
    BY <1>2, <1>3, ToldQuiet
  <1>4. Asleep.at = "sleeping"
    BY DEF Asleep
  <1>5. CASE BeginTick
    <2>1. db' = db /\ tick.at = "sleeping" /\ (tick' = tick \/ tick'.at = "fetching")
      BY <1>1, <1>5, BeginCovered
    <2> QED BY <1>3, <2>1
  <1>6. CASE Fetch
    <2>1. tick'.at = "draining" /\ db' = db
      BY <1>1, <1>6 DEF Fetch, TickType
    <2> QED BY <1>3, <2>1
  <1>7. CASE ShrinkChunk \/ BackOff \/ PassOver
    <2>1. tick'.at = tick.at /\ tick.at # "handling" /\ db' = db
      BY <1>1, <1>7 DEF ShrinkChunk, BackOff, PassOver, TickType
    <2> QED BY <1>3, <2>1
  <1>8. CASE Mark
    BY <1>1, <1>8, ToldMark
  <1>9. CASE ReadHead
    BY <1>1, <1>9, ToldRead
  <1>10. CASE WriteRows
    BY <1>1, <1>2, <1>10, ToldWrote DEF WriteRows
  <1>11. CASE InsertDelta
    <2>1. tick'.at = "draining" /\ Ending /\ db' = Delivered(db)
      BY <1>1, <1>11 DEF InsertDelta, TickType
    <2> QED BY <1>1, <1>2, <2>1, ToldDelivered
  <1>12. CASE ForeignKeyFails
    <2>1. tick'.at = "unmarking" /\ db' = db
      BY <1>1, <1>12 DEF ForeignKeyFails, TickType
    <2> QED BY <1>3, <2>1
  <1>13. CASE Unmark
    <2>1. tick' = Asleep /\ db'.rows = db.rows /\ db'.deltas = db.deltas
      BY <1>1, <1>13 DEF Unmark, DbType
    <2> QED BY <1>3, <1>4, <2>1
  <1>14. CASE Checkpoint
    <2>1. db'.rows = db.rows /\ db'.deltas = db.deltas
      BY <1>1, <1>14 DEF Checkpoint, DbType
    <2>2. tick' = Asleep \/ tick' = [tick EXCEPT !.at = "fetching", !.from = tick.to + 1]
      BY <1>14 DEF Checkpoint
    <2>3. tick'.at # "handling"
      BY <1>1, <1>4, <2>2 DEF TickType
    <2> QED BY <1>3, <2>1, <2>3
  <1>15. CASE FetchFails \/ MarkFails \/ UnmarkFails \/ CheckpointFails \/ Crash
    <2>1. tick' = Asleep /\ (db' = db \/ db' = Marked(db))
      BY <1>15 DEF FetchFails, MarkFails, UnmarkFails, CheckpointFails, Crash, TickFails
    <2>2. db'.rows = db.rows /\ db'.deltas = db.deltas
      BY <1>1, <2>1 DEF Marked, DbType
    <2> QED BY <1>3, <1>4, <2>1, <2>2
  <1>16. CASE StatementFails
    <2>1. tick' = [tick EXCEPT !.at = "unmarking"]
      BY <1>16 DEF StatementFails
    <2>2. tick'.at = "unmarking"
      BY <1>1, <2>1 DEF TickType
    <2>3. CASE db' = db
      BY <1>3, <2>2, <2>3
    <2>4. CASE Writing /\ db' = Wrote(db)
      BY <1>1, <1>2, <2>1, <2>4, ToldWrote
    <2>5. CASE Ending /\ db' = Delivered(db)
      BY <1>1, <1>2, <2>2, <2>5, ToldDelivered
    <2> QED BY <1>16, <2>3, <2>4, <2>5 DEF StatementFails
  <1> QED BY <1>5, <1>6, <1>7, <1>8, <1>9, <1>10, <1>11, <1>12, <1>13, <1>14, <1>15, <1>16 DEF TickStep

\* Every step keeps the invariant.
LEMMA MirrorNext ==
  ASSUME MaxReorg <= Confirmations, MirrorInv, [Next]_vars
  PROVE  MirrorInv'
  <1>1. CoverInv /\ Formed(chain) /\ LastIsHighest(db.deltas) /\ IndexerTypeOK /\ restarts \in Nat
    BY DEF MirrorInv, CoverInv, FeedInv, IndexerTypeOK
  <1>2. CoverInv' /\ LastIsHighest(db'.deltas)
    BY <1>1, CoverNext, FeedSteps
  <1>3. Formed(chain')
    <2>1. CASE chain' = chain
      BY <1>1, <2>1
    <2>2. CASE \E e \in Events, k \in Keys : Mine(e, k)
      BY <1>1, <2>2, FormedMined
    <2>3. CASE MineEmpty \/ (\E d \in 1..MaxReorg : Reorganize(d)) \/ Restart
      BY <1>1, <2>3, FormedOthers
    <2> QED BY <2>1, <2>2, <2>3
      DEF Next, TickStep, BeginTick, Fetch, ShrinkChunk, BackOff, PassOver, Mark, ReadHead, WriteRows, InsertDelta, ForeignKeyFails,
          Unmark, Checkpoint, FetchFails, MarkFails, StatementFails, UnmarkFails, CheckpointFails, Crash, TickFails, vars
  <1>4. restarts' = restarts \/ (Restart /\ restarts' = restarts + 1)
    BY DEF Next, TickStep, BeginTick, Fetch, ShrinkChunk, BackOff, PassOver, Mark, ReadHead, WriteRows, InsertDelta, ForeignKeyFails,
           Unmark, Checkpoint, FetchFails, MarkFails, StatementFails, UnmarkFails, CheckpointFails, Crash, TickFails, vars,
           MineEmpty, Mine, Reorganize, Restart
  <1>5. interrupted \subseteq interrupted'
    BY DEF Next, TickStep, BeginTick, Fetch, ShrinkChunk, BackOff, PassOver, Mark, ReadHead, WriteRows, InsertDelta, ForeignKeyFails,
           Unmark, Checkpoint, FetchFails, MarkFails, StatementFails, UnmarkFails, CheckpointFails, Crash, TickFails, vars,
           MineEmpty, Mine, Reorganize, Restart
  <1>6. ASSUME restarts' = 0, interrupted' = {} PROVE RowsTold'
    <2>1. restarts = 0 /\ interrupted = {} /\ ~Restart
      BY <1>1, <1>4, <1>5, <1>6 DEF Restart
    <2>2. RowsTold
      BY <2>1 DEF MirrorInv
    <2>3. CASE UNCHANGED vars
      <3>1. chain' = chain /\ reorgs' = reorgs /\ db' = db /\ tick' = tick
        BY <2>3 DEF vars
      <3>2. ASSUME NEW t \in Tables, NEW k \in Keys, Steady(t) PROVE HandTells(t, k)'
        <4>1. HandTells(t, k)
          BY <2>2, <3>2 DEF RowsTold
        <4> QED BY <3>1, <4>1 DEF HandTells, Current, Changed, Blocks, WrittenBy
      <3> QED BY <2>2, <3>1, <3>2, ToldHand
    <2>4. CASE MineEmpty \/ (\E e \in Events, k \in Keys : Mine(e, k)) \/ (\E d \in 1..MaxReorg : Reorganize(d))
      BY <1>1, <1>2, <2>1, <2>2, <2>4, ToldChain
    <2>5. CASE \/ TickStep \/ FetchFails \/ MarkFails \/ StatementFails \/ UnmarkFails
               \/ CheckpointFails \/ Crash
      BY <2>1, <2>2, <2>5, ToldTick
    <2> QED BY <2>1, <2>3, <2>4, <2>5 DEF Next
  <1> QED BY <1>2, <1>3, <1>6 DEF MirrorInv

\* Every table says what the chain says, once the indexer has caught up with a quiet
\* chain: a row is that of a log, of none older than any delivered, and all that count
\* are delivered.
THEOREM RowsAlwaysMirror ==
  ASSUME MaxReorg <= Confirmations
  PROVE  Spec => []MirrorsChain
  <1>1. MirrorInv /\ [Next]_vars => MirrorInv'
    BY MirrorNext
  <1>2. MirrorInv => MirrorsChain
    <2> SUFFICES ASSUME MirrorInv, Settled, interrupted = {}, restarts = 0, NEW t \in Tables, NEW k \in Keys,
                        ~(t \in HeadRows /\ reorgs > 0)
                 PROVE  \/ Mirrored(t, k)
                        \/ t = "equipment" /\ \E n \in LogsOf(k) : /\ chain[n].event = "ItemUnequipped"
                                                                   /\ chain[n].id = Truth(t, k)
      BY DEF MirrorsChain
    <2>1. CoverInv /\ IndexerTypeOK /\ RowsTold /\ chain \in Seq(Block) /\ reorgs \in Nat /\ Blocks = 1..Len(chain) /\ Covered
      BY FeedScene DEF MirrorInv, CoverInv, FeedInv, IndexerTypeOK, Blocks
    <2>2. RowTells(t, k) /\ RowLatest(t, k)
      BY <2>1 DEF RowsTold, Steady
    <2>3. PICK row, v : row = db.rows[<<t, k>>] /\ v = Truth(t, k)
      OBVIOUS
    <2>4. CASE v = Nothing /\ \A n \in Blocks : ~(chain[n].key = k /\ t \in Changes(chain[n].event))
      <3>1. row = NoRow
        BY <2>2, <2>3, <2>4 DEF RowTells, Changed
      <3> QED BY <2>3, <2>4, <3>1 DEF Mirrored
    <2>5. ASSUME NEW n \in Blocks, chain[n].key = k, t \in Changes(chain[n].event), chain[n].id = v,
                 \A m \in Blocks : chain[m].key = k /\ t \in Changes(chain[m].event) => chain[m].id <= v
          PROVE  \/ Mirrored(t, k)
                 \/ t = "equipment" /\ \E m \in LogsOf(k) : chain[m].event = "ItemUnequipped" /\ chain[m].id = Truth(t, k)
      <3>1. chain[n] # NoLog /\ v \in Nat
        <4>1. NoLog.event = "none" /\ t \notin Changes("none")
          BY DEF NoLog, Changes
        <4> QED BY <2>1, <2>5, <4>1, IdNat
      <3>2. n \in 1..db.cursor
        <4>1. Len(chain) \in Nat /\ db.cursor \in Nat /\ db.cursor >= SafeHead /\ SafeHead \in Nat
          BY <2>1, CoverFacts, IndexerBounds DEF Settled, CaughtUp, SafeHead
        <4>2. n \notin SafeHead + 1..Len(chain)
          BY <3>1 DEF Settled
        <4> QED BY <2>1, <4>1, <4>2
      <3>3. Handled(chain[n], db.deltas, interrupted)
        BY <2>1, <3>2 DEF Covered
      <3>4. CASE t \in Writes(chain[n].event)
        <4>1. Delivers(chain[n].id)
          BY <3>1, <3>3, <3>4, WritesFacts DEF Handled, Delivers
        <4>2. row >= v
          BY <2>2, <2>3, <2>5, <3>4, <4>1 DEF RowLatest
        <4>3. row # NoRow
          BY <3>1, <4>2 DEF NoRow
        <4>4. PICK m \in Blocks : Changed(m, t, k) /\ row = chain[m].id
          BY <2>2, <2>3, <4>3 DEF RowTells
        <4>5. row <= v /\ row \in Nat
          BY <2>1, <2>5, <4>4, IdNat DEF Changed
        <4>6. row = v
          BY <3>1, <4>2, <4>5
        <4> QED BY <2>3, <4>6 DEF Mirrored
      <3>5. CASE t \notin Writes(chain[n].event)
        <4>1. chain[n].event = "ItemUnequipped" /\ t = "equipment" /\ n \in LogsOf(k)
          BY <2>5, <3>5, WritesFacts DEF LogsOf
        <4> QED BY <2>3, <2>5, <4>1
      <3> QED BY <3>4, <3>5
    <2> QED BY <2>1, <2>3, <2>4, <2>5, TruthIsLast
  <1> QED BY <1>1, <1>2, MirrorInit, PTL DEF Spec
=============================================================================
