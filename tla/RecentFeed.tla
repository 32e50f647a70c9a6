------------------------------ MODULE RecentFeed ------------------------------
(***************************************************************************)
(* The live feed of the page (front/src/hooks/useFeed.ts) and the query    *)
(* behind it (GET /feed/recent, getRecentStateDeltas): every three seconds *)
(* the page asks for the newest rows above the last block it knows, less a *)
(* lookback, and merges what comes back. Polls overlap, fail, and are      *)
(* answered in any order, while the indexer appends rows, in the order of  *)
(* the chain and now and then twice (EventFeed). A row stands for its key. *)
(***************************************************************************)
EXTENDS Integers, Sequences, FiniteSets, SequencesExt, FiniteSetsExt

CONSTANTS
  Polls,         \* polls under way at once
  LookbackBlocks,\* lookbackBlocks, 2
  Limit,         \* rows of an answer, 60
  Capacity,      \* rows of the page, 80
  LastBlock,     \* bound: blocks
  LastIndex,     \* bound: rows of a block
  MaxRows,       \* bound: rows
  MaxRestarts    \* bound: restarts of the chain

ASSUME RecentFeedAssumption ==
  /\ {LookbackBlocks, Limit, LastBlock, LastIndex, MaxRows, MaxRestarts} \subseteq Nat
  /\ LookbackBlocks > 0 /\ Limit > 0 /\ Capacity \in Nat /\ Capacity >= Limit

VARIABLES
  rows,      \* compact_event_delta, in the order of insertion
  poll,      \* the polls of the page
  entries,   \* the keys shown
  latest,    \* latestBlock
  known,      \* history: rows there were at the latest of the queries that the page has the answer of
  restarts   \* of the chain, and the one that the page was last loaded after

feedVars == << rows, poll, entries, latest, known, restarts >>

NoPoll == [pc |-> "idle", since |-> 0, page |-> {}, seen |-> 0]

RecentFeedInit ==
  /\ rows = << >> /\ poll = [p \in Polls |-> NoPoll]
  /\ entries = {} /\ latest = 0 /\ known = 0
  /\ restarts = [chain |-> 0, page |-> 0]

\* A key is << block, log index >>.
Older(k, m) == k[1] < m[1] \/ (k[1] = m[1] /\ k[2] < m[2])
Newest(s, n) == {k \in s : Cardinality({m \in s : Older(k, m)}) < n}

-----------------------------------------------------------------------------
(* The table *)

AppendRow(k) ==
  /\ Len(rows) < MaxRows
  /\ rows # << >> => ~Older(k, Last(rows))
  /\ rows' = Append(rows, k)
  /\ UNCHANGED << poll, entries, latest, known, restarts >>

EmptyTable ==
  /\ restarts.chain < MaxRestarts /\ restarts' = [restarts EXCEPT !.chain = @ + 1]
  /\ rows' = << >>
  /\ UNCHANGED << poll, entries, latest, known >>

-----------------------------------------------------------------------------
(* A poll *)

\* Seeded fault: the last block that is known is left out.
SinceLatest   == latest
SinceLookback == IF latest > 0 THEN Max({0, latest - LookbackBlocks}) ELSE 0

SendPoll(p) ==
  /\ poll[p].pc = "idle"
  /\ poll' = [poll EXCEPT ![p].pc = "sent", ![p].since = SinceLookback]
  /\ UNCHANGED << rows, entries, latest, known, restarts >>

\* ORDER BY block_number DESC, log_index DESC LIMIT: of the rows, though two may have one key.
RecentRows(since) ==
  LET above == {i \in DOMAIN rows : rows[i][1] > since}
  IN  {rows[i] : i \in {i \in above : Cardinality({j \in above : j > i}) < Limit}}

RunQuery(p) ==
  /\ poll[p].pc = "sent"
  /\ poll' = [poll EXCEPT ![p].pc = "answered", ![p].page = RecentRows(poll[p].since), ![p].seen = Len(rows)]
  /\ UNCHANGED << rows, entries, latest, known, restarts >>

MergeEntries(page) == Newest(entries \cup page, Capacity)

MergeAnswer(p) ==
  /\ poll[p].pc = "answered"
  /\ entries' = MergeEntries(poll[p].page)
  /\ latest' = Max({latest} \cup {k[1] : k \in entries'} \cup {k[1] : k \in poll[p].page})
  /\ known' = Max({known, poll[p].seen})
  /\ poll' = [poll EXCEPT ![p] = NoPoll]
  /\ UNCHANGED << rows, restarts >>

PollFails(p) ==
  /\ poll[p].pc # "idle" /\ poll' = [poll EXCEPT ![p] = NoPoll]
  /\ UNCHANGED << rows, entries, latest, known, restarts >>

LoadPage ==
  /\ poll' = [p \in Polls |-> NoPoll] /\ entries' = {} /\ latest' = 0 /\ known' = 0
  /\ restarts' = [restarts EXCEPT !.page = restarts.chain]
  /\ UNCHANGED rows

RecentFeedNext ==
  \/ \E k \in (1..LastBlock) \X (0..LastIndex) : AppendRow(k)
  \/ EmptyTable \/ LoadPage
  \/ \E p \in Polls : SendPoll(p) \/ RunQuery(p) \/ MergeAnswer(p) \/ PollFails(p)

RecentFeedSpec == RecentFeedInit /\ [][RecentFeedNext]_feedVars

-----------------------------------------------------------------------------
(* Properties *)

\* Of the rows that the latest query could see, the page shows as many of the newest as an answer holds: a
\* row that is written late into a block, an answer that is overtaken by another or lost, a row written
\* twice, none of them leaves a gap there. It takes loading the page again when the chain was started anew.
FeedHasNoGap ==
  restarts.page = restarts.chain =>
    \A i \in 1..known : i > known - Limit => rows[i] \in entries
=============================================================================
