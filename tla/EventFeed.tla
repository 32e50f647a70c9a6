----------------------------- MODULE EventFeed -----------------------------
(***************************************************************************)
(* What the indexer promises of compact_event_delta, the table behind the  *)
(* feed: events appear in the order of the chain and none comes back once  *)
(* a later one was written. The last one may be written again, when the    *)
(* answer to its insert was lost; the feed of a restarted development      *)
(* chain starts empty.                                                     *)
(***************************************************************************)
EXTENDS Naturals, Sequences

CONSTANT Event    \* events, numbered in the order of the chain

VARIABLE feed

FeedInit == feed = << >>

\* The feed grows by the event e.
Grows(e) == feed' = Append(feed, e)
Newest   == feed'[Len(feed')]

Deliver ==
  /\ Newest \in Event
  /\ feed # << >> => feed[Len(feed)] < Newest
  /\ Grows(Newest)

Redeliver == feed # << >> /\ Grows(feed[Len(feed)])

Clear == feed' = << >>

FeedNext == Clear \/ Redeliver \/ (feed' # << >> /\ Deliver)

FeedSpec == FeedInit /\ [][FeedNext]_feed
=============================================================================
