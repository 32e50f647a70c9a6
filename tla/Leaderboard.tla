----------------------------- MODULE Leaderboard -----------------------------
(***************************************************************************)
(* The leaderboards that agent-api/read-model.ts pages out of the mirrored *)
(* tables: a page is one query and the next one starts after the last row  *)
(* shown, while the indexer goes on writing levels. The list of an epoch   *)
(* reads the epoch's row first. Names, percentages and the identities that *)
(* are joined to the rows are left out.                                    *)
(***************************************************************************)
EXTENDS Naturals, Sequences, FiniteSets, SequencesExt

CONSTANTS
  Ranked,       \* characters, numbered as they are created
  TopLevel,     \* bound: levels
  PageSize      \* limit

ASSUME LeaderboardAssumption ==
  Ranked \subseteq Nat /\ IsFiniteSet(Ranked) /\ {TopLevel, PageSize} \subseteq Nat \ {0}

VARIABLES
  level,    \* character_level_state: of each character its best level, 0 without a row
  raised,   \* and whether it was reached after the epoch that is listed
  ended,    \* leaderboard_epoch_state: the cutoff of that epoch, 0 while there is no row
  reading   \* what one reader has been shown

boardVars == << level, raised, ended, reading >>

NotReading == [pc |-> "idle", epochMode |-> FALSE, after |-> << >>, cutoff |-> 0, shown |-> << >>, first |-> << >>]

BoardInit ==
  /\ level = [c \in Ranked |-> 0] /\ raised = [c \in Ranked |-> FALSE]
  /\ ended = 0
  /\ reading = NotReading

Rows == {c \in Ranked : level[c] > 0}

-----------------------------------------------------------------------------
(* What the indexer does to the tables                                     *)

LevelRow(c, l, late) ==
  /\ l > level[c] /\ \A d \in Ranked : d < c => level[d] > 0
  /\ (ended # 0 \/ raised[c]) => late
  /\ level' = [level EXCEPT ![c] = l]
  /\ raised' = [raised EXCEPT ![c] = late]
  /\ UNCHANGED << ended, reading >>

EpochRow(cutoff) ==
  /\ ended = 0 /\ ended' = cutoff
  /\ UNCHANGED << level, raised, reading >>

\* A list that the tables were emptied under is not followed any further.
TablesCleared ==
  /\ level' = [c \in Ranked |-> 0] /\ raised' = [c \in Ranked |-> FALSE] /\ ended' = 0
  /\ reading' = NotReading

-----------------------------------------------------------------------------
(* The queries. A key is << level, character >>.                           *)

Key(c) == << level[c], c >>

\* ORDER BY best_level DESC, character_id ASC
Before(k, m) == k[1] > m[1] \/ (k[1] = m[1] /\ k[2] < m[2])
Rank(c) == 1 + Cardinality({d \in Rows : Before(Key(d), Key(c))})

\* The page is what comes first of what is left.
InOrder(page, left) ==
  /\ \A i, k \in DOMAIN page : i < k => Before(Key(page[i]), Key(page[k]))
  /\ \A c \in left, i \in DOMAIN page : Before(Key(c), Key(page[i])) => \E k \in DOMAIN page : page[k] = c

\* Seeded fault: the cursor does without the character.
AfterLevel(after, k)    == after = << >> \/ k[1] < after[1]
AfterCursor(after, k)   == after = << >> \/ Before(after, k)

Eligible(c, cutoff) == cutoff # 0 /\ level[c] >= cutoff /\ ~raised[c]
Shown(c, cutoff) == [id |-> c, level |-> level[c], rank |-> Rank(c), eligible |-> Eligible(c, cutoff)]

\* getLiveLeaderboard, and getEpochLeaderboard after it has read the epoch.
Page ==
  LET left == {c \in Rows : AfterCursor(reading.after, Key(c))}
      more == Cardinality(left) > PageSize
  IN  /\ reading.pc = "rows"
      /\ \E page \in [1..(IF more THEN PageSize ELSE Cardinality(left)) -> left] :
           /\ InOrder(page, left)
           /\ reading' = [reading EXCEPT
                !.shown = @ \o [i \in DOMAIN page |-> Shown(page[i], reading.cutoff)],
                !.first = IF @ = << >> THEN level ELSE @,
                !.after = IF more THEN Key(Last(page)) ELSE << >>,
                !.pc    = IF more THEN "more" ELSE "done"]
      /\ UNCHANGED << level, raised, ended >>

ReadEpoch ==
  /\ reading.pc = "epoch"
  /\ reading' = [reading EXCEPT !.cutoff = ended, !.pc = IF ended = 0 THEN "none" ELSE "rows"]
  /\ UNCHANGED << level, raised, ended >>

\* GET /leaderboard, and again with nextCursor.
Ask(epochMode) ==
  /\ \/ reading.pc = "idle"
     \/ reading.pc = "more" /\ reading.epochMode = epochMode
  /\ reading' = [reading EXCEPT !.pc = IF epochMode THEN "epoch" ELSE "rows", !.epochMode = epochMode]
  /\ UNCHANGED << level, raised, ended >>

StopReading ==
  /\ reading.pc # "idle" /\ reading' = NotReading
  /\ UNCHANGED << level, raised, ended >>

BoardNext ==
  \/ \E c \in Ranked, l \in 1..TopLevel, late \in BOOLEAN : LevelRow(c, l, late)
  \/ \E cutoff \in 1..TopLevel : EpochRow(cutoff)
  \/ TablesCleared
  \/ \E epochMode \in BOOLEAN : Ask(epochMode)
  \/ ReadEpoch \/ Page \/ StopReading

BoardSpec == BoardInit /\ [][BoardNext]_boardVars

-----------------------------------------------------------------------------
(* Properties *)

\* Levels rise while the pages are turned, and yet the list reads as if it were one: nobody is on it twice,
\* ranks go up along it, and at its end whoever has kept the level of the first page is on it, even where
\* many share a level. Who is shown as eligible is so by the epoch's row, which is read before the
\* characters are.
ListReadsAsOne ==
  /\ \A i \in DOMAIN reading.shown : reading.shown[i].eligible => reading.shown[i].level >= ended /\ ended # 0
  /\ \A i, k \in DOMAIN reading.shown : i < k =>
       /\ reading.shown[i].id # reading.shown[k].id
       /\ reading.shown[i].rank < reading.shown[k].rank
  /\ reading.pc = "done" =>
       \A c \in Rows : level[c] = reading.first[c] =>
         \E i \in DOMAIN reading.shown : reading.shown[i].id = c
=============================================================================
