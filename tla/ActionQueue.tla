---------------------------- MODULE ActionQueue ----------------------------
(***************************************************************************)
(* The middleware's action queue: the table action_submissions             *)
(* (repository.ts) and the loops of ActionWorker (worker.ts) that claim a  *)
(* row, execute it on the chain through the engine and record the outcome. *)
(*                                                                         *)
(* claimNext is one SQL statement, but not one step: it chooses on the     *)
(* snapshot it started with, locks a row nobody holds (SKIP LOCKED), reads *)
(* that row again, and its update is visible to others only when it        *)
(* commits. created_at is the time an insert started, so inserts may       *)
(* become visible out of that order.                                       *)
(*                                                                         *)
(* Actions are numbered by created_at. The loops run in one process: an    *)
(* error outside execute's try block, such as a failed claim, rejects the  *)
(* loops' promise and ends the process; nothing picks up the rows it ran.  *)
(***************************************************************************)
EXTENDS Integers, FiniteSets

CONSTANTS
  Workers,         \* ACTION_WORKER_CONCURRENCY loops
  Actions,         \* action ids, in the order of created_at
  ConflictKey,     \* by action, from deriveConflictKey
  NoKey,           \* conflict_key IS NULL
  RetryMax,        \* ACTION_RETRY_MAX
  MaxCrashes       \* bound: crashes of the process

ASSUME QueueAssumption ==
  /\ Actions \subseteq Nat
  /\ DOMAIN ConflictKey = Actions
  /\ RetryMax \in Nat \ {0}
  /\ MaxCrashes \in Nat

VARIABLES
  status,    \* by action, as committed in the table
  attempts,  \* by action
  late,      \* by action: transactions nobody waits for any more
  effects,   \* history, by action: times it took effect on the chain
  loop,      \* by worker: where its loop is, the row it holds, its snapshot
  crashes

queueVars == << status, attempts, late, effects, loop, crashes >>

Claimable == {"queued", "retry"}
Ended     == {"succeeded", "failed"}
Status    == {"absent", "running"} \cup Claimable \cup Ended
Points    == {"idle", "claiming", "locked", "executing", "sent", "answered", "retryable", "fatal"}

NoAction == -1
Idle     == [at |-> "idle", action |-> NoAction, seen |-> << >>]

QueueInit ==
  /\ status   = [a \in Actions |-> "absent"]
  /\ attempts = [a \in Actions |-> 0]
  /\ late     = [a \in Actions |-> 0]
  /\ effects  = [a \in Actions |-> 0]
  /\ loop     = [w \in Workers |-> Idle]
  /\ crashes  = 0

-----------------------------------------------------------------------------

Goes(w, at) == loop' = [loop EXCEPT ![w].at = at]
Rests(w)    == loop' = [loop EXCEPT ![w] = Idle]

\* enqueue. The same (signer, idempotency key) again finds its row and changes
\* nothing, so each action is inserted once.
Enqueue(a) ==
  /\ status[a] = "absent"
  /\ status' = [status EXCEPT ![a] = "queued"]
  /\ UNCHANGED << attempts, late, effects, loop, crashes >>

\* claimNext starts: it sees the table as committed now.
TakeSnapshot(w) ==
  /\ loop[w].at = "idle"
  /\ loop' = [loop EXCEPT ![w] = [at |-> "claiming", action |-> NoAction, seen |-> status]]
  /\ UNCHANGED << status, attempts, late, effects, crashes >>

SameKey(a, b) == ConflictKey[a] # NoKey /\ ConflictKey[a] = ConflictKey[b]

\* The WHERE clause, on the snapshot. Seeded fault: only fresh rows are claimed.
EligibleFresh(seen, a) ==
  /\ seen[a] = "queued"
  /\ ~\E b \in Actions : SameKey(a, b) /\ seen[b] = "running"
  /\ ~\E b \in Actions : SameKey(a, b) /\ seen[b] \in Claimable /\ b < a
Eligible(seen, a) ==
  /\ seen[a] \in Claimable
  /\ ~\E b \in Actions : SameKey(a, b) /\ seen[b] = "running"
  /\ ~\E b \in Actions : SameKey(a, b) /\ seen[b] \in Claimable /\ b < a

\* FOR UPDATE SKIP LOCKED passes over a locked row, and over one whose status
\* has changed since the snapshot. Seeded fault: a plain SELECT of the row.
LockableAlways(a) == TRUE
Lockable(a) ==
  /\ status[a] \in Claimable
  /\ \A w \in Workers : ~(loop[w].at = "locked" /\ loop[w].action = a)

Candidates(seen) == {a \in Actions : Eligible(seen, a) /\ Lockable(a)}

LockCandidate(w) ==
  LET found == Candidates(loop[w].seen) IN
  /\ loop[w].at = "claiming"
  /\ \/ found = {} /\ Rests(w)
     \/ \E a \in found :
          /\ \A b \in found : a <= b
          /\ loop' = [loop EXCEPT ![w] = [at |-> "locked", action |-> a, seen |-> << >>]]
  /\ UNCHANGED << status, attempts, late, effects, crashes >>

\* The claim's UPDATE commits.
CommitClaim(w) ==
  /\ loop[w].at = "locked"
  /\ status'   = [status EXCEPT ![loop[w].action] = "running"]
  /\ attempts' = [attempts EXCEPT ![loop[w].action] = @ + 1]
  /\ Goes(w, "executing")
  /\ UNCHANGED << late, effects, crashes >>

\* engine.execute sends the action's transaction and waits for its receipt. An
\* action of several transactions is represented by the one that does it.
SendTransaction(w) ==
  /\ loop[w].at = "executing"
  /\ Goes(w, "sent")
  /\ UNCHANGED << status, attempts, late, effects, crashes >>

TakeEffect(w) ==
  /\ loop[w].at = "sent"
  /\ effects' = [effects EXCEPT ![loop[w].action] = @ + 1]
  /\ Goes(w, "answered")
  /\ UNCHANGED << status, attempts, late, crashes >>

\* execute may also return without an effect: it finds nothing to do (a run
\* active already, no lootbox to open), or the transaction is mined and
\* reverts: the status of the receipt is not looked at.
NoEffect(w) ==
  /\ loop[w].at \in {"executing", "sent"}
  /\ Goes(w, "answered")
  /\ UNCHANGED << status, attempts, late, effects, crashes >>

\* Transactions of action a sent by loops of S that no longer wait for them.
LeftBehind(a, S) == Cardinality({w \in S : loop[w].at = "sent" /\ loop[w].action = a})

\* execute throws, before the transaction is sent, while waiting for it, or
\* after; normalizeError calls the error retryable or not.
ExecutionFails(w) ==
  /\ loop[w].at \in {"executing", "sent", "answered"}
  /\ Goes(w, "retryable") \/ Goes(w, "fatal")
  /\ late' = [a \in Actions |-> late[a] + LeftBehind(a, {w})]
  /\ UNCHANGED << status, attempts, effects, crashes >>

\* A transaction whose receipt was given up is mined after all.
TakeEffectLate(a) ==
  /\ late[a] > 0
  /\ late'    = [late EXCEPT ![a] = @ - 1]
  /\ effects' = [effects EXCEPT ![a] = @ + 1]
  /\ UNCHANGED << status, attempts, loop, crashes >>

\* Or it reverts, or is dropped.
LateWithoutEffect(a) ==
  /\ late[a] > 0
  /\ late' = [late EXCEPT ![a] = @ - 1]
  /\ UNCHANGED << status, attempts, effects, loop, crashes >>

\* execute returns. markSucceeded is inside the try block: when it throws, its
\* update may have been made or not, and the error is handled like execute's.
MarkSucceeded(w) ==
  /\ loop[w].at = "answered"
  /\ status' = [status EXCEPT ![loop[w].action] = "succeeded"]
  /\ Rests(w)
  /\ UNCHANGED << attempts, late, effects, crashes >>

MarkSucceededFails(w) ==
  /\ loop[w].at = "answered"
  /\ status' \in {status, [status EXCEPT ![loop[w].action] = "succeeded"]}
  /\ Goes(w, "retryable") \/ Goes(w, "fatal")
  /\ UNCHANGED << attempts, late, effects, crashes >>

\* The catch block.
MayRetry(a) == attempts[a] < RetryMax

MarkRetry(w) ==
  /\ loop[w].at = "retryable" /\ MayRetry(loop[w].action)
  /\ status' = [status EXCEPT ![loop[w].action] = "retry"]
  /\ Rests(w)
  /\ UNCHANGED << attempts, late, effects, crashes >>

MarkFailed(w) ==
  /\ \/ loop[w].at = "fatal"
     \/ loop[w].at = "retryable" /\ ~MayRetry(loop[w].action)
  /\ status' = [status EXCEPT ![loop[w].action] = "failed"]
  /\ Rests(w)
  /\ UNCHANGED << attempts, late, effects, crashes >>

\* The process ends and starts again: uncommitted claims are rolled back, the
\* rows that were running stay so, and so do the transactions that were sent.
Crash ==
  /\ crashes < MaxCrashes
  /\ crashes' = crashes + 1
  /\ loop' = [w \in Workers |-> Idle]
  /\ late' = [a \in Actions |-> late[a] + LeftBehind(a, Workers)]
  /\ UNCHANGED << status, attempts, effects >>

-----------------------------------------------------------------------------

Step(w) ==
  \/ TakeSnapshot(w)
  \/ LockCandidate(w)
  \/ CommitClaim(w)
  \/ SendTransaction(w)
  \/ TakeEffect(w)
  \/ NoEffect(w)
  \/ ExecutionFails(w)
  \/ MarkSucceeded(w)
  \/ MarkSucceededFails(w)
  \/ MarkRetry(w)
  \/ MarkFailed(w)

QueueNext ==
  \/ \E a \in Actions : Enqueue(a) \/ TakeEffectLate(a) \/ LateWithoutEffect(a)
  \/ \E w \in Workers : Step(w)
  \/ Crash

QueueSpec == QueueInit /\ [][QueueNext]_queueVars

\* Each loop polls, and every call it awaits ends, by an answer or an error.
FairQueueSpec == QueueSpec /\ \A w \in Workers : WF_queueVars(Step(w))

-----------------------------------------------------------------------------

\* The variables have their types.
QueueTypeOK ==
  /\ status \in [Actions -> Status]
  /\ attempts \in [Actions -> 0..RetryMax]
  /\ late \in [Actions -> Nat]
  /\ effects \in [Actions -> Nat]
  /\ crashes \in 0..MaxCrashes
  /\ DOMAIN loop = Workers
  /\ \A w \in Workers : /\ loop[w].at \in Points
                        /\ loop[w].action \in Actions \cup {NoAction}

Holds(w, a) == loop[w].action = a

\* Two loops never work on the same action: a stale snapshot, a claim not yet
\* committed, a retry or a crash never lets one be claimed twice at a time.
OneClaimant ==
  \A w1, w2 \in Workers : w1 # w2 /\ loop[w1].action # NoAction => ~Holds(w2, loop[w1].action)

\* An action takes effect on the chain at most once per counted attempt. More
\* than once is possible: the receipt or the database may fail after it, and a
\* transaction given up may be mined beside that of the retry.
EffectsWithinAttempts == \A a \in Actions : effects[a] <= attempts[a]

\* No action is executed by two loops at a time, nor takes effect uncounted, and no
\* row is attempted more often than RetryMax.
WorkIsAccounted == QueueTypeOK /\ OneClaimant /\ EffectsWithinAttempts

\* mid/README.md:195: "while one action for `character:{id}` is running,
\* another for the same character is not claimed in parallel".
OneRunningPerKey ==
  \A a, b \in Actions :
    a # b /\ SameKey(a, b) => ~(status[a] = "running" /\ status[b] = "running")

\* A running row no loop works on, left by a crash, holds up itself and every
\* action of its key.
Abandoned(a) == status[a] = "running" /\ \A w \in Workers : ~Holds(w, a)
Wedged(a)    == \E b \in Actions : (b = a \/ SameKey(a, b)) /\ Abandoned(b)

\* Every action that is enqueued ends, unless a crash has wedged its key: no
\* retry, failure, lost answer or contention for its key leaves it behind.
EveryActionEnds ==
  \A a \in Actions : status[a] = "queued" ~> (status[a] \in Ended \/ Wedged(a))
=============================================================================
