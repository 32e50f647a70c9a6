------------------------- MODULE ActionQueue_proofs -------------------------
(***************************************************************************)
(* The queue's claims are exclusive and its attempts counted, for any      *)
(* number of loops and actions and any sharing of conflict keys. A row     *)
(* that a loop holds is locked, running or already marked as succeeded, so *)
(* that no stale snapshot can claim it; and each counted attempt pays for  *)
(* at most one transaction: not sent yet, under way, given up or mined.    *)
(*                                                                         *)
(* The engine keeps, of every call, where it is in its program: what it    *)
(* has sent, done and committed is what its operations so far did. So a    *)
(* call that returns has done what its action is for, and to the queue a   *)
(* call is one transaction, whatever its program.                          *)
(***************************************************************************)
EXTENDS Engine, FiniteSetTheorems, TLAPS

\* A snapshot is of the whole table; a loop that claims nothing has none.
Snapshots == [Actions -> Status] \cup {<< >>}

LoopRecords ==
  loop \in [Workers -> [at : Points, action : Actions \cup {NoAction}, seen : Snapshots]]

Working == {"executing", "sent", "answered"}

\* The row of a loop's action is as the point of the loop says.
RowHeld(w) ==
  LET at == loop[w].at
      a  == loop[w].action
  IN  /\ a = NoAction <=> at \in {"idle", "claiming"}
      /\ at = "locked" => status[a] \in Claimable
      /\ at \in Working => status[a] = "running"
      /\ at \in {"retryable", "fatal"} => status[a] \in {"running", "succeeded"}

RowsHeld == \A w \in Workers : RowHeld(w)

\* What may still be claimed has an attempt left.
AttemptsLeft ==
  \A a \in Actions : /\ status[a] = "absent" => attempts[a] = 0
                     /\ status[a] \in Claimable => attempts[a] < RetryMax

\* The attempt under way may still have its effect.
MayTakeEffect(w, a) == loop[w].action = a /\ loop[w].at \in {"executing", "sent"}
Outstanding(a) == IF \E w \in Workers : MayTakeEffect(w, a) THEN 1 ELSE 0

EffectsPaid == \A a \in Actions : effects[a] + late[a] + Outstanding(a) <= attempts[a]

\* Rows and loops, whatever the chain does; and then the effects.
ClaimsTypeOK ==
  /\ status \in [Actions -> Status]
  /\ attempts \in [Actions -> 0..RetryMax]
  /\ crashes \in 0..MaxCrashes
EffectsTypeOK == late \in [Actions -> Nat] /\ effects \in [Actions -> Nat]

ClaimsInv == ClaimsTypeOK /\ LoopRecords /\ OneClaimant /\ RowsHeld /\ AttemptsLeft
QueueInv  == ClaimsInv /\ EffectsTypeOK /\ EffectsPaid

-----------------------------------------------------------------------------

\* NoAction is no action's name.
LEMMA NoActionIsNone == NoAction \notin Actions
  BY QueueAssumption DEF NoAction

LEMMA ClaimsInitInv == QueueInit => ClaimsInv
<1> SUFFICES ASSUME QueueInit PROVE ClaimsInv
  OBVIOUS
<1> USE NoActionIsNone, QueueAssumption DEF QueueInit, Idle
<1>1. ClaimsTypeOK /\ LoopRecords
  BY DEF ClaimsTypeOK, LoopRecords, Status, Points, Snapshots
<1>2. OneClaimant /\ RowsHeld
  BY DEF OneClaimant, RowsHeld, RowHeld, Working
<1>3. AttemptsLeft
  BY DEF AttemptsLeft, Claimable
<1> QED BY <1>1, <1>2, <1>3 DEF ClaimsInv

LEMMA QueueInitInv == QueueInit => QueueInv
<1> SUFFICES ASSUME QueueInit PROVE QueueInv
  OBVIOUS
<1>1. EffectsTypeOK
  BY DEF EffectsTypeOK, QueueInit
<1>2. EffectsPaid
  BY QueueAssumption DEF EffectsPaid, Outstanding, MayTakeEffect, QueueInit, Idle
<1> QED BY <1>1, <1>2, ClaimsInitInv DEF QueueInv

-----------------------------------------------------------------------------
(* The steps of one loop                                                   *)

\* Such a step changes no other loop, and keeps or gives up the loop's action; of the
\* rows it changes at most that one.
OwnStep(w) ==
  /\ \A v \in Workers : v # w => loop'[v] = loop[v]
  /\ loop'[w].action \in {loop[w].action, NoAction}
  /\ \A a \in Actions : a # loop[w].action => status'[a] = status[a]

\* The claims stay exclusive and the other loops' rows are theirs still.
LEMMA OwnStepKeepsClaims ==
  ASSUME ClaimsInv, NEW w \in Workers, OwnStep(w), RowHeld(w)'
  PROVE  OneClaimant' /\ RowsHeld'
<1>0. OneClaimant /\ RowsHeld /\ LoopRecords
  BY DEF ClaimsInv
<1>1. OneClaimant'
  BY <1>0 DEF OneClaimant, OwnStep, Holds
<1>2. ASSUME NEW v \in Workers, v # w
      PROVE  RowHeld(v)'
  <2>1. loop'[v] = loop[v]
    BY <1>2 DEF OwnStep
  <2>2. CASE loop[v].action = NoAction
    <3>1. loop[v].at \in {"idle", "claiming"}
      BY <1>0, <2>2 DEF RowsHeld, RowHeld
    <3> QED BY <2>1, <2>2, <3>1 DEF RowHeld, Working
  <2>3. CASE loop[v].action # NoAction
    <3>1. loop[v].action \in Actions /\ loop[v].action # loop[w].action
      BY <1>0, <1>2, <2>3 DEF OneClaimant, Holds, LoopRecords
    <3>2. status'[loop[v].action] = status[loop[v].action]
      BY <3>1 DEF OwnStep
    <3> QED BY <1>0, <2>1, <3>2 DEF RowsHeld, RowHeld
  <2> QED BY <2>2, <2>3
<1> QED BY <1>1, <1>2 DEF RowsHeld

\* What is outstanding of the loop's own action depends on the loop alone, and of the
\* other actions it is what it was.
LEMMA OwnStepOutstanding ==
  ASSUME ClaimsInv, NEW w \in Workers, OwnStep(w), NEW a \in Actions, loop[w].action = a
  PROVE  /\ Outstanding(a) = IF loop[w].at \in {"executing", "sent"} THEN 1 ELSE 0
         /\ Outstanding(a)' = IF loop'[w].action = a /\ loop'[w].at \in {"executing", "sent"}
                              THEN 1 ELSE 0
         /\ \A b \in Actions \ {a} : Outstanding(b)' = Outstanding(b)
<1>0. a # NoAction /\ OneClaimant
  BY NoActionIsNone DEF ClaimsInv
<1>1. \A v \in Workers : v # w => loop[v].action # a /\ loop'[v] = loop[v]
  BY <1>0 DEF OneClaimant, Holds, OwnStep
<1>2. Outstanding(a) = IF loop[w].at \in {"executing", "sent"} THEN 1 ELSE 0
  BY <1>1 DEF Outstanding, MayTakeEffect
<1>3. Outstanding(a)' = IF loop'[w].action = a /\ loop'[w].at \in {"executing", "sent"}
                        THEN 1 ELSE 0
  BY <1>1 DEF Outstanding, MayTakeEffect
<1>4. ASSUME NEW b \in Actions \ {a}
      PROVE  Outstanding(b)' = Outstanding(b)
  <2>1. loop[w].action # b /\ loop'[w].action # b
    BY NoActionIsNone DEF OwnStep
  <2>2. \A v \in Workers : MayTakeEffect(v, b)' <=> MayTakeEffect(v, b)
    BY <1>1, <2>1 DEF MayTakeEffect
  <2> QED BY <2>2 DEF Outstanding
<1> QED BY <1>2, <1>3, <1>4

\* A loop without an action has nothing outstanding.
LEMMA FreeStepOutstanding ==
  ASSUME ClaimsInv, NEW w \in Workers, OwnStep(w), loop[w].action = NoAction
  PROVE  \A b \in Actions : Outstanding(b)' = Outstanding(b)
<1> SUFFICES ASSUME NEW b \in Actions PROVE Outstanding(b)' = Outstanding(b)
  OBVIOUS
<1>1. loop[w].action # b /\ loop'[w].action # b
  BY NoActionIsNone DEF OwnStep
<1>2. \A v \in Workers : MayTakeEffect(v, b)' <=> MayTakeEffect(v, b)
  BY <1>1 DEF MayTakeEffect, OwnStep
<1> QED BY <1>2 DEF Outstanding

\* A loop's record with another point.
LEMMA GoesFacts ==
  ASSUME ClaimsInv, NEW w \in Workers, NEW at \in Points, Goes(w, at)
  PROVE  /\ loop'[w].at = at /\ loop'[w].action = loop[w].action
         /\ \A v \in Workers : v # w => loop'[v] = loop[v]
         /\ LoopRecords'
<1>1. LoopRecords /\ loop[w] \in [at : Points, action : Actions \cup {NoAction}, seen : Snapshots]
  BY DEF ClaimsInv, LoopRecords
<1> QED BY <1>1 DEF Goes, LoopRecords

LEMMA RestsFacts ==
  ASSUME ClaimsInv, NEW w \in Workers, Rests(w)
  PROVE  /\ loop'[w].at = "idle" /\ loop'[w].action = NoAction
         /\ \A v \in Workers : v # w => loop'[v] = loop[v]
         /\ LoopRecords'
<1>1. LoopRecords
  BY DEF ClaimsInv
<1> QED BY <1>1 DEF Rests, Idle, LoopRecords, Points, Snapshots

\* A loop past the claim has an action.
LEMMA HasAction ==
  ASSUME ClaimsInv, NEW w \in Workers, loop[w].at \notin {"idle", "claiming"}
  PROVE  loop[w].action \in Actions /\ loop[w].action # NoAction
  BY DEF ClaimsInv, LoopRecords, RowsHeld, RowHeld

\* A snapshot is taken, and the claim looks for a row in it.
LEMMA TakeSnapshotClaims ==
  ASSUME ClaimsInv, NEW w \in Workers, TakeSnapshot(w)
  PROVE  ClaimsInv' /\ OwnStep(w) /\ loop[w].action = NoAction
<1>0. /\ ClaimsTypeOK /\ LoopRecords /\ RowHeld(w) /\ AttemptsLeft
      /\ UNCHANGED << status, attempts, late, effects, crashes >>
  BY DEF ClaimsInv, RowsHeld, TakeSnapshot
<1>1. loop[w].action = NoAction
  BY <1>0 DEF TakeSnapshot, RowHeld
<1>2. /\ loop'[w].at = "claiming" /\ loop'[w].action = NoAction
      /\ \A v \in Workers : v # w => loop'[v] = loop[v]
      /\ LoopRecords'
  BY <1>0 DEF TakeSnapshot, LoopRecords, ClaimsTypeOK, Points, Snapshots
<1>3. OwnStep(w) /\ RowHeld(w)'
  BY <1>0, <1>1, <1>2 DEF OwnStep, RowHeld, Working
<1>4. ClaimsTypeOK' /\ AttemptsLeft'
  BY <1>0 DEF ClaimsTypeOK, AttemptsLeft
<1> QED BY <1>1, <1>2, <1>3, <1>4, OwnStepKeepsClaims DEF ClaimsInv

\* A row that is locked was free: whoever held it has locked it, runs it or has marked
\* it, and SKIP LOCKED looks at the row as it is now.
LEMMA LockCandidateClaims ==
  ASSUME ClaimsInv, NEW w \in Workers, LockCandidate(w)
  PROVE  /\ ClaimsInv' /\ loop[w].action = NoAction
         /\ \A v \in Workers : v # w => loop'[v] = loop[v]
         /\ loop'[w].at \in {"idle", "locked"}
<1>0. /\ ClaimsTypeOK /\ LoopRecords /\ RowsHeld /\ RowHeld(w) /\ AttemptsLeft
      /\ OneClaimant
      /\ UNCHANGED << status, attempts, late, effects, crashes >>
  BY DEF ClaimsInv, RowsHeld, LockCandidate
<1>1. loop[w].action = NoAction
  BY <1>0 DEF LockCandidate, RowHeld
<1>2. CASE Rests(w)
  <2>1. OwnStep(w) /\ RowHeld(w)' /\ LoopRecords' /\ loop'[w].at = "idle"
    BY <1>0, <1>1, <1>2, RestsFacts DEF OwnStep, RowHeld, Working
  <2>2. ClaimsTypeOK' /\ AttemptsLeft'
    BY <1>0 DEF ClaimsTypeOK, AttemptsLeft
  <2>3. \A v \in Workers : v # w => loop'[v] = loop[v]
    BY <2>1 DEF OwnStep
  <2> QED BY <1>1, <2>1, <2>2, <2>3, OwnStepKeepsClaims DEF ClaimsInv
<1>3. ASSUME NEW a \in Actions, Lockable(a),
             loop' = [loop EXCEPT ![w] = [at |-> "locked", action |-> a, seen |-> << >>]]
      PROVE  ClaimsInv' /\ loop'[w].at = "locked" /\ \A v \in Workers : v # w => loop'[v] = loop[v]
  <2>1. /\ loop'[w].at = "locked" /\ loop'[w].action = a
        /\ \A v \in Workers : v # w => loop'[v] = loop[v]
        /\ LoopRecords'
    BY <1>0, <1>3 DEF LoopRecords, Points, Snapshots
  <2>2. \A v \in Workers : loop[v].action # a
    <3> SUFFICES ASSUME NEW v \in Workers, loop[v].action = a PROVE FALSE
      OBVIOUS
    <3>1. status[a] \in Claimable /\ loop[v].at # "locked"
      BY <1>3 DEF Lockable
    <3>2. loop[v].at \in Points /\ loop[v].at \notin {"idle", "claiming"}
      BY <1>0, NoActionIsNone DEF LoopRecords, RowsHeld, RowHeld
    <3>3. status[a] \in {"running", "succeeded"}
      BY <1>0, <3>1, <3>2 DEF RowsHeld, RowHeld, Points, Working
    <3> QED BY <3>1, <3>3 DEF Claimable
  <2>3. OneClaimant'
    BY <1>0, <2>1, <2>2 DEF OneClaimant, Holds
  <2>4. RowsHeld'
    <3>1. RowHeld(w)'
      BY <1>0, <1>3, <2>1, NoActionIsNone DEF RowHeld, Lockable, Working
    <3>2. ASSUME NEW v \in Workers, v # w PROVE RowHeld(v)'
      BY <1>0, <2>1, <3>2 DEF RowsHeld, RowHeld
    <3> QED BY <3>1, <3>2 DEF RowsHeld
  <2>5. ClaimsTypeOK' /\ AttemptsLeft'
    BY <1>0 DEF ClaimsTypeOK, AttemptsLeft
  <2> QED BY <2>1, <2>3, <2>4, <2>5 DEF ClaimsInv
<1> QED BY <1>1, <1>2, <1>3 DEF LockCandidate, Candidates

\* The claim's update counts the attempt.
LEMMA CommitClaimClaims ==
  ASSUME ClaimsInv, NEW w \in Workers, CommitClaim(w)
  PROVE  /\ ClaimsInv' /\ OwnStep(w) /\ loop'[w].action = loop[w].action /\ loop'[w].at = "executing"
         /\ attempts'[loop[w].action] = attempts[loop[w].action] + 1
         /\ \A b \in Actions : b # loop[w].action => attempts'[b] = attempts[b]
<1>0. /\ ClaimsTypeOK /\ LoopRecords /\ RowHeld(w) /\ AttemptsLeft
      /\ loop[w].at = "locked" /\ UNCHANGED crashes
  BY DEF ClaimsInv, RowsHeld, CommitClaim
<1>1. PICK a \in Actions : a = loop[w].action
  BY <1>0, HasAction
<1>2. /\ status' = [status EXCEPT ![a] = "running"]
      /\ attempts' = [attempts EXCEPT ![a] = @ + 1]
      /\ Goes(w, "executing")
  BY <1>1 DEF CommitClaim
<1>3. /\ loop'[w].at = "executing" /\ loop'[w].action = a
      /\ \A v \in Workers : v # w => loop'[v] = loop[v]
      /\ LoopRecords'
  BY <1>1, <1>2, GoesFacts DEF Points
<1>4. OwnStep(w) /\ RowHeld(w)'
  BY <1>0, <1>1, <1>2, <1>3, NoActionIsNone DEF OwnStep, RowHeld, Working, ClaimsTypeOK
<1>5. attempts[a] \in Nat /\ attempts[a] < RetryMax
  BY <1>0, <1>1, QueueAssumption DEF RowHeld, AttemptsLeft, ClaimsTypeOK
<1>6. ClaimsTypeOK' /\ AttemptsLeft'
  <2>1. status' \in [Actions -> Status]
    BY <1>0, <1>2 DEF ClaimsTypeOK, Status
  <2>2. attempts[a] + 1 \in 0..RetryMax
    BY <1>5, QueueAssumption
  <2>3. attempts' \in [Actions -> 0..RetryMax]
    BY <1>0, <1>2, <2>2 DEF ClaimsTypeOK
  <2>4. AttemptsLeft'
    BY <1>0, <1>2 DEF AttemptsLeft, ClaimsTypeOK, Claimable
  <2> QED BY <1>0, <2>1, <2>3, <2>4 DEF ClaimsTypeOK
<1>7. ClaimsInv'
  BY <1>3, <1>4, <1>6, OwnStepKeepsClaims DEF ClaimsInv
<1>8. attempts'[a] = attempts[a] + 1 /\ \A b \in Actions : b # a => attempts'[b] = attempts[b]
  BY <1>0, <1>2 DEF ClaimsTypeOK
<1> QED BY <1>1, <1>3, <1>4, <1>7, <1>8

\* While a loop executes, its row is its own.
LEMMA ExecutionClaims ==
  ASSUME ClaimsInv, NEW w \in Workers, loop[w].at \in Working,
         UNCHANGED << status, attempts, crashes >>,
         NEW at \in Working \cup {"retryable", "fatal"}, Goes(w, at)
  PROVE  ClaimsInv' /\ OwnStep(w) /\ loop'[w].at = at /\ loop'[w].action = loop[w].action
<1>0. ClaimsTypeOK /\ LoopRecords /\ RowHeld(w) /\ AttemptsLeft
  BY DEF ClaimsInv, RowsHeld
<1>1. /\ loop'[w].at = at /\ loop'[w].action = loop[w].action
      /\ \A v \in Workers : v # w => loop'[v] = loop[v]
      /\ LoopRecords'
  BY GoesFacts DEF Points, Working
<1>2. OwnStep(w) /\ RowHeld(w)'
  BY <1>0, <1>1, NoActionIsNone DEF OwnStep, RowHeld, Working
<1>3. ClaimsTypeOK' /\ AttemptsLeft'
  BY <1>0 DEF ClaimsTypeOK, AttemptsLeft
<1> QED BY <1>1, <1>2, <1>3, OwnStepKeepsClaims DEF ClaimsInv

\* Recording the outcome ends the attempt, or leaves the loop to its catch block.
LEMMA OutcomeClaims ==
  ASSUME ClaimsInv, NEW w \in Workers, NEW a \in Actions, loop[w].action = a,
         UNCHANGED << attempts, crashes >>,
         status' \in [Actions -> Status],
         \A b \in Actions \ {a} : status'[b] = status[b],
         \/ /\ Rests(w)
            /\ status'[a] \in Ended \/ (status'[a] = "retry" /\ MayRetry(a))
         \/ /\ Goes(w, "retryable") \/ Goes(w, "fatal")
            /\ status'[a] \in {"running", "succeeded"}
  PROVE  ClaimsInv' /\ OwnStep(w) /\ loop'[w].at \in {"idle", "retryable", "fatal"}
<1>0. ClaimsTypeOK /\ LoopRecords /\ RowHeld(w) /\ AttemptsLeft
  BY DEF ClaimsInv, RowsHeld
<1>1. /\ \/ loop'[w].at = "idle" /\ loop'[w].action = NoAction
         \/ /\ loop'[w].at \in {"retryable", "fatal"} /\ loop'[w].action = a
            /\ status'[a] \in {"running", "succeeded"}
      /\ \A v \in Workers : v # w => loop'[v] = loop[v]
      /\ LoopRecords'
  BY RestsFacts, GoesFacts DEF Points
<1>3. OwnStep(w)
  <2>1. \A b \in Actions : b # loop[w].action => status'[b] = status[b]
    OBVIOUS
  <2> QED BY <1>1, <2>1 DEF OwnStep
<1>4. RowHeld(w)'
  BY <1>1, NoActionIsNone DEF RowHeld, Working
<1>5. ClaimsTypeOK' /\ AttemptsLeft'
  <2>1. status'[a] = "absent" => FALSE
    BY DEF Ended
  <2>2. status'[a] \in Claimable => attempts[a] < RetryMax
    BY DEF Ended, Claimable, MayRetry
  <2>3. AttemptsLeft'
    BY <1>0, <2>1, <2>2 DEF AttemptsLeft
  <2> QED BY <1>0, <2>3 DEF ClaimsTypeOK
<1> QED BY <1>1, <1>3, <1>4, <1>5, OwnStepKeepsClaims DEF ClaimsInv

LEMMA MarkClaims ==
  ASSUME ClaimsInv, NEW w \in Workers,
         MarkSucceeded(w) \/ MarkSucceededFails(w) \/ MarkRetry(w) \/ MarkFailed(w)
  PROVE  ClaimsInv' /\ OwnStep(w) /\ loop'[w].at \in {"idle", "retryable", "fatal"}
<1>0. /\ ClaimsTypeOK /\ RowHeld(w)
      /\ loop[w].at \in {"answered", "retryable", "fatal"}
      /\ UNCHANGED << attempts, late, effects, crashes >>
  BY DEF ClaimsInv, RowsHeld, MarkSucceeded, MarkSucceededFails, MarkRetry, MarkFailed
<1>1. PICK a \in Actions : a = loop[w].action
  BY <1>0, HasAction
<1>2. ASSUME NEW s \in Status, status' = [status EXCEPT ![a] = s]
      PROVE  /\ status' \in [Actions -> Status] /\ status'[a] = s
             /\ \A b \in Actions \ {a} : status'[b] = status[b]
  BY <1>0, <1>2 DEF ClaimsTypeOK
<1>3. CASE MarkSucceeded(w)
  <2>1. status' = [status EXCEPT ![a] = "succeeded"] /\ Rests(w)
    BY <1>1, <1>3 DEF MarkSucceeded
  <2> QED BY <1>0, <1>1, <1>2, <2>1, OutcomeClaims DEF Status, Ended
<1>4. CASE MarkSucceededFails(w)
  <2>1. /\ status' = status \/ status' = [status EXCEPT ![a] = "succeeded"]
        /\ loop[w].at = "answered"
        /\ Goes(w, "retryable") \/ Goes(w, "fatal")
    BY <1>1, <1>4 DEF MarkSucceededFails
  <2>2. CASE status' = status
    <3>1. status'[a] = "running" /\ status' \in [Actions -> Status]
      BY <1>0, <1>1, <2>1, <2>2 DEF RowHeld, Working, ClaimsTypeOK
    <3> QED BY <1>0, <1>1, <2>1, <2>2, <3>1, OutcomeClaims
  <2>3. CASE status' = [status EXCEPT ![a] = "succeeded"]
    <3>1. /\ status' \in [Actions -> Status] /\ status'[a] = "succeeded"
          /\ \A b \in Actions \ {a} : status'[b] = status[b]
      BY <1>2, <2>3 DEF Status, Ended
    <3> QED BY <1>0, <1>1, <2>1, <3>1, OutcomeClaims
  <2> QED BY <2>1, <2>2, <2>3
<1>5. CASE MarkRetry(w)
  <2>1. status' = [status EXCEPT ![a] = "retry"] /\ Rests(w) /\ MayRetry(a)
    BY <1>1, <1>5 DEF MarkRetry
  <2> QED BY <1>0, <1>1, <1>2, <2>1, OutcomeClaims DEF Status, Claimable
<1>6. CASE MarkFailed(w)
  <2>1. status' = [status EXCEPT ![a] = "failed"] /\ Rests(w)
    BY <1>1, <1>6 DEF MarkFailed
  <2> QED BY <1>0, <1>1, <1>2, <2>1, OutcomeClaims DEF Status, Ended
<1> QED BY <1>3, <1>4, <1>5, <1>6

\* No loop holds a row that is not there yet.
LEMMA EnqueueClaims ==
  ASSUME ClaimsInv, NEW a \in Actions, Enqueue(a)
  PROVE  ClaimsInv'
<1>0. /\ ClaimsTypeOK /\ LoopRecords /\ OneClaimant /\ RowsHeld /\ AttemptsLeft
      /\ status[a] = "absent" /\ status' = [status EXCEPT ![a] = "queued"]
      /\ UNCHANGED << attempts, late, effects, loop, crashes >>
  BY DEF ClaimsInv, Enqueue
<1>1. /\ status' \in [Actions -> Status] /\ status'[a] = "queued"
      /\ \A b \in Actions \ {a} : status'[b] = status[b]
  BY <1>0 DEF ClaimsTypeOK, Status, Claimable
<1>2. RowsHeld'
  <2> SUFFICES ASSUME NEW w \in Workers PROVE RowHeld(w)'
    BY DEF RowsHeld
  <2>1. RowHeld(w) /\ loop[w].action \in Actions \cup {NoAction}
    BY <1>0 DEF RowsHeld, LoopRecords
  <2>2. CASE loop[w].action = NoAction
    <3>1. loop[w].at \in {"idle", "claiming"}
      BY <2>1, <2>2 DEF RowHeld
    <3> QED BY <1>0, <2>2, <3>1 DEF RowHeld, Working
  <2>3. CASE loop[w].action \in Actions
    <3>1. loop[w].at \in Points /\ loop[w].at \notin {"idle", "claiming"}
      BY <1>0, <2>1, <2>3, NoActionIsNone DEF LoopRecords, RowHeld
    <3>2. loop[w].action # a
      BY <1>0, <2>1, <3>1 DEF RowHeld, Points, Working, Claimable
    <3> QED BY <1>0, <1>1, <2>1, <2>3, <3>2 DEF RowHeld
  <2> QED BY <2>1, <2>2, <2>3
<1>3. AttemptsLeft'
  BY <1>0, <1>1, QueueAssumption DEF AttemptsLeft
<1>4. OneClaimant'
  BY <1>0 DEF OneClaimant, Holds
<1>5. ClaimsTypeOK' /\ LoopRecords'
  BY <1>0, <1>1 DEF ClaimsTypeOK, LoopRecords
<1> QED BY <1>2, <1>3, <1>4, <1>5 DEF ClaimsInv

\* A crash leaves no loop with a row.
LEMMA CrashClaims ==
  ASSUME ClaimsInv, Crash
  PROVE  ClaimsInv' /\ \A w \in Workers : loop'[w].at = "idle" /\ loop'[w].action = NoAction
<1>0. /\ ClaimsTypeOK /\ AttemptsLeft
      /\ crashes < MaxCrashes /\ crashes' = crashes + 1
      /\ loop' = [w \in Workers |-> Idle]
      /\ UNCHANGED << status, attempts, effects >>
  BY DEF ClaimsInv, Crash
<1>1. \A w \in Workers : loop'[w].at = "idle" /\ loop'[w].action = NoAction
  BY <1>0 DEF Idle
<1>2. LoopRecords' /\ crashes' \in 0..MaxCrashes
  BY <1>0, QueueAssumption DEF LoopRecords, Idle, Points, Snapshots, ClaimsTypeOK
<1>3. ClaimsTypeOK' /\ AttemptsLeft'
  BY <1>0, <1>2 DEF ClaimsTypeOK, AttemptsLeft
<1>4. OneClaimant' /\ RowsHeld'
  BY <1>1 DEF OneClaimant, RowsHeld, RowHeld, Working
<1> QED BY <1>1, <1>2, <1>3, <1>4 DEF ClaimsInv

\* Steps that touch neither rows nor loops.
LEMMA ClaimsUntouched ==
  ASSUME ClaimsInv, UNCHANGED << status, attempts, loop, crashes >>
  PROVE  ClaimsInv'
  BY DEF ClaimsInv, ClaimsTypeOK, LoopRecords, OneClaimant, Holds, RowsHeld, RowHeld, AttemptsLeft

-----------------------------------------------------------------------------
(* The effects                                                             *)

\* Steps after which no loop has more outstanding than before.
LEMMA StillPaid ==
  ASSUME QueueInv, UNCHANGED << attempts, late, effects >>, ClaimsInv',
         \A w \in Workers : loop'[w].at \in {"executing", "sent"} => loop'[w] = loop[w]
  PROVE  QueueInv'
<1>1. ASSUME NEW b \in Actions PROVE Outstanding(b)' <= Outstanding(b)
  <2>1. (\E w \in Workers : MayTakeEffect(w, b)') => \E w \in Workers : MayTakeEffect(w, b)
    BY DEF MayTakeEffect
  <2> QED BY <2>1 DEF Outstanding
<1>2. ASSUME NEW b \in Actions PROVE effects'[b] + late'[b] + Outstanding(b)' <= attempts'[b]
  <2>1. /\ effects[b] \in Nat /\ late[b] \in Nat /\ attempts[b] \in Nat
        /\ Outstanding(b) \in Nat /\ Outstanding(b)' \in Nat
        /\ effects[b] + late[b] + Outstanding(b) <= attempts[b]
    BY QueueAssumption DEF QueueInv, EffectsPaid, EffectsTypeOK, ClaimsInv, ClaimsTypeOK, Outstanding
  <2> QED BY <1>1, <2>1
<1>3. EffectsTypeOK'
  BY DEF QueueInv, EffectsTypeOK
<1> QED BY <1>2, <1>3 DEF QueueInv, EffectsPaid

\* The steps of a loop that have nothing to do with the chain.
LEMMA ClaimStepInv ==
  ASSUME QueueInv, NEW w \in Workers,
         \/ TakeSnapshot(w) \/ LockCandidate(w)
         \/ MarkSucceeded(w) \/ MarkSucceededFails(w) \/ MarkRetry(w) \/ MarkFailed(w)
  PROVE  QueueInv'
<1>0. ClaimsInv /\ UNCHANGED << attempts, late, effects >>
  BY DEF QueueInv, TakeSnapshot, LockCandidate, MarkSucceeded, MarkSucceededFails, MarkRetry, MarkFailed
<1>1. /\ ClaimsInv' /\ \A v \in Workers : v # w => loop'[v] = loop[v]
      /\ loop'[w].at \notin {"executing", "sent"}
  <2>1. CASE TakeSnapshot(w)
    <3>1. loop'[w].at = "claiming"
      BY <1>0, <2>1 DEF TakeSnapshot, ClaimsInv, LoopRecords
    <3> QED BY <1>0, <2>1, <3>1, TakeSnapshotClaims DEF OwnStep
  <2>2. CASE LockCandidate(w)
    BY <1>0, <2>2, LockCandidateClaims
  <2>3. CASE MarkSucceeded(w) \/ MarkSucceededFails(w) \/ MarkRetry(w) \/ MarkFailed(w)
    BY <1>0, <2>3, MarkClaims DEF OwnStep
  <2> QED BY <2>1, <2>2, <2>3
<1>2. \A v \in Workers : loop'[v].at \in {"executing", "sent"} => loop'[v] = loop[v]
  BY <1>1
<1> QED BY <1>0, <1>1, <1>2, StillPaid

\* The claim counts the attempt that will pay for the transaction.
LEMMA CommitClaimInv ==
  ASSUME QueueInv, NEW w \in Workers, CommitClaim(w)
  PROVE  QueueInv'
<1>0. /\ ClaimsInv /\ EffectsTypeOK /\ EffectsPaid /\ loop[w].at = "locked"
      /\ UNCHANGED << late, effects, crashes >>
  BY DEF QueueInv, CommitClaim
<1>1. PICK a \in Actions : a = loop[w].action
  BY <1>0, HasAction
<1>2. /\ ClaimsInv' /\ OwnStep(w) /\ loop'[w].action = a /\ loop'[w].at = "executing"
      /\ attempts'[a] = attempts[a] + 1
      /\ \A b \in Actions : b # a => attempts'[b] = attempts[b]
  BY <1>0, <1>1, CommitClaimClaims
<1>3. Outstanding(a) = 0 /\ Outstanding(a)' = 1
  BY <1>0, <1>1, <1>2, OwnStepOutstanding
<1>4. \A b \in Actions \ {a} : Outstanding(b)' = Outstanding(b)
  BY <1>0, <1>1, <1>2, OwnStepOutstanding
<1>5. /\ effects[a] + late[a] + Outstanding(a) <= attempts[a]
      /\ effects[a] \in Nat /\ late[a] \in Nat /\ attempts[a] \in Nat
  BY <1>0, QueueAssumption DEF EffectsPaid, EffectsTypeOK, ClaimsInv, ClaimsTypeOK
<1>6. effects'[a] + late'[a] + Outstanding(a)' <= attempts'[a]
  BY <1>0, <1>2, <1>3, <1>5
<1>7. \A b \in Actions \ {a} : effects'[b] + late'[b] + Outstanding(b)' <= attempts'[b]
  BY <1>0, <1>2, <1>4 DEF EffectsPaid
<1>8. EffectsTypeOK'
  BY <1>0 DEF EffectsTypeOK
<1> QED BY <1>2, <1>6, <1>7, <1>8 DEF EffectsPaid, QueueInv

\* What an action may still do on the chain passes from one account to another.
LEMMA ExecutionInv ==
  ASSUME QueueInv, NEW w \in Workers, NEW a \in Actions, loop[w].action = a,
         loop[w].at \in Working, UNCHANGED << status, attempts, crashes >>,
         NEW at \in Working \cup {"retryable", "fatal"}, Goes(w, at),
         late' \in [Actions -> Nat], effects' \in [Actions -> Nat],
         \A b \in Actions \ {a} : late'[b] = late[b] /\ effects'[b] = effects[b],
         effects'[a] + late'[a] + (IF at \in {"executing", "sent"} THEN 1 ELSE 0)
           <= effects[a] + late[a] + (IF loop[w].at \in {"executing", "sent"} THEN 1 ELSE 0)
  PROVE  QueueInv'
<1>0. ClaimsInv /\ EffectsTypeOK /\ EffectsPaid
  BY DEF QueueInv
<1>1. ClaimsInv' /\ OwnStep(w) /\ loop'[w].at = at /\ loop'[w].action = a
  BY <1>0, ExecutionClaims
<1>2. /\ Outstanding(a) = IF loop[w].at \in {"executing", "sent"} THEN 1 ELSE 0
      /\ Outstanding(a)' = IF at \in {"executing", "sent"} THEN 1 ELSE 0
      /\ \A b \in Actions \ {a} : Outstanding(b)' = Outstanding(b)
  BY <1>0, <1>1, OwnStepOutstanding
<1>3. \A b \in Actions \ {a} : effects'[b] + late'[b] + Outstanding(b)' <= attempts'[b]
  BY <1>0, <1>2 DEF EffectsPaid
<1>4. effects[a] + late[a] + Outstanding(a) <= attempts[a]
  BY <1>0 DEF EffectsPaid
<1>5. /\ effects[a] \in Nat /\ late[a] \in Nat /\ attempts[a] \in Nat
      /\ effects'[a] \in Nat /\ late'[a] \in Nat
  BY <1>0, QueueAssumption DEF EffectsTypeOK, ClaimsInv, ClaimsTypeOK
<1>6. effects'[a] + late'[a] + Outstanding(a)' <= attempts'[a]
  BY <1>2, <1>4, <1>5
<1> QED BY <1>1, <1>3, <1>6 DEF EffectsPaid, EffectsTypeOK, QueueInv

\* Of one loop at most one transaction is left behind.
LEMMA LeftByOne ==
  ASSUME NEW w \in Workers, NEW a \in Actions
  PROVE  LeftBehind(a, {w}) = IF loop[w].at = "sent" /\ loop[w].action = a THEN 1 ELSE 0
<1> DEFINE S == {v \in {w} : loop[v].at = "sent" /\ loop[v].action = a}
<1>1. CASE loop[w].at = "sent" /\ loop[w].action = a
  <2>1. S = {w}
    BY <1>1
  <2> QED BY <1>1, <2>1, FS_Singleton DEF LeftBehind
<1>2. CASE ~(loop[w].at = "sent" /\ loop[w].action = a)
  <2>1. S = {}
    BY <1>2
  <2> QED BY <1>2, <2>1, FS_EmptySet DEF LeftBehind
<1> QED BY <1>1, <1>2

\* The steps between the claim and the record of the outcome.
LEMMA ExecuteStepInv ==
  ASSUME QueueInv, NEW w \in Workers,
         SendTransaction(w) \/ TakeEffect(w) \/ NoEffect(w) \/ ExecutionFails(w)
  PROVE  QueueInv'
<1>0. ClaimsInv /\ EffectsTypeOK /\ loop[w].at \in Working
  BY DEF QueueInv, SendTransaction, TakeEffect, NoEffect, ExecutionFails, Working
<1>1. PICK a \in Actions : a = loop[w].action
  BY <1>0, HasAction DEF Working
<1>2. /\ effects[a] \in Nat /\ late[a] \in Nat
      /\ late \in [Actions -> Nat] /\ effects \in [Actions -> Nat]
  BY <1>0 DEF EffectsTypeOK
<1>3. CASE SendTransaction(w)
  BY <1>0, <1>1, <1>2, <1>3, ExecutionInv DEF SendTransaction, Working
<1>4. CASE TakeEffect(w)
  <2>1. effects' = [effects EXCEPT ![a] = @ + 1] /\ late' = late /\ loop[w].at = "sent"
    BY <1>1, <1>4 DEF TakeEffect
  <2>2. effects' \in [Actions -> Nat] /\ effects'[a] = effects[a] + 1
        /\ \A b \in Actions \ {a} : effects'[b] = effects[b]
    BY <1>2, <2>1
  <2> QED BY <1>0, <1>1, <1>2, <1>4, <2>1, <2>2, ExecutionInv DEF TakeEffect, Working
<1>5. CASE NoEffect(w)
  BY <1>0, <1>1, <1>2, <1>5, ExecutionInv DEF NoEffect, Working
<1>6. CASE ExecutionFails(w)
  <2>1. \A b \in Actions : late'[b] = late[b] + (IF loop[w].at = "sent" /\ a = b THEN 1 ELSE 0)
    BY <1>1, <1>6, LeftByOne DEF ExecutionFails
  <2>2. late' \in [Actions -> Nat]
    <3>1. \A b \in Actions : late'[b] \in Nat
      BY <1>2, <2>1
    <3>2. late' = [b \in Actions |-> late'[b]]
      BY <1>6 DEF ExecutionFails
    <3> QED BY <3>1, <3>2
  <2>3. /\ late'[a] = late[a] + (IF loop[w].at = "sent" THEN 1 ELSE 0)
        /\ \A b \in Actions \ {a} : late'[b] = late[b]
    BY <1>2, <2>1
  <2>4. /\ UNCHANGED << status, attempts, effects, crashes >>
        /\ Goes(w, "retryable") \/ Goes(w, "fatal")
    BY <1>6 DEF ExecutionFails
  <2>5. effects[a] + late'[a] <= effects[a] + late[a]
                                   + (IF loop[w].at \in {"executing", "sent"} THEN 1 ELSE 0)
    BY <1>2, <2>3
  <2>6. ASSUME NEW at \in {"retryable", "fatal"}, Goes(w, at) PROVE QueueInv'
    <3>1. at \notin {"executing", "sent"} /\ effects[a] + late'[a] + 0 = effects[a] + late'[a]
      BY <1>2, <2>2
    <3> QED BY <1>0, <1>1, <1>2, <2>2, <2>3, <2>4, <2>5, <2>6, <3>1, ExecutionInv
  <2> QED BY <2>4, <2>6
<1> QED BY <1>3, <1>4, <1>5, <1>6

-----------------------------------------------------------------------------
(* The steps beside the loops                                              *)

\* A transaction given up was paid for.
LEMMA LateInv ==
  ASSUME QueueInv, NEW a \in Actions, TakeEffectLate(a) \/ LateWithoutEffect(a)
  PROVE  QueueInv'
<1>0. /\ ClaimsInv /\ EffectsTypeOK /\ EffectsPaid
      /\ late[a] > 0 /\ late' = [late EXCEPT ![a] = @ - 1]
      /\ effects' = [effects EXCEPT ![a] = @ + 1] \/ effects' = effects
      /\ UNCHANGED << status, attempts, loop, crashes >>
  BY DEF QueueInv, TakeEffectLate, LateWithoutEffect
<1>1. /\ late \in [Actions -> Nat] /\ effects \in [Actions -> Nat]
      /\ late[a] \in Nat /\ effects[a] \in Nat
  BY <1>0 DEF EffectsTypeOK
<1>2. /\ late' \in [Actions -> Nat] /\ effects' \in [Actions -> Nat]
      /\ effects'[a] + late'[a] <= effects[a] + late[a]
      /\ \A b \in Actions \ {a} : late'[b] = late[b] /\ effects'[b] = effects[b]
  BY <1>0, <1>1
<1>3. \A b \in Actions : Outstanding(b)' = Outstanding(b) /\ Outstanding(b) \in Nat
  BY <1>0 DEF Outstanding, MayTakeEffect
<1>4. EffectsPaid'
  <2>1. \A b \in Actions \ {a} : effects'[b] + late'[b] + Outstanding(b)' <= attempts'[b]
    BY <1>0, <1>2, <1>3 DEF EffectsPaid
  <2>2. /\ effects[a] + late[a] + Outstanding(a) <= attempts[a]
        /\ attempts[a] \in Nat /\ effects'[a] \in Nat /\ late'[a] \in Nat
    BY <1>0, <1>2, QueueAssumption DEF EffectsPaid, ClaimsInv, ClaimsTypeOK
  <2>3. effects'[a] + late'[a] + Outstanding(a)' <= attempts'[a]
    BY <1>0, <1>1, <1>2, <1>3, <2>2
  <2> QED BY <2>1, <2>3 DEF EffectsPaid
<1>5. EffectsTypeOK'
  BY <1>2 DEF EffectsTypeOK
<1> QED BY <1>0, <1>4, <1>5, ClaimsUntouched DEF QueueInv

\* A crash gives up what the loops had sent: of each action one transaction at most,
\* since one loop at most held it.
LEMMA CrashInv ==
  ASSUME QueueInv, Crash
  PROVE  QueueInv'
<1>0. /\ ClaimsInv /\ EffectsTypeOK /\ OneClaimant /\ EffectsPaid
      /\ late' = [a \in Actions |-> late[a] + LeftBehind(a, Workers)]
      /\ UNCHANGED << attempts, effects >>
  BY DEF QueueInv, ClaimsInv, Crash
<1>1. ASSUME NEW a \in Actions
      PROVE  LeftBehind(a, Workers) \in Nat /\ LeftBehind(a, Workers) <= Outstanding(a)
  <2> DEFINE S == {w \in Workers : loop[w].at = "sent" /\ loop[w].action = a}
  <2>1. CASE S = {}
    BY <2>1, FS_EmptySet DEF LeftBehind, Outstanding
  <2>2. CASE S # {}
    <3>1. PICK w \in Workers : w \in S
      BY <2>2
    <3>2. S = {w}
      BY <1>0, <3>1, NoActionIsNone DEF OneClaimant, Holds
    <3>3. Outstanding(a) = 1
      BY <3>1 DEF Outstanding, MayTakeEffect
    <3>4. LeftBehind(a, Workers) = Cardinality(S)
      BY DEF LeftBehind
    <3>5. Cardinality({w}) = 1
      BY FS_Singleton
    <3> HIDE DEF S
    <3> QED BY <3>2, <3>3, <3>4, <3>5
  <2> QED BY <2>1, <2>2
<1>2. ClaimsInv' /\ \A w \in Workers : loop'[w].at = "idle" /\ loop'[w].action = NoAction
  BY <1>0, CrashClaims
<1>3. \A a \in Actions : Outstanding(a)' = 0
  BY <1>2 DEF Outstanding, MayTakeEffect
<1>4. \A a \in Actions : late[a] \in Nat /\ effects[a] \in Nat /\ attempts[a] \in Nat
  BY <1>0, QueueAssumption DEF EffectsTypeOK, ClaimsInv, ClaimsTypeOK
<1>5. \A a \in Actions : late'[a] \in Nat /\ late'[a] = late[a] + LeftBehind(a, Workers)
  BY <1>0, <1>1, <1>4
<1>6. EffectsPaid'
  <2> SUFFICES ASSUME NEW a \in Actions
               PROVE  effects'[a] + late'[a] + Outstanding(a)' <= attempts'[a]
    BY DEF EffectsPaid
  <2>1. effects[a] + late[a] + Outstanding(a) <= attempts[a] /\ Outstanding(a) \in Nat
    BY <1>0 DEF EffectsPaid, Outstanding
  <2> QED BY <1>0, <1>1, <1>3, <1>4, <1>5, <2>1
<1>7. EffectsTypeOK'
  BY <1>0, <1>5 DEF EffectsTypeOK
<1> QED BY <1>2, <1>6, <1>7 DEF QueueInv

LEMMA QueueNextInv ==
  ASSUME QueueInv, [QueueNext]_queueVars
  PROVE  QueueInv'
<1>1. ASSUME NEW w \in Workers, Step(w) PROVE QueueInv'
  BY <1>1, ClaimStepInv, CommitClaimInv, ExecuteStepInv DEF Step
<1>2. ASSUME NEW a \in Actions, Enqueue(a) PROVE QueueInv'
  <2>1. ClaimsInv'
    BY <1>2, EnqueueClaims DEF QueueInv
  <2>2. UNCHANGED << attempts, late, effects, loop >>
    BY <1>2 DEF Enqueue
  <2> QED BY <2>1, <2>2, StillPaid
<1>3. ASSUME NEW a \in Actions, TakeEffectLate(a) \/ LateWithoutEffect(a) PROVE QueueInv'
  BY <1>3, LateInv
<1>4. CASE UNCHANGED queueVars
  BY <1>4, ClaimsUntouched, StillPaid DEF queueVars, QueueInv
<1> QED BY <1>1, <1>2, <1>3, <1>4, CrashInv DEF QueueNext

\* The whole invariant, from which the rest follows.
THEOREM QueueInvariant == QueueSpec => []QueueInv
<1> QED BY QueueInitInv, QueueNextInv, PTL DEF QueueSpec

\* No action is worked on by two loops at a time, attempted more than RetryMax times,
\* or takes effect on the chain more often than it was attempted.
THEOREM WorkAlwaysAccounted == QueueSpec => []WorkIsAccounted
<1>1. QueueInv => QueueTypeOK /\ OneClaimant
  BY DEF QueueInv, ClaimsInv, ClaimsTypeOK, LoopRecords, EffectsTypeOK, QueueTypeOK
<1>2. QueueInv => EffectsWithinAttempts
  <2> SUFFICES ASSUME QueueInv, NEW a \in Actions PROVE effects[a] <= attempts[a]
    BY DEF EffectsWithinAttempts
  <2>1. /\ effects[a] + late[a] + Outstanding(a) <= attempts[a]
        /\ effects[a] \in Nat /\ late[a] \in Nat /\ attempts[a] \in Nat /\ Outstanding(a) \in Nat
    BY QueueAssumption DEF QueueInv, EffectsPaid, EffectsTypeOK, ClaimsInv, ClaimsTypeOK, Outstanding
  <2> QED BY <2>1
<1> QED BY <1>1, <1>2, QueueInvariant, PTL DEF WorkIsAccounted

\* A commit is waited for and revealed next, and is the only one; what the action is
\* for is done once, before what a program reads of it.
WellFormed(p, main) ==
  /\ Len(p) \in Nat /\ DOMAIN p = 1..Len(p)
  /\ \E i \in 1..Len(p) : p[i] = main
  /\ \A i, j \in 1..Len(p) : p[i] = main /\ p[j] = main => i = j
  /\ \A i, j \in 1..Len(p) : p[i] = "commit" /\ p[j] = "commit" => i = j
  /\ \A i \in 1..Len(p) : p[i] = "commit" => i + 2 <= Len(p) /\ p[i + 1] = "mined" /\ p[i + 2] = "reveal"
  /\ \A i \in 1..Len(p) : p[i] = "mined" => i > 1 /\ p[i - 1] = "commit"
  /\ \A i \in 1..Len(p) : p[i] = "reveal" => i > 2 /\ p[i - 2] = "commit"
  /\ \A i \in 1..Len(p) : p[i] = "openable" => i + 3 <= Len(p) /\ p[i + 1] = "commit"
  /\ \A i, j \in 1..Len(p) : p[i] \in {"created", "openable", "gear"} /\ p[j] = main => j < i
  /\ \A i, j \in 1..Len(p) : p[i] = "gear" /\ p[j] = "commit" => j + 2 < i

\* The programs, one by one.
LEMMA CreatesWellFormed == WellFormed(CreateCharacter, "send")
<1>1. /\ Len(CreateCharacter) = 10 /\ DOMAIN CreateCharacter = 1..10
      /\ CreateCharacter[1] = "send" /\ CreateCharacter[2] = "created" /\ CreateCharacter[3] = "aux"
      /\ CreateCharacter[4] = "owner" /\ CreateCharacter[5] = "openable" /\ CreateCharacter[6] = "commit"
      /\ CreateCharacter[7] = "mined" /\ CreateCharacter[8] = "reveal" /\ CreateCharacter[9] = "gear"
      /\ CreateCharacter[10] = "aux"
  BY DEF CreateCharacter, CommitReveal, EquipBestForCharacter
<1> QED BY <1>1 DEF WellFormed

LEMMA RevealsWellFormed ==
  ASSUME NEW p, p = StartDungeon
  PROVE  WellFormed(p, "reveal")
<1>1. /\ Len(p) = 5 /\ DOMAIN p = 1..5
      /\ p[1] = "owner" /\ p[2] = "possible" /\ p[3] = "commit" /\ p[4] = "mined" /\ p[5] = "reveal"
  BY DEF StartDungeon, CommitReveal
<1> QED BY <1>1 DEF WellFormed

LEMMA SendsWellFormed ==
  /\ WellFormed(NextRoom, "send") /\ WellFormed(EquipBest, "send")
  /\ WellFormed(RerollItem, "send") /\ WellFormed(ForgeSetPiece, "send")
  /\ WellFormed(BuyPremiumLootboxes, "send") /\ WellFormed(FinalizeEpoch, "send")
  /\ WellFormed(ClaimPlayer, "send") /\ WellFormed(ClaimDeployer, "send")
  /\ WellFormed(CreateTradeOffer, "send") /\ WellFormed(FulfillTradeOffer, "send")
  /\ WellFormed(CancelTradeOffer, "send") /\ WellFormed(CancelExpiredTradeOffer, "send")
  /\ WellFormed(CreateRfq, "send") /\ WellFormed(FillRfq, "send") /\ WellFormed(CancelRfq, "send")
<1>1. /\ WellFormed(NextRoom, "send") /\ WellFormed(EquipBest, "send")
      /\ WellFormed(RerollItem, "send") /\ WellFormed(ForgeSetPiece, "send")
  BY DEF WellFormed, NextRoom, EquipBest, RerollItem, ForgeSetPiece
<1>2. /\ WellFormed(BuyPremiumLootboxes, "send") /\ WellFormed(FinalizeEpoch, "send")
      /\ WellFormed(ClaimPlayer, "send") /\ WellFormed(ClaimDeployer, "send")
  BY DEF WellFormed, BuyPremiumLootboxes, FinalizeEpoch, ClaimPlayer, ClaimDeployer
<1>3. /\ WellFormed(CreateTradeOffer, "send") /\ WellFormed(FulfillTradeOffer, "send")
      /\ WellFormed(CancelTradeOffer, "send") /\ WellFormed(CancelExpiredTradeOffer, "send")
  BY DEF WellFormed, CreateTradeOffer, FulfillTradeOffer, CancelTradeOffer, CancelExpiredTradeOffer
<1>4. WellFormed(CreateRfq, "send") /\ WellFormed(FillRfq, "send") /\ WellFormed(CancelRfq, "send")
  BY DEF WellFormed, CreateRfq, FillRfq, CancelRfq
<1> QED BY <1>1, <1>2, <1>3, <1>4

LEMMA ProgramsWellFormed ==
  ASSUME NEW t \in ActionTypes
  PROVE  WellFormed(Program(t), MainOp(t))
<1>1. CASE t = "create_character"
  <2>1. Program(t) = CreateCharacter /\ MainOp(t) = "send"
    BY <1>1 DEF Program, MainOp
  <2> QED BY <2>1, CreatesWellFormed
<1>2. CASE t \in {"start_dungeon", "open_lootboxes_max"}
  <2>1. Program(t) = StartDungeon /\ MainOp(t) = "reveal"
    BY <1>2 DEF Program, MainOp, StartDungeon, OpenLootboxesMax
  <2> QED BY <2>1, RevealsWellFormed
<1>3. CASE t \in ActionTypes \ {"create_character", "start_dungeon", "open_lootboxes_max"}
  <2>1. MainOp(t) = "send"
    BY <1>3 DEF MainOp
  <2>2. Program(t) \in {NextRoom, EquipBest, RerollItem, ForgeSetPiece, BuyPremiumLootboxes, FinalizeEpoch,
                        ClaimPlayer, ClaimDeployer, CreateTradeOffer, FulfillTradeOffer, CancelTradeOffer,
                        CancelExpiredTradeOffer, CreateRfq, FillRfq, CancelRfq}
    BY <1>3 DEF Program, ActionTypes
  <2> QED BY <2>1, <2>2, SendsWellFormed
<1> QED BY <1>1, <1>2, <1>3

-----------------------------------------------------------------------------
(* The invariant of the engine *)

\* A call record has these fields and no others.
Whole(c) ==
  c = [pc |-> c.pc, tx |-> c.tx, receipt |-> c.receipt, commit |-> c.commit, since |-> c.since,
       tries |-> c.tries, price |-> c.price, done |-> c.done, reverted |-> c.reverted]
CallShape == \A w \in Workers : Whole(call[w])

Commit == [by : (Actions \cup {NoAction}) \X Nat, block : Nat, open : BOOLEAN]

ChainTypeOK ==
  /\ block \in Nat
  /\ commits \in Seq(Commit)
  /\ world \in [type : [Actions -> ActionTypes], permitted : BOOLEAN, possible : BOOLEAN, price : {0, 1},
               approved : SUBSET Approvals]
  /\ DOMAIN call = Workers
  /\ CallShape

\* What is on the chain or on its way was sent by a counted attempt.
PoolCounted ==
  /\ IsFiniteSet(pool)
  /\ \A tx \in pool : /\ tx.kind # "none" /\ tx.by[1] \in Actions /\ tx.by[2] \in Nat
                      /\ tx.by[2] <= attempts[tx.by[1]]
CommitsCounted ==
  \A n \in DOMAIN commits : commits[n].by[1] \in Actions => commits[n].by[2] <= attempts[commits[n].by[1]]

Attempt(w)  == << Act(w), attempts[Act(w)] >>
OwnTx(w, tx)    == tx.by[1] = Act(w) /\ tx.by[2] = attempts[Act(w)]
OwnCommit(w, n) == n \in DOMAIN commits /\ commits[n].by = Attempt(w)

NoneMade(w)    == \A n \in DOMAIN commits : ~OwnCommit(w, n)
OnlyMade(w, n) == OwnCommit(w, n) /\ \A m \in DOMAIN commits : OwnCommit(w, m) => m = n
NoneOpen(w)    == \A n \in DOMAIN commits : OwnCommit(w, n) => ~commits[n].open

\* The transaction under way is that of the program's operation, and the only one of
\* the call that is not mined.
TxSound(w) ==
  LET c == call[w] IN
  /\ c.pc \in 1..(Len(Program(Type(w))) + 1)
  /\ c.tx = NoTx => c.receipt = "none"
  /\ c.tx # NoTx =>
       /\ c.pc <= Len(Program(Type(w))) /\ c.tx.kind = Op(w) /\ OwnTx(w, c.tx)
       /\ Op(w) = "reveal" => c.tx.commit = c.commit
       /\ c.receipt = "none" <=> c.tx \in pool
  /\ c.receipt \in {"none", "success", "reverted"}
  /\ c.receipt = "reverted" => c.reverted
  /\ \A tx \in pool : OwnTx(w, tx) => tx = c.tx

\* What the action is for is not done before its operation, and decided after it.
DoneSound(w) ==
  LET c == call[w]
      p == Program(Type(w))
  IN  \A i \in 1..Len(p) : p[i] = MainOp(Type(w)) =>
        /\ c.pc < i \/ (c.pc = i /\ c.receipt = "none") => c.done = "no"
        /\ c.pc > i \/ (c.pc = i /\ c.receipt # "none") =>
             c.done = "yes" \/ (c.done = "reverted" /\ c.reverted)

\* The call has made no commit before its operation, then the one it goes by, and
\* leaves it closed.
CommitSound(w) ==
  LET c == call[w]
      p == Program(Type(w))
  IN  /\ (\A i \in 1..Len(p) : p[i] # "commit") => NoneMade(w)
      /\ \A i \in 1..Len(p) : p[i] = "commit" =>
           /\ c.pc < i \/ (c.pc = i /\ c.receipt = "none") => NoneMade(w)
           /\ c.pc = i /\ c.receipt = "success" => \E n \in DOMAIN commits : OnlyMade(w, n)
           /\ c.pc \in {i + 1, i + 2} => OnlyMade(w, c.commit)
           /\ c.pc > i + 2 \/ (c.pc = i + 2 /\ c.receipt = "success") => NoneOpen(w)

CallSound(w) == TxSound(w) /\ DoneSound(w) /\ (~call[w].reverted => CommitSound(w))

ReturnSound(w) ==
  /\ \A tx \in pool : ~OwnTx(w, tx)
  /\ \/ call[w].reverted \/ call[w].done = "nothing"
     \/ call[w].done = "yes" /\ NoneOpen(w)

WorkerSound(w) ==
  /\ loop[w].at = "executing" => CallSound(w)
  /\ loop[w].at = "answered" => ReturnSound(w)

\* SendTransaction is ActionQueue's: the loop stays at "executing" here.
EngineInv ==
  /\ ClaimsInv /\ ChainTypeOK /\ PoolCounted /\ CommitsCounted
  /\ \A w \in Workers : loop[w].at # "sent" /\ WorkerSound(w)

\* Nothing is sent, committed or called at first.
LEMMA EngineInitInv == Init => EngineInv
<1> SUFFICES ASSUME Init PROVE EngineInv
  OBVIOUS
<1>1. ClaimsInv /\ \A w \in Workers : loop[w].at = "idle"
  BY ClaimsInitInv DEF Init, QueueInit, Idle
<1>2. ChainTypeOK
  <2>1. world \in [type : [Actions -> ActionTypes], permitted : BOOLEAN, possible : BOOLEAN, price : {0, 1},
                   approved : SUBSET Approvals]
    <3>1. \A t \in [Actions -> Types] : t \in [Actions -> ActionTypes]
      BY EngineAssumption
    <3>2. world \in [type : [Actions -> Types], permitted : BOOLEAN, possible : BOOLEAN, price : {0},
                     approved : SUBSET Approvals]
      BY DEF Init
    <3> QED BY <3>1, <3>2
  <2>2. DOMAIN call = Workers /\ CallShape
    BY DEF Init, CallShape, Whole, NoCall
  <2> QED BY <2>1, <2>2 DEF Init, ChainTypeOK
<1>3. PoolCounted /\ CommitsCounted
  BY FS_EmptySet DEF Init, PoolCounted, CommitsCounted
<1> QED BY <1>1, <1>2, <1>3 DEF EngineInv, WorkerSound

-----------------------------------------------------------------------------
(* The steps of a call, by what they do to it *)

CallChanges(w) ==
  /\ loop[w].at = "executing"
  /\ DOMAIN call' = Workers /\ CallShape' /\ \A v \in Workers : v # w => call'[v] = call[v]
  /\ UNCHANGED << status, attempts, late, effects, crashes, world, commits >>
  /\ block' \in Nat

InProgram(w) == call[w].tx = NoTx /\ call[w].pc <= Len(Program(Type(w)))

\* It goes on to another operation.
Advances(w) ==
  LET c == call[w]
      d == call'[w]
  IN  /\ CallChanges(w) /\ loop' = loop /\ pool' = pool
      /\ d.tx = NoTx /\ d.receipt = "none" /\ d.done = c.done /\ d.reverted = c.reverted
      /\ \/ /\ InProgram(w) /\ Op(w) \notin {MainOp(Type(w)), "commit", "reveal"}
            /\ d.pc = c.pc + 1 /\ d.commit = c.commit
         \/ /\ InProgram(w) /\ Op(w) = "openable"
            /\ d.pc = c.pc + 4 /\ d.commit = c.commit
         \/ /\ InProgram(w) /\ Op(w) = "reveal"
            /\ d.pc \in {c.pc, c.pc - 1} /\ d.commit = c.commit
         \/ /\ c.tx # NoTx /\ c.receipt # "none"
            /\ d.pc = c.pc + 1
            /\ Op(w) = "commit" => d.commit = CommitMade(w)
            /\ Op(w) # "commit" => d.commit = c.commit

\* It sends the transaction of its operation.
SendsOwn(w) ==
  LET c == call[w]
      d == call'[w]
  IN  /\ CallChanges(w) /\ loop' = loop /\ InProgram(w)
      /\ pool' = pool \cup {d.tx}
      /\ d.tx.kind = Op(w) /\ Op(w) # "none" /\ OwnTx(w, d.tx) /\ d.tx.commit = c.commit
      /\ d.pc = c.pc /\ d.receipt = c.receipt /\ d.commit = c.commit
      /\ d.done = c.done /\ d.reverted = c.reverted

\* It throws; a cancellation may be on its way.
ThrowsOut(w) ==
  /\ CallChanges(w)
  /\ Goes(w, "retryable") \/ Goes(w, "fatal")
  /\ pool' = pool \/ \E tx : pool' = pool \cup {tx} /\ OwnTx(w, tx) /\ tx.kind = "cancel"

ReturnsFrom(w) ==
  LET c == call[w]
      d == call'[w]
  IN  /\ CallChanges(w) /\ Goes(w, "answered") /\ pool' = pool
      /\ c.tx = NoTx /\ d.reverted = c.reverted
      /\ \/ d.done = "nothing"
         \/ d.done = "reverted" /\ c.done # "yes" /\ InProgram(w) /\ Op(w) = "created"
         \/ d.done = c.done /\ InProgram(w) /\ Op(w) = "gear"
         \/ d.done = c.done /\ c.pc = Len(Program(Type(w))) + 1

\* A call's record replaced by a whole one; nothing else of the chain is touched.
LEMMA Reshaped ==
  ASSUME ChainTypeOK, NEW w \in Workers, NEW c, call' = [call EXCEPT ![w] = c],
         Whole(c)
  PROVE  /\ DOMAIN call' = Workers /\ CallShape' /\ \A v \in Workers : v # w => call'[v] = call[v]
         /\ call'[w] = c
<1>1. DOMAIN call = Workers /\ CallShape
  BY DEF ChainTypeOK
<1>2. DOMAIN call' = Workers /\ call'[w] = c /\ \A v \in Workers : v # w => call'[v] = call[v]
  BY <1>1
<1>3. CallShape'
  <2> SUFFICES ASSUME NEW v \in Workers
               PROVE  Whole(call'[v])
    BY DEF CallShape
  <2>1. CASE v = w
    BY <1>2, <2>1
  <2>2. CASE v # w
    BY <1>1, <1>2, <2>2 DEF CallShape
  <2> QED BY <2>1, <2>2
<1> QED BY <1>2, <1>3

\* What is left of the call's record when a step changes it.
OthersStand(w) == DOMAIN call' = Workers /\ CallShape' /\ \A v \in Workers : v # w => call'[v] = call[v]
SameButPlace(w) ==
  /\ call'[w].tx = call[w].tx /\ call'[w].receipt = call[w].receipt /\ call'[w].commit = call[w].commit
  /\ call'[w].done = call[w].done /\ call'[w].reverted = call[w].reverted

\* The next operation, a throw, a return and a send, each by the part it plays.
LEMMA GoesOn ==
  ASSUME ChainTypeOK, NEW w \in Workers, GoOn(w)
  PROVE  OthersStand(w) /\ SameButPlace(w) /\ call'[w].pc = call[w].pc + 1 /\ loop' = loop
<1>1. PICK c : c = [call[w] EXCEPT !.pc = @ + 1]
  OBVIOUS
<1>2. /\ Whole(c)
      /\ c.pc = call[w].pc + 1 /\ c.tx = call[w].tx /\ c.receipt = call[w].receipt
      /\ c.commit = call[w].commit /\ c.done = call[w].done /\ c.reverted = call[w].reverted
  BY <1>1 DEF ChainTypeOK, CallShape, Whole
<1>3. call' = [call EXCEPT ![w] = c] /\ loop' = loop
  BY <1>1 DEF GoOn, Set
<1> QED BY <1>2, <1>3, Reshaped DEF OthersStand, SameButPlace

LEMMA Throwing ==
  ASSUME ChainTypeOK, NEW w \in Workers, NEW at, Throws(w, at)
  PROVE  OthersStand(w) /\ Goes(w, at)
<1>1. PICK c : c = NoCall
  OBVIOUS
<1>2. Whole(c)
  BY <1>1 DEF NoCall, Whole
<1>3. call' = [call EXCEPT ![w] = c] /\ Goes(w, at)
  BY <1>1 DEF Throws
<1> QED BY <1>2, <1>3, Reshaped DEF OthersStand

LEMMA Returning ==
  ASSUME ChainTypeOK, NEW w \in Workers, NEW done, Returns(w, done)
  PROVE  /\ OthersStand(w) /\ Goes(w, "answered")
         /\ call'[w].done = done /\ call'[w].reverted = call[w].reverted
<1>1. PICK c : c = [call[w] EXCEPT !.done = done]
  OBVIOUS
<1>2. /\ Whole(c)
      /\ c.done = done /\ c.reverted = call[w].reverted
  BY <1>1 DEF ChainTypeOK, CallShape, Whole
<1>3. call' = [call EXCEPT ![w] = c] /\ Goes(w, "answered")
  BY <1>1 DEF Returns
<1> QED BY <1>2, <1>3, Reshaped DEF OthersStand

LEMMA Sending ==
  ASSUME ChainTypeOK, NEW w \in Workers, NEW tx, Sends(w, tx)
  PROVE  /\ OthersStand(w) /\ loop' = loop /\ pool' = pool \cup {tx}
         /\ call'[w].tx = tx /\ call'[w].pc = call[w].pc /\ call'[w].receipt = call[w].receipt
         /\ call'[w].commit = call[w].commit /\ call'[w].done = call[w].done
         /\ call'[w].reverted = call[w].reverted
<1>1. PICK c : c = [call[w] EXCEPT !.tx = tx]
  OBVIOUS
<1>2. /\ Whole(c)
      /\ c.tx = tx /\ c.pc = call[w].pc /\ c.receipt = call[w].receipt
      /\ c.commit = call[w].commit /\ c.done = call[w].done /\ c.reverted = call[w].reverted
  BY <1>1 DEF ChainTypeOK, CallShape, Whole
<1>3. call' = [call EXCEPT ![w] = c] /\ loop' = loop /\ pool' = pool \cup {tx}
  BY <1>1 DEF Sends, Set
<1> QED BY <1>2, <1>3, Reshaped DEF OthersStand

\* What a call asks of the chain changes nothing else.
LEMMA UnsentStands ==
  ASSUME ChainTypeOK, NEW w \in Workers, loop[w].at = "executing", Unsent, OthersStand(w)
  PROVE  CallChanges(w) /\ pool' = pool
  BY DEF CallChanges, OthersStand, Unsent, chainVars, ChainTypeOK

\* Each step of a call is one of these.
MovesOn(w) == Advances(w) \/ SendsOwn(w) \/ ThrowsOut(w) \/ ReturnsFrom(w)

Checked == {"owner", "policy", "possible", "created", "openable", "gear", "price", "mined", "items", "mmo"}

\* The operation a call is at is one of its program.
LEMMA InProgramAt ==
  ASSUME NEW w \in Workers, NEW ops, At(w, ops), TxSound(w)
  PROVE  /\ loop[w].at = "executing" /\ InProgram(w) /\ Op(w) \in ops /\ call[w].receipt = "none"
  BY DEF At, InProgram, TxSound

\* The reads that go on, throw or return.
LEMMA CheckMoves ==
  ASSUME ChainTypeOK, NEW w \in Workers, TxSound(w), At(w, Checked), GoOn(w), Unsent
  PROVE  MovesOn(w)
<1>1. /\ OthersStand(w) /\ SameButPlace(w) /\ call'[w].pc = call[w].pc + 1 /\ loop' = loop
  BY GoesOn
<1>2. /\ loop[w].at = "executing" /\ InProgram(w) /\ Op(w) \in Checked /\ call[w].receipt = "none"
  BY InProgramAt
<1>3. CallChanges(w) /\ pool' = pool
  BY <1>1, <1>2, UnsentStands
<1>4. Op(w) \notin {MainOp(Type(w)), "commit", "reveal"}
  BY <1>2 DEF Checked, MainOp
<1> QED BY <1>1, <1>2, <1>3, <1>4 DEF MovesOn, Advances, SameButPlace, InProgram

LEMMA ThrowMoves ==
  ASSUME ChainTypeOK, NEW w \in Workers, loop[w].at = "executing", Unsent,
         Throws(w, "retryable") \/ Throws(w, "fatal")
  PROVE  MovesOn(w)
<1>1. OthersStand(w) /\ (Goes(w, "retryable") \/ Goes(w, "fatal"))
  BY Throwing
<1> QED BY <1>1, UnsentStands DEF MovesOn, ThrowsOut

LEMMA ReturnMoves ==
  ASSUME ChainTypeOK, NEW w \in Workers, loop[w].at = "executing", Unsent, call[w].tx = NoTx,
         NEW done, Returns(w, done),
         \/ done = "nothing"
         \/ done = "reverted" /\ call[w].done # "yes" /\ InProgram(w) /\ Op(w) = "created"
         \/ done = call[w].done /\ InProgram(w) /\ Op(w) = "gear"
         \/ done = call[w].done /\ call[w].pc = Len(Program(Type(w))) + 1
  PROVE  MovesOn(w)
<1>1. /\ OthersStand(w) /\ Goes(w, "answered")
      /\ call'[w].done = done /\ call'[w].reverted = call[w].reverted
  BY Returning
<1> QED BY <1>1, UnsentStands DEF MovesOn, ReturnsFrom

\* A send of the operation itself.
LEMMA SendMoves ==
  ASSUME ChainTypeOK, NEW w \in Workers, TxSound(w),
         At(w, {"send", "aux", "commit", "reveal"} \cup Approvals), Sends(w, Tx(w, Op(w)))
  PROVE  MovesOn(w)
<1>1. PICK tx : tx = Tx(w, Op(w))
  OBVIOUS
<1>2. /\ tx.kind = Op(w) /\ tx.commit = call[w].commit
      /\ tx.by[1] = Act(w) /\ tx.by[2] = attempts[Act(w)]
  BY <1>1 DEF Tx
<1>3. /\ OthersStand(w) /\ loop' = loop /\ pool' = pool \cup {tx}
      /\ call'[w].tx = tx /\ call'[w].pc = call[w].pc /\ call'[w].receipt = call[w].receipt
      /\ call'[w].commit = call[w].commit /\ call'[w].done = call[w].done
      /\ call'[w].reverted = call[w].reverted
  BY <1>1, Sending
<1>4. /\ loop[w].at = "executing" /\ InProgram(w) /\ Op(w) # "none"
  BY InProgramAt DEF Approvals
<1>5. UNCHANGED << status, attempts, late, effects, crashes, world, commits, block >>
  BY DEF Sends, chainVars
<1>6. CallChanges(w)
  BY <1>3, <1>4, <1>5 DEF CallChanges, OthersStand, ChainTypeOK
<1> QED BY <1>2, <1>3, <1>4, <1>6 DEF MovesOn, SendsOwn, OwnTx

\* A box may not be there yet: commit and reveal are passed over.
LEMMA OpenableMoves ==
  ASSUME ChainTypeOK, NEW w \in Workers, TxSound(w), ReadOpenable(w)
  PROVE  MovesOn(w)
<1>0. /\ loop[w].at = "executing" /\ InProgram(w) /\ Op(w) = "openable" /\ call[w].receipt = "none"
  BY InProgramAt DEF ReadOpenable
<1>1. CASE GoOn(w)
  <2>1. At(w, Checked) /\ Unsent
    BY <1>0 DEF ReadOpenable, At, Checked
  <2> QED BY <1>1, <2>1, CheckMoves
<1>2. CASE Set(w, [call[w] EXCEPT !.pc = @ + 1 + Len(CommitReveal)])
  <2>1. PICK c : c = [call[w] EXCEPT !.pc = @ + 1 + Len(CommitReveal)]
    OBVIOUS
  <2>2. Len(CommitReveal) = 3 /\ call[w].pc \in Nat
    BY DEF CommitReveal, TxSound
  <2>3. /\ Whole(c)
        /\ c.pc = call[w].pc + 4 /\ c.tx = call[w].tx /\ c.receipt = call[w].receipt
        /\ c.commit = call[w].commit /\ c.done = call[w].done /\ c.reverted = call[w].reverted
    BY <2>1, <2>2 DEF ChainTypeOK, CallShape, Whole
  <2>4. call' = [call EXCEPT ![w] = c] /\ loop' = loop
    BY <1>2, <2>1 DEF Set
  <2>5. OthersStand(w) /\ call'[w] = c
    BY <2>3, <2>4, Reshaped DEF OthersStand
  <2>6. CallChanges(w) /\ pool' = pool
    BY <1>0, <2>5, UnsentStands DEF ReadOpenable
  <2> QED BY <1>0, <2>3, <2>4, <2>5, <2>6 DEF MovesOn, Advances, InProgram
<1> QED BY <1>1, <1>2 DEF ReadOpenable

\* The price that is read is kept with the call.
LEMMA PriceMoves ==
  ASSUME ChainTypeOK, NEW w \in Workers, TxSound(w), ReadPrice(w)
  PROVE  MovesOn(w)
<1>0. /\ loop[w].at = "executing" /\ InProgram(w) /\ Op(w) = "price" /\ call[w].receipt = "none"
  BY InProgramAt DEF ReadPrice
<1>1. PICK c : c = [call[w] EXCEPT !.pc = @ + 1, !.price = world.price]
  OBVIOUS
<1>a. Whole(call[w])
  BY DEF ChainTypeOK, CallShape, Whole
<1>2. /\ Whole(c)
      /\ c.pc = call[w].pc + 1 /\ c.tx = call[w].tx /\ c.receipt = call[w].receipt
      /\ c.commit = call[w].commit /\ c.done = call[w].done /\ c.reverted = call[w].reverted
  BY <1>1, <1>a DEF Whole
<1>3. call' = [call EXCEPT ![w] = c] /\ loop' = loop
  BY <1>1 DEF ReadPrice, Set
<1>4. OthersStand(w) /\ call'[w] = c
  BY <1>2, <1>3, Reshaped DEF OthersStand
<1>5. CallChanges(w) /\ pool' = pool
  BY <1>0, <1>4, UnsentStands DEF ReadPrice
<1>6. Op(w) \notin {MainOp(Type(w)), "commit", "reveal"}
  BY <1>0 DEF MainOp
<1> QED BY <1>0, <1>2, <1>3, <1>4, <1>5, <1>6 DEF MovesOn, Advances, InProgram

\* A receipt moves the call on, a commit mined too long ago fails it.
LEMMA ReceiptMoves ==
  ASSUME ChainTypeOK, NEW w \in Workers, TxSound(w), GotReceipt(w)
  PROVE  MovesOn(w)
<1>0. /\ loop[w].at = "executing" /\ call[w].tx # NoTx /\ call[w].receipt # "none" /\ Unsent
  BY DEF GotReceipt, Answered
<1>1. PICK c : c = [call[w] EXCEPT !.tx = NoTx, !.receipt = "none", !.pc = AfterReceipt(w)]
  OBVIOUS
<1>a. Whole(call[w])
  BY DEF ChainTypeOK, CallShape, Whole
<1>2. /\ Whole(c)
      /\ c.pc = call[w].pc + 1 /\ c.tx = NoTx /\ c.receipt = "none"
      /\ c.commit = call[w].commit /\ c.done = call[w].done /\ c.reverted = call[w].reverted
  BY <1>1, <1>a DEF AfterReceipt, Whole
<1>3. CASE Op(w) # "commit" /\ Set(w, c)
  <2>1. call' = [call EXCEPT ![w] = c] /\ loop' = loop
    BY <1>3 DEF Set
  <2>2. OthersStand(w) /\ call'[w] = c
    BY <1>2, <2>1, Reshaped DEF OthersStand
  <2>3. CallChanges(w) /\ pool' = pool
    BY <1>0, <2>2, UnsentStands
  <2> QED BY <1>0, <1>2, <1>3, <2>1, <2>2, <2>3 DEF MovesOn, Advances
<1>4. CASE Throws(w, "fatal")
  BY <1>0, <1>4, ThrowMoves
<1>5. CASE Op(w) = "commit" /\ Set(w, [c EXCEPT !.commit = CommitMade(w)])
  <2>0. PICK d : d = [c EXCEPT !.commit = CommitMade(w)]
    OBVIOUS
  <2>1. call' = [call EXCEPT ![w] = d] /\ loop' = loop
    BY <1>5, <2>0 DEF Set
  <2>2. /\ Whole(d)
        /\ d.pc = c.pc /\ d.tx = NoTx /\ d.receipt = "none"
        /\ d.commit = CommitMade(w) /\ d.done = c.done /\ d.reverted = c.reverted
    BY <1>2, <2>0 DEF Whole
  <2>3. OthersStand(w) /\ call'[w] = d
    BY <2>1, <2>2, Reshaped DEF OthersStand
  <2>4. CallChanges(w) /\ pool' = pool
    BY <1>0, <2>3, UnsentStands
  <2> QED BY <1>0, <1>2, <1>5, <2>1, <2>2, <2>3, <2>4 DEF MovesOn, Advances
<1>6. \/ Op(w) # "commit" /\ Set(w, c)
      \/ Throws(w, "fatal")
      \/ Op(w) = "commit" /\ Set(w, [c EXCEPT !.commit = CommitMade(w)])
  BY <1>1 DEF GotReceipt
<1> QED BY <1>3, <1>4, <1>5, <1>6

\* The reveal is tried after the wait, again when it was too early, and gives up.
LEMMA MinedMoves ==
  ASSUME ChainTypeOK, NEW w \in Workers, TxSound(w), WaitMined(w)
  PROVE  MovesOn(w)
<1>0. /\ loop[w].at = "executing" /\ InProgram(w) /\ Op(w) = "mined" /\ call[w].receipt = "none"
      /\ GoOn(w)
  BY InProgramAt DEF WaitMined
<1>1. CASE Unsent
  <2>1. At(w, Checked)
    BY <1>0 DEF WaitMined, At, Checked
  <2> QED BY <1>0, <1>1, <2>1, CheckMoves
<1>2. CASE MineBlocks(2)
  <2>1. /\ OthersStand(w) /\ SameButPlace(w) /\ call'[w].pc = call[w].pc + 1 /\ loop' = loop
    BY <1>0, GoesOn
  <2>2. CallChanges(w) /\ pool' = pool
    BY <1>0, <1>2, <2>1 DEF CallChanges, OthersStand, MineBlocks, ChainTypeOK
  <2>3. Op(w) \notin {MainOp(Type(w)), "commit", "reveal"}
    BY <1>0 DEF MainOp
  <2> QED BY <1>0, <2>1, <2>2, <2>3 DEF MovesOn, Advances, SameButPlace, InProgram
<1> QED BY <1>1, <1>2 DEF WaitMined

\* A reveal that is too early is tried again, at once or after another block.
LEMMA RevealAgainMoves ==
  ASSUME ChainTypeOK, NEW w \in Workers, TxSound(w), At(w, {"reveal"}),
         \/ Set(w, [call[w] EXCEPT !.tries = @ + 1]) /\ MineBlocks(1)
         \/ /\ Set(w, [call[w] EXCEPT !.tries = @ + 1, !.pc = @ - 1, !.since = block + 1 - RevealDelay])
            /\ Unsent
  PROVE  MovesOn(w)
<1>0. /\ loop[w].at = "executing" /\ InProgram(w) /\ Op(w) = "reveal" /\ call[w].receipt = "none"
  BY InProgramAt
<1>1. PICK c : Set(w, c) /\ c \in {[call[w] EXCEPT !.tries = @ + 1],
                                   [call[w] EXCEPT !.tries = @ + 1, !.pc = @ - 1, !.since = block + 1 - RevealDelay]}
  OBVIOUS
<1>2. /\ Whole(c)
      /\ c.pc \in {call[w].pc, call[w].pc - 1} /\ c.tx = call[w].tx /\ c.receipt = call[w].receipt
      /\ c.commit = call[w].commit /\ c.done = call[w].done /\ c.reverted = call[w].reverted
  BY <1>1 DEF ChainTypeOK, CallShape, Whole
<1>3. call' = [call EXCEPT ![w] = c] /\ loop' = loop
  BY <1>1 DEF Set
<1>4. OthersStand(w) /\ call'[w] = c
  BY <1>2, <1>3, Reshaped DEF OthersStand
<1>5. CallChanges(w) /\ pool' = pool
  BY <1>0, <1>4, UnsentStands DEF CallChanges, OthersStand, MineBlocks, ChainTypeOK
<1> QED BY <1>0, <1>2, <1>3, <1>4, <1>5 DEF MovesOn, Advances, InProgram

\* An expired commit is cancelled and the call fails.
LEMMA CancelMoves ==
  ASSUME ChainTypeOK, NEW w \in Workers, loop[w].at = "executing",
         pool' = pool \cup {Tx(w, "cancel")}, Throws(w, "fatal"),
         UNCHANGED << status, attempts, late, effects, crashes, chainVars >>
  PROVE  MovesOn(w)
<1>1. OthersStand(w) /\ Goes(w, "fatal")
  BY Throwing
<1>2. PICK tx : tx = Tx(w, "cancel")
  OBVIOUS
<1>3. OwnTx(w, tx) /\ tx.kind = "cancel" /\ pool' = pool \cup {tx}
  BY <1>2 DEF Tx, OwnTx
<1>4. CallChanges(w)
  BY <1>1 DEF CallChanges, OthersStand, chainVars, ChainTypeOK
<1> QED BY <1>1, <1>3, <1>4 DEF MovesOn, ThrowsOut

\* Every way a reveal ends is a move of its call.
LEMMA RevealMoves ==
  ASSUME ChainTypeOK, NEW w \in Workers, TxSound(w), Reveal(w)
  PROVE  MovesOn(w)
<1>0. /\ loop[w].at = "executing" /\ InProgram(w) /\ Op(w) = "reveal" /\ At(w, {"reveal"})
  BY InProgramAt DEF Reveal
<1>1. \/ (Throws(w, "retryable") \/ Throws(w, "fatal")) /\ Unsent
      \/ Sends(w, Tx(w, "reveal"))
      \/ Set(w, [call[w] EXCEPT !.tries = @ + 1]) /\ MineBlocks(1)
      \/ /\ Set(w, [call[w] EXCEPT !.tries = @ + 1, !.pc = @ - 1, !.since = block + 1 - RevealDelay])
         /\ Unsent
      \/ /\ pool' = pool \cup {Tx(w, "cancel")} /\ Throws(w, "fatal")
         /\ UNCHANGED << status, attempts, late, effects, crashes, chainVars >>
  BY DEF Reveal
<1>2. CASE Sends(w, Tx(w, "reveal"))
  <2>1. At(w, {"send", "aux", "commit", "reveal"} \cup Approvals) /\ Sends(w, Tx(w, Op(w)))
    BY <1>0, <1>2 DEF At
  <2> QED BY <2>1, SendMoves
<1> QED BY <1>0, <1>1, <1>2, ThrowMoves, RevealAgainMoves, CancelMoves

\* So each step of a call is one of the moves.
LEMMA CallStepMoves ==
  ASSUME ChainTypeOK, NEW w \in Workers, loop[w].at = "executing" => TxSound(w), CallStep(w)
  PROVE  MovesOn(w)
<1>0. loop[w].at = "executing" /\ TxSound(w)
  BY DEF CallStep, At, CheckPermitted, CheckPossible, ReadCreated, ReadOpenable, ReadGear, ReadPrice,
         Approved, Send, Refused, GotReceipt, Return, WaitMined, Reveal, CallFails
<1>1. ASSUME NEW ops, At(w, ops)
      PROVE  InProgram(w) /\ Op(w) \in ops /\ call[w].tx = NoTx /\ (ops \subseteq Checked => At(w, Checked))
  BY <1>0, <1>1 DEF At, InProgram
<1>2. CASE CheckPermitted(w)
  BY <1>0, <1>1, <1>2, CheckMoves, ThrowMoves DEF CheckPermitted, Checked
<1>3. CASE CheckPossible(w)
  BY <1>0, <1>1, <1>3, CheckMoves, ReturnMoves DEF CheckPossible, Checked
<1>4. CASE ReadCreated(w)
  BY <1>0, <1>1, <1>4, CheckMoves, ReturnMoves DEF ReadCreated, Checked
<1>5. CASE ReadGear(w)
  BY <1>0, <1>1, <1>5, CheckMoves, ReturnMoves DEF ReadGear, Checked
<1>6. CASE Approved(w)
  BY <1>0, <1>1, <1>6, CheckMoves DEF Approved, Approvals, Checked
<1>7. CASE Send(w)
  <2>1. At(w, {"send", "aux", "commit", "reveal"} \cup Approvals) /\ Sends(w, Tx(w, Op(w)))
    BY <1>7 DEF Send, At
  <2> QED BY <1>0, <2>1, SendMoves
<1>8. CASE Refused(w)
  BY <1>0, <1>8, ThrowMoves DEF Refused
<1>9. CASE Return(w)
  BY <1>0, <1>9, ReturnMoves DEF Return
<1>10. CASE CallFails(w)
  BY <1>0, <1>10, ThrowMoves DEF CallFails
<1> QED BY <1>0, <1>2, <1>3, <1>4, <1>5, <1>6, <1>7, <1>8, <1>9, <1>10,
           OpenableMoves, PriceMoves, ReceiptMoves, MinedMoves, RevealMoves DEF CallStep

-----------------------------------------------------------------------------
(* Steps beside a call *)

\* What others do leaves a call's loop, record, transaction and commits alone, except
\* that a commit may be closed.
Beside(v) ==
  /\ loop'[v] = loop[v] /\ call'[v] = call[v] /\ world'.type = world.type
  /\ loop[v].at \in {"executing", "answered"} =>
       /\ attempts'[Act(v)] = attempts[Act(v)]
       /\ \A tx \in pool' : OwnTx(v, tx) => tx \in pool
       /\ loop[v].at = "executing" /\ call[v].tx \in pool => call[v].tx \in pool'
       /\ \A n \in DOMAIN commits : n \in DOMAIN commits' /\ commits'[n].by = commits[n].by
       /\ \A n \in DOMAIN commits' : commits'[n].by = Attempt(v) =>
            n \in DOMAIN commits /\ (commits'[n].open => commits[n].open)

\* Such a step leaves the call as sound as it was.
LEMMA BesideSound ==
  ASSUME EngineInv, NEW v \in Workers, Beside(v)
  PROVE  WorkerSound(v)'
<1>0. WorkerSound(v) /\ ClaimsInv /\ loop'[v] = loop[v]
  BY DEF EngineInv, Beside
<1>1. CASE loop[v].at \in {"executing", "answered"}
  <2>0. /\ attempts'[Act(v)] = attempts[Act(v)] /\ call'[v] = call[v] /\ world'.type = world.type
        /\ \A tx \in pool' : OwnTx(v, tx) => tx \in pool
        /\ loop[v].at = "executing" /\ call[v].tx \in pool => call[v].tx \in pool'
        /\ \A n \in DOMAIN commits : n \in DOMAIN commits' /\ commits'[n].by = commits[n].by
        /\ \A n \in DOMAIN commits' : commits'[n].by = Attempt(v) =>
             n \in DOMAIN commits /\ (commits'[n].open => commits[n].open)
    BY <1>1 DEF Beside
  <2>1. Act(v)' = Act(v) /\ Type(v)' = Type(v) /\ Op(v)' = Op(v) /\ Attempt(v)' = Attempt(v)
    BY <1>0, <2>0 DEF Act, Type, Op, Attempt
  <2>2. \A tx : OwnTx(v, tx)' <=> OwnTx(v, tx)
    BY <1>0, <2>0 DEF OwnTx, Act
  <2>3. /\ \A n \in DOMAIN commits : n \in DOMAIN commits' /\ (OwnCommit(v, n)' <=> OwnCommit(v, n))
        /\ \A n \in DOMAIN commits' : OwnCommit(v, n)' =>
             n \in DOMAIN commits /\ OwnCommit(v, n) /\ (commits'[n].open => commits[n].open)
    BY <2>0, <2>1 DEF OwnCommit
  <2>4. /\ NoneMade(v) => NoneMade(v)'
        /\ NoneOpen(v) => NoneOpen(v)'
        /\ \A n : OnlyMade(v, n) => OnlyMade(v, n)'
    BY <2>3 DEF NoneMade, NoneOpen, OnlyMade, OwnCommit
  <2>5. ASSUME TxSound(v), loop[v].at = "executing" PROVE TxSound(v)'
    BY <2>0, <2>1, <2>2, <2>5 DEF TxSound
  <2>6. ASSUME DoneSound(v) PROVE DoneSound(v)'
    BY <2>0, <2>1, <2>6 DEF DoneSound
  <2>7. ASSUME CommitSound(v) PROVE CommitSound(v)'
    <3>1. (\E n \in DOMAIN commits : OnlyMade(v, n)) => \E n \in DOMAIN commits' : OnlyMade(v, n)'
      BY <2>3, <2>4
    <3> QED BY <2>0, <2>1, <2>4, <2>7, <3>1 DEF CommitSound
  <2>8. ASSUME ReturnSound(v) PROVE ReturnSound(v)'
    BY <2>0, <2>2, <2>4, <2>8 DEF ReturnSound
  <2>9. CallSound(v) /\ loop[v].at = "executing" => CallSound(v)'
    BY <2>0, <2>5, <2>6, <2>7 DEF CallSound
  <2> QED BY <1>0, <2>8, <2>9 DEF WorkerSound
<1>2. CASE loop[v].at \notin {"executing", "answered"}
  BY <1>0, <1>2 DEF WorkerSound
<1> QED BY <1>1, <1>2

-----------------------------------------------------------------------------
(* Steps of the call itself *)

\* The program a call follows, in a state where its place is known.
LEMMA ItsProgram ==
  ASSUME ChainTypeOK, NEW w \in Workers, loop[w].action \in Actions
  PROVE  WellFormed(Program(Type(w)), MainOp(Type(w)))
<1>1. Type(w) \in ActionTypes
  BY DEF ChainTypeOK, Type, Act
<1> QED BY <1>1, ProgramsWellFormed

\* Nothing of a call is in the pool when it goes on.
LEMMA AdvanceTx ==
  ASSUME PoolCounted, NEW w \in Workers, TxSound(w), Advances(w),
         call'[w].pc \in 1..(Len(Program(Type(w))) + 1)
  PROVE  TxSound(w)'
<1>1. /\ Act(w)' = Act(w) /\ Type(w)' = Type(w) /\ pool' = pool
      /\ call'[w].tx = NoTx /\ call'[w].receipt = "none"
      /\ \A tx : OwnTx(w, tx)' <=> OwnTx(w, tx)
  BY DEF Advances, CallChanges, Act, Type, OwnTx
<1>2. \A tx \in pool : ~OwnTx(w, tx)
  <2>1. CASE call[w].tx = NoTx
    BY <2>1 DEF TxSound, PoolCounted, NoTx
  <2>2. CASE call[w].tx # NoTx
    BY <2>2 DEF TxSound, Advances, InProgram
  <2> QED BY <2>1, <2>2
<1> QED BY <1>1, <1>2 DEF TxSound

\* Where a call that goes on was, and is.
LEMMA AdvancePlace ==
  ASSUME NEW w \in Workers, TxSound(w), Advances(w),
         WellFormed(Program(Type(w)), MainOp(Type(w)))
  PROVE  call'[w].pc \in 1..(Len(Program(Type(w))) + 1)
<1>0. PICK p : p = Program(Type(w)) /\ Op(w) = p[call[w].pc]
  BY DEF Op
<1>1. /\ Len(p) \in Nat /\ call[w].pc \in 1..(Len(p) + 1)
      /\ call[w].tx # NoTx => call[w].pc <= Len(p)
      /\ \A i \in 1..Len(p) : p[i] = "openable" => i + 3 <= Len(p)
      /\ \A i \in 1..Len(p) : p[i] = "reveal" => i > 2
  BY <1>0 DEF TxSound, WellFormed
<1>2. /\ InProgram(w) => call[w].pc \in 1..Len(p)
      /\ InProgram(w) /\ Op(w) = "openable" => call[w].pc + 3 <= Len(p)
      /\ InProgram(w) /\ Op(w) = "reveal" => call[w].pc > 2
  <2>1. InProgram(w) => call[w].pc \in 1..Len(p)
    BY <1>0, <1>1 DEF InProgram
  <2> QED BY <1>0, <1>1, <2>1
<1> QED BY <1>0, <1>1, <1>2 DEF Advances

\* What is done is done before the operation that follows, and not before its own.
LEMMA AdvanceDone ==
  ASSUME NEW w \in Workers, TxSound(w), DoneSound(w), Advances(w),
         WellFormed(Program(Type(w)), MainOp(Type(w)))
  PROVE  DoneSound(w)'
<1>0. PICK p, m : p = Program(Type(w)) /\ m = MainOp(Type(w)) /\ Op(w) = p[call[w].pc]
  BY DEF Op
<1>1. Type(w)' = Type(w)
  BY DEF Advances, CallChanges, Act, Type
<1>2. SUFFICES ASSUME NEW i \in 1..Len(p), p[i] = m
      PROVE  /\ call'[w].pc < i \/ call'[w].pc = i => call'[w].done = "no"
             /\ call'[w].pc > i => call'[w].done = "yes" \/ (call'[w].done = "reverted" /\ call'[w].reverted)
  BY <1>0, <1>1 DEF DoneSound, Advances
<1>3. /\ call[w].pc < i \/ (call[w].pc = i /\ call[w].receipt = "none") => call[w].done = "no"
      /\ call[w].pc > i \/ (call[w].pc = i /\ call[w].receipt # "none") =>
           call[w].done = "yes" \/ (call[w].done = "reverted" /\ call[w].reverted)
  BY <1>0, <1>2 DEF DoneSound
<1>4. /\ Len(p) \in Nat /\ call[w].pc \in 1..(Len(p) + 1) /\ m \in {"send", "reveal"}
      /\ call[w].tx = NoTx => call[w].receipt = "none"
      /\ \A j \in 1..Len(p) : p[j] = m => j = i
      /\ \A j \in 1..Len(p) : p[j] = "openable" => i < j
      /\ \A j \in 1..Len(p) : p[j] = "reveal" => j > 2 /\ p[j - 2] = "commit"
      /\ \A j \in 1..Len(p) : p[j] = "commit" => p[j + 1] = "mined"
  BY <1>0, <1>2 DEF TxSound, WellFormed, MainOp
<1>5. call'[w].done = call[w].done /\ call'[w].reverted = call[w].reverted
  BY DEF Advances
<1>6. CASE InProgram(w) /\ Op(w) \notin {m, "commit", "reveal"} /\ call'[w].pc = call[w].pc + 1
  <2>1. call[w].pc # i
    BY <1>0, <1>2, <1>6
  <2> QED BY <1>3, <1>4, <1>5, <1>6, <2>1
<1>7. CASE InProgram(w) /\ Op(w) = "openable" /\ call'[w].pc = call[w].pc + 4
  <2>0. call[w].pc \in 1..Len(p) /\ p[call[w].pc] = "openable"
    BY <1>0, <1>4, <1>7 DEF InProgram
  <2>1. call[w].pc > i
    BY <1>4, <2>0
  <2> QED BY <1>3, <1>4, <1>5, <1>7, <2>1
<1>8. CASE InProgram(w) /\ Op(w) = "reveal" /\ call'[w].pc \in {call[w].pc, call[w].pc - 1}
  <2>0. call[w].pc \in 1..Len(p) /\ p[call[w].pc] = "reveal"
    BY <1>0, <1>4, <1>8 DEF InProgram
  <2>2. call[w].pc > 2 /\ p[call[w].pc - 2] = "commit" /\ call[w].pc - 2 \in 1..Len(p)
    BY <1>4, <2>0
  <2>3. p[(call[w].pc - 2) + 1] = "mined" /\ (call[w].pc - 2) + 1 = call[w].pc - 1
    BY <1>4, <2>0, <2>2
  <2>1. call[w].pc > 2 /\ call[w].pc - 1 # i
    BY <1>2, <1>4, <2>2, <2>3
  <2> QED BY <1>3, <1>4, <1>5, <1>8, <2>1 DEF InProgram
<1>9. CASE call[w].tx # NoTx /\ call[w].receipt # "none" /\ call'[w].pc = call[w].pc + 1
  BY <1>3, <1>4, <1>5, <1>9
<1> QED BY <1>0, <1>6, <1>7, <1>8, <1>9 DEF Advances

\* The commit a call goes by is the one it made.
LEMMA ItsCommit ==
  ASSUME ChainTypeOK, NEW w \in Workers, call[w].receipt = "success",
         NEW n \in DOMAIN commits, OnlyMade(w, n)
  PROVE  CommitMade(w) = n
<1>1. {m \in DOMAIN commits : commits[m].by = << Act(w), attempts[Act(w)] >>} = {n}
  BY DEF OnlyMade, OwnCommit, Attempt
<1>2. n \in Nat
  BY DEF ChainTypeOK
<1> QED BY <1>1, <1>2 DEF CommitMade

\* The commit goes with the program: made, waited for, revealed, closed.
LEMMA AdvanceCommit ==
  ASSUME ChainTypeOK, NEW w \in Workers, TxSound(w), CommitSound(w), ~call[w].reverted, Advances(w),
         WellFormed(Program(Type(w)), MainOp(Type(w)))
  PROVE  CommitSound(w)'
<1>0. PICK p : p = Program(Type(w)) /\ Op(w) = p[call[w].pc]
  BY DEF Op
<1>1. /\ Type(w)' = Type(w) /\ commits' = commits /\ Attempt(w)' = Attempt(w)
      /\ call'[w].receipt = "none"
  BY DEF Advances, CallChanges, Act, Type, Attempt
<1>2. /\ NoneMade(w)' <=> NoneMade(w)
      /\ NoneOpen(w)' <=> NoneOpen(w)
      /\ \A n : OnlyMade(w, n)' <=> OnlyMade(w, n)
  BY <1>1 DEF NoneMade, NoneOpen, OnlyMade, OwnCommit
<1>3. (\A i \in 1..Len(p) : p[i] # "commit") => NoneMade(w)
  BY <1>0 DEF CommitSound
<1>4. ASSUME NEW i \in 1..Len(p), p[i] = "commit"
      PROVE  /\ call'[w].pc < i \/ call'[w].pc = i => NoneMade(w)
             /\ call'[w].pc \in {i + 1, i + 2} => OnlyMade(w, call'[w].commit)
             /\ call'[w].pc > i + 2 => NoneOpen(w)
  <2>1. /\ call[w].pc < i \/ (call[w].pc = i /\ call[w].receipt = "none") => NoneMade(w)
        /\ call[w].pc = i /\ call[w].receipt = "success" => \E n \in DOMAIN commits : OnlyMade(w, n)
        /\ call[w].pc \in {i + 1, i + 2} => OnlyMade(w, call[w].commit)
        /\ call[w].pc > i + 2 \/ (call[w].pc = i + 2 /\ call[w].receipt = "success") => NoneOpen(w)
    BY <1>0, <1>4 DEF CommitSound
  <2>2. /\ Len(p) \in Nat /\ call[w].pc \in 1..(Len(p) + 1)
        /\ call[w].tx = NoTx => call[w].receipt = "none"
        /\ call[w].tx # NoTx => call[w].pc \in 1..Len(p)
        /\ call[w].receipt \in {"none", "success"}
    BY <1>0 DEF TxSound, WellFormed
  <2>3. /\ \A j \in 1..Len(p) : p[j] = "commit" => j = i
        /\ i + 2 <= Len(p) /\ p[i + 1] = "mined" /\ p[i + 2] = "reveal"
        /\ \A j \in 1..Len(p) : p[j] = "reveal" => j > 2 /\ p[j - 2] = "commit"
        /\ \A j \in 1..Len(p) : p[j] = "openable" => p[j + 1] = "commit" /\ j + 3 <= Len(p)
    BY <1>0, <1>4 DEF WellFormed
  <2>4. CASE /\ InProgram(w) /\ Op(w) \notin {"commit", "reveal"}
             /\ call'[w].pc = call[w].pc + 1 /\ call'[w].commit = call[w].commit
    <3>1. call[w].pc # i /\ call[w].pc # i + 2
      BY <1>0, <1>4, <2>3, <2>4
    <3> QED BY <2>1, <2>2, <2>4, <3>1 DEF InProgram
  <2>5. CASE InProgram(w) /\ Op(w) = "openable" /\ call'[w].pc = call[w].pc + 4
    <3>1. call[w].pc \in 1..Len(p) /\ p[call[w].pc] = "openable"
      BY <1>0, <2>2, <2>5 DEF InProgram
    <3>2. call[w].pc + 1 = i
      BY <2>2, <2>3, <3>1
    <3>3. NoneMade(w) => NoneOpen(w)
      BY DEF NoneMade, NoneOpen
    <3> QED BY <2>1, <2>2, <2>5, <3>2, <3>3
  <2>6. CASE /\ InProgram(w) /\ Op(w) = "reveal"
             /\ call'[w].pc \in {call[w].pc, call[w].pc - 1} /\ call'[w].commit = call[w].commit
    <3>1. call[w].pc \in 1..Len(p) /\ p[call[w].pc] = "reveal"
      BY <1>0, <2>2, <2>6 DEF InProgram
    <3>2. call[w].pc > 2 /\ p[call[w].pc - 2] = "commit" /\ call[w].pc - 2 \in 1..Len(p)
      BY <2>3, <3>1
    <3>3. call[w].pc = i + 2
      BY <2>2, <2>3, <3>2
    <3> QED BY <2>1, <2>2, <2>6, <3>3
  <2>7. CASE /\ call[w].tx # NoTx /\ call[w].receipt # "none" /\ call'[w].pc = call[w].pc + 1
             /\ Op(w) = "commit" /\ call'[w].commit = CommitMade(w)
    <3>1. call[w].pc = i /\ call[w].receipt = "success"
      BY <1>0, <2>2, <2>3, <2>7
    <3>2. PICK n \in DOMAIN commits : OnlyMade(w, n)
      BY <2>1, <3>1
    <3>3. OnlyMade(w, call'[w].commit)
      BY <2>7, <3>1, <3>2, ItsCommit
    <3> QED BY <2>2, <2>7, <3>1, <3>3
  <2>8. CASE /\ call[w].tx # NoTx /\ call[w].receipt # "none" /\ call'[w].pc = call[w].pc + 1
             /\ Op(w) # "commit" /\ call'[w].commit = call[w].commit
    <3>1. call[w].pc # i /\ call[w].receipt = "success"
      BY <1>0, <1>4, <2>2, <2>8
    <3> QED BY <2>1, <2>2, <2>8, <3>1
  <2> QED BY <2>4, <2>5, <2>6, <2>7, <2>8 DEF Advances
<1>5. \A i \in 1..Len(p) : p[i] = "commit" =>
        /\ call'[w].pc < i \/ call'[w].pc = i => NoneMade(w)
        /\ call'[w].pc \in {i + 1, i + 2} => OnlyMade(w, call'[w].commit)
        /\ call'[w].pc > i + 2 => NoneOpen(w)
  BY <1>4
<1> QED BY <1>0, <1>1, <1>2, <1>3, <1>5 DEF CommitSound

\* A call that goes on stays sound.
LEMMA AdvanceSound ==
  ASSUME EngineInv, NEW w \in Workers, Advances(w)
  PROVE  WorkerSound(w)' /\ loop'[w].at # "sent"
<1>1. /\ loop[w].at = "executing" /\ loop' = loop /\ call'[w].reverted = call[w].reverted
      /\ ClaimsInv /\ ChainTypeOK /\ PoolCounted /\ WorkerSound(w)
  BY DEF Advances, CallChanges, EngineInv
<1>2. TxSound(w) /\ DoneSound(w) /\ (~call[w].reverted => CommitSound(w))
  BY <1>1 DEF WorkerSound, CallSound
<1>3. WellFormed(Program(Type(w)), MainOp(Type(w)))
  BY <1>1, HasAction, ItsProgram
<1>4. TxSound(w)' /\ DoneSound(w)'
  BY <1>1, <1>2, <1>3, AdvanceTx, AdvancePlace, AdvanceDone
<1>5. ~call[w].reverted => CommitSound(w)'
  BY <1>1, <1>2, <1>3, AdvanceCommit
<1> QED BY <1>1, <1>4, <1>5 DEF WorkerSound, CallSound

\* A call that sends stays sound.
LEMMA SendSound ==
  ASSUME EngineInv, NEW w \in Workers, SendsOwn(w)
  PROVE  WorkerSound(w)' /\ loop'[w].at # "sent"
<1>1. /\ loop[w].at = "executing" /\ loop' = loop /\ PoolCounted /\ WorkerSound(w)
      /\ call[w].tx = NoTx /\ call[w].pc <= Len(Program(Type(w)))
  BY DEF SendsOwn, CallChanges, EngineInv, InProgram
<1>2. TxSound(w) /\ DoneSound(w) /\ (~call[w].reverted => CommitSound(w))
  BY <1>1 DEF WorkerSound, CallSound
<1>3. /\ Act(w)' = Act(w) /\ Type(w)' = Type(w) /\ Op(w)' = Op(w) /\ Attempt(w)' = Attempt(w)
      /\ commits' = commits
      /\ \A tx : OwnTx(w, tx)' <=> OwnTx(w, tx)
      /\ call'[w].pc = call[w].pc /\ call'[w].receipt = call[w].receipt /\ call'[w].commit = call[w].commit
      /\ call'[w].done = call[w].done /\ call'[w].reverted = call[w].reverted
  BY DEF SendsOwn, CallChanges, Act, Type, Op, Attempt, OwnTx
<1>4. TxSound(w)'
  <2>1. \A tx \in pool : ~OwnTx(w, tx)
    BY <1>1, <1>2 DEF TxSound, PoolCounted, NoTx
  <2>2. /\ pool' = pool \cup {call'[w].tx} /\ call'[w].tx.kind = Op(w) /\ Op(w) # "none"
        /\ OwnTx(w, call'[w].tx) /\ call'[w].tx.commit = call[w].commit
    BY DEF SendsOwn
  <2>3. call[w].receipt = "none" /\ call'[w].tx # NoTx
    BY <1>1, <1>2, <2>2 DEF TxSound, NoTx
  <2> QED BY <1>1, <1>2, <1>3, <2>1, <2>2, <2>3 DEF TxSound
<1>5. DoneSound(w)'
  BY <1>2, <1>3 DEF DoneSound
<1>6. ~call[w].reverted => CommitSound(w)'
  <2>1. /\ NoneMade(w)' <=> NoneMade(w)
        /\ NoneOpen(w)' <=> NoneOpen(w)
        /\ \A n : OnlyMade(w, n)' <=> OnlyMade(w, n)
    BY <1>3 DEF NoneMade, NoneOpen, OnlyMade, OwnCommit
  <2> QED BY <1>2, <1>3, <2>1 DEF CommitSound
<1> QED BY <1>1, <1>3, <1>4, <1>5, <1>6 DEF WorkerSound, CallSound

\* When a call returns, its transactions are mined, and its outcome decided.
LEMMA ReturnIsSound ==
  ASSUME EngineInv, NEW w \in Workers, ReturnsFrom(w)
  PROVE  WorkerSound(w)' /\ loop'[w].at # "sent"
<1>1. /\ loop[w].at = "executing" /\ Goes(w, "answered") /\ ClaimsInv /\ ChainTypeOK /\ PoolCounted
      /\ WorkerSound(w) /\ call[w].tx = NoTx /\ pool' = pool /\ commits' = commits
      /\ attempts' = attempts
  BY DEF ReturnsFrom, CallChanges, EngineInv
<1>2. TxSound(w) /\ DoneSound(w) /\ (~call[w].reverted => CommitSound(w))
  BY <1>1 DEF WorkerSound, CallSound
<1>3. WellFormed(Program(Type(w)), MainOp(Type(w)))
  BY <1>1, HasAction, ItsProgram
<1>4. loop'[w].at = "answered" /\ loop'[w].action = loop[w].action
  BY <1>1, GoesFacts DEF Points
<1>5. /\ Attempt(w)' = Attempt(w) /\ NoneOpen(w)' <=> NoneOpen(w)
      /\ \A tx : OwnTx(w, tx)' <=> OwnTx(w, tx)
  BY <1>1, <1>4 DEF Attempt, Act, NoneOpen, OwnCommit, OwnTx
<1>6. \A tx \in pool : ~OwnTx(w, tx)
  BY <1>1, <1>2 DEF TxSound, PoolCounted, NoTx
<1>7. PICK p, m : p = Program(Type(w)) /\ m = MainOp(Type(w)) /\ Op(w) = p[call[w].pc]
  BY DEF Op
<1>8. PICK i \in 1..Len(p) : p[i] = m
  BY <1>3, <1>7 DEF WellFormed
<1>9. call'[w].reverted = call[w].reverted
  BY DEF ReturnsFrom
<1>10. ASSUME call[w].pc > i
       PROVE  call[w].done = "yes" \/ (call[w].done = "reverted" /\ call[w].reverted)
  BY <1>2, <1>7, <1>8, <1>10 DEF DoneSound
<1>11. ASSUME \A j \in 1..Len(p) : p[j] = "commit" => call[w].pc > j + 2
       PROVE  call[w].reverted \/ NoneOpen(w)
  <2>1. NoneMade(w) => NoneOpen(w)
    BY DEF NoneMade, NoneOpen
  <2> QED BY <1>2, <1>7, <1>11, <2>1 DEF CommitSound
<1>12. /\ Len(p) \in Nat /\ call[w].pc \in 1..(Len(p) + 1)
       /\ InProgram(w) => call[w].pc \in 1..Len(p)
  BY <1>2, <1>3, <1>7 DEF TxSound, WellFormed, InProgram
<1>13. CASE call'[w].done = "reverted" /\ call[w].done # "yes" /\ InProgram(w) /\ Op(w) = "created"
  <2>1. call[w].pc > i
    BY <1>3, <1>7, <1>8, <1>12, <1>13 DEF WellFormed
  <2> QED BY <1>4, <1>5, <1>6, <1>1, <1>9, <1>10, <1>13, <2>1 DEF WorkerSound, ReturnSound
<1>14. CASE call'[w].done = call[w].done /\ InProgram(w) /\ Op(w) = "gear"
  <2>1. call[w].pc > i /\ \A j \in 1..Len(p) : p[j] = "commit" => call[w].pc > j + 2
    BY <1>3, <1>7, <1>8, <1>12, <1>14 DEF WellFormed
  <2> QED BY <1>1, <1>4, <1>5, <1>6, <1>9, <1>10, <1>11, <1>14, <2>1 DEF WorkerSound, ReturnSound
<1>15. CASE call'[w].done = call[w].done /\ call[w].pc = Len(Program(Type(w))) + 1
  <2>1. call[w].pc > i /\ \A j \in 1..Len(p) : p[j] = "commit" => call[w].pc > j + 2
    BY <1>3, <1>7, <1>8, <1>12, <1>15 DEF WellFormed
  <2> QED BY <1>1, <1>4, <1>5, <1>6, <1>9, <1>10, <1>11, <1>15, <2>1 DEF WorkerSound, ReturnSound
<1>16. CASE call'[w].done = "nothing"
  BY <1>1, <1>4, <1>5, <1>6, <1>16 DEF WorkerSound, ReturnSound
<1> QED BY <1>13, <1>14, <1>15, <1>16 DEF ReturnsFrom

-----------------------------------------------------------------------------
(* Every step of the engine keeps its invariant *)

\* Neither the world nor the commits are touched by a call.
LEMMA ChainUntouched ==
  ASSUME ChainTypeOK, CommitsCounted, UNCHANGED << attempts, world, commits >>, block' \in Nat,
         DOMAIN call' = Workers, CallShape'
  PROVE  ChainTypeOK' /\ CommitsCounted'
  BY DEF ChainTypeOK, CommitsCounted

\* A transaction sent by a call is counted, and not another's.
LEMMA CallPool ==
  ASSUME EngineInv, NEW w \in Workers, MovesOn(w)
  PROVE  /\ PoolCounted'
         /\ \A tx \in pool' \ pool : tx.by[1] = Act(w)
         /\ pool \subseteq pool'
<1>0. PoolCounted /\ attempts' = attempts /\ loop[w].at = "executing" /\ ClaimsInv
  BY DEF MovesOn, Advances, SendsOwn, ThrowsOut, ReturnsFrom, CallChanges, EngineInv
<1>1. Act(w) \in Actions /\ attempts[Act(w)] \in Nat
  BY <1>0, HasAction, QueueAssumption DEF Act, ClaimsInv, ClaimsTypeOK
<1>2. ASSUME pool' = pool PROVE PoolCounted'
  BY <1>0, <1>2 DEF PoolCounted
<1>3. ASSUME NEW tx, pool' = pool \cup {tx}, OwnTx(w, tx), tx.kind # "none"
      PROVE  PoolCounted' /\ tx.by[1] = Act(w)
  <2>1. IsFiniteSet(pool')
    BY <1>0, <1>3, FS_AddElement DEF PoolCounted
  <2> QED BY <1>0, <1>1, <1>3, <2>1 DEF PoolCounted, OwnTx
<1> QED BY <1>2, <1>3 DEF MovesOn, Advances, SendsOwn, ThrowsOut, ReturnsFrom

\* A step of a call keeps the invariant: its own call by its move, the others beside it.
LEMMA CallStepInv ==
  ASSUME EngineInv, NEW w \in Workers, CallStep(w)
  PROVE  EngineInv' /\ MovesOn(w)
<1>0. /\ ClaimsInv /\ ChainTypeOK /\ PoolCounted /\ CommitsCounted /\ WorkerSound(w) /\ OneClaimant
  BY DEF EngineInv, ClaimsInv
<1>1. MovesOn(w)
  BY <1>0, CallStepMoves DEF WorkerSound, CallSound
<1>2. CallChanges(w)
  BY <1>1 DEF MovesOn, Advances, SendsOwn, ThrowsOut, ReturnsFrom
<1>3. ChainTypeOK' /\ CommitsCounted'
  BY <1>0, <1>2, ChainUntouched DEF CallChanges
<1>4. ClaimsInv' /\ \A v \in Workers : v # w => loop'[v] = loop[v]
  <2>1. CASE loop' = loop
    BY <1>0, <1>2, <2>1, ClaimsUntouched DEF CallChanges
  <2>2. ASSUME NEW at \in {"answered", "retryable", "fatal"}, Goes(w, at)
        PROVE  ClaimsInv' /\ \A v \in Workers : v # w => loop'[v] = loop[v]
    BY <1>0, <1>2, <2>2, ExecutionClaims DEF CallChanges, Working, OwnStep
  <2> QED BY <1>1, <2>1, <2>2 DEF MovesOn, Advances, SendsOwn, ThrowsOut, ReturnsFrom
<1>5. ASSUME NEW v \in Workers, v # w PROVE WorkerSound(v)' /\ loop'[v].at # "sent"
  <2>1. call'[v] = call[v] /\ loop'[v] = loop[v] /\ UNCHANGED << attempts, world, commits >>
    BY <1>2, <1>4, <1>5 DEF CallChanges
  <2>2. Act(v) # Act(w)
    BY <1>0, <1>2, <1>5, HasAction DEF OneClaimant, Holds, Act, CallChanges
  <2>3. \A tx \in pool' : OwnTx(v, tx) => tx \in pool
    BY <2>2, CallPool, <1>1 DEF OwnTx
  <2>4. pool \subseteq pool'
    BY CallPool, <1>1
  <2>5. Beside(v)
    BY <2>1, <2>3, <2>4 DEF Beside
  <2> QED BY <2>1, <2>5, BesideSound DEF EngineInv
<1>6. WorkerSound(w)' /\ loop'[w].at # "sent"
  <2>1. CASE ThrowsOut(w)
    <3>1. loop'[w].at \in {"retryable", "fatal"}
      BY <1>0, <2>1, GoesFacts DEF ThrowsOut, Points
    <3> QED BY <3>1 DEF WorkerSound
  <2> QED BY <1>1, <2>1, AdvanceSound, SendSound, ReturnIsSound DEF MovesOn
<1>7. PoolCounted'
  BY <1>1, CallPool
<1> QED BY <1>1, <1>3, <1>4, <1>5, <1>6, <1>7 DEF EngineInv

\* What mining a transaction does to the commits.
LEMMA MineCommits ==
  ASSUME ChainTypeOK, PoolCounted, CommitsCounted, NEW tx \in pool, NEW ok \in BOOLEAN, Mine(tx, ok)
  PROVE  /\ commits' \in Seq(Commit) /\ CommitsCounted'
         /\ \A n \in DOMAIN commits : /\ n \in DOMAIN commits' /\ commits'[n].by = commits[n].by
                                      /\ commits'[n].open => commits[n].open
         /\ \A n \in DOMAIN commits' :
              \/ n \in DOMAIN commits
              \/ /\ ok /\ tx.kind = "commit" /\ n = Len(commits) + 1
                 /\ commits'[n].by = << tx.by[1], tx.by[2] >>
         /\ ok /\ tx.kind = "commit" => \E n \in DOMAIN commits' : n \notin DOMAIN commits
         /\ ok /\ tx.kind = "reveal" => ~commits'[tx.commit].open
<1>0. /\ commits \in Seq(Commit) /\ block \in Nat /\ attempts' = attempts
      /\ tx.by[1] \in Actions /\ tx.by[2] \in Nat /\ tx.by[2] <= attempts[tx.by[1]]
  BY DEF ChainTypeOK, PoolCounted, Mine
<1>1. CASE commits' = commits /\ (~ok \/ tx.kind \notin {"commit", "reveal", "cancel"})
  BY <1>0, <1>1 DEF CommitsCounted
<1>2. CASE ok /\ tx.kind = "commit"
  <2>1. PICK r : r = [by |-> << tx.by[1], tx.by[2] >>, block |-> block + 1, open |-> TRUE]
    OBVIOUS
  <2>2. r \in Commit /\ r.by = << tx.by[1], tx.by[2] >>
    BY <1>0, <2>1 DEF Commit
  <2>3. commits' = Append(commits, r)
    BY <1>2, <2>1 DEF Mine
  <2>4. /\ commits' \in Seq(Commit) /\ DOMAIN commits = 1..Len(commits) /\ Len(commits) \in Nat
        /\ DOMAIN commits' = 1..(Len(commits) + 1)
        /\ \A n \in DOMAIN commits : commits'[n] = commits[n]
        /\ commits'[Len(commits) + 1] = r
    BY <1>0, <2>2, <2>3
  <2>5. CommitsCounted'
    BY <1>0, <2>2, <2>4 DEF CommitsCounted
  <2> QED BY <1>2, <2>2, <2>4, <2>5
<1>3. CASE ok /\ tx.kind \in {"reveal", "cancel"}
  <2>1. PICK n : n = tx.commit
    OBVIOUS
  <2>2. n \in DOMAIN commits /\ commits' = [commits EXCEPT ![n].open = FALSE]
    BY <1>3, <2>1 DEF Mine, Accepts, Known
  <2>3. \A m \in DOMAIN commits : commits[m] \in Commit
    BY <1>0
  <2>4. /\ DOMAIN commits' = DOMAIN commits
        /\ \A m \in DOMAIN commits : m # n => commits'[m] = commits[m]
        /\ commits'[n].by = commits[n].by /\ commits'[n].open = FALSE /\ commits'[n] \in Commit
    BY <2>2, <2>3 DEF Commit
  <2>5. commits' \in Seq(Commit)
    BY <1>0, <2>2, <2>3, <2>4
  <2>6. CommitsCounted'
    BY <1>0, <2>4 DEF CommitsCounted
  <2> QED BY <1>3, <2>1, <2>4, <2>5, <2>6
<1> QED BY <1>1, <1>2, <1>3 DEF Mine

\* What it does to the calls.
LEMMA MineCalls ==
  ASSUME ChainTypeOK, NEW tx \in pool, NEW ok \in BOOLEAN, Mine(tx, ok)
  PROVE  /\ DOMAIN call' = Workers /\ CallShape'
         /\ \A w \in Workers : ~Awaiting(w, tx) => call'[w] = call[w]
         /\ \A w \in Workers : Awaiting(w, tx) =>
              /\ call'[w].pc = call[w].pc /\ call'[w].tx = tx /\ call'[w].commit = call[w].commit
              /\ call'[w].receipt = IF ok THEN "success" ELSE "reverted"
              /\ call'[w].reverted <=> call[w].reverted \/ ~ok
              /\ call'[w].done = IF Main(tx) THEN (IF ok THEN "yes" ELSE "reverted") ELSE call[w].done
<1>1. DOMAIN call' = Workers
  BY DEF Mine
<1>2. ASSUME NEW w \in Workers, ~Awaiting(w, tx) PROVE call'[w] = call[w] /\ Whole(call'[w])
  BY <1>2 DEF Mine, ChainTypeOK, CallShape
<1>3. ASSUME NEW w \in Workers, Awaiting(w, tx)
      PROVE  /\ call'[w].pc = call[w].pc /\ call'[w].tx = tx /\ call'[w].commit = call[w].commit
             /\ call'[w].receipt = IF ok THEN "success" ELSE "reverted"
             /\ call'[w].reverted <=> call[w].reverted \/ ~ok
             /\ call'[w].done = IF Main(tx) THEN (IF ok THEN "yes" ELSE "reverted") ELSE call[w].done
             /\ Whole(call'[w])
  <2>1. PICK receipt, since, reverted, done :
          /\ receipt = IF ok THEN "success" ELSE "reverted"
          /\ since = block + 1
          /\ reverted = (call[w].reverted \/ ~ok)
          /\ done = IF Main(tx) THEN (IF ok THEN "yes" ELSE "reverted") ELSE call[w].done
    OBVIOUS
  <2>2. call'[w] = [call[w] EXCEPT !.receipt = receipt, !.since = since, !.reverted = reverted, !.done = done]
    BY <1>3, <2>1 DEF Mine
  <2>3. Whole(call[w]) /\ call[w].tx = tx
    BY <1>3 DEF ChainTypeOK, CallShape, Awaiting
  <2>4. /\ call'[w].pc = call[w].pc /\ call'[w].tx = tx /\ call'[w].commit = call[w].commit
        /\ call'[w].receipt = receipt /\ call'[w].reverted = reverted /\ call'[w].done = done
        /\ Whole(call'[w])
    BY <2>2, <2>3 DEF Whole
  <2> QED BY <2>1, <2>4
<1> QED BY <1>1, <1>2, <1>3 DEF CallShape

\* The call that waits for a transaction takes note of what became of it.
LEMMA MineSound ==
  ASSUME EngineInv, NEW tx \in pool, NEW ok \in BOOLEAN, Mine(tx, ok),
         NEW w \in Workers, Awaiting(w, tx)
  PROVE  WorkerSound(w)'
<1>0. /\ ClaimsInv /\ ChainTypeOK /\ PoolCounted /\ CommitsCounted /\ WorkerSound(w)
      /\ loop[w].at = "executing" /\ call[w].tx = tx /\ tx # NoTx
  BY DEF EngineInv, Awaiting, PoolCounted, NoTx
<1>1. TxSound(w) /\ DoneSound(w) /\ (~call[w].reverted => CommitSound(w))
  BY <1>0 DEF WorkerSound, CallSound
<1>2. /\ loop' = loop /\ attempts' = attempts /\ world'.type = world.type /\ pool' = pool \ {tx}
  BY <1>0 DEF Mine, ChainTypeOK
<1>3. /\ call'[w].pc = call[w].pc /\ call'[w].tx = tx /\ call'[w].commit = call[w].commit
      /\ call'[w].receipt = IF ok THEN "success" ELSE "reverted"
      /\ call'[w].reverted <=> call[w].reverted \/ ~ok
      /\ call'[w].done = IF Main(tx) THEN (IF ok THEN "yes" ELSE "reverted") ELSE call[w].done
  BY <1>0, MineCalls
<1>4. PICK p, m, made : /\ p = Program(Type(w)) /\ m = MainOp(Type(w)) /\ Op(w) = p[call[w].pc]
                        /\ WellFormed(p, m) /\ made = call[w].commit
  BY <1>0, HasAction, ItsProgram DEF Op
<1>5. /\ Type(w)' = Type(w) /\ Act(w)' = Act(w) /\ Op(w)' = Op(w) /\ Attempt(w)' = Attempt(w)
      /\ \A x : OwnTx(w, x)' <=> OwnTx(w, x)
  BY <1>2, <1>3 DEF Type, Act, Op, Attempt, OwnTx
<1>6. /\ call[w].pc \in 1..Len(p) /\ tx.kind = p[call[w].pc] /\ OwnTx(w, tx)
      /\ p[call[w].pc] = "reveal" => tx.commit = call[w].commit
      /\ call[w].receipt = "none" /\ Len(p) \in Nat
  BY <1>0, <1>1, <1>4 DEF TxSound, WellFormed
<1>7. Main(tx) <=> p[call[w].pc] = m
  BY <1>4, <1>6 DEF Main, TypeOfTx, ActOf, OwnTx, Type
<1>8. TxSound(w)'
  BY <1>0, <1>1, <1>2, <1>3, <1>5 DEF TxSound
<1>9. DoneSound(w)'
  <2>1. \A i \in 1..Len(p) : p[i] = m /\ p[call[w].pc] = m => i = call[w].pc
    BY <1>4, <1>6 DEF WellFormed
  <2>2. \A i \in 1..Len(p) : p[i] = m =>
          /\ call[w].pc < i \/ call[w].pc = i => call[w].done = "no"
          /\ call[w].pc > i => call[w].done = "yes" \/ (call[w].done = "reverted" /\ call[w].reverted)
    BY <1>1, <1>4, <1>6 DEF DoneSound
  <2>3. \A i \in 1..Len(p) : p[i] = m =>
          /\ call'[w].pc < i \/ (call'[w].pc = i /\ call'[w].receipt = "none") => call'[w].done = "no"
          /\ call'[w].pc > i \/ (call'[w].pc = i /\ call'[w].receipt # "none") =>
               call'[w].done = "yes" \/ (call'[w].done = "reverted" /\ call'[w].reverted)
    <3> SUFFICES ASSUME NEW i \in 1..Len(p), p[i] = m
                 PROVE  /\ call'[w].pc < i \/ (call'[w].pc = i /\ call'[w].receipt = "none") => call'[w].done = "no"
                        /\ call'[w].pc > i \/ (call'[w].pc = i /\ call'[w].receipt # "none") =>
                             call'[w].done = "yes" \/ (call'[w].done = "reverted" /\ call'[w].reverted)
      OBVIOUS
    <3>1. CASE call[w].pc = i
      <4>1. Main(tx)
        BY <1>7, <3>1
      <4> QED BY <1>3, <1>6, <3>1, <4>1
    <3>2. CASE call[w].pc # i
      <4>1. ~Main(tx)
        BY <1>7, <2>1, <3>2
      <4> QED BY <1>3, <1>6, <2>2, <3>2, <4>1
    <3> QED BY <3>1, <3>2
  <2> QED BY <1>4, <1>5, <2>3 DEF DoneSound
<1>10. ~call'[w].reverted => CommitSound(w)'
  <2> SUFFICES ASSUME ok, ~call[w].reverted PROVE CommitSound(w)'
    BY <1>3
  <2>1. /\ \A n \in DOMAIN commits : /\ n \in DOMAIN commits' /\ commits'[n].by = commits[n].by
                                     /\ commits'[n].open => commits[n].open
        /\ \A n \in DOMAIN commits' :
             \/ n \in DOMAIN commits
             \/ /\ tx.kind = "commit" /\ n = Len(commits) + 1
                /\ commits'[n].by = << tx.by[1], tx.by[2] >>
        /\ tx.kind = "commit" => \E n \in DOMAIN commits' : n \notin DOMAIN commits
        /\ tx.kind = "reveal" => ~commits'[tx.commit].open
    BY <1>0, MineCommits
  <2>2. /\ \A n \in DOMAIN commits : OwnCommit(w, n)' <=> OwnCommit(w, n)
        /\ \A n \in DOMAIN commits' : n \notin DOMAIN commits => OwnCommit(w, n)' /\ n = Len(commits) + 1
    BY <1>5, <1>6, <2>1 DEF OwnCommit, OwnTx, Attempt
  <2>3. /\ NoneOpen(w) => (tx.kind # "commit" => NoneOpen(w)')
        /\ NoneMade(w) => (tx.kind # "commit" => NoneMade(w)')
        /\ \A n : OnlyMade(w, n) => (tx.kind # "commit" => OnlyMade(w, n)')
    BY <2>1, <2>2 DEF NoneOpen, NoneMade, OnlyMade, OwnCommit
  <2>4. NoneMade(w) => (tx.kind = "commit" => \E n \in DOMAIN commits' : OnlyMade(w, n)')
    BY <2>1, <2>2 DEF NoneMade, OnlyMade, OwnCommit
  <2>5. /\ (\A i \in 1..Len(p) : p[i] # "commit") => NoneMade(w)
        /\ \A i \in 1..Len(p) : p[i] = "commit" =>
             /\ call[w].pc < i \/ call[w].pc = i => NoneMade(w)
             /\ call[w].pc \in {i + 1, i + 2} => OnlyMade(w, made)
             /\ call[w].pc > i + 2 => NoneOpen(w)
    BY <1>1, <1>4, <1>6 DEF CommitSound
  <2>6. (\A i \in 1..Len(p) : p[i] # "commit") => NoneMade(w)'
    BY <1>6, <2>3, <2>5
  <2>7. ASSUME NEW i \in 1..Len(p), p[i] = "commit"
        PROVE  /\ call[w].pc < i => NoneMade(w)'
               /\ call[w].pc = i => \E n \in DOMAIN commits' : OnlyMade(w, n)'
               /\ call[w].pc \in {i + 1, i + 2} => OnlyMade(w, made)'
               /\ call[w].pc > i + 2 \/ call[w].pc = i + 2 => NoneOpen(w)'
    <3>1. tx.kind = "commit" <=> call[w].pc = i
      BY <1>4, <1>6, <2>7 DEF WellFormed
    <3>2. call[w].pc = i + 2 => tx.kind = "reveal"
      BY <1>4, <1>6, <2>7 DEF WellFormed
    <3>3. ASSUME call[w].pc = i + 2 PROVE NoneOpen(w)'
      <4>1. OnlyMade(w, made)' /\ tx.commit = made
        BY <1>4, <1>6, <2>3, <2>5, <2>7, <3>1, <3>2, <3>3
      <4>2. ~commits'[made].open
        BY <2>1, <3>2, <3>3, <4>1
      <4> QED BY <4>1, <4>2 DEF NoneOpen, OnlyMade
    <3> QED BY <1>6, <2>3, <2>4, <2>5, <2>7, <3>1, <3>3
  <2>8. OnlyMade(w, made)' => OnlyMade(w, call[w].commit)'
    BY <1>3, <1>4 DEF OnlyMade
  <2>9. /\ Program(Type(w))' = p
        /\ \A i \in 1..Len(p) : p[i] = "commit" =>
             /\ call'[w].pc < i \/ (call'[w].pc = i /\ call'[w].receipt = "none") => NoneMade(w)'
             /\ call'[w].pc = i /\ call'[w].receipt = "success" => \E n \in DOMAIN commits' : OnlyMade(w, n)'
             /\ call'[w].pc \in {i + 1, i + 2} => OnlyMade(w, call[w].commit)'
             /\ call'[w].pc > i + 2 \/ (call'[w].pc = i + 2 /\ call'[w].receipt = "success") => NoneOpen(w)'
    BY <1>3, <1>4, <1>5, <2>7, <2>8
  <2> QED BY <2>6, <2>9 DEF CommitSound
<1> QED BY <1>0, <1>2, <1>8, <1>9, <1>10 DEF WorkerSound, CallSound

\* A transaction mined keeps the invariant.
LEMMA MineInv ==
  ASSUME EngineInv, NEW tx \in pool, NEW ok \in BOOLEAN, Mine(tx, ok)
  PROVE  EngineInv'
<1>0. /\ ClaimsInv /\ ChainTypeOK /\ PoolCounted /\ CommitsCounted
      /\ pool' = pool \ {tx} /\ UNCHANGED << status, attempts, late, loop, crashes >>
  BY DEF EngineInv, Mine
<1>1. ClaimsInv'
  BY <1>0, ClaimsUntouched
<1>2. PoolCounted'
  <2>1. IsFiniteSet(pool')
    BY <1>0, FS_RemoveElement DEF PoolCounted
  <2> QED BY <1>0, <2>1 DEF PoolCounted
<1>3. /\ commits' \in Seq(Commit) /\ CommitsCounted'
      /\ \A n \in DOMAIN commits : /\ n \in DOMAIN commits' /\ commits'[n].by = commits[n].by
                                   /\ commits'[n].open => commits[n].open
      /\ \A n \in DOMAIN commits' :
           \/ n \in DOMAIN commits
           \/ commits'[n].by = << tx.by[1], tx.by[2] >>
  BY <1>0, MineCommits
<1>4. world' \in [type : [Actions -> ActionTypes], permitted : BOOLEAN, possible : BOOLEAN, price : {0, 1},
                  approved : SUBSET Approvals] /\ world'.type = world.type
  BY <1>0 DEF ChainTypeOK, Mine
<1>5. ChainTypeOK'
  <2>1. block' = block + 1 /\ block \in Nat
    BY <1>0 DEF Mine, ChainTypeOK
  <2>2. DOMAIN call' = Workers /\ CallShape'
    BY <1>0, MineCalls
  <2> QED BY <1>3, <1>4, <2>1, <2>2 DEF ChainTypeOK
<1>6. ASSUME NEW w \in Workers PROVE WorkerSound(w)' /\ loop'[w].at # "sent"
  <2>1. CASE Awaiting(w, tx)
    BY <1>0, <2>1, MineSound DEF EngineInv
  <2>2. CASE ~Awaiting(w, tx)
    <3>1. WorkerSound(w) /\ call'[w] = call[w] /\ tx.kind # "none"
      BY <1>0, <2>2, MineCalls DEF EngineInv, PoolCounted
    <3>2. loop[w].at \in {"executing", "answered"} => ~OwnTx(w, tx)
      BY <2>2, <3>1 DEF WorkerSound, CallSound, TxSound, ReturnSound, Awaiting
    <3>3. loop[w].at = "executing" => call[w].tx # tx
      BY <2>2 DEF Awaiting
    <3>4. loop[w].at \in {"executing", "answered"} =>
            \A n \in DOMAIN commits' : commits'[n].by = Attempt(w) =>
              n \in DOMAIN commits /\ (commits'[n].open => commits[n].open)
      BY <1>3, <3>2 DEF OwnTx, Attempt
    <3>5. Beside(w)
      BY <1>0, <1>3, <1>4, <3>1, <3>3, <3>4 DEF Beside
    <3> QED BY <1>0, <3>5, BesideSound DEF EngineInv
  <2> QED BY <2>1, <2>2
<1> QED BY <1>1, <1>2, <1>3, <1>5, <1>6 DEF EngineInv

-----------------------------------------------------------------------------

\* A claim starts a new attempt, that nothing on the chain belongs to.
LEMMA ExecutesInv ==
  ASSUME EngineInv, NEW w \in Workers, Executes(w)
  PROVE  EngineInv'
<1>0. /\ ClaimsInv /\ OneClaimant /\ ChainTypeOK /\ PoolCounted /\ CommitsCounted
      /\ CommitClaim(w) /\ loop[w].at = "locked"
      /\ UNCHANGED << block, changes, world, commits, pool >>
  BY DEF EngineInv, ClaimsInv, Executes, CommitClaim, chainVars
<1>1. PICK a \in Actions : a = loop[w].action /\ a # NoAction
  BY <1>0, HasAction
<1>2. /\ ClaimsInv' /\ loop'[w].action = a /\ loop'[w].at = "executing"
      /\ \A v \in Workers : v # w => loop'[v] = loop[v]
      /\ attempts'[a] = attempts[a] + 1
      /\ \A b \in Actions : b # a => attempts'[b] = attempts[b]
  BY <1>0, <1>1, CommitClaimClaims DEF OwnStep
<1>3. PICK c : c = [NoCall EXCEPT !.pc = 1]
  OBVIOUS
<1>4. /\ Whole(c) /\ c.pc = 1 /\ c.tx = NoTx /\ c.receipt = "none" /\ c.done = "no" /\ ~c.reverted
  BY <1>3 DEF NoCall, Whole
<1>5. OthersStand(w) /\ call'[w] = c
  BY <1>0, <1>3, <1>4, Reshaped DEF Executes, OthersStand
<1>6. /\ attempts[a] \in Nat
      /\ \A b \in Actions : attempts[b] \in Nat /\ attempts'[b] \in Nat /\ attempts[b] <= attempts'[b]
  BY <1>0, <1>1, <1>2, QueueAssumption DEF ClaimsInv, ClaimsTypeOK
<1>7. ChainTypeOK'
  BY <1>0, <1>5 DEF ChainTypeOK, OthersStand
<1>8. PoolCounted'
  BY <1>0, <1>6 DEF PoolCounted
<1>9. CommitsCounted'
  <2> SUFFICES ASSUME NEW n \in DOMAIN commits, commits[n].by[1] \in Actions
               PROVE  commits[n].by[2] <= attempts'[commits[n].by[1]]
    BY <1>0 DEF CommitsCounted
  <2>0. commits[n] \in Commit
    BY <1>0 DEF ChainTypeOK
  <2>1. commits[n].by[2] <= attempts[commits[n].by[1]] /\ commits[n].by[2] \in Nat
    BY <1>0, <2>0 DEF CommitsCounted, Commit
  <2> QED BY <1>6, <2>1
<1>10. ASSUME NEW v \in Workers, v # w PROVE WorkerSound(v)' /\ loop'[v].at # "sent"
  <2>1. call'[v] = call[v] /\ loop'[v] = loop[v]
    BY <1>2, <1>5, <1>10 DEF OthersStand
  <2>2. loop[v].at \in {"executing", "answered"} => attempts'[Act(v)] = attempts[Act(v)]
    <3> SUFFICES ASSUME loop[v].at \in {"executing", "answered"} PROVE attempts'[Act(v)] = attempts[Act(v)]
      OBVIOUS
    <3>1. loop[v].action \in Actions /\ loop[v].action # a
      BY <1>0, <1>1, <1>10, HasAction DEF OneClaimant, Holds
    <3> QED BY <1>2, <3>1 DEF Act
  <2>3. Beside(v)
    BY <1>0, <2>1, <2>2 DEF Beside
  <2> QED BY <2>1, <2>3, BesideSound DEF EngineInv
<1>11. WorkerSound(w)'
  <2>1. PICK p : p = Program(world.type[a]) /\ WellFormed(p, MainOp(world.type[a]))
    BY <1>0, <1>1, ProgramsWellFormed DEF ChainTypeOK
  <2>2. /\ Act(w)' = a /\ Type(w)' = world.type[a] /\ Attempt(w)' = << a, attempts[a] + 1 >>
    BY <1>0, <1>2 DEF Act, Type, Attempt
  <2>3. \A tx \in pool' : ~OwnTx(w, tx)'
    BY <1>0, <1>2, <1>6, <2>2 DEF PoolCounted, OwnTx, Act
  <2>4. NoneMade(w)'
    <3> SUFFICES ASSUME NEW n \in DOMAIN commits, commits[n].by = << a, attempts[a] + 1 >> PROVE FALSE
      BY <1>0, <2>2 DEF NoneMade, OwnCommit
    <3>1. attempts[a] + 1 <= attempts[a]
      BY <1>0, <1>1 DEF CommitsCounted
    <3> QED BY <1>6, <3>1
  <2>5. Len(p) \in Nat
    BY <2>1 DEF WellFormed
  <2>6. TxSound(w)'
    BY <1>4, <1>5, <2>1, <2>2, <2>3, <2>5 DEF TxSound
  <2>7. DoneSound(w)'
    BY <1>4, <1>5, <2>1, <2>2, <2>5 DEF DoneSound
  <2>8. CommitSound(w)'
    BY <1>4, <1>5, <2>1, <2>2, <2>4, <2>5 DEF CommitSound
  <2> QED BY <1>2, <2>6, <2>7, <2>8 DEF WorkerSound, CallSound
<1>12. \A v \in Workers : loop'[v].at # "sent" /\ WorkerSound(v)'
  BY <1>2, <1>10, <1>11
<1> QED BY <1>2, <1>7, <1>8, <1>9, <1>12 DEF EngineInv

\* Steps of the queue beside the calls, which it neither starts nor ends.
LEMMA QueueStepInv ==
  ASSUME EngineInv, ClaimsInv', UNCHANGED << attempts, chainVars, pool >>,
         DOMAIN call' = Workers, CallShape',
         \A v \in Workers : \/ loop'[v] = loop[v] /\ call'[v] = call[v]
                            \/ loop'[v].at \notin {"executing", "answered", "sent"}
  PROVE  EngineInv'
<1>1. ChainTypeOK' /\ PoolCounted' /\ CommitsCounted'
  BY DEF EngineInv, ChainTypeOK, PoolCounted, CommitsCounted, chainVars
<1>2. ASSUME NEW v \in Workers PROVE loop'[v].at # "sent" /\ WorkerSound(v)'
  <2>1. CASE loop'[v] = loop[v] /\ call'[v] = call[v]
    <3>1. Beside(v)
      BY <2>1 DEF Beside, chainVars
    <3> QED BY <2>1, <3>1, BesideSound DEF EngineInv
  <2>2. CASE loop'[v].at \notin {"executing", "answered", "sent"}
    BY <2>2 DEF WorkerSound
  <2> QED BY <2>1, <2>2
<1> QED BY <1>1, <1>2 DEF EngineInv

\* The loop between two calls keeps the invariant.
LEMMA LoopStepInv ==
  ASSUME EngineInv, NEW w \in Workers, LoopStep(w)
  PROVE  EngineInv'
<1>0. ClaimsInv /\ ChainTypeOK /\ UNCHANGED << attempts, chainVars, pool >>
  BY DEF EngineInv, LoopStep, TakeSnapshot, LockCandidate, MarkSucceeded, MarkSucceededFails, MarkRetry, MarkFailed
<1>1. OthersStand(w)
  <2>1. PICK c : c = NoCall
    OBVIOUS
  <2>2. Whole(c) /\ call' = [call EXCEPT ![w] = c]
    BY <2>1 DEF NoCall, Whole, LoopStep
  <2> QED BY <1>0, <2>2, Reshaped DEF OthersStand
<1>2. /\ ClaimsInv' /\ \A v \in Workers : v # w => loop'[v] = loop[v]
      /\ loop'[w].at \notin {"executing", "answered", "sent"}
  <2>1. CASE TakeSnapshot(w)
    <3>1. loop'[w].at = "claiming"
      BY <1>0, <2>1 DEF TakeSnapshot, ClaimsInv, LoopRecords
    <3> QED BY <1>0, <2>1, <3>1, TakeSnapshotClaims DEF OwnStep
  <2>2. CASE LockCandidate(w)
    BY <1>0, <2>2, LockCandidateClaims
  <2>3. CASE MarkSucceeded(w) \/ MarkSucceededFails(w) \/ MarkRetry(w) \/ MarkFailed(w)
    BY <1>0, <2>3, MarkClaims DEF OwnStep
  <2> QED BY <2>1, <2>2, <2>3 DEF LoopStep
<1>3. \A v \in Workers : \/ loop'[v] = loop[v] /\ call'[v] = call[v]
                         \/ loop'[v].at \notin {"executing", "answered", "sent"}
  BY <1>1, <1>2 DEF OthersStand
<1> QED BY <1>0, <1>1, <1>2, <1>3, QueueStepInv DEF OthersStand

\* A new row has no call.
LEMMA EnqueueStepInv ==
  ASSUME EngineInv, NEW a \in Actions, Enqueue(a), UNCHANGED engineVars
  PROVE  EngineInv'
<1>1. ClaimsInv' /\ loop' = loop /\ call' = call /\ UNCHANGED << attempts, chainVars, pool >>
  BY EnqueueClaims DEF EngineInv, Enqueue, engineVars
<1>2. DOMAIN call' = Workers /\ CallShape'
  BY <1>1 DEF EngineInv, ChainTypeOK, CallShape
<1> QED BY <1>1, <1>2, QueueStepInv

\* A crash ends every call.
LEMMA CrashStepInv ==
  ASSUME EngineInv, Crash, call' = [w \in Workers |-> NoCall], UNCHANGED << chainVars, pool >>
  PROVE  EngineInv'
<1>1. ClaimsInv' /\ \A w \in Workers : loop'[w].at = "idle"
  BY CrashClaims DEF EngineInv
<1>2. DOMAIN call' = Workers /\ CallShape'
  BY DEF CallShape, Whole, NoCall
<1>3. attempts' = attempts
  BY DEF Crash
<1> QED BY <1>1, <1>2, <1>3, QueueStepInv

\* What others do: a block, a commit of theirs, another price.
LEMMA ChainStepInv ==
  ASSUME EngineInv, NewBlock \/ OthersAct
  PROVE  EngineInv'
<1>0. /\ ClaimsInv /\ ChainTypeOK /\ PoolCounted /\ CommitsCounted
      /\ UNCHANGED << queueVars, pool, call >> /\ block' = block + 1
  BY DEF EngineInv, NewBlock, OthersAct
<1>1. PICK r : r = [by |-> << NoAction, 0 >>, block |-> block + 1, open |-> TRUE]
  OBVIOUS
<1>2. r \in Commit /\ r.by = << NoAction, 0 >>
  BY <1>0, <1>1 DEF Commit, ChainTypeOK
<1>3. /\ commits' \in Seq(Commit)
      /\ \A n \in DOMAIN commits : n \in DOMAIN commits' /\ commits'[n] = commits[n]
      /\ \A n \in DOMAIN commits' : n \in DOMAIN commits \/ commits'[n].by = << NoAction, 0 >>
  <2>1. CASE commits' = commits
    BY <1>0, <2>1 DEF ChainTypeOK
  <2>2. CASE commits' = Append(commits, r)
    <3>1. commits \in Seq(Commit)
      BY <1>0 DEF ChainTypeOK
    <3> QED BY <1>2, <2>2, <3>1
  <2> QED BY <1>1, <2>1, <2>2 DEF NewBlock, OthersAct
<1>4. world' \in [type : [Actions -> ActionTypes], permitted : BOOLEAN, possible : BOOLEAN, price : {0, 1},
                  approved : SUBSET Approvals] /\ world'.type = world.type
  <2>1. world \in [type : [Actions -> ActionTypes], permitted : BOOLEAN, possible : BOOLEAN, price : {0, 1},
                  approved : SUBSET Approvals]
    BY <1>0 DEF ChainTypeOK
  <2>2. \/ world' = world
        \/ world' = [world EXCEPT !.possible = ~@]
        \/ world' = [world EXCEPT !.price = IF Some(IsPriced) THEN 1 - @ ELSE @]
        \/ \E x \in world.approved : world' = [world EXCEPT !.approved = @ \ {x}]
    BY DEF NewBlock, OthersAct
  <2>3. CASE world' = [world EXCEPT !.price = IF Some(IsPriced) THEN 1 - @ ELSE @]
    BY <2>1, <2>3
  <2> QED BY <2>1, <2>2, <2>3
<1>5. ChainTypeOK'
  BY <1>0, <1>3, <1>4 DEF ChainTypeOK, CallShape
<1>6. CommitsCounted'
  BY <1>0, <1>3, NoActionIsNone DEF CommitsCounted, queueVars
<1>7. PoolCounted' /\ ClaimsInv'
  BY <1>0, ClaimsUntouched DEF PoolCounted, queueVars
<1>8. ASSUME NEW w \in Workers PROVE WorkerSound(w)' /\ loop'[w].at # "sent"
  <2>1. loop[w].at \in {"executing", "answered"} =>
          \A n \in DOMAIN commits' : commits'[n].by = Attempt(w) =>
            n \in DOMAIN commits /\ (commits'[n].open => commits[n].open)
    BY <1>0, <1>3, HasAction DEF Attempt, Act
  <2>2. Beside(w)
    BY <1>0, <1>3, <1>4, <2>1 DEF Beside, queueVars
  <2> QED BY <1>0, <2>2, BesideSound DEF EngineInv, queueVars
<1> QED BY <1>5, <1>6, <1>7, <1>8 DEF EngineInv

\* Every step keeps the invariant.
LEMMA EngineNextInv ==
  ASSUME EngineInv, [Next]_vars
  PROVE  EngineInv'
<1>1. CASE UNCHANGED vars
  <2>1. UNCHANGED << status, attempts, loop, crashes, chainVars, pool, call >>
    BY <1>1 DEF vars, queueVars, engineVars
  <2>2. ClaimsInv' /\ DOMAIN call' = Workers /\ CallShape'
    BY <2>1, ClaimsUntouched DEF EngineInv, ChainTypeOK, CallShape
  <2> QED BY <2>1, <2>2, QueueStepInv
<1>2. CASE Next
  BY <1>2, EnqueueStepInv, LoopStepInv, ExecutesInv, CallStepInv, MineInv, ChainStepInv, CrashStepInv DEF Next
<1> QED BY <1>1, <1>2

\* The whole invariant of the engine.
THEOREM EngineInvariant == Spec => []EngineInv
<1> QED BY EngineInitInv, EngineNextInv, PTL DEF Spec

\* A call of the engine that returns has done what its action is for, and closed the
\* commit it made, unless it found nothing to do or a transaction of it reverted.
THEOREM ReturnAlwaysMeansDone == Spec => []ReturnedMeansDone
<1>1. EngineInv => ReturnedMeansDone
  BY DEF EngineInv, WorkerSound, ReturnSound, ReturnedMeansDone, NoneOpen, OwnCommit, Attempt
<1> QED BY <1>1, EngineInvariant, PTL

-----------------------------------------------------------------------------
(* The engine implements the queue                                         *)

\* A loop and the transactions given up, as the queue sees them.
Shown(w) == [loop[w] EXCEPT !.at = Phase(w)]
LoopBar  == [w \in Workers |-> Shown(w)]
LateBar  == [a \in Actions |-> Cardinality(GivenUp(a))]

\* What the queue sees of a loop is its record, with the phase of its call.
LEMMA ShownFacts ==
  ASSUME EngineInv, NEW w \in Workers
  PROVE  /\ Shown(w).at = Phase(w) /\ Shown(w).action = loop[w].action /\ Shown(w).seen = loop[w].seen
         /\ loop[w].at # "executing" => Shown(w) = loop[w] /\ Phase(w) = loop[w].at
         /\ loop[w].at = "executing" => Phase(w) \in {"executing", "sent", "answered"}
<1>1. PICK r : r = loop[w]
  OBVIOUS
<1>2. r \in [at : Points, action : Actions \cup {NoAction}, seen : Snapshots]
  BY <1>1 DEF EngineInv, ClaimsInv, LoopRecords
<1>3. Phase(w) = loop[w].at \/ loop[w].at = "executing"
  BY DEF Phase
<1>4. loop[w].at = "executing" => Phase(w) \in {"executing", "sent", "answered"}
  BY DEF Phase
<1>5. Shown(w) = [r EXCEPT !.at = Phase(w)]
  BY <1>1 DEF Shown
<1>6. Shown(w).at = Phase(w) /\ Shown(w).action = r.action /\ Shown(w).seen = r.seen
  BY <1>2, <1>5
<1>7. loop[w].at # "executing" => Shown(w) = r
  BY <1>1, <1>2, <1>3, <1>5
<1> QED BY <1>1, <1>3, <1>4, <1>6, <1>7

\* A loop and a phase that stay are seen to stay; one that moves is seen to move.
LEMMA ShownSame ==
  ASSUME NEW w \in Workers, loop'[w] = loop[w], Phase(w)' = Phase(w)
  PROVE  Shown(w)' = Shown(w)
  BY DEF Shown

LEMMA ShownGoes ==
  ASSUME EngineInv, NEW w \in Workers, NEW at,
         loop'[w] = loop[w] \/ loop'[w] = [loop[w] EXCEPT !.at = at], Phase(w)' = at
  PROVE  Shown(w)' = [Shown(w) EXCEPT !.at = at]
<1>1. PICK r, p : r = loop[w] /\ p = Phase(w)
  OBVIOUS
<1>2. r \in [at : Points, action : Actions \cup {NoAction}, seen : Snapshots]
  BY <1>1 DEF EngineInv, ClaimsInv, LoopRecords
<1>3. Shown(w)' = [r EXCEPT !.at = at] \/ Shown(w)' = [[r EXCEPT !.at = at] EXCEPT !.at = at]
  BY <1>1 DEF Shown
<1>4. Shown(w) = [r EXCEPT !.at = p]
  BY <1>1 DEF Shown
<1> QED BY <1>2, <1>3, <1>4

\* The steps of the queue, from what they show.
LEMMA BarGoes ==
  ASSUME NEW w \in Workers, NEW at, \A v \in Workers : v # w => Shown(v)' = Shown(v),
         Shown(w)' = [Shown(w) EXCEPT !.at = at]
  PROVE  Queue!Goes(w, at)
<1>1. LoopBar' = [LoopBar EXCEPT ![w].at = at]
  BY DEF LoopBar
<1> QED BY <1>1 DEF LoopBar, Shown, Queue!Goes

LEMMA BarStutters ==
  ASSUME \A v \in Workers : Shown(v)' = Shown(v), \A a \in Actions : GivenUp(a)' = GivenUp(a),
         UNCHANGED << status, attempts, effects, crashes >>
  PROVE  UNCHANGED Queue!queueVars
<1>1. LoopBar' = LoopBar /\ LateBar' = LateBar
  BY DEF LoopBar, LateBar
<1> QED BY <1>1 DEF LoopBar, LateBar, Shown, Queue!queueVars

LEMMA BarSends ==
  ASSUME NEW w \in Workers, EngineInv, Phase(w) = "executing", Queue!Goes(w, "sent"),
         \A a \in Actions : GivenUp(a)' = GivenUp(a),
         UNCHANGED << status, attempts, effects, crashes >>
  PROVE  Queue!SendTransaction(w)
<1>1. LateBar' = LateBar
  BY DEF LateBar
<1>2. LoopBar[w].at = "executing"
  BY ShownFacts DEF LoopBar
<1> QED BY <1>1, <1>2 DEF LoopBar, LateBar, Shown, Queue!SendTransaction

LEMMA BarAnswers ==
  ASSUME NEW w \in Workers, EngineInv, Phase(w) \in {"executing", "sent"}, Queue!Goes(w, "answered"),
         \A a \in Actions : GivenUp(a)' = GivenUp(a),
         UNCHANGED << status, attempts, crashes >>
  PROVE  /\ effects' = effects => Queue!NoEffect(w)
         /\ Phase(w) = "sent" /\ effects' = [effects EXCEPT ![loop[w].action] = @ + 1] => Queue!TakeEffect(w)
<1>1. LateBar' = LateBar
  BY DEF LateBar
<1>2. LoopBar[w].at = Phase(w) /\ LoopBar[w].action = loop[w].action
  BY ShownFacts DEF LoopBar
<1>3. effects' = effects => Queue!NoEffect(w)
  BY <1>1, <1>2 DEF LoopBar, LateBar, Shown, Queue!NoEffect
<1>4. Phase(w) = "sent" /\ effects' = [effects EXCEPT ![loop[w].action] = @ + 1] => Queue!TakeEffect(w)
  BY <1>1, <1>2 DEF LoopBar, LateBar, Shown, Queue!TakeEffect
<1> QED BY <1>3, <1>4

\* The instance counts as the module does.
LEMMA SameCardinality ==
  ASSUME NEW T
  PROVE  Queue!Cardinality(T) = Cardinality(T)
  BY DEF Queue!Cardinality, Cardinality

\* What of an action's transactions a loop leaves behind.
LEMMA BarLeft ==
  ASSUME EngineInv, NEW a \in Actions, NEW S \in SUBSET Workers
  PROVE  Queue!LeftBehind(a, S) = Cardinality({w \in S : Phase(w) = "sent" /\ loop[w].action = a})
<1>1. \A w \in S : LoopBar[w].at = Phase(w) /\ LoopBar[w].action = loop[w].action
  BY ShownFacts DEF LoopBar
<1>2. {w \in S : LoopBar[w].at = "sent" /\ LoopBar[w].action = a}
       = {w \in S : Phase(w) = "sent" /\ loop[w].action = a}
  BY <1>1
<1> QED BY <1>2, SameCardinality DEF LoopBar, Shown, Queue!LeftBehind

LEMMA BarFails ==
  ASSUME NEW w \in Workers, EngineInv, Phase(w) \in {"executing", "sent", "answered"},
         Queue!Goes(w, "retryable") \/ Queue!Goes(w, "fatal"),
         \A a \in Actions : Cardinality(GivenUp(a)') = Cardinality(GivenUp(a)) + Queue!LeftBehind(a, {w}),
         UNCHANGED << status, attempts, effects, crashes >>
  PROVE  Queue!ExecutionFails(w)
<1>1. LateBar' = [a \in Actions |-> LateBar[a] + Queue!LeftBehind(a, {w})]
  BY DEF LateBar
<1>2. LoopBar[w].at \in {"executing", "sent", "answered"}
  BY ShownFacts DEF LoopBar
<1> QED BY <1>1, <1>2 DEF LoopBar, LateBar, Shown, Queue!ExecutionFails

LEMMA BarLate ==
  ASSUME \A v \in Workers : Shown(v)' = Shown(v), NEW a \in Actions,
         Cardinality(GivenUp(a)) > 0, Cardinality(GivenUp(a)') = Cardinality(GivenUp(a)) - 1,
         \A b \in Actions : b # a => GivenUp(b)' = GivenUp(b),
         UNCHANGED << status, attempts, crashes >>
  PROVE  /\ effects' = effects => Queue!LateWithoutEffect(a)
         /\ effects' = [effects EXCEPT ![a] = @ + 1] => Queue!TakeEffectLate(a)
<1>1. LateBar' = [LateBar EXCEPT ![a] = @ - 1] /\ LateBar[a] > 0
  BY DEF LateBar
<1>2. LoopBar' = LoopBar
  BY DEF LoopBar
<1>3. effects' = effects => Queue!LateWithoutEffect(a)
  BY <1>1, <1>2 DEF LoopBar, LateBar, Shown, Queue!LateWithoutEffect
<1>4. effects' = [effects EXCEPT ![a] = @ + 1] => Queue!TakeEffectLate(a)
  BY <1>1, <1>2 DEF LoopBar, LateBar, Shown, Queue!TakeEffectLate
<1> QED BY <1>3, <1>4

-----------------------------------------------------------------------------

\* A call another step leaves alone looks the same.
LEMMA PhaseStands ==
  ASSUME NEW v \in Workers, loop'[v] = loop[v], call'[v] = call[v], world'.type = world.type,
         loop[v].at = "executing" => (call[v].tx \in pool' <=> call[v].tx \in pool)
  PROVE  /\ Phase(v)' = Phase(v) /\ Shown(v)' = Shown(v)
         /\ \A tx : Awaiting(v, tx)' <=> Awaiting(v, tx)
<1>1. \A tx : Main(tx)' <=> Main(tx)
  BY DEF Main, TypeOfTx
<1>2. Phase(v)' = Phase(v)
  BY <1>1 DEF Phase
<1>3. \A tx : Awaiting(v, tx)' <=> Awaiting(v, tx)
  BY DEF Awaiting
<1> QED BY <1>2, <1>3, ShownSame

\* The call a transaction under way belongs to, and no other, waits for it.
LEMMA WaitsFor ==
  ASSUME EngineInv, NEW w \in Workers, loop[w].at = "executing"
  PROVE  /\ call[w].tx \in pool => /\ ActOf(call[w].tx) = Act(w) /\ call[w].receipt = "none"
                                   /\ Main(call[w].tx) => call[w].done = "no"
         /\ Phase(w) = "sent" <=> call[w].tx \in pool /\ Main(call[w].tx)
         /\ Act(w) \in Actions
<1>0. /\ ClaimsInv /\ ChainTypeOK /\ PoolCounted /\ TxSound(w) /\ DoneSound(w)
  BY DEF EngineInv, WorkerSound, CallSound
<1>1. Act(w) \in Actions
  BY <1>0, HasAction DEF Act
<1>2. ASSUME call[w].tx \in pool
      PROVE  /\ ActOf(call[w].tx) = Act(w) /\ call[w].receipt = "none"
             /\ Main(call[w].tx) => call[w].done = "no"
  <2>1. /\ call[w].tx # NoTx /\ call[w].receipt = "none" /\ call[w].tx.kind = Op(w) /\ OwnTx(w, call[w].tx)
        /\ call[w].pc \in 1..(Len(Program(Type(w))) + 1) /\ call[w].pc <= Len(Program(Type(w)))
    BY <1>0, <1>2 DEF TxSound, PoolCounted, NoTx
  <2>2. Main(call[w].tx) <=> Op(w) = MainOp(Type(w))
    BY <2>1 DEF Main, TypeOfTx, ActOf, OwnTx, Type
  <2>3. Len(Program(Type(w))) \in Nat
    BY <1>0, <1>1, ItsProgram DEF WellFormed, Act
  <2>4. Op(w) = MainOp(Type(w)) => call[w].done = "no"
    BY <1>0, <2>1, <2>3 DEF DoneSound, Op
  <2> QED BY <2>1, <2>2, <2>4 DEF ActOf, OwnTx
<1>3. Phase(w) = "sent" <=> call[w].tx \in pool /\ Main(call[w].tx)
  BY <1>2 DEF Phase
<1> QED BY <1>1, <1>2, <1>3

\* Transactions given up are finitely many.
LEMMA GivenUpFinite ==
  ASSUME EngineInv, NEW a
  PROVE  IsFiniteSet(GivenUp(a)) /\ Cardinality(GivenUp(a)) \in Nat
<1>1. IsFiniteSet(pool) /\ GivenUp(a) \subseteq pool
  BY DEF EngineInv, PoolCounted, GivenUp
<1> QED BY <1>1, FS_Subset, FS_CardinalityType

\* The calls beside one that makes a step.
LEMMA OthersShow ==
  ASSUME EngineInv, EngineInv', NEW w \in Workers, MovesOn(w), NEW v \in Workers, v # w
  PROVE  /\ Phase(v)' = Phase(v) /\ Shown(v)' = Shown(v)
         /\ \A tx : Awaiting(v, tx)' <=> Awaiting(v, tx)
<1>1. CallChanges(w) /\ OneClaimant /\ ClaimsInv /\ WorkerSound(v)
  BY DEF MovesOn, Advances, SendsOwn, ThrowsOut, ReturnsFrom, EngineInv, ClaimsInv
<1>2. loop'[v] = loop[v] /\ call'[v] = call[v] /\ world' = world
  BY <1>1 DEF MovesOn, Advances, SendsOwn, ThrowsOut, ReturnsFrom, Goes, CallChanges, ClaimsInv, LoopRecords
<1>3. ASSUME loop[v].at = "executing", call[v].tx \in pool' PROVE call[v].tx \in pool
  <2>1. Act(v) # Act(w)
    BY <1>1, <1>3, HasAction DEF OneClaimant, Holds, Act, CallChanges
  <2>2. call[v].tx # NoTx
    BY <1>3 DEF EngineInv, PoolCounted, NoTx
  <2>3. call[v].tx.by[1] = Act(v)
    BY <1>1, <1>3, <2>2 DEF WorkerSound, CallSound, TxSound, OwnTx
  <2> QED BY <1>3, <2>1, <2>3, CallPool
<1>4. pool \subseteq pool'
  BY CallPool
<1> QED BY <1>2, <1>3, <1>4, PhaseStands

\* The queue sees nothing of a call that goes on.
LEMMA AdvanceShows ==
  ASSUME EngineInv, EngineInv', NEW w \in Workers, Advances(w)
  PROVE  UNCHANGED Queue!queueVars
<1>1. /\ CallChanges(w) /\ loop' = loop /\ pool' = pool /\ loop[w].at = "executing"
      /\ call'[w].tx = NoTx /\ call'[w].done = call[w].done /\ MovesOn(w)
  BY DEF Advances, CallChanges, MovesOn
<1>2. NoTx \notin pool
  BY DEF EngineInv, PoolCounted, NoTx
<1>3. call[w].tx \notin pool
  BY <1>1, <1>2, WaitsFor DEF Advances, InProgram
<1>4. Phase(w)' = Phase(w)
  BY <1>1, <1>2, <1>3 DEF Phase
<1>5. Shown(w)' = Shown(w)
  BY <1>1, <1>4, ShownSame
<1>6. \A v \in Workers : v # w => Shown(v)' = Shown(v) /\ \A tx : Awaiting(v, tx)' <=> Awaiting(v, tx)
  BY <1>1, OthersShow
<1>7. \A tx \in pool : ~Awaiting(w, tx)' /\ ~Awaiting(w, tx)
  BY <1>1, <1>2, <1>3 DEF Awaiting
<1>8. \A a \in Actions : GivenUp(a)' = GivenUp(a)
  BY <1>1, <1>6, <1>7 DEF GivenUp, Main, TypeOfTx, ActOf, CallChanges
<1>9. \A v \in Workers : Shown(v)' = Shown(v)
  BY <1>5, <1>6
<1> QED BY <1>1, <1>8, <1>9, BarStutters DEF CallChanges

\* It sees the send of the transaction the action is for, and no other.
LEMMA SendShows ==
  ASSUME EngineInv, EngineInv', NEW w \in Workers, SendsOwn(w)
  PROVE  Queue!SendTransaction(w) \/ UNCHANGED Queue!queueVars
<1>0. PICK sent : sent = call'[w].tx
  OBVIOUS
<1>1. /\ CallChanges(w) /\ loop' = loop /\ loop[w].at = "executing" /\ call[w].tx = NoTx
      /\ pool' = pool \cup {sent} /\ call'[w].done = call[w].done /\ MovesOn(w) /\ world' = world
      /\ Op(w) # "none" /\ sent.kind = Op(w) /\ OwnTx(w, sent) /\ call[w].pc <= Len(Program(Type(w)))
  BY <1>0 DEF SendsOwn, CallChanges, MovesOn, InProgram
<1>2. NoTx \notin pool
  BY DEF EngineInv, PoolCounted, NoTx
<1>3. \A v \in Workers : v # w => Shown(v)' = Shown(v) /\ \A tx : Awaiting(v, tx)' <=> Awaiting(v, tx)
  BY <1>1, OthersShow
<1>4. \A tx : Main(tx)' <=> Main(tx)
  BY <1>1 DEF Main, TypeOfTx
<1>5. \A tx : Awaiting(w, tx)' <=> tx = sent
  BY <1>0, <1>1 DEF Awaiting
<1>6. sent \notin pool
  <2>1. TxSound(w) /\ sent # NoTx
    BY <1>1 DEF EngineInv, WorkerSound, CallSound, NoTx
  <2> QED BY <1>1, <2>1 DEF TxSound
<1>7. \A a \in Actions : GivenUp(a)' = GivenUp(a)
  <2> SUFFICES ASSUME NEW a \in Actions, NEW tx
               PROVE  tx \in GivenUp(a)' <=> tx \in GivenUp(a)
    OBVIOUS
  <2>1. CASE tx = sent
    BY <1>5, <1>6, <2>1 DEF GivenUp
  <2>2. CASE tx # sent
    <3>1. ~Awaiting(w, tx)' /\ (tx \in pool => ~Awaiting(w, tx))
      BY <1>1, <1>2, <1>5, <2>2 DEF Awaiting
    <3>2. tx \in pool' <=> tx \in pool
      BY <1>1, <2>2
    <3> QED BY <1>3, <1>4, <3>1, <3>2 DEF GivenUp, ActOf
  <2> QED BY <2>1, <2>2
<1>8. CASE Main(sent)
  <2>1. call[w].done = "no"
    <3>1. TxSound(w) /\ DoneSound(w) /\ ClaimsInv /\ ChainTypeOK
      BY <1>1 DEF EngineInv, WorkerSound, CallSound
    <3>2. Op(w) = MainOp(Type(w))
      BY <1>1, <1>8 DEF Main, TypeOfTx, ActOf, OwnTx, Type
    <3>3. Len(Program(Type(w))) \in Nat
      BY <1>1, <3>1, HasAction, ItsProgram DEF WellFormed
    <3>4. call[w].receipt = "none" /\ call[w].pc \in 1..Len(Program(Type(w)))
      BY <1>1, <3>1, <3>3 DEF TxSound
    <3> QED BY <3>1, <3>2, <3>4 DEF DoneSound, Op
  <2>2. Phase(w)' = "sent" /\ Phase(w) = "executing"
    BY <1>0, <1>1, <1>2, <1>4, <1>8, <2>1 DEF Phase
  <2>3. Shown(w)' = [Shown(w) EXCEPT !.at = "sent"]
    BY <1>1, <2>2, ShownGoes
  <2>4. Queue!Goes(w, "sent")
    BY <1>3, <2>3, BarGoes
  <2> QED BY <1>1, <1>7, <2>2, <2>4, BarSends DEF CallChanges
<1>9. CASE ~Main(sent)
  <2>1. Phase(w)' = Phase(w)
    BY <1>0, <1>1, <1>2, <1>4, <1>9 DEF Phase
  <2>2. \A v \in Workers : Shown(v)' = Shown(v)
    BY <1>1, <1>3, <2>1, ShownSame
  <2> QED BY <1>1, <1>7, <2>2, BarStutters DEF CallChanges
<1> QED BY <1>8, <1>9

\* A call that returns with its effect decided is seen as answered already.
LEMMA ReturnShows ==
  ASSUME EngineInv, EngineInv', NEW w \in Workers, ReturnsFrom(w)
  PROVE  Queue!NoEffect(w) \/ UNCHANGED Queue!queueVars
<1>1. /\ CallChanges(w) /\ Goes(w, "answered") /\ loop[w].at = "executing" /\ call[w].tx = NoTx
      /\ pool' = pool /\ MovesOn(w) /\ world' = world /\ ClaimsInv
  BY DEF ReturnsFrom, CallChanges, MovesOn, EngineInv
<1>2. NoTx \notin pool
  BY DEF EngineInv, PoolCounted, NoTx
<1>3. \A v \in Workers : v # w => Shown(v)' = Shown(v) /\ \A tx : Awaiting(v, tx)' <=> Awaiting(v, tx)
  BY <1>1, OthersShow
<1>4. loop'[w] = [loop[w] EXCEPT !.at = "answered"] /\ loop'[w].at = "answered"
  BY <1>1 DEF Goes, ClaimsInv, LoopRecords
<1>5. \A a \in Actions : GivenUp(a)' = GivenUp(a)
  <2>1. \A tx \in pool : ~Awaiting(w, tx)' /\ ~Awaiting(w, tx)
    BY <1>1, <1>2, <1>4 DEF Awaiting
  <2> QED BY <1>1, <1>3, <2>1 DEF GivenUp, Main, TypeOfTx, ActOf
<1>6. Phase(w)' = "answered" /\ Phase(w) \in {"executing", "answered"}
  BY <1>1, <1>2, <1>4 DEF Phase
<1>7. Shown(w)' = [Shown(w) EXCEPT !.at = "answered"]
  BY <1>4, <1>6, ShownGoes
<1>8. CASE Phase(w) = "executing"
  <2>1. Queue!Goes(w, "answered")
    BY <1>3, <1>7, BarGoes
  <2> QED BY <1>1, <1>5, <1>8, <2>1, BarAnswers DEF CallChanges
<1>9. CASE Phase(w) = "answered"
  <2>1. Shown(w)' = Shown(w)
    BY <1>7, <1>9 DEF Shown
  <2>2. \A v \in Workers : Shown(v)' = Shown(v)
    BY <1>3, <2>1
  <2> QED BY <1>1, <1>5, <2>2, BarStutters DEF CallChanges
<1> QED BY <1>6, <1>8, <1>9

\* A call that throws gives up the transaction it had under way, if that is the one
\* the action is for.
LEMMA ThrowShows ==
  ASSUME EngineInv, EngineInv', NEW w \in Workers, ThrowsOut(w)
  PROVE  Queue!ExecutionFails(w)
<1>1. /\ CallChanges(w) /\ loop[w].at = "executing" /\ MovesOn(w) /\ world' = world /\ ClaimsInv
      /\ Goes(w, "retryable") \/ Goes(w, "fatal")
  BY DEF ThrowsOut, CallChanges, MovesOn, EngineInv
<1>2. PICK at \in {"retryable", "fatal"} : Goes(w, at)
  BY <1>1
<1>3. \A v \in Workers : v # w => Shown(v)' = Shown(v) /\ \A tx : Awaiting(v, tx)' <=> Awaiting(v, tx)
  BY <1>1, OthersShow
<1>4. loop'[w] = [loop[w] EXCEPT !.at = at] /\ loop'[w].at = at
  BY <1>1, <1>2 DEF Goes, ClaimsInv, LoopRecords
<1>5. Phase(w)' = at /\ Phase(w) \in {"executing", "sent", "answered"}
  BY <1>1, <1>4, ShownFacts DEF Phase
<1>6. Queue!Goes(w, at)
  BY <1>3, <1>4, <1>5, ShownGoes, BarGoes
<1>7. \A tx : Main(tx)' <=> Main(tx)
  BY <1>1 DEF Main, TypeOfTx
<1>8. /\ \A tx \in pool : tx \in pool'
      /\ \A tx \in pool' : Main(tx) => tx \in pool
  BY DEF ThrowsOut, Main, MainOp
<1>9. \A tx : ~Awaiting(w, tx)' /\ (Awaiting(w, tx) <=> tx = call[w].tx)
  BY <1>1, <1>4 DEF Awaiting
<1>10. /\ call[w].tx \in pool => ActOf(call[w].tx) = Act(w)
       /\ Phase(w) = "sent" <=> call[w].tx \in pool /\ Main(call[w].tx)
  BY <1>1, WaitsFor
<1>12. ASSUME NEW v \in Workers, v # w PROVE ~(Awaiting(v, call[w].tx) /\ call[w].tx \in pool)
  <2> SUFFICES ASSUME Awaiting(v, call[w].tx), call[w].tx \in pool PROVE FALSE
    OBVIOUS
  <2>1. ActOf(call[w].tx) = Act(v) /\ ActOf(call[w].tx) = Act(w) /\ loop[v].at = "executing"
    BY <1>1, WaitsFor DEF Awaiting
  <2> QED BY <1>1, <1>12, <2>1, HasAction DEF ClaimsInv, OneClaimant, Holds, Act
<1>11. ASSUME NEW a \in Actions
       PROVE  Cardinality(GivenUp(a)') = Cardinality(GivenUp(a)) + Queue!LeftBehind(a, {w})
  <2>1. PICK T : T = {v \in {w} : Phase(v) = "sent" /\ loop[v].action = a}
    OBVIOUS
  <2>2. Queue!LeftBehind(a, {w}) = Cardinality(T)
    BY <2>1, BarLeft
  <2>3. CASE Phase(w) = "sent" /\ Act(w) = a
    <3>1. T = {w}
      BY <2>1, <2>3 DEF Act
    <3>0. PICK left : left = call[w].tx
      OBVIOUS
    <3>2. GivenUp(a)' = GivenUp(a) \cup {left}
      <4> SUFFICES ASSUME NEW tx PROVE tx \in GivenUp(a)' <=> tx \in GivenUp(a) \cup {left}
        OBVIOUS
      <4>1. CASE tx = left
        <5>1. tx \in pool' /\ ActOf(tx) = a /\ Main(tx)'
          BY <1>7, <1>8, <1>10, <2>3, <3>0, <4>1
        <5>2. \A v \in Workers : ~Awaiting(v, tx)'
          <6>1. ~Awaiting(w, tx)'
            BY <1>9
          <6>2. ASSUME NEW v \in Workers, v # w PROVE ~Awaiting(v, tx)'
            <7>1. ~Awaiting(v, tx)
              BY <1>10, <1>12, <2>3, <3>0, <4>1, <6>2
            <7> QED BY <1>3, <6>2, <7>1
          <6> QED BY <6>1, <6>2
        <5> QED BY <4>1, <5>1, <5>2 DEF GivenUp, ActOf
      <4>2. CASE tx # left
        BY <1>3, <1>7, <1>8, <1>9, <3>0, <4>2 DEF GivenUp, ActOf
      <4> QED BY <4>1, <4>2
    <3>3. left \notin GivenUp(a)
      BY <1>9, <3>0 DEF GivenUp
    <3>4. IsFiniteSet(GivenUp(a)) /\ Cardinality(GivenUp(a)) \in Nat
      BY GivenUpFinite
    <3>5. Cardinality(GivenUp(a) \cup {left}) = Cardinality(GivenUp(a)) + 1
      BY <3>3, <3>4, FS_AddElement
    <3>6. Cardinality({w}) = 1
      BY FS_Singleton
    <3> QED BY <2>2, <3>1, <3>2, <3>5, <3>6
  <2>4. CASE ~(Phase(w) = "sent" /\ Act(w) = a)
    <3>1. T = {}
      BY <2>1, <2>4 DEF Act
    <3>2. GivenUp(a)' = GivenUp(a)
      BY <1>3, <1>7, <1>8, <1>9, <1>10, <2>4 DEF GivenUp, ActOf
    <3>3. Cardinality(GivenUp(a)) \in Nat
      BY GivenUpFinite
    <3>4. Cardinality({}) = 0
      BY FS_EmptySet
    <3> QED BY <2>2, <3>1, <3>2, <3>3, <3>4
  <2> QED BY <2>3, <2>4
<1> QED BY <1>1, <1>2, <1>5, <1>6, <1>11, BarFails DEF CallChanges

\* What the queue sees of a step of a call.
LEMMA CallStepShows ==
  ASSUME EngineInv, EngineInv', NEW w \in Workers, CallStep(w)
  PROVE  \/ Queue!SendTransaction(w) \/ Queue!NoEffect(w) \/ Queue!ExecutionFails(w)
         \/ UNCHANGED Queue!queueVars
<1>1. MovesOn(w)
  BY CallStepInv
<1> QED BY <1>1, AdvanceShows, SendShows, ReturnShows, ThrowShows DEF MovesOn

\* A transaction that is mined is the one a call waits for, or one given up, or not
\* the one an action is for.
LEMMA MineShows ==
  ASSUME EngineInv, EngineInv', NEW tx \in pool, NEW ok \in BOOLEAN, Mine(tx, ok)
  PROVE  \/ \E w \in Workers : Queue!TakeEffect(w) \/ Queue!NoEffect(w)
         \/ \E a \in Actions : Queue!TakeEffectLate(a) \/ Queue!LateWithoutEffect(a)
         \/ UNCHANGED Queue!queueVars
<1>1. /\ ClaimsInv /\ ChainTypeOK /\ OneClaimant
      /\ pool' = pool \ {tx} /\ loop' = loop /\ UNCHANGED << status, attempts, crashes >>
      /\ ActOf(tx) \in Actions /\ world'.type = world.type
      /\ effects' = IF ok /\ Main(tx) THEN [effects EXCEPT ![ActOf(tx)] = @ + 1] ELSE effects
  BY DEF EngineInv, ClaimsInv, Mine, PoolCounted, ActOf, ChainTypeOK
<1>2. \A x : Main(x)' <=> Main(x)
  BY <1>1 DEF Main, TypeOfTx
<1>3. ASSUME NEW v \in Workers, ~Awaiting(v, tx)
      PROVE  Shown(v)' = Shown(v) /\ \A x : Awaiting(v, x)' <=> Awaiting(v, x)
  <2>1. call'[v] = call[v] /\ loop'[v] = loop[v]
    BY <1>1, <1>3, MineCalls
  <2>2. loop[v].at = "executing" => (call[v].tx \in pool' <=> call[v].tx \in pool)
    BY <1>1, <1>3 DEF Awaiting
  <2> QED BY <1>1, <2>1, <2>2, PhaseStands
<1>4. CASE \E w \in Workers : Awaiting(w, tx)
  <2>1. PICK w \in Workers : Awaiting(w, tx)
    BY <1>4
  <2>2. loop[w].at = "executing" /\ call[w].tx = tx /\ ActOf(tx) = Act(w) /\ call'[w].tx = tx
    BY <1>1, <2>1, WaitsFor, MineCalls DEF Awaiting
  <2>3. \A v \in Workers : v # w => ~Awaiting(v, tx)
    <3> SUFFICES ASSUME NEW v \in Workers, v # w, Awaiting(v, tx) PROVE FALSE
      OBVIOUS
    <3>1. loop[v].at = "executing" /\ ActOf(tx) = Act(v)
      BY WaitsFor DEF Awaiting
    <3> QED BY <1>1, <2>2, <3>1, HasAction DEF OneClaimant, Holds, Act
  <2>4. \A x : Awaiting(w, x)' <=> x = tx
    BY <1>1, <2>2 DEF Awaiting
  <2>5. \A a \in Actions : GivenUp(a)' = GivenUp(a)
    <3> SUFFICES ASSUME NEW a \in Actions, NEW x PROVE x \in GivenUp(a)' <=> x \in GivenUp(a)
      OBVIOUS
    <3>1. CASE x = tx
      BY <1>1, <2>1, <3>1 DEF GivenUp
    <3>2. CASE x # tx
      <4>1. ~Awaiting(w, x)' /\ ~Awaiting(w, x)
        BY <2>2, <2>4, <3>2 DEF Awaiting
      <4> QED BY <1>1, <1>2, <1>3, <2>3, <3>2, <4>1 DEF GivenUp, ActOf
    <3> QED BY <3>1, <3>2
  <2>6. call'[w].done = IF Main(tx) THEN (IF ok THEN "yes" ELSE "reverted") ELSE call[w].done
    BY <1>1, <2>1, MineCalls
  <2>7. CASE Main(tx)
    <3>1. Phase(w) = "sent"
      BY <2>2, <2>7, WaitsFor
    <3>2. Phase(w)' = "answered"
      BY <1>1, <2>2, <2>6, <2>7 DEF Phase
    <3>3. Shown(w)' = [Shown(w) EXCEPT !.at = "answered"]
      BY <1>1, <3>2, ShownGoes
    <3>4. Queue!Goes(w, "answered")
      BY <1>3, <2>3, <3>3, BarGoes
    <3>5. effects' = effects \/ effects' = [effects EXCEPT ![loop[w].action] = @ + 1]
      BY <1>1, <2>2, <2>7 DEF Act
    <3> QED BY <1>1, <2>5, <3>1, <3>4, <3>5, BarAnswers
  <2>8. CASE ~Main(tx)
    <3>1. Phase(w)' = Phase(w)
      BY <1>1, <1>2, <2>2, <2>6, <2>8 DEF Phase
    <3>2. \A v \in Workers : Shown(v)' = Shown(v)
      BY <1>1, <1>3, <2>3, <3>1, ShownSame
    <3> QED BY <1>1, <2>5, <2>8, <3>2, BarStutters
  <2> QED BY <2>7, <2>8
<1>5. CASE ~\E w \in Workers : Awaiting(w, tx)
  <2>1. \A v \in Workers : Shown(v)' = Shown(v) /\ \A x : Awaiting(v, x)' <=> Awaiting(v, x)
    BY <1>3, <1>5
  <2>2. PICK a \in Actions : a = ActOf(tx)
    BY <1>1
  <2>3. CASE Main(tx)
    <3>1. GivenUp(a)' = GivenUp(a) \ {tx} /\ tx \in GivenUp(a)
      BY <1>1, <1>2, <1>5, <2>1, <2>2, <2>3 DEF GivenUp, ActOf
    <3>2. \A b \in Actions : b # a => GivenUp(b)' = GivenUp(b)
      BY <1>1, <1>2, <2>1, <2>2 DEF GivenUp, ActOf
    <3>3. IsFiniteSet(GivenUp(a)) /\ Cardinality(GivenUp(a)) \in Nat /\ Cardinality(GivenUp(a)') \in Nat
      <4>1. IsFiniteSet(GivenUp(a)) /\ Cardinality(GivenUp(a)) \in Nat
        BY GivenUpFinite
      <4> QED BY <3>1, <4>1, FS_RemoveElement, FS_CardinalityType
    <3>4. Cardinality(GivenUp(a) \ {tx}) = Cardinality(GivenUp(a)) - 1
      BY <3>1, <3>3, FS_RemoveElement
    <3>5. Cardinality(GivenUp(a)) > 0 /\ Cardinality(GivenUp(a)') = Cardinality(GivenUp(a)) - 1
      BY <3>1, <3>3, <3>4
    <3>6. effects' = effects \/ effects' = [effects EXCEPT ![a] = @ + 1]
      BY <1>1, <2>2
    <3> QED BY <1>1, <2>1, <3>2, <3>5, <3>6, BarLate
  <2>4. CASE ~Main(tx)
    <3>1. \A b \in Actions : GivenUp(b)' = GivenUp(b)
      BY <1>1, <1>2, <2>1, <2>4 DEF GivenUp, ActOf
    <3> QED BY <1>1, <2>1, <2>4, <3>1, BarStutters
  <2> QED BY <2>3, <2>4
<1> QED BY <1>4, <1>5

\* Between its calls a loop is seen as it is.
PlainShown == \A w \in Workers : loop[w].at # "executing" => Shown(w) = loop[w]

\* Between calls the queue sees the loop as it is.
LEMMA ShownPlain == EngineInv => PlainShown
  BY ShownFacts DEF PlainShown

\* A loop between two calls changes nothing of the others', nor of the transactions.
LEMMA BetweenCalls ==
  ASSUME EngineInv, EngineInv', NEW w \in Workers, LoopStep(w) \/ Executes(w)
  PROVE  /\ Shown(w) = loop[w] /\ (LoopStep(w) => Shown(w)' = loop'[w])
         /\ \A v \in Workers : v # w => Shown(v)' = Shown(v)
         /\ \A a \in Actions : GivenUp(a)' = GivenUp(a)
         /\ Executes(w) => Phase(w)' = "executing"
<1>1. /\ ClaimsInv /\ ChainTypeOK /\ loop[w].at # "executing" /\ UNCHANGED << pool, world >>
  BY DEF EngineInv, LoopStep, Executes, TakeSnapshot, LockCandidate, MarkSucceeded, MarkSucceededFails,
         MarkRetry, MarkFailed, CommitClaim, chainVars
<1>2. \A v \in Workers : v # w => loop'[v] = loop[v] /\ call'[v] = call[v]
  BY <1>1, TakeSnapshotClaims, LockCandidateClaims, MarkClaims, CommitClaimClaims
     DEF LoopStep, Executes, OwnStep, ChainTypeOK
<1>3. /\ call'[w].tx = NoTx /\ call'[w].done = "no"
  BY <1>1 DEF LoopStep, Executes, ChainTypeOK, NoCall
<1>4. /\ LoopStep(w) => loop'[w].at # "executing"
      /\ Executes(w) => loop'[w].at = "executing"
  <2>1. ASSUME LoopStep(w) PROVE loop'[w].at # "executing"
    <3>1. TakeSnapshot(w) => loop'[w].at = "claiming"
      BY <1>1 DEF TakeSnapshot, ClaimsInv, LoopRecords
    <3> QED BY <1>1, <2>1, <3>1, LockCandidateClaims, MarkClaims DEF LoopStep
  <2> QED BY <1>1, <2>1, CommitClaimClaims DEF Executes
<1>5. Shown(w) = loop[w] /\ (LoopStep(w) => Shown(w)' = loop'[w])
  <2>1. EngineInv' => PlainShown'
    BY ShownPlain, PTL
  <2> QED BY <1>1, <1>4, <2>1, ShownPlain DEF PlainShown
<1>6. NoTx \notin pool
  BY DEF EngineInv, PoolCounted, NoTx
<1>7. \A v \in Workers : v # w => Shown(v)' = Shown(v) /\ \A tx : Awaiting(v, tx)' <=> Awaiting(v, tx)
  BY <1>1, <1>2, PhaseStands
<1>8. \A tx \in pool : ~Awaiting(w, tx)' /\ ~Awaiting(w, tx)
  BY <1>1, <1>3, <1>6 DEF Awaiting
<1>9. \A a \in Actions : GivenUp(a)' = GivenUp(a)
  BY <1>1, <1>7, <1>8 DEF GivenUp, Main, TypeOfTx, ActOf
<1>10. Executes(w) => Phase(w)' = "executing"
  BY <1>1, <1>3, <1>4, <1>6 DEF Phase
<1> QED BY <1>5, <1>7, <1>9, <1>10

\* A record of the loop replaced, as the queue sees it.
LEMMA BarSet ==
  ASSUME NEW w \in Workers, NEW r, Shown(w)' = r, \A v \in Workers : v # w => Shown(v)' = Shown(v)
  PROVE  LoopBar' = [LoopBar EXCEPT ![w] = r]
  BY DEF LoopBar

\* The loop's own steps are the queue's.
LEMMA LoopStepShows ==
  ASSUME EngineInv, EngineInv', NEW w \in Workers, LoopStep(w)
  PROVE  \/ Queue!TakeSnapshot(w) \/ Queue!LockCandidate(w) \/ Queue!MarkSucceeded(w)
         \/ Queue!MarkSucceededFails(w) \/ Queue!MarkRetry(w) \/ Queue!MarkFailed(w)
<1>0. ClaimsInv /\ loop \in [Workers -> [at : Points, action : Actions \cup {NoAction}, seen : Snapshots]]
  BY DEF EngineInv, ClaimsInv, LoopRecords
<1>1. /\ LoopBar[w] = loop[w] /\ Shown(w)' = loop'[w] /\ LateBar' = LateBar
      /\ \A v \in Workers : v # w => Shown(v)' = Shown(v)
  BY BetweenCalls DEF LoopBar, LateBar
<1>2. \A v \in Workers : LoopBar[v].action = loop[v].action /\ (LoopBar[v].at = "locked" <=> loop[v].at = "locked")
  BY ShownFacts DEF LoopBar
<1>3. ASSUME NEW r, loop' = [loop EXCEPT ![w] = r] PROVE LoopBar' = [LoopBar EXCEPT ![w] = r]
  BY <1>0, <1>1, <1>3, BarSet
<1>4. ASSUME Rests(w) PROVE Queue!Rests(w)
  <2>1. LoopBar' = [LoopBar EXCEPT ![w] = Idle]
    BY <1>3, <1>4 DEF Rests
  <2> QED BY <2>1 DEF LoopBar, Shown, Queue!Rests, Idle, Queue!Idle, NoAction, Queue!NoAction
<1>5. ASSUME NEW at, Goes(w, at) PROVE Queue!Goes(w, at)
  <2>1. LoopBar' = [LoopBar EXCEPT ![w] = [loop[w] EXCEPT !.at = at]]
    BY <1>3, <1>5 DEF Goes
  <2>2. LoopBar' = [LoopBar EXCEPT ![w].at = at]
    BY <1>1, <2>1
  <2> QED BY <2>2 DEF LoopBar, Shown, Queue!Goes
<1>6. CASE TakeSnapshot(w)
  <2>1. LoopBar' = [LoopBar EXCEPT ![w] = [at |-> "claiming", action |-> NoAction, seen |-> status]]
    BY <1>3, <1>6 DEF TakeSnapshot
  <2>2. LoopBar[w].at = "idle" /\ UNCHANGED << status, attempts, effects, crashes >>
    BY <1>1, <1>6 DEF TakeSnapshot
  <2> QED BY <1>1, <2>1, <2>2 DEF LoopBar, LateBar, Shown, Queue!TakeSnapshot, NoAction, Queue!NoAction
<1>7. CASE LockCandidate(w)
  <2>1. \A a : Queue!Lockable(a) <=> Lockable(a)
    BY <1>2 DEF LoopBar, Shown, Queue!Lockable, Lockable, Claimable, Queue!Claimable
  <2>2. Queue!Candidates(loop[w].seen) = Candidates(loop[w].seen)
    BY <2>1 DEF Queue!Candidates, Candidates, Queue!Eligible, Eligible, Queue!SameKey, SameKey,
                Claimable, Queue!Claimable
  <2>3. LoopBar[w].at = "claiming" /\ UNCHANGED << status, attempts, effects, crashes >>
    BY <1>1, <1>7 DEF LockCandidate
  <2>4. \/ Candidates(loop[w].seen) = {} /\ Queue!Rests(w)
        \/ \E a \in Candidates(loop[w].seen) :
             /\ \A b \in Candidates(loop[w].seen) : a <= b
             /\ LoopBar' = [LoopBar EXCEPT ![w] = [at |-> "locked", action |-> a, seen |-> << >>]]
    BY <1>3, <1>4, <1>7 DEF LockCandidate
  <2>5. Queue!Candidates(LoopBar[w].seen) = Candidates(loop[w].seen)
    BY <1>1, <2>2
  <2>6. PICK found : found = Candidates(loop[w].seen)
    OBVIOUS
  <2>7. CASE found = {} /\ Queue!Rests(w)
    BY <1>1, <2>3, <2>5, <2>6, <2>7 DEF LoopBar, LateBar, Shown, Queue!LockCandidate
  <2>8. CASE \E a \in found :
               /\ \A b \in found : a <= b
               /\ LoopBar' = [LoopBar EXCEPT ![w] = [at |-> "locked", action |-> a, seen |-> << >>]]
    BY <1>1, <2>3, <2>5, <2>6, <2>8 DEF LoopBar, LateBar, Shown, Queue!LockCandidate
  <2> QED BY <2>4, <2>6, <2>7, <2>8
<1>8. CASE MarkSucceeded(w)
  BY <1>1, <1>4, <1>8 DEF MarkSucceeded, Queue!MarkSucceeded, LoopBar, LateBar, Shown
<1>9. CASE MarkSucceededFails(w)
  BY <1>1, <1>5, <1>9 DEF MarkSucceededFails, Queue!MarkSucceededFails, LoopBar, LateBar, Shown
<1>10. CASE MarkRetry(w)
  BY <1>1, <1>4, <1>10 DEF MarkRetry, Queue!MarkRetry, MayRetry, Queue!MayRetry, LoopBar, LateBar, Shown
<1>11. CASE MarkFailed(w)
  BY <1>1, <1>4, <1>11 DEF MarkFailed, Queue!MarkFailed, MayRetry, Queue!MayRetry, LoopBar, LateBar, Shown
<1> QED BY <1>6, <1>7, <1>8, <1>9, <1>10, <1>11 DEF LoopStep

\* The claim that starts a call is the queue's.
LEMMA ExecutesShows ==
  ASSUME EngineInv, EngineInv', NEW w \in Workers, Executes(w)
  PROVE  Queue!CommitClaim(w)
<1>1. /\ CommitClaim(w) /\ loop[w].at = "locked" /\ ClaimsInv
      /\ LoopBar[w] = loop[w] /\ LateBar' = LateBar /\ Phase(w)' = "executing"
      /\ \A v \in Workers : v # w => Shown(v)' = Shown(v)
  BY BetweenCalls DEF Executes, CommitClaim, EngineInv, LoopBar, LateBar
<1>2. loop'[w] = [loop[w] EXCEPT !.at = "executing"]
  BY <1>1 DEF CommitClaim, Goes, ClaimsInv, LoopRecords
<1>3. Queue!Goes(w, "executing")
  BY <1>1, <1>2, ShownGoes, BarGoes
<1> QED BY <1>1, <1>3 DEF CommitClaim, LoopBar, LateBar, Shown, Queue!CommitClaim

\* A crash gives up the transactions that were awaited: of each action one at most.
LEMMA CrashLeaves ==
  ASSUME EngineInv, EngineInv', NEW a \in Actions, Crash, UNCHANGED << world, pool >>
  PROVE  Cardinality(GivenUp(a)') = Cardinality(GivenUp(a)) + Queue!LeftBehind(a, Workers)
<1>1. /\ \A w \in Workers : loop'[w].at = "idle"
      /\ OneClaimant /\ ClaimsInv
  BY CrashClaims DEF EngineInv, ClaimsInv
<1>2. \A tx : tx \in GivenUp(a)' <=> tx \in pool /\ ActOf(tx) = a /\ Main(tx)
  BY <1>1 DEF GivenUp, Awaiting, Main, TypeOfTx, ActOf
<1>3. PICK T : T = {w \in Workers : Phase(w) = "sent" /\ loop[w].action = a}
  OBVIOUS
<1>4. Queue!LeftBehind(a, Workers) = Cardinality(T)
  BY <1>3, BarLeft
<1>5. ASSUME NEW tx \in pool, NEW w \in Workers, ActOf(tx) = a, Main(tx), Awaiting(w, tx)
      PROVE  w \in T /\ tx = call[w].tx
  <2>1. loop[w].at = "executing" /\ call[w].tx = tx
    BY <1>5 DEF Awaiting
  <2> QED BY <1>3, <1>5, <2>1, WaitsFor DEF Act
<1>6. IsFiniteSet(GivenUp(a)) /\ Cardinality(GivenUp(a)) \in Nat
  BY GivenUpFinite
<1>7. CASE T = {}
  <2>1. GivenUp(a)' = GivenUp(a)
    BY <1>2, <1>5, <1>7 DEF GivenUp
  <2> QED BY <1>4, <1>6, <1>7, <2>1, FS_EmptySet
<1>8. CASE T # {}
  <2>1. PICK w \in Workers : w \in T
    BY <1>3, <1>8
  <2>2. T = {w}
    BY <1>1, <1>3, <2>1, NoActionIsNone DEF OneClaimant, Holds
  <2>3. PICK left : left = call[w].tx
    OBVIOUS
  <2>4. loop[w].at = "executing"
    <3>1. loop[w].at # "sent" /\ Phase(w) = "sent"
      BY <1>3, <2>1 DEF EngineInv
    <3> QED BY <3>1 DEF Phase
  <2>5. left \in pool /\ Main(left) /\ ActOf(left) = a /\ Awaiting(w, left)
    BY <1>3, <2>1, <2>3, <2>4, WaitsFor DEF Awaiting, Act
  <2>6. GivenUp(a)' = GivenUp(a) \cup {left}
    BY <1>2, <1>5, <2>2, <2>3, <2>5 DEF GivenUp
  <2>7. left \notin GivenUp(a)
    BY <2>5 DEF GivenUp
  <2>8. Cardinality(GivenUp(a) \cup {left}) = Cardinality(GivenUp(a)) + 1 /\ Cardinality({w}) = 1
    BY <1>6, <2>7, FS_AddElement, FS_Singleton
  <2> QED BY <1>4, <2>2, <2>6, <2>8
<1> QED BY <1>7, <1>8

\* A crash of the engine is one of the queue.
LEMMA CrashShows ==
  ASSUME EngineInv, EngineInv', Crash, UNCHANGED << chainVars, pool >>
  PROVE  Queue!Crash
<1>1. \A w \in Workers : loop'[w] = Idle /\ loop'[w].at = "idle"
  BY DEF Crash, Idle
<1>2. EngineInv' => PlainShown'
  BY ShownPlain, PTL
<1>3. LoopBar' = [w \in Workers |-> Idle]
  BY <1>1, <1>2 DEF PlainShown, LoopBar
<1>4. LateBar' = [a \in Actions |-> LateBar[a] + Queue!LeftBehind(a, Workers)]
  BY CrashLeaves DEF LateBar, chainVars
<1> QED BY <1>3, <1>4 DEF Crash, LoopBar, LateBar, Shown, Queue!Crash, Idle, Queue!Idle, NoAction, Queue!NoAction

\* Where neither loops, calls nor transactions change, the queue sees nothing.
LEMMA ChainStands ==
  ASSUME loop' = loop, call' = call, pool' = pool, world'.type = world.type
  PROVE  /\ \A v \in Workers : Shown(v)' = Shown(v)
         /\ \A a \in Actions : GivenUp(a)' = GivenUp(a)
<1>1. \A v \in Workers : Shown(v)' = Shown(v) /\ \A tx : Awaiting(v, tx)' <=> Awaiting(v, tx)
  BY PhaseStands
<1>2. \A a \in Actions : GivenUp(a)' = GivenUp(a)
  BY <1>1 DEF GivenUp, Main, TypeOfTx, ActOf
<1> QED BY <1>1, <1>2

LEMMA EnqueueShows ==
  ASSUME NEW a \in Actions, Enqueue(a), UNCHANGED engineVars
  PROVE  Queue!Enqueue(a)
<1>1. loop' = loop /\ call' = call /\ pool' = pool /\ world' = world
  BY DEF Enqueue, engineVars, chainVars
<1>2. LoopBar' = LoopBar /\ LateBar' = LateBar
  BY <1>1, ChainStands DEF LoopBar, LateBar
<1> QED BY <1>2 DEF Enqueue, LoopBar, LateBar, Shown, Queue!Enqueue

LEMMA ChainStepShows ==
  ASSUME EngineInv, NewBlock \/ OthersAct
  PROVE  UNCHANGED Queue!queueVars
<1>1. /\ UNCHANGED << status, attempts, effects, crashes >>
      /\ loop' = loop /\ call' = call /\ pool' = pool /\ world'.type = world.type
  BY DEF NewBlock, OthersAct, queueVars, EngineInv, ChainTypeOK
<1> QED BY <1>1, ChainStands, BarStutters

\* The engine starts as the queue does.
LEMMA InitShows ==
  ASSUME Init, EngineInv
  PROVE  Queue!QueueInit
<1>1. \A w \in Workers : loop[w] = Idle /\ loop[w].at = "idle"
  BY DEF Init, QueueInit, Idle
<1>2. LoopBar = [w \in Workers |-> Idle]
  BY <1>1, ShownPlain DEF PlainShown, LoopBar
<1>3. \A a \in Actions : GivenUp(a) = {}
  BY DEF Init, GivenUp
<1>4. LateBar = [a \in Actions |-> 0]
  BY <1>3, FS_EmptySet DEF LateBar
<1> QED BY <1>2, <1>4 DEF Init, QueueInit, LoopBar, LateBar, Shown, Queue!QueueInit, Idle, Queue!Idle,
                         NoAction, Queue!NoAction

\* Every step of the engine is one of the queue, or nothing to it.
LEMMA EngineNextShows ==
  ASSUME EngineInv, EngineInv', [Next]_vars
  PROVE  [Queue!QueueNext]_(Queue!queueVars)
<1>1. ASSUME NEW a \in Actions, Enqueue(a) /\ UNCHANGED engineVars PROVE Queue!QueueNext
  BY <1>1, EnqueueShows DEF Queue!QueueNext
<1>2. ASSUME NEW w \in Workers, LoopStep(w) \/ Executes(w) PROVE Queue!QueueNext
  BY <1>2, LoopStepShows, ExecutesShows DEF Queue!QueueNext, Queue!Step
<1>3. ASSUME NEW w \in Workers, CallStep(w) PROVE Queue!QueueNext \/ UNCHANGED Queue!queueVars
  BY <1>3, CallStepShows DEF Queue!QueueNext, Queue!Step
<1>4. ASSUME NEW tx \in pool, NEW ok \in BOOLEAN, Mine(tx, ok)
      PROVE  Queue!QueueNext \/ UNCHANGED Queue!queueVars
  BY <1>4, MineShows DEF Queue!QueueNext, Queue!Step
<1>5. CASE NewBlock \/ OthersAct
  BY <1>5, ChainStepShows
<1>6. CASE Crash /\ UNCHANGED << chainVars, pool >>
  BY <1>6, CrashShows DEF Queue!QueueNext
<1>7. CASE UNCHANGED vars
  <2>1. /\ UNCHANGED << status, attempts, effects, crashes >>
        /\ loop' = loop /\ call' = call /\ pool' = pool /\ world' = world
    BY <1>7 DEF vars, queueVars, engineVars, chainVars
  <2> QED BY <2>1, ChainStands, BarStutters
<1> QED BY <1>1, <1>2, <1>3, <1>4, <1>5, <1>6, <1>7 DEF Next

\* Under the queue, the engine does what the queue takes for one transaction: whatever
\* the program, its approvals, retries and timeouts, a call takes effect at most once, and
\* a transaction it gave up at most once later.
THEOREM EngineImplementsQueue == Spec => ImplementsQueue
<1>1. Init => Queue!QueueInit
  BY EngineInitInv, InitShows
<1>2. EngineInv /\ EngineInv' /\ [Next]_vars => [Queue!QueueNext]_(Queue!queueVars)
  BY EngineNextShows
<1> QED BY <1>1, <1>2, EngineInvariant, PTL DEF Spec, ImplementsQueue, Queue!QueueSpec

-----------------------------------------------------------------------------
(* Of the engine's own transactions and attempts                           *)

\* Transactions on their way that do what the action is for; a call that may still
\* send one.
Mains(a)       == {tx \in pool : ActOf(tx) = a /\ Main(tx)}
MaySend(w, a)  == loop[w].action = a /\ Phase(w) = "executing"
Due(a)         == IF \E w \in Workers : MaySend(w, a) THEN 1 ELSE 0

\* The attempt pays for what was done, is on its way or may still be sent. The variable
\* late is the queue's own count: here the pool has the transactions themselves.
CallsPaid ==
  /\ effects \in [Actions -> Nat]
  /\ late = [a \in Actions |-> 0]
  /\ \A a \in Actions : effects[a] + Cardinality(Mains(a)) + Due(a) <= attempts[a]

\* There are finitely many of them.
LEMMA MainsFinite ==
  ASSUME EngineInv, NEW a
  PROVE  IsFiniteSet(Mains(a)) /\ Cardinality(Mains(a)) \in Nat
<1>1. IsFiniteSet(pool) /\ Mains(a) \subseteq pool
  BY DEF EngineInv, PoolCounted, Mains
<1> QED BY <1>1, FS_Subset, FS_CardinalityType

\* Of the other actions, and of steps that neither send nor execute.
LEMMA PaidStands ==
  ASSUME EngineInv, CallsPaid, NEW a \in Actions,
         effects'[a] = effects[a], attempts'[a] = attempts[a], Mains(a)' \subseteq Mains(a),
         \A w \in Workers : MaySend(w, a)' => MaySend(w, a)
  PROVE  effects'[a] + Cardinality(Mains(a)') + Due(a)' <= attempts'[a]
<1>1. /\ effects[a] + Cardinality(Mains(a)) + Due(a) <= attempts[a] /\ effects[a] \in Nat
      /\ attempts[a] \in Nat
  BY QueueAssumption DEF CallsPaid, EngineInv, ClaimsInv, ClaimsTypeOK
<1>2. IsFiniteSet(Mains(a)) /\ Cardinality(Mains(a)) \in Nat
  BY MainsFinite
<1>3. Cardinality(Mains(a)') \in Nat /\ Cardinality(Mains(a)') <= Cardinality(Mains(a))
  BY <1>2, FS_Subset, FS_CardinalityType
<1>4. Due(a) \in {0, 1} /\ Due(a)' \in {0, 1} /\ Due(a)' <= Due(a)
  BY DEF Due
<1> QED BY <1>1, <1>2, <1>3, <1>4

\* A step that neither sends, mines nor executes.
LEMMA PaidAll ==
  ASSUME EngineInv, CallsPaid, UNCHANGED << attempts, late, effects >>,
         \A a \in Actions : Mains(a)' \subseteq Mains(a),
         \A a \in Actions, w \in Workers : MaySend(w, a)' => MaySend(w, a)
  PROVE  CallsPaid'
<1>1. \A a \in Actions : effects'[a] + Cardinality(Mains(a)') + Due(a)' <= attempts'[a]
  BY PaidStands
<1> QED BY <1>1 DEF CallsPaid

\* A call that moves on without sending.
LEMMA MovePaid ==
  ASSUME EngineInv, EngineInv', CallsPaid, NEW w \in Workers, Advances(w) \/ ThrowsOut(w) \/ ReturnsFrom(w)
  PROVE  CallsPaid'
<1>1. /\ CallChanges(w) /\ MovesOn(w) /\ loop[w].at = "executing" /\ world' = world
      /\ UNCHANGED << attempts, late, effects >>
  BY DEF Advances, ThrowsOut, ReturnsFrom, CallChanges, MovesOn
<1>2. \A a \in Actions : Mains(a)' \subseteq Mains(a)
  <2>1. \A tx \in pool' : Main(tx) => tx \in pool
    BY DEF Advances, ThrowsOut, ReturnsFrom, Main, MainOp
  <2> QED BY <1>1, <2>1 DEF Mains, Main, TypeOfTx, ActOf
<1>3. ASSUME NEW a \in Actions, NEW v \in Workers, MaySend(v, a)' PROVE MaySend(v, a)
  <2>1. CASE v # w
    <3>1. loop'[v] = loop[v]
      BY <1>1, <2>1 DEF Advances, ThrowsOut, ReturnsFrom, Goes, EngineInv, ClaimsInv, LoopRecords
    <3> QED BY <1>1, <1>3, <2>1, <3>1, OthersShow DEF MaySend
  <2>2. CASE v = w
    <3>1. CASE Advances(w)
      <4>1. /\ loop' = loop /\ pool' = pool /\ call'[w].done = call[w].done
            /\ call[w].tx = NoTx \/ call[w].receipt # "none"
        BY <3>1 DEF Advances, InProgram
      <4>2. call[w].tx \notin pool
        BY <1>1, <4>1, WaitsFor DEF EngineInv, PoolCounted, NoTx
      <4> QED BY <1>1, <1>3, <2>2, <4>1, <4>2 DEF MaySend, Phase
    <3>2. CASE ThrowsOut(w) \/ ReturnsFrom(w)
      <4>1. loop'[w].at \in {"retryable", "fatal", "answered"}
        BY <3>2 DEF ThrowsOut, ReturnsFrom, Goes, EngineInv, ClaimsInv, LoopRecords
      <4> QED BY <1>3, <2>2, <4>1 DEF MaySend, Phase
    <3> QED BY <3>1, <3>2
  <2> QED BY <2>1, <2>2
<1> QED BY <1>1, <1>2, <1>3, PaidAll

\* A call that waits for the transaction its action is for has not had its effect.
WaitingSound ==
  \A w \in Workers : loop[w].at = "executing" /\ call[w].tx \in pool /\ Main(call[w].tx) => call[w].done = "no"

LEMMA WaitsForAll == EngineInv => WaitingSound
  BY WaitsFor DEF WaitingSound

\* The transaction that is sent is the one that was due.
LEMMA SendPaid ==
  ASSUME EngineInv, EngineInv', CallsPaid, NEW w \in Workers, SendsOwn(w)
  PROVE  CallsPaid'
<1>0. PICK sent : sent = call'[w].tx
  OBVIOUS
<1>1. /\ CallChanges(w) /\ MovesOn(w) /\ loop' = loop /\ loop[w].at = "executing" /\ world' = world
      /\ pool' = pool \cup {sent} /\ call'[w].done = call[w].done /\ call[w].tx = NoTx
      /\ UNCHANGED << attempts, late, effects >> /\ ActOf(sent) = Act(w)
  BY <1>0 DEF SendsOwn, CallChanges, MovesOn, InProgram, OwnTx, ActOf
<1>2. NoTx \notin pool /\ Act(w) \in Actions /\ OneClaimant
  BY <1>1, WaitsFor DEF EngineInv, PoolCounted, NoTx, ClaimsInv
<1>3. \A tx : Main(tx)' <=> Main(tx)
  BY <1>1 DEF Main, TypeOfTx
<1>4. ASSUME NEW a \in Actions, NEW v \in Workers, MaySend(v, a)' PROVE MaySend(v, a) /\ (v = w => ~Main(sent))
  <2>1. CASE v # w
    BY <1>1, <1>4, <2>1, OthersShow DEF MaySend
  <2>2. CASE v = w
    BY <1>0, <1>1, <1>2, <1>3, <1>4, <2>2 DEF MaySend, Phase
  <2> QED BY <2>1, <2>2
<1>5. ASSUME NEW a \in Actions
      PROVE  effects'[a] + Cardinality(Mains(a)') + Due(a)' <= attempts'[a]
  <2>1. CASE ~Main(sent) \/ a # Act(w)
    <3>1. Mains(a)' \subseteq Mains(a)
      BY <1>1, <1>3, <2>1 DEF Mains, ActOf
    <3> QED BY <1>1, <1>4, <3>1, PaidStands
  <2>2. CASE Main(sent) /\ a = Act(w)
    <3>1. Due(a)' = 0
      <4>1. ASSUME NEW v \in Workers, MaySend(v, a)' PROVE FALSE
        <5>1. loop[v].action = a /\ v # w
          BY <1>4, <2>2, <4>1 DEF MaySend
        <5> QED BY <1>2, <2>2, <5>1, NoActionIsNone DEF OneClaimant, Holds, Act
      <4> QED BY <4>1 DEF Due
    <3>2. Due(a) = 1
      <4>1. Phase(w)' = "sent" /\ call[w].done = "no"
        <5>1. TxSound(w)' /\ loop'[w].at = "executing" /\ ClaimsInv'
          BY <1>1 DEF EngineInv, WorkerSound, CallSound
        <5>2. EngineInv' => WaitingSound'
          BY WaitsForAll, PTL
        <5>3. call'[w].done = "no"
          BY <1>0, <1>1, <1>3, <2>2, <5>2 DEF WaitingSound
        <5> QED BY <1>0, <1>1, <1>2, <1>3, <2>2, <5>3 DEF Phase
      <4>2. MaySend(w, a)
        BY <1>1, <1>2, <2>2, <4>1 DEF MaySend, Phase, Act
      <4> QED BY <4>2 DEF Due
    <3>3. Cardinality(Mains(a)') <= Cardinality(Mains(a)) + 1 /\ Cardinality(Mains(a)') \in Nat
      <4>1. Mains(a)' \subseteq Mains(a) \cup {sent}
        BY <1>1, <1>3 DEF Mains, ActOf
      <4>2. IsFiniteSet(Mains(a)) /\ Cardinality(Mains(a)) \in Nat
        BY MainsFinite
      <4>3. /\ IsFiniteSet(Mains(a) \cup {sent})
            /\ Cardinality(Mains(a) \cup {sent}) \in Nat
            /\ Cardinality(Mains(a) \cup {sent}) <= Cardinality(Mains(a)) + 1
        <5>2. PICK T : T = Mains(a)
          OBVIOUS
        <5>3. IsFiniteSet(T) /\ Cardinality(T) \in Nat
          BY <4>2, <5>2
        <5>4. sent \notin T => IsFiniteSet(T \cup {sent}) /\ Cardinality(T \cup {sent}) = Cardinality(T) + 1
          BY <5>3, FS_AddElement
        <5>5. sent \in T => T \cup {sent} = T
          OBVIOUS
        <5>6. /\ IsFiniteSet(T \cup {sent}) /\ Cardinality(T \cup {sent}) \in Nat
              /\ Cardinality(T \cup {sent}) <= Cardinality(T) + 1
          BY <5>3, <5>4, <5>5
        <5> QED BY <5>2, <5>6
      <4>4. Cardinality(Mains(a)') <= Cardinality(Mains(a) \cup {sent}) /\ Cardinality(Mains(a)') \in Nat
        BY <4>1, <4>3, FS_Subset, FS_CardinalityType
      <4> QED BY <4>2, <4>3, <4>4
    <3>4. /\ effects[a] + Cardinality(Mains(a)) + Due(a) <= attempts[a] /\ effects[a] \in Nat
          /\ attempts[a] \in Nat /\ Cardinality(Mains(a)) \in Nat
      BY MainsFinite, QueueAssumption DEF CallsPaid, EngineInv, ClaimsInv, ClaimsTypeOK
    <3> QED BY <1>1, <3>1, <3>2, <3>3, <3>4
  <2> QED BY <2>1, <2>2
<1> QED BY <1>1, <1>5 DEF CallsPaid

\* A transaction that is mined takes effect instead of being on its way.
LEMMA MinePaid ==
  ASSUME EngineInv, EngineInv', CallsPaid, NEW tx \in pool, NEW ok \in BOOLEAN, Mine(tx, ok)
  PROVE  CallsPaid'
<1>1. /\ pool' = pool \ {tx} /\ loop' = loop /\ UNCHANGED << attempts, late >>
      /\ ActOf(tx) \in Actions /\ world'.type = world.type
      /\ effects' = IF ok /\ Main(tx) THEN [effects EXCEPT ![ActOf(tx)] = @ + 1] ELSE effects
  BY DEF EngineInv, ClaimsInv, Mine, PoolCounted, ActOf, ChainTypeOK
<1>0. ClaimsInv /\ ChainTypeOK
  BY DEF EngineInv
<1>2. \A x : Main(x)' <=> Main(x)
  BY <1>1 DEF Main, TypeOfTx
<1>3. ASSUME NEW a \in Actions, NEW v \in Workers, MaySend(v, a)' PROVE MaySend(v, a)
  <2>1. CASE ~Awaiting(v, tx)
    <3>1. call'[v] = call[v] /\ loop'[v] = loop[v]
      BY <1>0, <1>1, <2>1, MineCalls
    <3>2. loop[v].at = "executing" => (call[v].tx \in pool' <=> call[v].tx \in pool)
      BY <1>1, <2>1 DEF Awaiting
    <3> QED BY <1>1, <1>3, <3>1, <3>2, PhaseStands DEF MaySend
  <2>2. CASE Awaiting(v, tx)
    <3>1. /\ loop[v].at = "executing" /\ call[v].tx = tx /\ call'[v].tx = tx
          /\ call'[v].done = IF Main(tx) THEN (IF ok THEN "yes" ELSE "reverted") ELSE call[v].done
      BY <1>0, <1>1, <2>2, MineCalls DEF Awaiting
    <3> QED BY <1>1, <1>2, <1>3, <3>1 DEF MaySend, Phase
  <2> QED BY <2>1, <2>2
<1>4. \A a \in Actions : Mains(a)' = Mains(a) \ {tx}
  BY <1>1, <1>2 DEF Mains, ActOf
<1>5. effects \in [Actions -> Nat] /\ effects' \in [Actions -> Nat]
  BY <1>1 DEF CallsPaid
<1>6. ASSUME NEW a \in Actions
      PROVE  effects'[a] + Cardinality(Mains(a)') + Due(a)' <= attempts'[a]
  <2>1. CASE effects'[a] = effects[a]
    BY <1>1, <1>3, <1>4, <2>1, PaidStands
  <2>2. CASE effects'[a] # effects[a]
    <3>1. tx \in Mains(a) /\ effects'[a] = effects[a] + 1
      BY <1>1, <1>5, <2>2 DEF Mains
    <3>2. IsFiniteSet(Mains(a)) /\ Cardinality(Mains(a)) \in Nat
      BY MainsFinite
    <3>3. Cardinality(Mains(a) \ {tx}) = Cardinality(Mains(a)) - 1
      BY <3>1, <3>2, FS_RemoveElement
    <3>4. Due(a) \in {0, 1} /\ Due(a)' \in {0, 1} /\ Due(a)' <= Due(a)
      BY <1>3 DEF Due
    <3>5. /\ effects[a] + Cardinality(Mains(a)) + Due(a) <= attempts[a] /\ effects[a] \in Nat
          /\ attempts[a] \in Nat
      BY QueueAssumption DEF CallsPaid, EngineInv, ClaimsInv, ClaimsTypeOK
    <3>6. Cardinality(Mains(a)') = Cardinality(Mains(a)) - 1
      BY <1>4, <3>3
    <3> QED BY <1>1, <3>1, <3>2, <3>4, <3>5, <3>6
  <2> QED BY <2>1, <2>2
<1> QED BY <1>1, <1>5, <1>6 DEF CallsPaid

\* The claim pays for the transaction it leads to.
LEMMA ExecutesPaid ==
  ASSUME EngineInv, EngineInv', CallsPaid, NEW w \in Workers, Executes(w)
  PROVE  CallsPaid'
<1>1. /\ CommitClaim(w) /\ loop[w].at = "locked" /\ ClaimsInv /\ OneClaimant
      /\ UNCHANGED << effects, late, pool, world >>
      /\ attempts' = [attempts EXCEPT ![Act(w)] = @ + 1]
  BY DEF Executes, CommitClaim, EngineInv, ClaimsInv, chainVars, Act
<1>2. Act(w) \in Actions
  BY <1>1, HasAction DEF Act
<1>3. \A a : Mains(a)' = Mains(a)
  BY <1>1 DEF Mains, Main, TypeOfTx, ActOf
<1>4. \A v \in Workers : v # w => loop'[v] = loop[v] /\ call'[v] = call[v]
  BY <1>1 DEF Executes, CommitClaim, Goes, EngineInv, ClaimsInv, LoopRecords, ChainTypeOK
<1>5. loop'[w].action = Act(w)
  BY <1>1 DEF CommitClaim, Goes, ClaimsInv, LoopRecords, Act
<1>6. ASSUME NEW a \in Actions, NEW v \in Workers, v # w, MaySend(v, a)' PROVE MaySend(v, a)
  BY <1>1, <1>4, <1>6, PhaseStands DEF MaySend
<1>7. ASSUME NEW a \in Actions
      PROVE  effects'[a] + Cardinality(Mains(a)') + Due(a)' <= attempts'[a]
  <2>1. /\ effects[a] + Cardinality(Mains(a)) + Due(a) <= attempts[a] /\ effects[a] \in Nat
        /\ attempts \in [Actions -> Nat] /\ attempts[a] \in Nat
    BY <1>1, QueueAssumption DEF CallsPaid, ClaimsInv, ClaimsTypeOK
  <2>2. CASE a # Act(w)
    <3>1. attempts'[a] = attempts[a]
      BY <1>1, <2>1, <2>2
    <3>2. \A v \in Workers : MaySend(v, a)' => MaySend(v, a)
      BY <1>5, <1>6, <2>2 DEF MaySend
    <3> QED BY <1>1, <1>3, <3>1, <3>2, PaidStands
  <2>3. CASE a = Act(w)
    <3>1. attempts'[a] = attempts[a] + 1
      BY <1>1, <1>2, <2>1, <2>3
    <3>2. Due(a) \in {0, 1} /\ Due(a)' \in {0, 1}
      BY DEF Due
    <3>3. Cardinality(Mains(a)) \in Nat
      BY MainsFinite
    <3> QED BY <1>1, <1>3, <2>1, <3>1, <3>2, <3>3
  <2> QED BY <2>2, <2>3
<1>8. effects' = effects /\ late' = late
  BY <1>1
<1> QED BY <1>7, <1>8 DEF CallsPaid
\* Nothing is due between calls, before the first or after a crash.
LEMMA BesidePaid ==
  ASSUME EngineInv, EngineInv', CallsPaid, UNCHANGED << attempts, late, effects, pool >>, world'.type = world.type,
         \A v \in Workers : loop'[v].at = "executing" => loop'[v] = loop[v] /\ call'[v] = call[v]
  PROVE  CallsPaid'
<1>1. \A a \in Actions : Mains(a)' \subseteq Mains(a)
  BY DEF Mains, Main, TypeOfTx, ActOf
<1>2. ASSUME NEW a \in Actions, NEW v \in Workers, MaySend(v, a)' PROVE MaySend(v, a)
  <2>1. loop'[v].at = "executing"
    BY <1>2 DEF MaySend, Phase, EngineInv
  <2> QED BY <1>2, <2>1, PhaseStands DEF MaySend
<1> QED BY <1>1, <1>2, PaidAll

\* The loop's own steps and a crash.
LEMMA LoopStepPaid ==
  ASSUME EngineInv, EngineInv', CallsPaid, NEW w \in Workers, LoopStep(w)
  PROVE  CallsPaid'
<1>1. /\ ClaimsInv /\ UNCHANGED << attempts, late, effects, pool, world >> /\ loop[w].at # "executing"
  BY DEF EngineInv, LoopStep, TakeSnapshot, LockCandidate, MarkSucceeded, MarkSucceededFails, MarkRetry,
         MarkFailed, chainVars
<1>2. \A v \in Workers : v # w => loop'[v] = loop[v] /\ call'[v] = call[v]
  BY <1>1, TakeSnapshotClaims, LockCandidateClaims, MarkClaims DEF EngineInv, LoopStep, OwnStep, ChainTypeOK
<1>3. loop'[w].at # "executing"
  <2>1. TakeSnapshot(w) => loop'[w].at = "claiming"
    BY <1>1 DEF TakeSnapshot, ClaimsInv, LoopRecords
  <2> QED BY <1>1, <2>1, LockCandidateClaims, MarkClaims DEF LoopStep
<1>4. \A v \in Workers : loop'[v].at = "executing" => loop'[v] = loop[v] /\ call'[v] = call[v]
  BY <1>2, <1>3
<1> QED BY <1>1, <1>4, BesidePaid

LEMMA CrashPaid ==
  ASSUME EngineInv, EngineInv', CallsPaid, Crash, UNCHANGED << chainVars, pool >>
  PROVE  CallsPaid'
<1>1. /\ ClaimsInv /\ UNCHANGED << attempts, effects, pool, world >>
      /\ late' = [a \in Actions |-> late[a] + LeftBehind(a, Workers)]
  BY DEF EngineInv, Crash, chainVars
<1>2. \A w \in Workers : loop'[w].at = "idle"
  BY <1>1, CrashClaims
<1>3. \A a \in Actions : LeftBehind(a, Workers) = 0
  <2> SUFFICES ASSUME NEW a \in Actions PROVE LeftBehind(a, Workers) = 0
    OBVIOUS
  <2>1. {w \in Workers : loop[w].at = "sent" /\ loop[w].action = a} = {}
    BY DEF EngineInv
  <2> QED BY <2>1, FS_EmptySet DEF LeftBehind
<1>4. late' = late
  BY <1>1, <1>3 DEF CallsPaid
<1> QED BY <1>1, <1>2, <1>4, BesidePaid

\* So each attempt stays paid for.
LEMMA EngineNextPaid ==
  ASSUME EngineInv, EngineInv', CallsPaid, [Next]_vars
  PROVE  CallsPaid'
<1>1. ASSUME NEW w \in Workers, CallStep(w) PROVE CallsPaid'
  <2>1. MovesOn(w)
    BY <1>1, CallStepInv
  <2> QED BY <2>1, MovePaid, SendPaid DEF MovesOn
<1>2. CASE \/ NewBlock \/ OthersAct \/ UNCHANGED vars
           \/ \E a \in Actions : Enqueue(a) /\ UNCHANGED engineVars
  <2>1. UNCHANGED << attempts, late, effects, pool, loop, call >> /\ world'.type = world.type
    BY <1>2 DEF NewBlock, OthersAct, vars, queueVars, engineVars, chainVars, Enqueue, EngineInv, ChainTypeOK
  <2> QED BY <2>1, BesidePaid
<1> QED BY <1>1, <1>2, LoopStepPaid, ExecutesPaid, MinePaid, CrashPaid DEF Next

\* Nothing is due or sent at first.
LEMMA InitPaid ==
  ASSUME Init, EngineInv
  PROVE  CallsPaid
<1>1. \A a : Mains(a) = {} /\ Cardinality({}) = 0
  BY FS_EmptySet DEF Init, Mains
<1>2. \A a \in Actions : Due(a) = 0
  BY DEF Init, QueueInit, Due, MaySend, Phase, Idle
<1>3. /\ effects = [a \in Actions |-> 0] /\ late = [a \in Actions |-> 0] /\ attempts = [a \in Actions |-> 0]
  BY DEF Init, QueueInit
<1>4. \A a \in Actions : effects[a] + Cardinality(Mains(a)) + Due(a) <= attempts[a]
  BY <1>1, <1>2, <1>3
<1> QED BY <1>3, <1>4 DEF CallsPaid

\* The queue's promise is kept by the engine itself: no action is executed by two loops
\* at a time, and what its programs send takes effect at most once per counted attempt,
\* through approvals, reveals tried again, timeouts and crashes.
THEOREM EngineAccountsWork == Spec => []WorkIsAccounted
<1>1. Init => CallsPaid
  BY EngineInitInv, InitPaid
<1>2. EngineInv /\ EngineInv' /\ CallsPaid /\ [Next]_vars => CallsPaid'
  BY EngineNextPaid
<1>3. EngineInv /\ CallsPaid => WorkIsAccounted
  <2> SUFFICES ASSUME EngineInv, CallsPaid PROVE WorkIsAccounted
    OBVIOUS
  <2>1. QueueTypeOK /\ OneClaimant
    BY DEF EngineInv, ClaimsInv, ClaimsTypeOK, LoopRecords, CallsPaid, QueueTypeOK
  <2>2. ASSUME NEW a \in Actions PROVE effects[a] <= attempts[a]
    <3>1. /\ effects[a] + Cardinality(Mains(a)) + Due(a) <= attempts[a]
          /\ effects[a] \in Nat /\ attempts[a] \in Nat /\ Due(a) \in {0, 1}
      BY QueueAssumption DEF CallsPaid, EngineInv, ClaimsInv, ClaimsTypeOK, Due
    <3>2. Cardinality(Mains(a)) \in Nat
      BY MainsFinite
    <3> QED BY <3>1, <3>2
  <2> QED BY <2>1, <2>2 DEF WorkIsAccounted, EffectsWithinAttempts
<1> QED BY <1>1, <1>2, <1>3, EngineInvariant, PTL DEF Spec
=============================================================================
