----------------------------- MODULE ToolSession -----------------------------
(***************************************************************************)
(* A session of the MCP server (mcp-server/client.ts, run-mcp.ts) with the *)
(* routes of the agent API behind it: the tools that act pass the guards   *)
(* of submitAction, reserve what the action is estimated to cost, enqueue  *)
(* it under an idempotency key and may wait for its end. Calls overlap; an *)
(* answer may be late or never come, and a request that was given up may   *)
(* still be handled.                                                       *)
(***************************************************************************)
EXTENDS Naturals, FiniteSets, Functions

CONSTANTS
  ToolCalls,     \* calls of tools, in the order they are made
  IdemKeys,      \* idempotency keys, given by the caller or random
  Costs,         \* estimated costs
  SpendCeiling,  \* sessionSpendCeilingWei
  MaxFailedTx,   \* maxFailedTx
  AtOnce         \* bound: calls under way at once

ASSUME ToolSessionAssumption ==
  /\ ToolCalls \cup Costs \subseteq Nat /\ IsFiniteSet(ToolCalls)
  /\ IsFiniteSet(IdemKeys) /\ IdemKeys # {}
  /\ {SpendCeiling, MaxFailedTx} \subseteq Nat /\ AtOnce \in Nat \ {0}

VARIABLES
  tool,      \* the calls
  arriving,  \* calls whose POST /agent/action the API has still to handle
  queued,    \* action_submissions, by key
  reserved,  \* reservedEstimatedSpendWei
  failedTx   \* failedTxCount

sessionVars == << tool, arriving, queued, reserved, failedTx >>

SessionInit ==
  /\ tool = [c \in ToolCalls |-> [pc |-> "none", key |-> CHOOSE k \in IdemKeys : TRUE, cost |-> 0, wait |-> FALSE]]
  /\ arriving = {}
  /\ queued = [k \in IdemKeys |-> [status |-> "none", cost |-> 0]]
  /\ reserved = 0 /\ failedTx = 0

GoesOn(c, pc) == tool' = [tool EXCEPT ![c].pc = pc]
AnswersTool(c) == GoesOn(c, "done")

-----------------------------------------------------------------------------
(* submitAction                                                            *)

GuardOpen        == failedTx < MaxFailedTx

CallTool(c, k, wait) ==
  /\ tool[c].pc = "none" /\ \A d \in ToolCalls : d < c => tool[d].pc # "none"
  /\ Cardinality({d \in ToolCalls : tool[d].pc \notin {"none", "done"}}) < AtOnce
  /\ tool' = [tool EXCEPT ![c] = [pc |-> IF GuardOpen THEN "estimate" ELSE "done", key |-> k, cost |-> 0, wait |-> wait]]
  /\ UNCHANGED << arriving, queued, reserved, failedTx >>

\* The answer of POST /agent/estimate-cost.
Estimated(c, cost) ==
  LET projected == reserved + cost IN
  /\ tool[c].pc = "estimate"
  /\ IF projected > SpendCeiling
     THEN AnswersTool(c) /\ UNCHANGED << arriving, reserved >>
     ELSE /\ reserved' = projected /\ arriving' = arriving \cup {c}
          /\ tool' = [tool EXCEPT ![c].pc = "submitted", ![c].cost = cost]
  /\ UNCHANGED << queued, failedTx >>

EstimateFails(c) ==
  /\ tool[c].pc = "estimate" /\ AnswersTool(c)
  /\ UNCHANGED << arriving, queued, reserved, failedTx >>

\* Seeded fault: what a call reserved is free again when its request has failed.
ReleasedByFailure(c)  == reserved - tool[c].cost
ReservedAfterError(c) == reserved

\* Too late, or broken off.
SubmitFails(c) ==
  /\ tool[c].pc = "submitted" /\ AnswersTool(c)
  /\ reserved' = ReservedAfterError(c)
  /\ UNCHANGED << arriving, queued, failedTx >>

-----------------------------------------------------------------------------
(* POST /agent/action: refused by the preflight, or enqueued. A key that is *)
(* known keeps its action, whatever the new one was.                       *)

Enqueued(c) ==
  IF queued[tool[c].key].status = "none"
  THEN [queued EXCEPT ![tool[c].key] = [status |-> "queued", cost |-> tool[c].cost]]
  ELSE queued

HandleSubmission(c) ==
  /\ c \in arriving /\ arriving' = arriving \ {c}
  /\ queued' = Enqueued(c)
  /\ IF tool[c].pc = "submitted" THEN GoesOn(c, IF tool[c].wait THEN "poll" ELSE "done") ELSE UNCHANGED tool
  /\ UNCHANGED << reserved, failedTx >>

RefuseSubmission(c) ==
  /\ c \in arriving /\ arriving' = arriving \ {c}
  /\ IF tool[c].pc = "submitted"
     THEN AnswersTool(c) /\ reserved' = ReservedAfterError(c)
     ELSE UNCHANGED << tool, reserved >>
  /\ UNCHANGED << queued, failedTx >>

EndAction(k) ==
  /\ queued[k].status = "queued"
  /\ \E s \in {"succeeded", "failed"} : queued' = [queued EXCEPT ![k].status = s]
  /\ UNCHANGED << tool, arriving, reserved, failedTx >>

-----------------------------------------------------------------------------
PollStatus(c) ==
  LET status == queued[tool[c].key].status IN
  /\ tool[c].pc = "poll" /\ status \in {"succeeded", "failed"}
  /\ AnswersTool(c)
  /\ failedTx' = IF status = "failed" THEN failedTx + 1 ELSE failedTx
  /\ UNCHANGED << arriving, queued, reserved >>

\* A poll fails, or two minutes are over.
PollEnds(c) ==
  /\ tool[c].pc = "poll" /\ AnswersTool(c)
  /\ UNCHANGED << arriving, queued, reserved, failedTx >>

SessionNext ==
  \/ \E c \in ToolCalls :
       \/ \E k \in IdemKeys, wait \in BOOLEAN : CallTool(c, k, wait)
       \/ \E cost \in Costs : Estimated(c, cost)
       \/ EstimateFails(c) \/ SubmitFails(c) \/ HandleSubmission(c) \/ RefuseSubmission(c)
       \/ PollStatus(c) \/ PollEnds(c)
  \/ \E k \in IdemKeys : EndAction(k)

SessionSpec == SessionInit /\ [][SessionNext]_sessionVars

-----------------------------------------------------------------------------
(* Properties *)

\* The estimates of all that a session has enqueued, or that may still be, stay within its ceiling:
\* calls that overlap, requests that were given up and keys used again included.
SpendWithinCeiling ==
  SumFunction([k \in IdemKeys |-> queued[k].cost])
    + SumFunctionOnSet([c \in ToolCalls |-> tool[c].cost], {c \in arriving : queued[tool[c].key].status = "none"})
      <= SpendCeiling

=============================================================================
