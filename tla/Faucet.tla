------------------------------- MODULE Faucet -------------------------------
(***************************************************************************)
(* POST /agent/onboard/fund (agent-api/server.ts): the gas stipend of new  *)
(* wallets. Each request is a chain of awaits; requests interleave at each *)
(* of them, a query or the transfer may fail or lose its answer, and the   *)
(* server may crash between any two. Rows of mcp_onboard_faucet_grants     *)
(* outlive it. Amounts are counted in stipends; a transfer is mined some   *)
(* time after it is sent, or never.                                        *)
(***************************************************************************)
EXTENDS Naturals, Sequences, FiniteSets

CONSTANTS
  Requests,       \* requests made
  Wallets,
  Keys, NoKey,    \* idempotency keys
  PerAddress,     \* MCP_STIPEND_PER_ADDRESS_LIMIT_PER_WINDOW
  PerHour,        \* MCP_STIPEND_GLOBAL_PER_HOUR_LIMIT
  MinTarget, MinFaucet,
  Treasury,       \* bound: what the faucet has at first
  MaxFaults, MaxCrashes, MaxAge   \* bounds: answers lost, crashes, windows that pass

ASSUME FaucetAssumption ==
  /\ NoKey \notin Keys
  /\ {PerAddress, PerHour, MinTarget, MinFaucet, Treasury, MaxFaults, MaxCrashes, MaxAge} \subseteq Nat
  /\ PerAddress > 0

VARIABLES
  grants,    \* the table, in the order of insertion
  request,   \* the handler of each request
  transfer,  \* of each grant: "none", "sent", "mined"
  balance,   \* of each wallet
  treasury,  \* of the faucet
  faults, crashes, age,
  overlap    \* wallets for which two requests have been under way at once

faucetVars == << grants, request, transfer, balance, treasury, faults, crashes, age, overlap >>

NoRequest == [pc |-> "idle", wallet |-> "none", key |-> NoKey, rich |-> FALSE, grant |-> 0, reply |-> "none"]
Answered(r, reply) == [r EXCEPT !.pc = "answered", !.reply = reply]
HandlerUnderWay(r) == request[r].pc \notin {"idle", "answered", "lost"}

FaucetInit ==
  /\ grants = << >> /\ transfer = << >>
  /\ request = [r \in Requests |-> NoRequest]
  /\ balance = [w \in Wallets |-> 0] /\ treasury = Treasury
  /\ faults = 0 /\ crashes = 0 /\ age = 0 /\ overlap = {}

-----------------------------------------------------------------------------
(* The table and its two unique indexes *)

WithKey(k)      == {i \in DOMAIN grants : k # NoKey /\ grants[i].key = k}
PendingFor(w)   == {i \in DOMAIN grants : grants[i].wallet = w /\ grants[i].status = "pending"}
Counted(i)      == grants[i].status \in {"pending", "funded"}
InLimitWindow(i)     == grants[i].age = age
\* Seeded fault: of the window only the grants not yet paid are counted.
CountOfPending(w) == Cardinality({i \in PendingFor(w) : InLimitWindow(i)})
CountOfWallet(w) == Cardinality({i \in DOMAIN grants : grants[i].wallet = w /\ Counted(i) /\ InLimitWindow(i)})
CountOfHour     == Cardinality({i \in DOMAIN grants : Counted(i) /\ InLimitWindow(i)})

\* Seeded fault: without the index of the keys.
UniqueForWallet(r, status) == status # "pending" \/ PendingFor(request[r].wallet) = {}
Unique(r, status) == WithKey(request[r].key) = {} /\ (status = "pending" => PendingFor(request[r].wallet) = {})

Inserted(r, status) ==
  Append(grants, [wallet |-> request[r].wallet, key |-> request[r].key, status |-> status, age |-> age])

\* The newest row of the key answers a request that repeats it.
Repeated(r, k, w) ==
  LET row == grants[CHOOSE i \in WithKey(k) : \A j \in WithKey(k) : j <= i]
  IN  Answered(r, IF row.wallet # w THEN "address_mismatch" ELSE row.status)

-----------------------------------------------------------------------------
(* The handler, from await to await *)

Becomes(r, new) == request' = [request EXCEPT ![r] = new]
Continues(r, pc)     == Becomes(r, [request[r] EXCEPT !.pc = pc])

Receive(r, w, k) ==
  /\ request[r].pc = "idle"
  /\ LET new == [NoRequest EXCEPT !.pc = "balances", !.wallet = w, !.key = k]
     IN  Becomes(r, IF WithKey(k) # {} THEN Repeated(new, k, w) ELSE new)
  /\ overlap' = overlap \cup {v \in {w} : \E q \in Requests \ {r} : HandlerUnderWay(q) /\ request[q].wallet = w}
  /\ UNCHANGED << grants, transfer, balance, treasury, faults, crashes, age >>

ReadBalances(r) ==
  LET w == request[r].wallet IN
  /\ request[r].pc = "balances"
  /\ IF balance[w] < MinTarget
     THEN Becomes(r, [request[r] EXCEPT !.pc = "count", !.rich = treasury >= MinFaucet + 1])
     ELSE IF request[r].key # NoKey THEN Continues(r, "skip")
     ELSE Becomes(r, Answered(request[r], "skipped"))
  /\ UNCHANGED << grants, transfer, balance, treasury, faults, crashes, age, overlap >>

InsertSkipped(r) ==
  /\ request[r].pc = "skip"
  /\ IF Unique(r, "skipped")
     THEN /\ grants' = Inserted(r, "skipped") /\ transfer' = Append(transfer, "none")
          /\ Becomes(r, Answered(request[r], "skipped"))
     ELSE /\ Becomes(r, Answered(request[r], "error"))
          /\ UNCHANGED << grants, transfer >>
  /\ UNCHANGED << balance, treasury, faults, crashes, age, overlap >>

CountWindows(r) ==
  /\ request[r].pc = "count"
  /\ IF CountOfWallet(request[r].wallet) >= PerAddress \/ CountOfHour >= PerHour
     THEN Becomes(r, Answered(request[r], "rate_limited"))
     ELSE IF ~request[r].rich THEN Becomes(r, Answered(request[r], "balance_insufficient"))
     ELSE Continues(r, "insert")
  /\ UNCHANGED << grants, transfer, balance, treasury, faults, crashes, age, overlap >>

InsertPending(r) ==
  /\ request[r].pc = "insert"
  /\ IF Unique(r, "pending")
     THEN /\ grants' = Inserted(r, "pending") /\ transfer' = Append(transfer, "none")
          /\ Becomes(r, [request[r] EXCEPT !.pc = "send", !.grant = Len(grants) + 1])
     ELSE /\ Continues(r, IF request[r].key # NoKey THEN "repeated" ELSE "inflight")
          /\ UNCHANGED << grants, transfer >>
  /\ UNCHANGED << balance, treasury, faults, crashes, age, overlap >>

\* The index refused the row: whose row is it?
LookUpRepeated(r) ==
  /\ request[r].pc = "repeated"
  /\ Becomes(r, IF WithKey(request[r].key) # {}
                THEN Repeated(request[r], request[r].key, request[r].wallet)
                ELSE Answered(request[r], "create_failed"))
  /\ UNCHANGED << grants, transfer, balance, treasury, faults, crashes, age, overlap >>

LookUpInFlight(r) ==
  /\ request[r].pc = "inflight"
  /\ Becomes(r, Answered(request[r], IF PendingFor(request[r].wallet) # {} THEN "inflight" ELSE "error"))
  /\ UNCHANGED << grants, transfer, balance, treasury, faults, crashes, age, overlap >>

\* The transfer is refused or, its answer lost, sent all the same.
SendNativeCurrency(r) ==
  /\ request[r].pc = "send"
  /\ \/ /\ transfer' = [transfer EXCEPT ![request[r].grant] = "sent"]
        /\ Continues(r, "funded") /\ UNCHANGED faults
     \/ Continues(r, "failed") /\ UNCHANGED << transfer, faults >>
     \/ /\ faults < MaxFaults /\ faults' = faults + 1
        /\ transfer' = [transfer EXCEPT ![request[r].grant] = "sent"]
        /\ Continues(r, "failed")
  /\ UNCHANGED << grants, balance, treasury, crashes, age, overlap >>

\* An update that fails is caught as a transfer that failed is.
RecordFunded(r) ==
  /\ request[r].pc = "funded"
  /\ \/ /\ grants' = [grants EXCEPT ![request[r].grant].status = "funded"]
        /\ Becomes(r, Answered(request[r], "funded")) /\ UNCHANGED faults
     \/ /\ faults < MaxFaults /\ faults' = faults + 1
        /\ Continues(r, "failed") /\ UNCHANGED grants
  /\ UNCHANGED << transfer, balance, treasury, crashes, age, overlap >>

RecordFailed(r) ==
  /\ request[r].pc = "failed"
  /\ \/ /\ grants' = [grants EXCEPT ![request[r].grant].status = "failed"]
        /\ Becomes(r, Answered(request[r], "failed")) /\ UNCHANGED faults
     \/ /\ faults < MaxFaults /\ faults' = faults + 1
        /\ Becomes(r, Answered(request[r], "error")) /\ UNCHANGED grants
  /\ UNCHANGED << transfer, balance, treasury, crashes, age, overlap >>

Crash ==
  /\ crashes < MaxCrashes /\ \E r \in Requests : HandlerUnderWay(r)
  /\ crashes' = crashes + 1
  /\ request' = [r \in Requests |-> IF HandlerUnderWay(r) THEN [request[r] EXCEPT !.pc = "lost"] ELSE request[r]]
  /\ UNCHANGED << grants, transfer, balance, treasury, faults, age, overlap >>

-----------------------------------------------------------------------------
(* The chain and the clock *)

Mined(i) ==
  /\ transfer[i] = "sent" /\ treasury > 0
  /\ transfer' = [transfer EXCEPT ![i] = "mined"]
  /\ balance' = [balance EXCEPT ![grants[i].wallet] = @ + 1] /\ treasury' = treasury - 1
  /\ UNCHANGED << grants, request, faults, crashes, age, overlap >>

Spend(w) ==
  /\ balance[w] > 0 /\ balance' = [balance EXCEPT ![w] = @ - 1]
  /\ UNCHANGED << grants, request, transfer, treasury, faults, crashes, age, overlap >>

\* Every row leaves the window of its wallet and of the hour.
WindowPasses ==
  /\ age < MaxAge /\ age' = age + 1
  /\ UNCHANGED << grants, request, transfer, balance, treasury, faults, crashes, overlap >>

Handle(r) ==
  \/ \E w \in Wallets, k \in Keys \cup {NoKey} : Receive(r, w, k)
  \/ ReadBalances(r) \/ InsertSkipped(r) \/ CountWindows(r) \/ InsertPending(r)
  \/ LookUpRepeated(r) \/ LookUpInFlight(r)
  \/ SendNativeCurrency(r) \/ RecordFunded(r) \/ RecordFailed(r)

FaucetNext ==
  \/ \E r \in Requests : Handle(r)
  \/ Crash \/ WindowPasses
  \/ \E i \in DOMAIN grants : Mined(i)
  \/ \E w \in Wallets : Spend(w)

FaucetSpec == FaucetInit /\ [][FaucetNext]_faucetVars

-----------------------------------------------------------------------------
(* Properties *)

Paid(i) == transfer[i] # "none"

\* Over retries, concurrent requests and crashes a key is paid once at most, and two payments of one wallet
\* are never under way at once.
PaidOnce ==
  /\ \A k \in Keys : Cardinality({i \in WithKey(k) : Paid(i)}) <= 1
  /\ \A r, q \in Requests :
       r # q /\ {request[r].pc, request[q].pc} \subseteq {"send", "funded"} => request[r].wallet # request[q].wallet

\* Requests for a wallet that never overlap keep within the limit of the window, whatever crashes between
\* them: each payment has a row that is counted. (Where requests overlap, or an answer of the transfer or
\* of its record is lost, the limit may be passed: the rows are counted before the new one is inserted.)
WithinLimit ==
  faults = 0 => \A w \in Wallets \ overlap :
    Cardinality({i \in DOMAIN grants : grants[i].wallet = w /\ Paid(i) /\ InLimitWindow(i)}) <= PerAddress
=============================================================================
