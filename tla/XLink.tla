-------------------------------- MODULE XLink --------------------------------
(***************************************************************************)
(* The link between a wallet and an X account (agent-api/server.ts,        *)
(* /auth/x/..., with auth/x-oauth1.ts as the client of X): a session       *)
(* started for a wallet is authorised at X, the callback turns it into a   *)
(* link token, and a message signed by the wallet turns that into a row of *)
(* wallet_x_identity. Requests interleave at every query; rows run out     *)
(* after ten minutes. A token is named by the order in which it was given. *)
(***************************************************************************)
EXTENDS Naturals, Sequences, FiniteSets

CONSTANTS
  Holders,         \* wallets
  XAccounts, NoXAccount,\* X accounts
  Calls,           \* callbacks and finalisations under way at once
  MaxTokens        \* bound: sessions started

ASSUME XLinkAssumption == NoXAccount \notin XAccounts /\ MaxTokens \in Nat

VARIABLES
  oauth,      \* x_oauth_request_tokens and what X knows of each
  pending,    \* x_pending_link_tokens
  identity,   \* wallet_x_identity: the account of each wallet
  call,       \* the handlers under way
  signatures  \* << wallet, link token >>: messages signed

linkVars == << oauth, pending, identity, call, signatures >>

NoCall == [pc |-> "idle", token |-> 0, address |-> "none"]

XLinkInit ==
  /\ oauth = << >> /\ pending = << >>
  /\ identity = [w \in Holders |-> NoXAccount]
  /\ call = [c \in Calls |-> NoCall]
  /\ signatures = {}

Proceeds(c, pc) == call' = [call EXCEPT ![c].pc = pc]
\* Whatever the answer is, the handler takes another request.
Replies(c)  == call' = [call EXCEPT ![c] = NoCall]

-----------------------------------------------------------------------------
(* POST /auth/x/start, for any address the caller names; a refusal of X or *)
(* of the database leaves nothing that anybody could go on with.           *)

Start(w) ==
  /\ Len(oauth) < MaxTokens
  /\ oauth' = Append(oauth, [wallet |-> w, row |-> "live", by |-> NoXAccount, exchanged |-> FALSE])
  /\ UNCHANGED << pending, identity, call, signatures >>

\* At X, the holder of an account lets the application know him.
Authorize(t, u) ==
  /\ oauth[t].by = NoXAccount
  /\ oauth' = [oauth EXCEPT ![t].by = u]
  /\ UNCHANGED << pending, identity, call, signatures >>

\* GET /auth/x/callback
SelectRequestToken(c, t) ==
  /\ call[c].pc = "idle" /\ oauth[t].row = "live"
  /\ call' = [call EXCEPT ![c].pc = "spend", ![c].token = t]
  /\ UNCHANGED << oauth, pending, identity, signatures >>

DeleteRequestToken(c) ==
  /\ call[c].pc = "spend"
  /\ oauth' = [oauth EXCEPT ![call[c].token].row = "gone"]
  /\ Proceeds(c, "exchange")
  /\ UNCHANGED << pending, identity, signatures >>

\* X answers once for a token that was authorised, or fails.
AccessToken(c) ==
  LET t == call[c].token IN
  /\ call[c].pc = "exchange"
  /\ \/ /\ oauth[t].by # NoXAccount /\ ~oauth[t].exchanged
        /\ oauth' = [oauth EXCEPT ![t].exchanged = TRUE]
        /\ Proceeds(c, "remember")
     \/ Replies(c) /\ UNCHANGED oauth
  /\ UNCHANGED << pending, identity, signatures >>

InsertLinkToken(c) ==
  LET t == call[c].token IN
  /\ call[c].pc = "remember"
  /\ pending' = Append(pending, [wallet |-> oauth[t].wallet, account |-> oauth[t].by, row |-> "live"])
  /\ Replies(c)
  /\ UNCHANGED << oauth, identity, signatures >>

-----------------------------------------------------------------------------
(* GET /auth/x/pending gives the message to sign, which names the wallet,  *)
(* the account and the link token; POST /auth/x/finalize takes it back.    *)

Sign(w, n) ==
  /\ pending[n].row = "live" /\ << w, n >> \notin signatures
  /\ signatures' = signatures \cup {<< w, n >>}
  /\ UNCHANGED << oauth, pending, identity, call >>

\* Seeded fault: any signature of the message will do.
RefusalUnsigned(a, n, s) ==
  IF pending[n].row # "live" THEN "link_token_not_found"
  ELSE IF pending[n].wallet # a THEN "link_token_address_mismatch" ELSE "none"
\* The signer recovered from the signature s for the token's own message, if it is one for that message.
Refusal(a, n, s) ==
  IF pending[n].row # "live" THEN "link_token_not_found"
  ELSE IF pending[n].wallet # a THEN "link_token_address_mismatch"
  ELSE IF s # << a, n >> THEN "invalid_signature" ELSE "none"

SelectLinkToken(c, a, n, s) ==
  /\ call[c].pc = "idle" /\ Refusal(a, n, s) = "none"
  /\ call' = [call EXCEPT ![c] = [pc |-> "upsert", token |-> n, address |-> a]]
  /\ UNCHANGED << oauth, pending, identity, signatures >>

Taken(w, u) == \E v \in Holders \ {w} : identity[v] = u

UpsertIdentity(c) ==
  LET w == call[c].address
      u == pending[call[c].token].account
  IN  /\ call[c].pc = "upsert"
      /\ IF Taken(w, u)
         THEN Replies(c) /\ UNCHANGED identity
         ELSE Proceeds(c, "forget") /\ identity' = [identity EXCEPT ![w] = u]
      /\ UNCHANGED << oauth, pending, signatures >>

DeleteLinkToken(c) ==
  /\ call[c].pc = "forget"
  /\ pending' = [pending EXCEPT ![call[c].token].row = "gone"]
  /\ Replies(c)
  /\ UNCHANGED << oauth, identity, signatures >>

-----------------------------------------------------------------------------
\* A query fails, or the process ends under the request.
Breaks(c) ==
  /\ call[c].pc \in {"spend", "remember", "upsert", "forget"}
  /\ Replies(c)
  /\ UNCHANGED << oauth, pending, identity, signatures >>

RunsOut ==
  /\ \/ \E t \in DOMAIN oauth : /\ oauth[t].row = "live"
                                /\ oauth' = [oauth EXCEPT ![t].row = "gone"] /\ UNCHANGED pending
     \/ \E n \in DOMAIN pending : /\ pending[n].row = "live"
                                  /\ pending' = [pending EXCEPT ![n].row = "gone"] /\ UNCHANGED oauth
  /\ UNCHANGED << identity, call, signatures >>

Callback(c) ==
  \/ \E t \in DOMAIN oauth : SelectRequestToken(c, t)
  \/ DeleteRequestToken(c) \/ AccessToken(c) \/ InsertLinkToken(c)
Finalize(c) ==
  \/ \E n \in DOMAIN pending, a \in Holders, s \in signatures : SelectLinkToken(c, a, n, s)
  \/ UpsertIdentity(c) \/ DeleteLinkToken(c)

XLinkNext ==
  \/ \E w \in Holders : Start(w) \/ \E n \in DOMAIN pending : Sign(w, n)
  \/ \E t \in DOMAIN oauth, u \in XAccounts : Authorize(t, u)
  \/ \E c \in Calls : Callback(c) \/ Finalize(c) \/ Breaks(c)
  \/ RunsOut

XLinkSpec == XLinkInit /\ [][XLinkNext]_linkVars

-----------------------------------------------------------------------------
(* Properties *)

\* Whatever sessions are started, mixed up or repeated, a wallet is linked to an account only where both
\* agreed to that pair: the account's holder authorised a session that named the wallet, and the wallet
\* signed the message that names the account.
LinksConsented ==
  \A w \in Holders : identity[w] # NoXAccount =>
    /\ \E t \in DOMAIN oauth : oauth[t].wallet = w /\ oauth[t].by = identity[w]
    /\ \E n \in DOMAIN pending : << w, n >> \in signatures /\ pending[n].account = identity[w]
=============================================================================
