-------------------------- MODULE AgentApi_proofs --------------------------
(***************************************************************************)
(* What the answers of the middleware to agents and visitors, and the      *)
(* pages that show them, rest on: the enumeration of an owner's items and  *)
(* equip_best, which walks it; the link of a wallet to an X account; a     *)
(* tool session's ceiling; the gas stipends; the leaderboard's pages; the  *)
(* arena page, its feed and the arena's daemon; the advice given before an *)
(* action. Each is proved for any number of accounts, items, wallets,      *)
(* requests, rows, polls and calls.                                        *)
(***************************************************************************)
EXTENDS Advice, Faucet, XLink, ToolSession, EquipBest, ArenaPage, RecentFeed, Leaderboard, GrokArena,
        Sums, FiniteSetTheorems, TLAPS

-----------------------------------------------------------------------------
(***************************************************************************)
(* Items: the enumeration of an owner's items is exact. The invariant adds *)
(* to EnumerationExact that an item not minted yet has no owner, so that a *)
(* new item is in no array.                                                *)
(***************************************************************************)
\* No item has an owner before it is minted.
Unminted == \A i \in ItemIds : i >= nextTokenId => ownerOf[i] = Nobody

ItemsInv == ItemsTypeOK /\ Unminted /\ EnumerationExact

-----------------------------------------------------------------------------

\* A fresh contract satisfies the invariant: nothing minted, nothing listed.
LEMMA ItemsInitInv == ItemsInit => ItemsInv
  <1> SUFFICES ASSUME ItemsInit PROVE ItemsInv
    OBVIOUS
  <1> USE ItemsAssumption DEF ItemsInit
  <1>1. ItemsTypeOK
    BY DEF ItemsTypeOK
  <1>2. Unminted
    BY DEF Unminted
  <1>3. EnumerationExact
    BY DEF EnumerationExact
  <1> QED BY <1>1, <1>2, <1>3 DEF ItemsInv

\* Appending item i to the arrays of account a, where every other item of the
\* arrays "base" has its place: the shape both mint and transfer end with.
LEMMA AppendedInv ==
  ASSUME NEW base \in [Accounts -> Seq(ItemIds)], NEW own \in [ItemIds -> Accounts \cup {Nobody}],
         NEW idx \in [ItemIds -> Nat], NEW a \in Accounts, NEW i \in ItemIds,
         own[i] = a, idx[i] = Len(base[a]) + 1,
         \A j \in ItemIds : j # i /\ own[j] # Nobody =>
           idx[j] \in DOMAIN base[own[j]] /\ base[own[j]][idx[j]] = j,
         \A b \in Accounts : \A n \in DOMAIN base[b] :
           base[b][n] # i /\ own[base[b][n]] = b /\ idx[base[b][n]] = n,
         NEW arr, arr = [base EXCEPT ![a] = Append(@, i)]
  PROVE  /\ arr \in [Accounts -> Seq(ItemIds)]
         /\ \A j \in ItemIds : own[j] # Nobody =>
              idx[j] \in DOMAIN arr[own[j]] /\ arr[own[j]][idx[j]] = j
         /\ \A b \in Accounts : \A n \in DOMAIN arr[b] :
              own[arr[b][n]] = b /\ idx[arr[b][n]] = n
  <1> USE ItemsAssumption
  <1>1. /\ arr \in [Accounts -> Seq(ItemIds)]
        /\ arr[a] = Append(base[a], i)
        /\ \A b \in Accounts : b # a => arr[b] = base[b]
    OBVIOUS
  <1>2. /\ DOMAIN arr[a] = 1..(Len(base[a]) + 1)
        /\ DOMAIN base[a] = 1..Len(base[a])
        /\ \A n \in 1..Len(base[a]) : arr[a][n] = base[a][n]
        /\ arr[a][Len(base[a]) + 1] = i
        /\ Len(base[a]) \in Nat
    BY <1>1
  <1>3. \A j \in ItemIds : own[j] # Nobody =>
          idx[j] \in DOMAIN arr[own[j]] /\ arr[own[j]][idx[j]] = j
    <2> SUFFICES ASSUME NEW j \in ItemIds, own[j] # Nobody
                 PROVE  idx[j] \in DOMAIN arr[own[j]] /\ arr[own[j]][idx[j]] = j
      OBVIOUS
    <2>1. CASE j = i
      BY <1>2, <2>1
    <2>2. CASE j # i /\ own[j] = a
      <3>1. idx[j] \in 1..Len(base[a]) /\ base[a][idx[j]] = j
        BY <1>2, <2>2
      <3> QED BY <1>2, <2>2, <3>1
    <2>3. CASE j # i /\ own[j] # a
      BY <1>1, <2>3
    <2> QED BY <2>1, <2>2, <2>3
  <1>4. \A b \in Accounts : \A n \in DOMAIN arr[b] : own[arr[b][n]] = b /\ idx[arr[b][n]] = n
    <2> SUFFICES ASSUME NEW b \in Accounts, NEW n \in DOMAIN arr[b]
                 PROVE  own[arr[b][n]] = b /\ idx[arr[b][n]] = n
      OBVIOUS
    <2>1. CASE b # a
      BY <1>1, <2>1
    <2>2. CASE b = a /\ n \in 1..Len(base[a])
      BY <1>2, <2>2
    <2>3. CASE b = a /\ n = Len(base[a]) + 1
      BY <1>2, <2>3
    <2> QED BY <1>2, <2>1, <2>2, <2>3
  <1> QED BY <1>1, <1>3, <1>4

\* _mint lists the new item, which was in no array, last in its owner's.
LEMMA MintInv ==
  ASSUME ItemsInv, NEW a \in Accounts, Mint(a)
  PROVE  ItemsInv'
  <1> USE ItemsAssumption
  <1> DEFINE i == nextTokenId
  <1>0. /\ ItemsTypeOK /\ Unminted /\ EnumerationExact
        /\ i \in ItemIds /\ ownerOf[i] = Nobody /\ a # Nobody
    BY DEF ItemsInv, ItemsTypeOK, Unminted, Mint, ItemIds
  <1>1. /\ ownerOf' \in [ItemIds -> Accounts \cup {Nobody}]
        /\ ownedTokensIndex' \in [ItemIds -> Nat]
        /\ nextTokenId' \in Nat \ {0}
    BY <1>0 DEF ItemsTypeOK, Mint
  <1>2. /\ ownerOf'[i] = a /\ ownedTokensIndex'[i] = Len(ownedTokens[a]) + 1
        /\ \A j \in ItemIds : j # i => /\ ownerOf'[j] = ownerOf[j]
                                       /\ ownedTokensIndex'[j] = ownedTokensIndex[j]
    BY <1>0 DEF ItemsTypeOK, Mint
  <1>3. \A j \in ItemIds : j # i /\ ownerOf'[j] # Nobody =>
          /\ ownedTokensIndex'[j] \in DOMAIN ownedTokens[ownerOf'[j]]
          /\ ownedTokens[ownerOf'[j]][ownedTokensIndex'[j]] = j
    BY <1>0, <1>2 DEF EnumerationExact
  <1>4. \A b \in Accounts : \A n \in DOMAIN ownedTokens[b] :
          /\ ownedTokens[b][n] # i
          /\ ownerOf'[ownedTokens[b][n]] = b
          /\ ownedTokensIndex'[ownedTokens[b][n]] = n
    <2> SUFFICES ASSUME NEW b \in Accounts, NEW n \in DOMAIN ownedTokens[b]
                 PROVE  /\ ownedTokens[b][n] # i
                        /\ ownerOf'[ownedTokens[b][n]] = b
                        /\ ownedTokensIndex'[ownedTokens[b][n]] = n
      OBVIOUS
    <2>1. ownedTokens[b][n] \in ItemIds
      BY <1>0 DEF ItemsTypeOK
    <2>2. ownerOf[ownedTokens[b][n]] = b /\ ownedTokensIndex[ownedTokens[b][n]] = n
      BY <1>0 DEF EnumerationExact
    <2> QED BY <1>0, <1>2, <2>1, <2>2
  <1>5. ownedTokens' = [ownedTokens EXCEPT ![a] = Append(@, i)]
    BY DEF Mint
  <1>6. ownedTokens' \in [Accounts -> Seq(ItemIds)] /\ EnumerationExact'
    <2>1. ownedTokens \in [Accounts -> Seq(ItemIds)]
      BY <1>0 DEF ItemsTypeOK
    <2> HIDE DEF i
    <2> QED BY <1>0, <1>1, <1>2, <1>3, <1>4, <1>5, <2>1, AppendedInv DEF EnumerationExact
  <1>7. Unminted'
    <2>1. \A j \in ItemIds : j >= nextTokenId + 1 => j # i /\ j >= nextTokenId
      BY <1>0 DEF ItemsTypeOK, ItemIds
    <2> QED BY <1>0, <1>2, <2>1 DEF Unminted, Mint
  <1> QED BY <1>1, <1>6, <1>7 DEF ItemsInv, ItemsTypeOK

\* What the removal leaves of a sequence s whose place k is given up.
LEMMA RemovedArrayIs ==
  ASSUME NEW S, NEW s \in Seq(S), NEW k \in DOMAIN s
  PROVE  /\ RemovedArray(s, k) \in Seq(S)
         /\ DOMAIN RemovedArray(s, k) = 1..(Len(s) - 1)
         /\ Len(s) \in DOMAIN s
         /\ \A n \in 1..(Len(s) - 1) : RemovedArray(s, k)[n] = IF n = k THEN s[Len(s)] ELSE s[n]
  <1> DEFINE t == [s EXCEPT ![k] = LastToken(s)]
  <1>1. Len(s) \in Nat \ {0} /\ DOMAIN s = 1..Len(s)
    OBVIOUS
  <1>2. LastToken(s) \in S
    BY <1>1 DEF LastToken
  <1>3. /\ t \in Seq(S) /\ Len(t) = Len(s)
        /\ \A n \in 1..Len(s) : t[n] = IF n = k THEN s[Len(s)] ELSE s[n]
    BY <1>1, <1>2 DEF LastToken
  <1> HIDE DEF t
  <1>4. /\ SubSeq(t, 1, Len(s) - 1) \in Seq(S)
        /\ DOMAIN SubSeq(t, 1, Len(s) - 1) = 1..(Len(s) - 1)
        /\ \A n \in 1..(Len(s) - 1) : SubSeq(t, 1, Len(s) - 1)[n] = t[n]
    BY <1>1, <1>3
  <1>5. RemovedArray(s, k) = SubSeq(t, 1, Len(s) - 1)
    BY <1>3 DEF RemovedArray, Without, t
  <1> QED BY <1>1, <1>3, <1>4, <1>5

\* _removeTokenFromOwnerEnumeration followed by the append: the moved last token
\* and the transferred one keep their places right, a transfer to oneself included.
LEMMA TransferInv ==
  ASSUME ItemsInv, NEW from \in Accounts, NEW to \in Accounts, NEW i \in ItemIds,
         TransferFrom(from, to, i)
  PROVE  ItemsInv'
  <1> USE ItemsAssumption
  <1> DEFINE s    == ownedTokens[from]
             k    == ownedTokensIndex[i]
             last == s[Len(s)]
             base == [ownedTokens EXCEPT ![from] = RemovedArray(@, k)]
  <1>0. ItemsTypeOK /\ Unminted /\ EnumerationExact /\ ownerOf[i] = from /\ from # Nobody
    BY DEF ItemsInv, TransferFrom
  <1>1. s \in Seq(ItemIds) /\ k \in DOMAIN s /\ s[k] = i
    BY <1>0 DEF ItemsTypeOK, EnumerationExact
  <1>2. /\ RemovedArray(s, k) \in Seq(ItemIds)
        /\ DOMAIN RemovedArray(s, k) = 1..(Len(s) - 1)
        /\ Len(s) \in DOMAIN s /\ DOMAIN s = 1..Len(s) /\ Len(s) \in Nat
        /\ \A n \in 1..(Len(s) - 1) : RemovedArray(s, k)[n] = IF n = k THEN last ELSE s[n]
    <2> HIDE DEF s, k
    <2>1. /\ RemovedArray(s, k) \in Seq(ItemIds)
          /\ DOMAIN RemovedArray(s, k) = 1..(Len(s) - 1)
          /\ Len(s) \in DOMAIN s
          /\ \A n \in 1..(Len(s) - 1) : RemovedArray(s, k)[n] = IF n = k THEN s[Len(s)] ELSE s[n]
      BY <1>1, RemovedArrayIs
    <2>2. DOMAIN s = 1..Len(s) /\ Len(s) \in Nat
      BY <1>1
    <2> QED BY <2>1, <2>2
  <1>3. /\ last \in ItemIds /\ ownerOf[last] = from /\ ownedTokensIndex[last] = Len(s)
    BY <1>0, <1>1, <1>2 DEF EnumerationExact
  <1>4. /\ base \in [Accounts -> Seq(ItemIds)]
        /\ base[from] = RemovedArray(s, k)
        /\ \A b \in Accounts : b # from => base[b] = ownedTokens[b]
    BY <1>0, <1>2 DEF ItemsTypeOK
  <1>5. /\ ownerOf' = [ownerOf EXCEPT ![i] = to]
        /\ ownedTokens' = [base EXCEPT ![to] = Append(@, i)]
        /\ ownedTokensIndex' =
             [[ownedTokensIndex EXCEPT ![last] = k, ![i] = 0] EXCEPT ![i] = Len(base[to]) + 1]
        /\ nextTokenId' = nextTokenId
    BY DEF TransferFrom, RemovedIndexes, LastToken
  <1> HIDE DEF base, s, k, last
  <1>6. /\ ownerOf' \in [ItemIds -> Accounts \cup {Nobody}]
        /\ ownedTokensIndex' \in [ItemIds -> Nat]
        /\ ownerOf'[i] = to /\ ownedTokensIndex'[i] = Len(base[to]) + 1
        /\ \A j \in ItemIds : j # i =>
             /\ ownerOf'[j] = ownerOf[j]
             /\ ownedTokensIndex'[j] = IF j = last THEN k ELSE ownedTokensIndex[j]
    <2>1. Len(base[to]) \in Nat /\ k \in Nat
      BY <1>1, <1>2, <1>4
    <2> QED BY <1>0, <1>3, <1>5, <2>1 DEF ItemsTypeOK
  <1>7. \A j \in ItemIds : j # i /\ ownerOf'[j] # Nobody =>
          ownedTokensIndex'[j] \in DOMAIN base[ownerOf'[j]] /\ base[ownerOf'[j]][ownedTokensIndex'[j]] = j
    <2> SUFFICES ASSUME NEW j \in ItemIds, j # i, ownerOf[j] # Nobody
                 PROVE  /\ ownedTokensIndex'[j] \in DOMAIN base[ownerOf[j]]
                        /\ base[ownerOf[j]][ownedTokensIndex'[j]] = j
      BY <1>6
    <2>0. /\ ownerOf[j] \in Accounts
          /\ ownedTokensIndex[j] \in DOMAIN ownedTokens[ownerOf[j]]
          /\ ownedTokens[ownerOf[j]][ownedTokensIndex[j]] = j
      BY <1>0 DEF ItemsTypeOK, EnumerationExact
    <2>1. CASE ownerOf[j] # from
      BY <1>3, <1>4, <1>6, <2>0, <2>1
    <2>2. CASE ownerOf[j] = from /\ j = last
      <3>1. k \in 1..(Len(s) - 1)
        BY <1>1, <1>2, <2>2 DEF last
      <3> QED BY <1>2, <1>4, <1>6, <2>2, <3>1
    <2>3. CASE ownerOf[j] = from /\ j # last
      <3>1. ownedTokensIndex[j] \in 1..Len(s) /\ s[ownedTokensIndex[j]] = j
        BY <1>2, <2>0, <2>3 DEF s
      <3>2. ownedTokensIndex[j] # Len(s) /\ ownedTokensIndex[j] # k
        BY <1>1, <2>3, <3>1 DEF last
      <3> QED BY <1>2, <1>4, <1>6, <2>3, <3>1, <3>2
    <2> QED BY <2>1, <2>2, <2>3
  <1>8. \A b \in Accounts : \A n \in DOMAIN base[b] :
          /\ base[b][n] # i
          /\ ownerOf'[base[b][n]] = b
          /\ ownedTokensIndex'[base[b][n]] = n
    <2> SUFFICES ASSUME NEW b \in Accounts, NEW n \in DOMAIN base[b]
                 PROVE  /\ base[b][n] # i
                        /\ ownerOf'[base[b][n]] = b
                        /\ ownedTokensIndex'[base[b][n]] = n
      OBVIOUS
    <2>1. CASE b # from
      <3>1. n \in DOMAIN ownedTokens[b] /\ base[b][n] = ownedTokens[b][n]
        BY <1>4, <2>1
      <3>2. base[b][n] \in ItemIds /\ ownerOf[base[b][n]] = b /\ ownedTokensIndex[base[b][n]] = n
        BY <1>0, <3>1 DEF ItemsTypeOK, EnumerationExact
      <3> QED BY <1>0, <1>3, <1>6, <2>1, <3>2
    <2>2. CASE b = from /\ n = k
      <3>1. n \in 1..(Len(s) - 1) /\ base[b][n] = last
        BY <1>2, <1>4, <2>2
      <3>2. last # i
        BY <1>2, <1>3, <2>2, <3>1 DEF k
      <3> QED BY <1>3, <1>6, <2>2, <3>1, <3>2
    <2>3. CASE b = from /\ n # k
      <3>1. n \in 1..(Len(s) - 1) /\ n \in DOMAIN s /\ base[b][n] = s[n] /\ n # Len(s)
        BY <1>2, <1>4, <2>3
      <3>2. s[n] \in ItemIds /\ ownerOf[s[n]] = from /\ ownedTokensIndex[s[n]] = n
        BY <1>0, <1>1, <3>1 DEF EnumerationExact, s
      <3>3. s[n] # i /\ s[n] # last
        BY <1>3, <2>3, <3>1, <3>2 DEF k
      <3> QED BY <1>6, <2>3, <3>1, <3>2, <3>3
    <2> QED BY <2>1, <2>2, <2>3
  <1>9. ownedTokens' \in [Accounts -> Seq(ItemIds)] /\ EnumerationExact'
    BY <1>4, <1>5, <1>6, <1>7, <1>8, AppendedInv DEF EnumerationExact
  <1>10. Unminted'
    <2>1. i < nextTokenId
      BY <1>0 DEF Unminted, ItemsTypeOK, ItemIds
    <2> QED BY <1>0, <1>5, <1>6, <2>1 DEF Unminted, ItemsTypeOK, ItemIds
  <1> QED BY <1>0, <1>5, <1>6, <1>9, <1>10 DEF ItemsInv, ItemsTypeOK

\* Every mint and transfer keeps the invariant.
LEMMA ItemsNextInv ==
  ASSUME ItemsInv, [ItemsNext]_itemsVars
  PROVE  ItemsInv'
  <1>1. CASE UNCHANGED itemsVars
    BY <1>1 DEF itemsVars, ItemsInv, ItemsTypeOK, Unminted, EnumerationExact
  <1> QED BY <1>1, MintInv, TransferInv DEF ItemsNext

\* The arrays, their index and the owners stay in agreement.
THEOREM ItemsAlwaysConsistent == ItemsSpec => []ItemsInv
  <1> QED BY ItemsInitInv, ItemsNextInv, PTL DEF ItemsSpec

\* The variables of Items keep their types.
THEOREM ItemsTyped == ItemsSpec => []ItemsTypeOK
  <1>1. ItemsInv => ItemsTypeOK
    BY DEF ItemsInv
  <1> QED BY <1>1, ItemsAlwaysConsistent, PTL

\* Items.tokenOfOwnerByIndex shows each account exactly its items.
THEOREM EnumerationAlwaysExact == ItemsSpec => []EnumerationExact
  <1>1. ItemsInv => EnumerationExact
    BY DEF ItemsInv
  <1> QED BY <1>1, ItemsAlwaysConsistent, PTL

-----------------------------------------------------------------------------
(***************************************************************************)
(* XLink: a wallet is linked where both sides agreed. A link token names a *)
(* session that was authorised for its account, and the handlers hold      *)
(* tokens that are there; neither ever changes what it names.              *)
(***************************************************************************)

MaybeX    == XAccounts \cup {NoXAccount}
OauthRow  == [wallet : Holders, row : {"live", "gone"}, by : MaybeX, exchanged : BOOLEAN]
LinkRow   == [wallet : Holders, account : MaybeX, row : {"live", "gone"}]
CallState == [pc : {"idle", "spend", "exchange", "remember", "upsert", "forget"},
              token : Nat, address : Holders \cup {"none"}]

XLinkTypeOK ==
  /\ oauth \in Seq(OauthRow) /\ pending \in Seq(LinkRow)
  /\ identity \in [Holders -> MaybeX]
  /\ call \in [Calls -> CallState]

\* What is read from a typed table has the type of its rows, ...
LEMMA RowOf ==
  ASSUME NEW S, NEW s \in Seq(S), NEW n \in DOMAIN s
  PROVE  s[n] \in S /\ n \in Nat /\ n >= 1 /\ n <= Len(s)
  OBVIOUS

\* ... a row replaced by one of its type leaves a typed table, ...
LEMMA RowChanged ==
  ASSUME NEW S, NEW s \in Seq(S), NEW n \in DOMAIN s, NEW r \in S,
         NEW t, t = [s EXCEPT ![n] = r]
  PROVE  /\ t \in Seq(S) /\ DOMAIN t = DOMAIN s /\ Len(t) = Len(s) /\ t[n] = r
         /\ \A m \in DOMAIN s : m # n => t[m] = s[m]
  OBVIOUS

\* ... and so does a row inserted, at its end.
LEMMA RowInserted ==
  ASSUME NEW S, NEW s \in Seq(S), NEW r \in S, NEW t, t = Append(s, r)
  PROVE  /\ t \in Seq(S) /\ DOMAIN t = DOMAIN s \cup {Len(s) + 1} /\ Len(t) = Len(s) + 1
         /\ Len(s) + 1 \notin DOMAIN s /\ t[Len(s) + 1] = r
         /\ \A m \in DOMAIN s : t[m] = s[m]
  OBVIOUS

Authorised(w, u) == \E t \in DOMAIN oauth : oauth[t].wallet = w /\ oauth[t].by = u

\* Link tokens are for accounts whose holder let the application know him.
PendingAuthorised ==
  \A n \in DOMAIN pending :
    pending[n].account # NoXAccount /\ Authorised(pending[n].wallet, pending[n].account)

\* What a handler has in hand.
CallHolds(c) ==
  /\ call[c].pc \in {"spend", "exchange", "remember"} => call[c].token \in DOMAIN oauth
  /\ call[c].pc = "remember" => oauth[call[c].token].by # NoXAccount
  /\ call[c].pc = "upsert" =>
       /\ call[c].token \in DOMAIN pending /\ call[c].address \in Holders
       /\ << call[c].address, call[c].token >> \in signatures
       /\ pending[call[c].token].wallet = call[c].address
  /\ call[c].pc = "forget" => call[c].token \in DOMAIN pending
CallsHold == \A c \in Calls : CallHolds(c)

XLinkInv == XLinkTypeOK /\ PendingAuthorised /\ CallsHold /\ LinksConsented

LEMMA XLinkInitInv == XLinkInit => XLinkInv
  <1> SUFFICES ASSUME XLinkInit PROVE XLinkInv
    OBVIOUS
  <1> USE DEF XLinkInit
  <1>1. XLinkTypeOK
    <2>1. oauth \in Seq(OauthRow) /\ pending \in Seq(LinkRow)
      OBVIOUS
    <2>2. NoCall \in CallState
      BY DEF NoCall, CallState
    <2> QED BY <2>1, <2>2 DEF XLinkTypeOK, MaybeX
  <1>2. PendingAuthorised /\ LinksConsented
    BY DEF PendingAuthorised, LinksConsented
  <1>3. CallsHold
    BY DEF CallsHold, CallHolds, NoCall
  <1> QED BY <1>1, <1>2, <1>3 DEF XLinkInv

\* Rows are added or lose their life; what they name stays.
RowsKept ==
  /\ \A t \in DOMAIN oauth :
       /\ t \in DOMAIN oauth' /\ oauth'[t].wallet = oauth[t].wallet
       /\ oauth[t].by # NoXAccount => oauth'[t].by = oauth[t].by
  /\ \A n \in DOMAIN pending :
       /\ n \in DOMAIN pending' /\ pending'[n].wallet = pending[n].wallet
       /\ pending'[n].account = pending[n].account
  /\ signatures \subseteq signatures'

\* Then what was agreed stays agreed, and what is in hand stays there.
LEMMA KeptFacts ==
  ASSUME XLinkInv, RowsKept
  PROVE  /\ \A w \in Holders, u \in XAccounts : Authorised(w, u) => Authorised(w, u)'
         /\ \A n \in DOMAIN pending :
              /\ pending'[n].account # NoXAccount
              /\ \E t \in DOMAIN oauth' : /\ oauth'[t].wallet = pending'[n].wallet
                                        /\ oauth'[t].by = pending'[n].account
         /\ identity' = identity => LinksConsented'
         /\ \A c \in Calls : call'[c] = call[c] => CallHolds(c)'
  <1>0. XLinkTypeOK /\ PendingAuthorised /\ CallsHold /\ LinksConsented
    BY DEF XLinkInv
  <1>1. ASSUME NEW w \in Holders, NEW u \in XAccounts, Authorised(w, u) PROVE Authorised(w, u)'
    <2>1. PICK t \in DOMAIN oauth : oauth[t].wallet = w /\ oauth[t].by = u
      BY <1>1 DEF Authorised
    <2>2. t \in DOMAIN oauth' /\ oauth'[t].wallet = w /\ oauth'[t].by = u
      BY <2>1, XLinkAssumption DEF RowsKept
    <2> QED BY <2>2 DEF Authorised
  <1>2. ASSUME NEW n \in DOMAIN pending
        PROVE  /\ pending'[n].account # NoXAccount
               /\ \E t \in DOMAIN oauth' : /\ oauth'[t].wallet = pending'[n].wallet
                                         /\ oauth'[t].by = pending'[n].account
    <2>0. pending[n] \in LinkRow
      BY <1>0, RowOf DEF XLinkTypeOK
    <2>1. pending[n].wallet \in Holders /\ pending[n].account \in XAccounts
      BY <1>0, <2>0 DEF PendingAuthorised, LinkRow, MaybeX
    <2>2. Authorised(pending[n].wallet, pending[n].account)
      BY <1>0 DEF PendingAuthorised
    <2> DEFINE w == pending[n].wallet
               u == pending[n].account
    <2>3. \E t \in DOMAIN oauth' : oauth'[t].wallet = w /\ oauth'[t].by = u
      <3>1. PICK t \in DOMAIN oauth : oauth[t].wallet = w /\ oauth[t].by = u
        BY <2>2 DEF Authorised
      <3>2. t \in DOMAIN oauth' /\ oauth'[t].wallet = w /\ oauth'[t].by = u
        BY <2>1, <3>1, XLinkAssumption DEF RowsKept
      <3> QED BY <3>2
    <2>4. pending'[n].wallet = w /\ pending'[n].account = u
      BY DEF RowsKept
    <2> QED BY <2>1, <2>3, <2>4, XLinkAssumption
  <1>3. ASSUME identity' = identity PROVE LinksConsented'
    <2> SUFFICES ASSUME NEW w \in Holders, identity[w] # NoXAccount
                 PROVE  /\ \E t \in DOMAIN oauth' : oauth'[t].wallet = w /\ oauth'[t].by = identity[w]
                        /\ \E n \in DOMAIN pending' :
                             << w, n >> \in signatures' /\ pending'[n].account = identity[w]
      BY <1>3 DEF LinksConsented
    <2>1. identity[w] \in XAccounts /\ Authorised(w, identity[w])
      BY <1>0 DEF XLinkTypeOK, LinksConsented, Authorised, MaybeX
    <2>2. PICK t \in DOMAIN oauth : oauth[t].wallet = w /\ oauth[t].by = identity[w]
      BY <2>1 DEF Authorised
    <2>3. t \in DOMAIN oauth' /\ oauth'[t].wallet = w /\ oauth'[t].by = identity[w]
      BY <2>1, <2>2, XLinkAssumption DEF RowsKept
    <2>4. PICK n \in DOMAIN pending : << w, n >> \in signatures /\ pending[n].account = identity[w]
      BY <1>0 DEF LinksConsented
    <2>5. n \in DOMAIN pending' /\ << w, n >> \in signatures' /\ pending'[n].account = identity[w]
      BY <2>4 DEF RowsKept
    <2> QED BY <2>3, <2>5
  <1>4. ASSUME NEW c \in Calls, call'[c] = call[c] PROVE CallHolds(c)'
    <2>1. CallHolds(c)
      BY <1>0 DEF CallsHold
    <2> QED BY <1>4, <2>1 DEF CallHolds, RowsKept
  <1> QED BY <1>1, <1>2, <1>3, <1>4

\* A handler's call is all that changes of the calls.
LEMMA OtherCalls ==
  ASSUME XLinkInv, NEW c \in Calls, NEW r, call' = [call EXCEPT ![c] = r]
  PROVE  call'[c] = r /\ \A d \in Calls \ {c} : call'[d] = call[d]
  BY DEF XLinkInv, XLinkTypeOK

\* A step that keeps the rows, their types and the identities leaves only the calls in question.
LEMMA RowsOnly ==
  ASSUME XLinkInv, RowsKept, oauth' \in Seq(OauthRow), pending' = pending, call' \in [Calls -> CallState],
         identity' = identity, CallsHold'
  PROVE  XLinkInv'
  <1>1. PendingAuthorised'
    BY KeptFacts DEF PendingAuthorised, Authorised
  <1>2. LinksConsented'
    BY KeptFacts
  <1>3. XLinkTypeOK'
    BY DEF XLinkInv, XLinkTypeOK
  <1> QED BY <1>1, <1>2, <1>3 DEF XLinkInv

\* The same for a link token that runs out or is deleted.
LEMMA TokenGone ==
  ASSUME XLinkInv, NEW n \in DOMAIN pending, pending' = [pending EXCEPT ![n].row = "gone"],
         oauth' = oauth, signatures' = signatures
  PROVE  pending' \in Seq(LinkRow) /\ DOMAIN pending' = DOMAIN pending /\ RowsKept
  <1> DEFINE r == [pending[n] EXCEPT !.row = "gone"]
  <1>0. pending \in Seq(LinkRow)
    BY DEF XLinkInv, XLinkTypeOK
  <1>1. pending[n] \in LinkRow
    BY <1>0, RowOf
  <1>2. r \in LinkRow /\ r.wallet = pending[n].wallet /\ r.account = pending[n].account
    BY <1>1 DEF LinkRow
  <1>3. pending' = [pending EXCEPT ![n] = r]
    OBVIOUS
  <1> HIDE DEF r
  <1>4. /\ pending' \in Seq(LinkRow) /\ DOMAIN pending' = DOMAIN pending /\ pending'[n] = r
        /\ \A m \in DOMAIN pending : m # n => pending'[m] = pending[m]
    BY <1>0, <1>2, <1>3, RowChanged
  <1>5. \A m \in DOMAIN pending : /\ pending'[m].wallet = pending[m].wallet
                                  /\ pending'[m].account = pending[m].account
    BY <1>2, <1>4
  <1> QED BY <1>4, <1>5 DEF RowsKept

LEMMA TokenGoneInv ==
  ASSUME XLinkInv, NEW n \in DOMAIN pending, pending' = [pending EXCEPT ![n].row = "gone"],
         UNCHANGED << oauth, identity, signatures >>, call' \in [Calls -> CallState], CallsHold'
  PROVE  XLinkInv'
  <1>0. oauth' = oauth /\ signatures' = signatures /\ identity' = identity
    OBVIOUS
  <1>1. pending' \in Seq(LinkRow) /\ DOMAIN pending' = DOMAIN pending /\ RowsKept
    BY <1>0, TokenGone
  <1>2. PendingAuthorised'
    BY <1>1, KeptFacts DEF PendingAuthorised, Authorised
  <1>3. LinksConsented'
    BY <1>0, <1>1, KeptFacts
  <1>4. XLinkTypeOK'
    BY <1>0, <1>1 DEF XLinkInv, XLinkTypeOK
  <1> QED BY <1>2, <1>3, <1>4 DEF XLinkInv

\* An entry of oauth changed in its row, its exchange or, when it had none, its holder.
LEMMA SessionChanged ==
  ASSUME XLinkInv, NEW t \in DOMAIN oauth, NEW r \in OauthRow, r.wallet = oauth[t].wallet,
         oauth[t].by # NoXAccount => r.by = oauth[t].by,
         oauth' = [oauth EXCEPT ![t] = r], pending' = pending, signatures' = signatures
  PROVE  oauth' \in Seq(OauthRow) /\ RowsKept
  <1>0. oauth \in Seq(OauthRow)
    BY DEF XLinkInv, XLinkTypeOK
  <1>1. /\ oauth' \in Seq(OauthRow) /\ DOMAIN oauth' = DOMAIN oauth /\ oauth'[t] = r
        /\ \A m \in DOMAIN oauth : m # t => oauth'[m] = oauth[m]
    BY <1>0, RowChanged
  <1>2. \A m \in DOMAIN oauth : /\ oauth'[m].wallet = oauth[m].wallet
                                /\ oauth[m].by # NoXAccount => oauth'[m].by = oauth[m].by
    BY <1>1
  <1> QED BY <1>1, <1>2 DEF RowsKept

LEMMA RowsUnchanged ==
  ASSUME oauth' = oauth, pending' = pending, signatures' = signatures
  PROVE  RowsKept
  BY DEF RowsKept

\* One call changes, and what it holds then is there.
LEMMA OneCall ==
  ASSUME XLinkInv, RowsKept, NEW c \in Calls, NEW r \in CallState, call' = [call EXCEPT ![c] = r],
         CallHolds(c)'
  PROVE  call' \in [Calls -> CallState] /\ CallsHold'
  <1>1. \A d \in Calls \ {c} : CallHolds(d)'
    BY OtherCalls, KeptFacts
  <1>2. CallsHold'
    BY <1>1 DEF CallsHold
  <1>3. call' \in [Calls -> CallState]
    BY DEF XLinkInv, XLinkTypeOK
  <1> QED BY <1>2, <1>3

LEMMA NoCalls ==
  ASSUME XLinkInv, RowsKept, call' = call
  PROVE  call' \in [Calls -> CallState] /\ CallsHold'
  <1>1. \A d \in Calls : CallHolds(d)'
    BY KeptFacts
  <1> QED BY <1>1 DEF CallsHold, XLinkInv, XLinkTypeOK

\* A handler that has answered holds nothing.
LEMMA AnsweredCall ==
  ASSUME XLinkInv, RowsKept, NEW c \in Calls, Replies(c)
  PROVE  call' \in [Calls -> CallState] /\ CallsHold'
  <1>1. NoCall \in CallState /\ NoCall.pc = "idle"
    BY DEF NoCall, CallState
  <1>2. call' = [call EXCEPT ![c] = NoCall]
    BY DEF Replies
  <1>3. call'[c] = NoCall
    BY <1>2, OtherCalls
  <1>4. CallHolds(c)'
    BY <1>1, <1>3 DEF CallHolds
  <1> QED BY <1>1, <1>2, <1>4, OneCall

\* A handler that goes on with the token it has.
LEMMA CallProceeds ==
  ASSUME XLinkInv, NEW c \in Calls,
         NEW pc \in {"idle", "spend", "exchange", "remember", "upsert", "forget"}, Proceeds(c, pc)
  PROVE  \E r \in CallState :
           /\ r.pc = pc /\ r.token = call[c].token /\ r.address = call[c].address
           /\ call' = [call EXCEPT ![c] = r] /\ call'[c] = r
  <1> DEFINE r == [call[c] EXCEPT !.pc = pc]
  <1>1. call[c] \in CallState
    BY DEF XLinkInv, XLinkTypeOK
  <1>2. r \in CallState /\ r.pc = pc /\ r.token = call[c].token /\ r.address = call[c].address
    BY <1>1 DEF CallState
  <1>3. call' = [call EXCEPT ![c] = r]
    BY DEF Proceeds
  <1> HIDE DEF r
  <1>4. call'[c] = r
    BY <1>3, OtherCalls
  <1> QED BY <1>2, <1>3, <1>4

\* Sessions: started, authorised at X, taken up, spent, exchanged and remembered.
LEMMA StartInv ==
  ASSUME XLinkInv, NEW w \in Holders, Start(w)
  PROVE  XLinkInv'
  <1> DEFINE r == [wallet |-> w, row |-> "live", by |-> NoXAccount, exchanged |-> FALSE]
  <1>0. oauth \in Seq(OauthRow) /\ r \in OauthRow
    BY DEF XLinkInv, XLinkTypeOK, OauthRow, MaybeX
  <1>1. oauth' = Append(oauth, r)
    BY DEF Start
  <1> HIDE DEF r
  <1>2. /\ oauth' \in Seq(OauthRow) /\ DOMAIN oauth' = DOMAIN oauth \cup {Len(oauth) + 1}
        /\ \A m \in DOMAIN oauth : oauth'[m] = oauth[m]
    BY <1>0, <1>1, RowInserted
  <1>3. pending' = pending /\ identity' = identity /\ call' = call /\ signatures' = signatures
    BY DEF Start
  <1>4. RowsKept
    BY <1>2, <1>3 DEF RowsKept
  <1> QED BY <1>2, <1>3, <1>4, NoCalls, RowsOnly

LEMMA AuthorizeInv ==
  ASSUME XLinkInv, NEW t \in DOMAIN oauth, NEW u \in XAccounts, Authorize(t, u)
  PROVE  XLinkInv'
  <1> DEFINE r == [oauth[t] EXCEPT !.by = u]
  <1>0. oauth[t] \in OauthRow
    BY RowOf DEF XLinkInv, XLinkTypeOK
  <1>1. r \in OauthRow /\ r.wallet = oauth[t].wallet
    BY <1>0 DEF OauthRow, MaybeX
  <1>2. oauth[t].by = NoXAccount /\ oauth' = [oauth EXCEPT ![t] = r]
    BY DEF Authorize
  <1> HIDE DEF r
  <1>3. pending' = pending /\ identity' = identity /\ call' = call /\ signatures' = signatures
    BY DEF Authorize
  <1>4. oauth' \in Seq(OauthRow) /\ RowsKept
    BY <1>1, <1>2, <1>3, SessionChanged
  <1> QED BY <1>3, <1>4, NoCalls, RowsOnly

LEMMA SelectRequestTokenInv ==
  ASSUME XLinkInv, NEW c \in Calls, NEW t \in DOMAIN oauth, SelectRequestToken(c, t)
  PROVE  XLinkInv'
  <1> DEFINE r == [call[c] EXCEPT !.pc = "spend", !.token = t]
  <1>0. call[c] \in CallState /\ t \in Nat /\ oauth \in Seq(OauthRow)
    BY RowOf DEF XLinkInv, XLinkTypeOK
  <1>1. r \in CallState /\ r.pc = "spend" /\ r.token = t
    BY <1>0 DEF CallState
  <1>2. call' = [call EXCEPT ![c] = r]
    BY DEF SelectRequestToken
  <1> HIDE DEF r
  <1>3. oauth' = oauth /\ pending' = pending /\ identity' = identity /\ signatures' = signatures
    BY DEF SelectRequestToken
  <1>4. call'[c] = r
    BY <1>2, OtherCalls
  <1>5. CallHolds(c)'
    BY <1>1, <1>3, <1>4 DEF CallHolds
  <1> QED BY <1>0, <1>1, <1>2, <1>3, <1>5, RowsUnchanged, OneCall, RowsOnly

LEMMA DeleteRequestTokenInv ==
  ASSUME XLinkInv, NEW c \in Calls, DeleteRequestToken(c)
  PROVE  XLinkInv'
  <1> DEFINE t == call[c].token
             o == [oauth[t] EXCEPT !.row = "gone"]
  <1>0. CallHolds(c) /\ call[c].pc = "spend"
    BY DEF XLinkInv, CallsHold, DeleteRequestToken
  <1>1. t \in DOMAIN oauth
    BY <1>0 DEF CallHolds
  <1>2. oauth[t] \in OauthRow
    BY <1>1, RowOf DEF XLinkInv, XLinkTypeOK
  <1>3. o \in OauthRow /\ o.wallet = oauth[t].wallet /\ o.by = oauth[t].by
    BY <1>2 DEF OauthRow
  <1>4. oauth' = [oauth EXCEPT ![t] = o] /\ Proceeds(c, "exchange")
    BY DEF DeleteRequestToken
  <1>5. pending' = pending /\ identity' = identity /\ signatures' = signatures
    BY DEF DeleteRequestToken
  <1> HIDE DEF o
  <1>6. oauth' \in Seq(OauthRow) /\ RowsKept
    BY <1>1, <1>3, <1>4, <1>5, SessionChanged
  <1>7. PICK r \in CallState : /\ r.pc = "exchange" /\ r.token = t
                               /\ call' = [call EXCEPT ![c] = r] /\ call'[c] = r
    BY <1>4, CallProceeds
  <1>8. t \in DOMAIN oauth'
    BY <1>1, <1>6 DEF RowsKept
  <1>9. CallHolds(c)'
    BY <1>7, <1>8 DEF CallHolds
  <1> QED BY <1>5, <1>6, <1>7, <1>9, OneCall, RowsOnly

LEMMA AccessTokenInv ==
  ASSUME XLinkInv, NEW c \in Calls, AccessToken(c)
  PROVE  XLinkInv'
  <1> DEFINE t == call[c].token
             o == [oauth[t] EXCEPT !.exchanged = TRUE]
  <1>0. CallHolds(c) /\ call[c].pc = "exchange"
    BY DEF XLinkInv, CallsHold, AccessToken
  <1>1. t \in DOMAIN oauth
    BY <1>0 DEF CallHolds
  <1>2. oauth[t] \in OauthRow /\ oauth \in Seq(OauthRow)
    BY <1>1, RowOf DEF XLinkInv, XLinkTypeOK
  <1>3. pending' = pending /\ identity' = identity /\ signatures' = signatures
    BY DEF AccessToken
  <1>4. CASE Replies(c) /\ UNCHANGED oauth
    BY <1>2, <1>3, <1>4, RowsUnchanged, AnsweredCall, RowsOnly
  <1>5. CASE /\ oauth[t].by # NoXAccount
             /\ oauth' = [oauth EXCEPT ![t].exchanged = TRUE] /\ Proceeds(c, "remember")
    <2>1. o \in OauthRow /\ o.wallet = oauth[t].wallet /\ o.by = oauth[t].by
      BY <1>2 DEF OauthRow
    <2>2. oauth' = [oauth EXCEPT ![t] = o]
      BY <1>5
    <2> HIDE DEF o
    <2>3. oauth' \in Seq(OauthRow) /\ RowsKept
      BY <1>1, <1>3, <2>1, <2>2, SessionChanged
    <2>4. PICK r \in CallState : /\ r.pc = "remember" /\ r.token = t
                                 /\ call' = [call EXCEPT ![c] = r] /\ call'[c] = r
      BY <1>5, CallProceeds
    <2>5. t \in DOMAIN oauth' /\ oauth'[t].by # NoXAccount
      BY <1>1, <1>5, <2>3 DEF RowsKept
    <2>6. CallHolds(c)'
      BY <2>4, <2>5 DEF CallHolds
    <2> QED BY <1>3, <2>3, <2>4, <2>6, OneCall, RowsOnly
  <1> QED BY <1>4, <1>5 DEF AccessToken

LEMMA InsertLinkTokenInv ==
  ASSUME XLinkInv, NEW c \in Calls, InsertLinkToken(c)
  PROVE  XLinkInv'
  <1> DEFINE t == call[c].token
             p == [wallet |-> oauth[t].wallet, account |-> oauth[t].by, row |-> "live"]
  <1>0. CallHolds(c) /\ call[c].pc = "remember"
    BY DEF XLinkInv, CallsHold, InsertLinkToken
  <1>1. t \in DOMAIN oauth /\ oauth[t].by # NoXAccount
    BY <1>0 DEF CallHolds
  <1>2. oauth[t] \in OauthRow /\ pending \in Seq(LinkRow)
    BY <1>1, RowOf DEF XLinkInv, XLinkTypeOK
  <1>3. p \in LinkRow /\ p.wallet = oauth[t].wallet /\ p.account = oauth[t].by
    BY <1>2 DEF LinkRow, OauthRow
  <1>4. pending' = Append(pending, p) /\ Replies(c)
    BY DEF InsertLinkToken
  <1>5. oauth' = oauth /\ identity' = identity /\ signatures' = signatures
    BY DEF InsertLinkToken
  <1> HIDE DEF p
  <1>6. /\ pending' \in Seq(LinkRow) /\ DOMAIN pending' = DOMAIN pending \cup {Len(pending) + 1}
        /\ pending'[Len(pending) + 1] = p
        /\ \A m \in DOMAIN pending : pending'[m] = pending[m]
    BY <1>2, <1>3, <1>4, RowInserted
  <1>7. RowsKept
    BY <1>5, <1>6 DEF RowsKept
  <1>8. call' \in [Calls -> CallState] /\ CallsHold'
    BY <1>4, <1>7, AnsweredCall
  <1>9. PendingAuthorised'
    <2> SUFFICES ASSUME NEW n \in DOMAIN pending'
                 PROVE  /\ pending'[n].account # NoXAccount
                        /\ \E s \in DOMAIN oauth' : /\ oauth'[s].wallet = pending'[n].wallet
                                                    /\ oauth'[s].by = pending'[n].account
      BY DEF PendingAuthorised, Authorised
    <2>1. CASE n \in DOMAIN pending
      BY <1>7, <2>1, KeptFacts
    <2>2. CASE n = Len(pending) + 1
      BY <1>1, <1>3, <1>5, <1>6, <2>2
    <2> QED BY <1>6, <2>1, <2>2
  <1>10. LinksConsented'
    BY <1>5, <1>7, KeptFacts
  <1>11. XLinkTypeOK'
    BY <1>5, <1>6, <1>8 DEF XLinkInv, XLinkTypeOK
  <1> QED BY <1>8, <1>9, <1>10, <1>11 DEF XLinkInv

\* The wallet's side: signed, selected, linked and forgotten.
LEMMA SignInv ==
  ASSUME XLinkInv, NEW w \in Holders, NEW n \in DOMAIN pending, Sign(w, n)
  PROVE  XLinkInv'
  <1>1. oauth' = oauth /\ pending' = pending /\ identity' = identity /\ call' = call
        /\ signatures \subseteq signatures'
    BY DEF Sign
  <1>2. RowsKept
    BY <1>1 DEF RowsKept
  <1>3. oauth' \in Seq(OauthRow)
    BY <1>1 DEF XLinkInv, XLinkTypeOK
  <1> QED BY <1>1, <1>2, <1>3, NoCalls, RowsOnly

LEMMA SelectLinkTokenInv ==
  ASSUME XLinkInv, NEW c \in Calls, NEW n \in DOMAIN pending, NEW a \in Holders, NEW s \in signatures,
         SelectLinkToken(c, a, n, s)
  PROVE  XLinkInv'
  <1> DEFINE r == [pc |-> "upsert", token |-> n, address |-> a]
  <1>0. n \in Nat /\ oauth \in Seq(OauthRow)
    BY RowOf DEF XLinkInv, XLinkTypeOK
  <1>1. r \in CallState /\ r.pc = "upsert" /\ r.token = n /\ r.address = a
    BY <1>0 DEF CallState
  <1>2. call' = [call EXCEPT ![c] = r] /\ Refusal(a, n, s) = "none"
    BY DEF SelectLinkToken
  <1>3. oauth' = oauth /\ pending' = pending /\ identity' = identity /\ signatures' = signatures
    BY DEF SelectLinkToken
  <1>4. pending[n].wallet = a /\ << a, n >> \in signatures
    BY <1>2 DEF Refusal
  <1> HIDE DEF r
  <1>5. call'[c] = r
    BY <1>2, OtherCalls
  <1>6. CallHolds(c)'
    BY <1>1, <1>3, <1>4, <1>5 DEF CallHolds
  <1> QED BY <1>0, <1>1, <1>2, <1>3, <1>6, RowsUnchanged, OneCall, RowsOnly

\* The one step that links: the token in hand names the wallet that signed it and an account that was let in.
LEMMA UpsertIdentityInv ==
  ASSUME XLinkInv, NEW c \in Calls, UpsertIdentity(c)
  PROVE  XLinkInv'
  <1> DEFINE w == call[c].address
             n == call[c].token
             u == pending[n].account
  <1>0. CallHolds(c) /\ call[c].pc = "upsert"
    BY DEF XLinkInv, CallsHold, UpsertIdentity
  <1>1. n \in DOMAIN pending /\ w \in Holders /\ << w, n >> \in signatures /\ pending[n].wallet = w
    BY <1>0 DEF CallHolds
  <1>2. pending[n] \in LinkRow /\ oauth \in Seq(OauthRow)
    BY <1>1, RowOf DEF XLinkInv, XLinkTypeOK
  <1>3. u # NoXAccount /\ Authorised(w, u)
    BY <1>1 DEF XLinkInv, PendingAuthorised
  <1>4. oauth' = oauth /\ pending' = pending /\ signatures' = signatures
    BY DEF UpsertIdentity
  <1>5. RowsKept
    BY <1>4, RowsUnchanged
  <1>6. CASE Replies(c) /\ UNCHANGED identity
    BY <1>2, <1>4, <1>5, <1>6, AnsweredCall, RowsOnly
  <1>7. CASE Proceeds(c, "forget") /\ identity' = [identity EXCEPT ![w] = u]
    <2>1. PICK r \in CallState : /\ r.pc = "forget" /\ r.token = n
                                 /\ call' = [call EXCEPT ![c] = r] /\ call'[c] = r
      BY <1>7, CallProceeds
    <2>2. CallHolds(c)'
      BY <1>1, <1>4, <2>1 DEF CallHolds
    <2>3. call' \in [Calls -> CallState] /\ CallsHold'
      BY <1>5, <2>1, <2>2, OneCall
    <2>4. u \in MaybeX /\ identity \in [Holders -> MaybeX]
      BY <1>2 DEF LinkRow, XLinkInv, XLinkTypeOK
    <2>5. /\ identity' \in [Holders -> MaybeX] /\ identity'[w] = u
          /\ \A v \in Holders : v # w => identity'[v] = identity[v]
      BY <1>1, <1>7, <2>4
    <2>6. XLinkTypeOK'
      BY <1>4, <2>3, <2>5 DEF XLinkInv, XLinkTypeOK
    <2>7. PendingAuthorised'
      BY <1>4 DEF XLinkInv, PendingAuthorised, Authorised
    <2>8. LinksConsented'
      <3> SUFFICES ASSUME NEW v \in Holders, identity'[v] # NoXAccount
                   PROVE  /\ \E t \in DOMAIN oauth : oauth[t].wallet = v /\ oauth[t].by = identity'[v]
                          /\ \E m \in DOMAIN pending :
                               << v, m >> \in signatures /\ pending[m].account = identity'[v]
        BY <1>4 DEF LinksConsented
      <3>1. CASE v = w
        BY <1>1, <1>3, <2>5, <3>1 DEF Authorised
      <3>2. CASE v # w
        BY <2>5, <3>2 DEF XLinkInv, LinksConsented
      <3> QED BY <3>1, <3>2
    <2> QED BY <2>3, <2>6, <2>7, <2>8 DEF XLinkInv
  <1>8. IF Taken(w, u) THEN Replies(c) /\ UNCHANGED identity
        ELSE Proceeds(c, "forget") /\ identity' = [identity EXCEPT ![w] = u]
    BY DEF UpsertIdentity
  <1> QED BY <1>6, <1>7, <1>8

LEMMA DeleteLinkTokenInv ==
  ASSUME XLinkInv, NEW c \in Calls, DeleteLinkToken(c)
  PROVE  XLinkInv'
  <1>0. CallHolds(c) /\ call[c].pc = "forget"
    BY DEF XLinkInv, CallsHold, DeleteLinkToken
  <1>1. call[c].token \in DOMAIN pending
    BY <1>0 DEF CallHolds
  <1>2. /\ pending' = [pending EXCEPT ![call[c].token].row = "gone"] /\ Replies(c)
        /\ UNCHANGED << oauth, identity, signatures >>
    BY DEF DeleteLinkToken
  <1>3. RowsKept
    BY <1>1, <1>2, TokenGone
  <1> QED BY <1>1, <1>2, <1>3, AnsweredCall, TokenGoneInv

\* What fails or runs out.
LEMMA BreaksInv ==
  ASSUME XLinkInv, NEW c \in Calls, Breaks(c)
  PROVE  XLinkInv'
  <1>1. /\ Replies(c) /\ oauth' = oauth /\ pending' = pending /\ identity' = identity
        /\ signatures' = signatures
    BY DEF Breaks
  <1>2. oauth' \in Seq(OauthRow)
    BY <1>1 DEF XLinkInv, XLinkTypeOK
  <1> QED BY <1>1, <1>2, RowsUnchanged, AnsweredCall, RowsOnly

LEMMA RunsOutInv ==
  ASSUME XLinkInv, RunsOut
  PROVE  XLinkInv'
  <1>0. identity' = identity /\ call' = call /\ signatures' = signatures
    BY DEF RunsOut
  <1>1. CASE \E t \in DOMAIN oauth : oauth' = [oauth EXCEPT ![t].row = "gone"] /\ UNCHANGED pending
    <2>1. PICK t \in DOMAIN oauth : oauth' = [oauth EXCEPT ![t].row = "gone"] /\ pending' = pending
      BY <1>1
    <2> DEFINE o == [oauth[t] EXCEPT !.row = "gone"]
    <2>2. oauth[t] \in OauthRow
      BY RowOf DEF XLinkInv, XLinkTypeOK
    <2>3. o \in OauthRow /\ o.wallet = oauth[t].wallet /\ o.by = oauth[t].by
      BY <2>2 DEF OauthRow
    <2>4. oauth' = [oauth EXCEPT ![t] = o]
      BY <2>1
    <2> HIDE DEF o
    <2>5. oauth' \in Seq(OauthRow) /\ RowsKept
      BY <1>0, <2>1, <2>3, <2>4, SessionChanged
    <2> QED BY <1>0, <2>1, <2>5, NoCalls, RowsOnly
  <1>2. CASE \E n \in DOMAIN pending : pending' = [pending EXCEPT ![n].row = "gone"] /\ UNCHANGED oauth
    <2>1. PICK n \in DOMAIN pending : pending' = [pending EXCEPT ![n].row = "gone"] /\ oauth' = oauth
      BY <1>2
    <2>2. RowsKept
      BY <1>0, <2>1, TokenGone
    <2>3. call' \in [Calls -> CallState] /\ CallsHold'
      BY <1>0, <2>2, NoCalls
    <2> QED BY <1>0, <2>1, <2>3, TokenGoneInv
  <1> QED BY <1>1, <1>2 DEF RunsOut

LEMMA XLinkNextInv == XLinkInv /\ [XLinkNext]_linkVars => XLinkInv'
  <1> SUFFICES ASSUME XLinkInv, [XLinkNext]_linkVars PROVE XLinkInv'
    OBVIOUS
  <1>1. ASSUME NEW c \in Calls, Callback(c) PROVE XLinkInv'
    BY <1>1, SelectRequestTokenInv, DeleteRequestTokenInv, AccessTokenInv, InsertLinkTokenInv
    DEF Callback
  <1>2. ASSUME NEW c \in Calls, Finalize(c) PROVE XLinkInv'
    BY <1>2, SelectLinkTokenInv, UpsertIdentityInv, DeleteLinkTokenInv DEF Finalize
  <1>3. CASE UNCHANGED linkVars
    <2>1. oauth' = oauth /\ pending' = pending /\ identity' = identity /\ call' = call
          /\ signatures' = signatures
      BY <1>3 DEF linkVars
    <2>2. oauth' \in Seq(OauthRow)
      BY <2>1 DEF XLinkInv, XLinkTypeOK
    <2> QED BY <2>1, <2>2, RowsUnchanged, NoCalls, RowsOnly
  <1> QED
    BY <1>1, <1>2, <1>3, StartInv, SignInv, AuthorizeInv, BreaksInv, RunsOutInv DEF XLinkNext

\* Whatever sessions are started, mixed up or repeated, and whatever fails between two queries, a wallet is
\* linked only to an account whose holder authorised a session of that wallet, and only if the wallet
\* signed the message that names the account (agent-api/server.ts, /auth/x/callback and /auth/x/finalize).
THEOREM LinksAlwaysConsented == XLinkSpec => []LinksConsented
  <1>1. XLinkInv => LinksConsented
    BY DEF XLinkInv
  <1> QED BY <1>1, XLinkInitInv, XLinkNextInv, PTL DEF XLinkSpec

-----------------------------------------------------------------------------
(***************************************************************************)
(* ToolSession: what is queued, with what may still arrive under a key     *)
(* that is not known, is covered by the reservations of the session, and   *)
(* these by its ceiling. A key that gets its action takes every request    *)
(* that still carries it out of the account.                               *)
(***************************************************************************)

ToolCall  == [pc : {"none", "estimate", "submitted", "poll", "done"}, key : IdemKeys, cost : Nat,
              wait : BOOLEAN]
QueuedRow == [status : {"none", "queued", "succeeded", "failed"}, cost : Nat]

SessionTypeOK ==
  /\ tool \in [ToolCalls -> ToolCall]
  /\ queued \in [IdemKeys -> QueuedRow]
  /\ arriving \subseteq ToolCalls
  /\ reserved \in Nat /\ failedTx \in Nat

QueuedCosts == [k \in IdemKeys |-> queued[k].cost]
CallCosts   == [c \in ToolCalls |-> tool[c].cost]
Expected    == {c \in arriving : queued[tool[c].key].status = "none"}
OfQueued    == SumFunctionOnSet(QueuedCosts, IdemKeys)
OfExpected  == SumFunctionOnSet(CallCosts, Expected)

\* Only calls with an estimate arrive, and a key without an action costs nothing.
ArriveEstimated == \A c \in arriving : tool[c].pc \notin {"none", "estimate"}
UnknownCostsNothing == \A k \in IdemKeys : queued[k].status = "none" => queued[k].cost = 0
ReservationsCover ==
  OfQueued \in Nat /\ OfExpected \in Nat /\ OfQueued + OfExpected <= reserved /\ reserved <= SpendCeiling

SessionInv == SessionTypeOK /\ ArriveEstimated /\ UnknownCostsNothing /\ ReservationsCover

CostsAreNumbers ==
  /\ \A k \in IdemKeys : QueuedCosts[k] = queued[k].cost /\ QueuedCosts[k] \in Nat
  /\ \A c \in ToolCalls : CallCosts[c] = tool[c].cost /\ CallCosts[c] \in Nat
  /\ Expected \subseteq ToolCalls /\ IsFiniteSet(Expected)
  /\ OfQueued \in Nat /\ OfExpected \in Nat

LEMMA CostsTyped == SessionTypeOK => CostsAreNumbers
  <1> SUFFICES ASSUME SessionTypeOK PROVE CostsAreNumbers
    OBVIOUS
  <1>1. \A k \in IdemKeys : QueuedCosts[k] = queued[k].cost /\ QueuedCosts[k] \in Nat
    <2> SUFFICES ASSUME NEW k \in IdemKeys PROVE QueuedCosts[k] = queued[k].cost /\ QueuedCosts[k] \in Nat
      OBVIOUS
    <2>1. queued[k] \in QueuedRow
      BY DEF SessionTypeOK
    <2> QED BY <2>1 DEF QueuedCosts, QueuedRow
  <1>2. \A c \in ToolCalls : CallCosts[c] = tool[c].cost /\ CallCosts[c] \in Nat
    <2> SUFFICES ASSUME NEW c \in ToolCalls PROVE CallCosts[c] = tool[c].cost /\ CallCosts[c] \in Nat
      OBVIOUS
    <2>1. tool[c] \in ToolCall
      BY DEF SessionTypeOK
    <2> QED BY <2>1 DEF CallCosts, ToolCall
  <1>3. Expected \subseteq ToolCalls
    BY DEF Expected, SessionTypeOK
  <1>4. IsFiniteSet(Expected)
    BY <1>3, ToolSessionAssumption, FS_Subset
  <1>5. OfQueued \in Nat
    BY <1>1, ToolSessionAssumption, SumNat DEF OfQueued
  <1>6. OfExpected \in Nat
    BY <1>2, <1>3, <1>4, SumNat DEF OfExpected
  <1> QED BY <1>1, <1>2, <1>3, <1>4, <1>5, <1>6 DEF CostsAreNumbers

LEMMA CostsTypedNext == SessionTypeOK' => CostsAreNumbers'
  BY CostsTyped, PTL

LEMMA SessionInitInv == SessionInit => SessionInv
  <1> SUFFICES ASSUME SessionInit PROVE SessionInv
    OBVIOUS
  <1>1. SessionTypeOK
    BY ToolSessionAssumption DEF SessionInit, SessionTypeOK, ToolCall, QueuedRow
  <1>2. ArriveEstimated /\ UnknownCostsNothing /\ Expected = {} /\ reserved = 0
    BY DEF SessionInit, ArriveEstimated, UnknownCostsNothing, Expected
  <1>3. OfExpected = 0
    BY <1>2, SumEmpty DEF OfExpected
  <1>4. OfQueued = 0
    <2>1. \A k \in IdemKeys : QueuedCosts[k] = 0
      BY DEF SessionInit, QueuedCosts
    <2>2. OfQueued = Cardinality(IdemKeys) * 0
      BY <2>1, ToolSessionAssumption, SumConstant DEF OfQueued
    <2> QED BY <2>2, ToolSessionAssumption, FS_CardinalityType
  <1>5. ReservationsCover
    BY <1>2, <1>3, <1>4, ToolSessionAssumption DEF ReservationsCover
  <1> QED BY <1>1, <1>2, <1>5 DEF SessionInv

\* The three ways in which a step leaves the account covered. The costs on the way stay and none is added:
LEMMA NothingMore ==
  ASSUME SessionInv, SessionTypeOK', ArriveEstimated', UnknownCostsNothing',
         \A k \in IdemKeys : queued'[k].cost = queued[k].cost,
         \A c \in Expected : tool'[c].cost = tool[c].cost,
         Expected' \subseteq Expected, reserved' = reserved
  PROVE  SessionInv'
  <1>0. SessionTypeOK
    BY DEF SessionInv
  <1>1. /\ \A k \in IdemKeys : QueuedCosts[k] = queued[k].cost /\ QueuedCosts[k] \in Nat
        /\ \A c \in ToolCalls : CallCosts[c] = tool[c].cost /\ CallCosts[c] \in Nat
        /\ Expected \subseteq ToolCalls /\ IsFiniteSet(Expected)
        /\ OfQueued \in Nat /\ OfExpected \in Nat
    BY <1>0, CostsTyped DEF CostsAreNumbers
  <1>2. /\ \A k \in IdemKeys : QueuedCosts'[k] = queued'[k].cost /\ QueuedCosts'[k] \in Nat
        /\ \A c \in ToolCalls : CallCosts'[c] = tool'[c].cost /\ CallCosts'[c] \in Nat
        /\ OfQueued' \in Nat /\ OfExpected' \in Nat
    BY CostsTypedNext DEF CostsAreNumbers
  <1>3. OfQueued' = OfQueued
    <2>1. \A k \in IdemKeys : QueuedCosts[k] \in Nat /\ QueuedCosts'[k] = QueuedCosts[k]
      BY <1>1, <1>2
    <2> QED BY <2>1, ToolSessionAssumption, SumAgree DEF OfQueued
  <1>4. OfExpected' <= OfExpected
    <2>1. \A c \in Expected : CallCosts[c] \in Nat /\ CallCosts'[c] = CallCosts[c]
      BY <1>1, <1>2
    <2>2. SumFunctionOnSet(CallCosts', Expected) = SumFunctionOnSet(CallCosts, Expected)
      BY <1>1, <2>1, SumAgree
    <2>3. \A c \in Expected : CallCosts'[c] \in Nat
      BY <1>1, <1>2
    <2>4. SumFunctionOnSet(CallCosts', Expected') <= SumFunctionOnSet(CallCosts', Expected)
      BY <1>1, <2>3, SumSubset
    <2> QED BY <2>2, <2>4 DEF OfExpected
  <1>5. OfQueued + OfExpected <= reserved /\ reserved \in Nat /\ reserved <= SpendCeiling
    BY DEF SessionInv, ReservationsCover, SessionTypeOK
  <1>6. /\ OfQueued \in Nat /\ OfExpected \in Nat /\ OfQueued' \in Nat /\ OfExpected' \in Nat
        /\ SpendCeiling \in Nat
    BY <1>1, <1>2, ToolSessionAssumption
  <1>7. OfQueued' + OfExpected' <= reserved
    BY <1>3, <1>4, <1>5, <1>6
  <1>8. ReservationsCover'
    BY <1>5, <1>6, <1>7 DEF ReservationsCover
  <1> QED BY <1>8 DEF SessionInv

\* ... a call starts on its way with what it costs reserved:
LEMMA OneMore ==
  ASSUME SessionInv, SessionTypeOK', ArriveEstimated', UnknownCostsNothing',
         NEW c \in ToolCalls, c \notin arriving, queued' = queued,
         \A d \in Expected : tool'[d].cost = tool[d].cost,
         Expected' \subseteq Expected \cup {c},
         reserved' = reserved + tool'[c].cost, reserved' <= SpendCeiling
  PROVE  SessionInv'
  <1>0. SessionTypeOK
    BY DEF SessionInv
  <1>1. /\ \A d \in ToolCalls : CallCosts[d] = tool[d].cost /\ CallCosts[d] \in Nat
        /\ Expected \subseteq ToolCalls /\ IsFiniteSet(Expected)
        /\ OfQueued \in Nat /\ OfExpected \in Nat
    BY <1>0, CostsTyped DEF CostsAreNumbers
  <1>2. /\ \A d \in ToolCalls : CallCosts'[d] = tool'[d].cost /\ CallCosts'[d] \in Nat
        /\ OfQueued' \in Nat /\ OfExpected' \in Nat
    BY CostsTypedNext DEF CostsAreNumbers
  <1>3. OfQueued' = OfQueued
    BY DEF OfQueued, QueuedCosts
  <1>4. OfExpected' <= OfExpected + CallCosts'[c]
    <2>1. \A d \in Expected : CallCosts[d] \in Nat /\ CallCosts'[d] = CallCosts[d]
      BY <1>1, <1>2
    <2>2. SumFunctionOnSet(CallCosts', Expected) = SumFunctionOnSet(CallCosts, Expected)
      BY <1>1, <2>1, SumAgree
    <2>3. c \notin Expected /\ \A d \in Expected \cup {c} : CallCosts'[d] \in Nat
      BY <1>1, <1>2 DEF Expected
    <2>4. /\ IsFiniteSet(Expected \cup {c})
          /\ SumFunctionOnSet(CallCosts', Expected \cup {c})
               = SumFunctionOnSet(CallCosts', Expected) + CallCosts'[c]
      BY <1>1, <2>3, SumAddElement
    <2>5. SumFunctionOnSet(CallCosts', Expected') <= SumFunctionOnSet(CallCosts', Expected \cup {c})
      BY <2>3, <2>4, SumSubset
    <2> QED BY <2>2, <2>4, <2>5 DEF OfExpected
  <1>5. OfQueued + OfExpected <= reserved /\ reserved \in Nat /\ reserved' \in Nat
    BY DEF SessionInv, ReservationsCover, SessionTypeOK
  <1>6. CallCosts'[c] \in Nat /\ reserved' = reserved + CallCosts'[c]
    BY <1>2
  <1>7. ReservationsCover'
    BY <1>1, <1>2, <1>3, <1>4, <1>5, <1>6, ToolSessionAssumption DEF ReservationsCover
  <1> QED BY <1>7 DEF SessionInv

\* ... and the first call of a key moves from what may arrive to what is queued.
LEMMA FirstOfKey ==
  ASSUME SessionInv, SessionTypeOK', ArriveEstimated', UnknownCostsNothing',
         NEW c \in Expected, NEW k \in IdemKeys, queued[k].cost = 0, queued'[k].cost = tool[c].cost,
         \A l \in IdemKeys \ {k} : queued'[l] = queued[l],
         \A d \in Expected : tool'[d].cost = tool[d].cost,
         Expected' \subseteq Expected \ {c}, reserved' = reserved
  PROVE  SessionInv'
  <1>0. SessionTypeOK
    BY DEF SessionInv
  <1>1. /\ \A l \in IdemKeys : QueuedCosts[l] = queued[l].cost /\ QueuedCosts[l] \in Nat
        /\ \A d \in ToolCalls : CallCosts[d] = tool[d].cost /\ CallCosts[d] \in Nat
        /\ Expected \subseteq ToolCalls /\ IsFiniteSet(Expected)
        /\ OfQueued \in Nat /\ OfExpected \in Nat
    BY <1>0, CostsTyped DEF CostsAreNumbers
  <1>2. /\ \A l \in IdemKeys : QueuedCosts'[l] = queued'[l].cost /\ QueuedCosts'[l] \in Nat
        /\ \A d \in ToolCalls : CallCosts'[d] = tool'[d].cost /\ CallCosts'[d] \in Nat
        /\ OfQueued' \in Nat /\ OfExpected' \in Nat
    BY CostsTypedNext DEF CostsAreNumbers
  <1>3. OfQueued' = OfQueued + CallCosts[c]
    <2>1. \A l \in IdemKeys : QueuedCosts[l] \in Nat /\ QueuedCosts'[l] \in Nat
      BY <1>1, <1>2
    <2>2. \A l \in IdemKeys \ {k} : QueuedCosts'[l] = QueuedCosts[l]
      BY <1>1, <1>2
    <2>0. IsFiniteSet(IdemKeys)
      BY ToolSessionAssumption
    <2>5. SumFunctionOnSet(QueuedCosts', IdemKeys)
            = SumFunctionOnSet(QueuedCosts, IdemKeys) - QueuedCosts[k] + QueuedCosts'[k]
      BY <2>0, <2>1, <2>2, SumChange
    <2>3. OfQueued' = OfQueued - QueuedCosts[k] + QueuedCosts'[k]
      BY <2>5 DEF OfQueued
    <2>4. QueuedCosts[k] = 0 /\ QueuedCosts'[k] = CallCosts[c]
      BY <1>1, <1>2
    <2> QED BY <1>1, <2>3, <2>4
  <1>4. OfExpected' <= OfExpected - CallCosts[c]
    <2>1. \A d \in Expected \ {c} : CallCosts[d] \in Nat /\ CallCosts'[d] = CallCosts[d]
      BY <1>1, <1>2
    <2>2. /\ IsFiniteSet(Expected \ {c}) /\ SumFunctionOnSet(CallCosts, Expected \ {c}) \in Nat
          /\ SumFunctionOnSet(CallCosts, Expected)
               = CallCosts[c] + SumFunctionOnSet(CallCosts, Expected \ {c})
      BY <1>1, SumStep
    <2>3. SumFunctionOnSet(CallCosts', Expected \ {c}) = SumFunctionOnSet(CallCosts, Expected \ {c})
      BY <2>1, <2>2, SumAgree
    <2>4. \A d \in Expected \ {c} : CallCosts'[d] \in Nat
      BY <1>1, <1>2
    <2>5. SumFunctionOnSet(CallCosts', Expected') <= SumFunctionOnSet(CallCosts', Expected \ {c})
      BY <2>2, <2>4, SumSubset
    <2>6. CallCosts[c] \in Nat
      BY <1>1
    <2> QED BY <2>2, <2>3, <2>5, <2>6 DEF OfExpected
  <1>5. OfQueued + OfExpected <= reserved /\ reserved \in Nat /\ reserved <= SpendCeiling
    BY DEF SessionInv, ReservationsCover, SessionTypeOK
  <1>6. CallCosts[c] \in Nat
    BY <1>1
  <1>7. ReservationsCover'
    BY <1>1, <1>2, <1>3, <1>4, <1>5, <1>6, ToolSessionAssumption DEF ReservationsCover
  <1> QED BY <1>7 DEF SessionInv

\* A call goes on with its key and its cost.
LEMMA ToolGoesOn ==
  ASSUME SessionTypeOK, NEW c \in ToolCalls, NEW pc \in {"none", "estimate", "submitted", "poll", "done"},
         GoesOn(c, pc)
  PROVE  /\ tool' \in [ToolCalls -> ToolCall] /\ tool'[c].pc = pc
         /\ \A d \in ToolCalls : tool'[d].key = tool[d].key /\ tool'[d].cost = tool[d].cost
         /\ \A d \in ToolCalls : d # c => tool'[d] = tool[d]
  <1> DEFINE r == [tool[c] EXCEPT !.pc = pc]
  <1>1. tool[c] \in ToolCall /\ tool \in [ToolCalls -> ToolCall]
    BY DEF SessionTypeOK
  <1>2. r \in ToolCall /\ r.pc = pc /\ r.key = tool[c].key /\ r.cost = tool[c].cost
    BY <1>1 DEF ToolCall
  <1>3. tool' = [tool EXCEPT ![c] = r]
    BY DEF GoesOn
  <1> HIDE DEF r
  <1> QED BY <1>1, <1>2, <1>3

LEMMA CallToolInv ==
  ASSUME SessionInv, NEW c \in ToolCalls, NEW k \in IdemKeys, NEW wait \in BOOLEAN, CallTool(c, k, wait)
  PROVE  SessionInv'
  <1> DEFINE r == [pc |-> IF GuardOpen THEN "estimate" ELSE "done", key |-> k, cost |-> 0, wait |-> wait]
  <1>1. SessionTypeOK /\ ArriveEstimated /\ UnknownCostsNothing
    BY DEF SessionInv
  <1>2. r \in ToolCall
    BY DEF ToolCall
  <1>3. /\ tool[c].pc = "none" /\ tool' = [tool EXCEPT ![c] = r]
        /\ arriving' = arriving /\ queued' = queued /\ reserved' = reserved /\ failedTx' = failedTx
    BY DEF CallTool
  <1> HIDE DEF r
  <1>4. tool' \in [ToolCalls -> ToolCall] /\ \A d \in ToolCalls : d # c => tool'[d] = tool[d]
    BY <1>1, <1>2, <1>3 DEF SessionTypeOK
  <1>5. c \notin arriving
    BY <1>1, <1>3 DEF ArriveEstimated
  <1>6. SessionTypeOK'
    BY <1>1, <1>3, <1>4 DEF SessionTypeOK
  <1>7. \A d \in arriving : d \in ToolCalls /\ tool'[d] = tool[d]
    BY <1>1, <1>4, <1>5 DEF SessionTypeOK
  <1>8. ArriveEstimated' /\ UnknownCostsNothing'
    BY <1>1, <1>3, <1>7 DEF ArriveEstimated, UnknownCostsNothing
  <1>9. Expected' = Expected /\ \A d \in Expected : tool'[d].cost = tool[d].cost
    BY <1>3, <1>7 DEF Expected
  <1> QED BY <1>3, <1>6, <1>8, <1>9, NothingMore

LEMMA EstimatedInv ==
  ASSUME SessionInv, NEW c \in ToolCalls, NEW cost \in Costs, Estimated(c, cost)
  PROVE  SessionInv'
  <1>1. SessionTypeOK /\ ArriveEstimated /\ UnknownCostsNothing
    BY DEF SessionInv
  <1>2. tool[c].pc = "estimate" /\ queued' = queued /\ failedTx' = failedTx
    BY DEF Estimated
  <1>3. c \notin arriving
    BY <1>1, <1>2 DEF ArriveEstimated
  <1>4. CASE AnswersTool(c) /\ arriving' = arriving /\ reserved' = reserved
    <2>1. /\ tool' \in [ToolCalls -> ToolCall] /\ tool'[c].pc = "done"
          /\ \A d \in ToolCalls : tool'[d].key = tool[d].key /\ tool'[d].cost = tool[d].cost
          /\ \A d \in ToolCalls : d # c => tool'[d] = tool[d]
      BY <1>1, <1>4, ToolGoesOn DEF AnswersTool
    <2>2. \A d \in arriving : d \in ToolCalls /\ tool'[d] = tool[d]
      BY <1>1, <1>3, <2>1 DEF SessionTypeOK
    <2>3. SessionTypeOK'
      BY <1>1, <1>2, <1>4, <2>1 DEF SessionTypeOK
    <2>4. ArriveEstimated' /\ UnknownCostsNothing'
      BY <1>1, <1>2, <1>4, <2>2 DEF ArriveEstimated, UnknownCostsNothing
    <2>5. Expected' = Expected /\ \A d \in Expected : tool'[d].cost = tool[d].cost
      BY <1>2, <1>4, <2>2 DEF Expected
    <2> QED BY <1>2, <1>4, <2>3, <2>4, <2>5, NothingMore
  <1>5. CASE /\ reserved + cost <= SpendCeiling /\ reserved' = reserved + cost
             /\ arriving' = arriving \cup {c}
             /\ tool' = [tool EXCEPT ![c].pc = "submitted", ![c].cost = cost]
    <2> DEFINE r == [tool[c] EXCEPT !.pc = "submitted", !.cost = cost]
    <2>1. tool[c] \in ToolCall /\ tool \in [ToolCalls -> ToolCall] /\ cost \in Nat /\ reserved \in Nat
      BY <1>1, ToolSessionAssumption DEF SessionTypeOK
    <2>2. r \in ToolCall /\ r.pc = "submitted" /\ r.cost = cost
      BY <2>1 DEF ToolCall
    <2>3. tool' = [tool EXCEPT ![c] = r]
      BY <1>5
    <2> HIDE DEF r
    <2>4. tool' \in [ToolCalls -> ToolCall] /\ tool'[c] = r /\ \A d \in ToolCalls : d # c => tool'[d] = tool[d]
      BY <2>1, <2>2, <2>3
    <2>5. \A d \in arriving : d \in ToolCalls /\ tool'[d] = tool[d]
      BY <1>1, <1>3, <2>4 DEF SessionTypeOK
    <2>6. reserved' \in Nat
      BY <1>5, <2>1
    <2>7. SessionTypeOK'
      BY <1>1, <1>2, <1>5, <2>4, <2>6 DEF SessionTypeOK
    <2>8. ArriveEstimated' /\ UnknownCostsNothing'
      BY <1>1, <1>2, <1>5, <2>2, <2>4, <2>5 DEF ArriveEstimated, UnknownCostsNothing
    <2>9. Expected' \subseteq Expected \cup {c} /\ \A d \in Expected : tool'[d].cost = tool[d].cost
      BY <1>2, <1>5, <2>5 DEF Expected
    <2>10. reserved' = reserved + tool'[c].cost /\ reserved' <= SpendCeiling
      BY <1>5, <2>2, <2>4
    <2> QED BY <1>2, <1>3, <2>7, <2>8, <2>9, <2>10, OneMore
  <1>6. \/ reserved + cost > SpendCeiling /\ AnswersTool(c) /\ arriving' = arriving /\ reserved' = reserved
        \/ /\ ~(reserved + cost > SpendCeiling) /\ reserved' = reserved + cost
           /\ arriving' = arriving \cup {c}
           /\ tool' = [tool EXCEPT ![c].pc = "submitted", ![c].cost = cost]
    BY DEF Estimated
  <1>7. reserved + cost \in Nat /\ SpendCeiling \in Nat
    BY <1>1, ToolSessionAssumption DEF SessionTypeOK
  <1>8. ~(reserved + cost > SpendCeiling) => reserved + cost <= SpendCeiling
    BY <1>7
  <1> QED BY <1>4, <1>5, <1>6, <1>8

\* A call that goes on without adding to what is on its way.
LEMMA ToolMoves ==
  ASSUME SessionInv, NEW c \in ToolCalls, NEW pc \in {"poll", "done"}, GoesOn(c, pc),
         arriving' \subseteq arriving, queued' = queued, reserved' = reserved, failedTx' \in Nat
  PROVE  SessionInv'
  <1>1. SessionTypeOK /\ ArriveEstimated /\ UnknownCostsNothing
    BY DEF SessionInv
  <1>2. /\ tool' \in [ToolCalls -> ToolCall] /\ tool'[c].pc = pc
        /\ \A d \in ToolCalls : tool'[d].key = tool[d].key /\ tool'[d].cost = tool[d].cost
        /\ \A d \in ToolCalls : d # c => tool'[d] = tool[d]
    BY <1>1, ToolGoesOn
  <1>3. SessionTypeOK'
    BY <1>1, <1>2 DEF SessionTypeOK
  <1>4. \A d \in arriving' : d \in arriving /\ d \in ToolCalls
    BY <1>1 DEF SessionTypeOK
  <1>5. ArriveEstimated'
    <2> SUFFICES ASSUME NEW d \in arriving' PROVE tool'[d].pc \notin {"none", "estimate"}
      BY DEF ArriveEstimated
    <2>1. CASE d = c
      BY <1>2, <2>1
    <2>2. CASE d # c
      BY <1>1, <1>2, <1>4, <2>2 DEF ArriveEstimated
    <2> QED BY <2>1, <2>2
  <1>6. UnknownCostsNothing'
    BY <1>1 DEF UnknownCostsNothing
  <1>7. Expected' \subseteq Expected
    BY <1>2, <1>4 DEF Expected
  <1>8. \A d \in Expected : tool'[d].cost = tool[d].cost
    BY <1>1, <1>2 DEF Expected, SessionTypeOK
  <1> QED BY <1>3, <1>5, <1>6, <1>7, <1>8, NothingMore

\* A request that is not answered any more is refused, or was given up.
LEMMA ArrivalDropped ==
  ASSUME SessionInv, arriving' \subseteq arriving, UNCHANGED << tool, queued, reserved, failedTx >>
  PROVE  SessionInv'
  <1>1. SessionTypeOK /\ ArriveEstimated /\ UnknownCostsNothing
    BY DEF SessionInv
  <1>2. tool' = tool /\ queued' = queued /\ reserved' = reserved /\ failedTx' = failedTx
    OBVIOUS
  <1>3. SessionTypeOK' /\ ArriveEstimated' /\ UnknownCostsNothing'
    BY <1>1, <1>2 DEF SessionTypeOK, ArriveEstimated, UnknownCostsNothing
  <1>4. Expected' \subseteq Expected
    BY <1>2 DEF Expected
  <1> QED BY <1>2, <1>3, <1>4, NothingMore

LEMMA HandleSubmissionInv ==
  ASSUME SessionInv, NEW c \in ToolCalls, HandleSubmission(c)
  PROVE  SessionInv'
  <1> DEFINE k == tool[c].key
  <1>1. SessionTypeOK /\ ArriveEstimated /\ UnknownCostsNothing
    BY DEF SessionInv
  <1>2. /\ c \in arriving /\ arriving' = arriving \ {c} /\ queued' = Enqueued(c)
        /\ reserved' = reserved /\ failedTx' = failedTx
    BY DEF HandleSubmission
  <1>3. \/ tool' = tool
        \/ \E pc \in {"poll", "done"} : GoesOn(c, pc)
    BY DEF HandleSubmission
  <1>4. tool[c] \in ToolCall /\ tool \in [ToolCalls -> ToolCall] /\ queued \in [IdemKeys -> QueuedRow]
    BY <1>1 DEF SessionTypeOK
  <1>5. k \in IdemKeys /\ tool[c].cost \in Nat
    BY <1>4 DEF ToolCall
  <1>6. CASE queued' = queued
    <2>1. CASE tool' = tool
      BY <1>2, <1>6, <2>1, ArrivalDropped
    <2>2. CASE \E pc \in {"poll", "done"} : GoesOn(c, pc)
      <3>1. failedTx' \in Nat /\ arriving' \subseteq arriving
        BY <1>1, <1>2 DEF SessionTypeOK
      <3> QED BY <1>2, <1>6, <2>2, <3>1, ToolMoves
    <2> QED BY <1>3, <2>1, <2>2
  <1>7. CASE /\ queued[k].status = "none"
             /\ queued' = [queued EXCEPT ![k] = [status |-> "queued", cost |-> tool[c].cost]]
    <2> DEFINE row == [status |-> "queued", cost |-> tool[c].cost]
    <2>1. row \in QueuedRow /\ row.cost = tool[c].cost /\ row.status = "queued"
      BY <1>5 DEF QueuedRow
    <2>2. queued' = [queued EXCEPT ![k] = row]
      BY <1>7
    <2> HIDE DEF row
    <2>3. /\ queued' \in [IdemKeys -> QueuedRow] /\ queued'[k] = row
          /\ \A l \in IdemKeys \ {k} : queued'[l] = queued[l]
      BY <1>4, <1>5, <2>1, <2>2
    <2>4. /\ tool' \in [ToolCalls -> ToolCall]
          /\ \A d \in ToolCalls : tool'[d].key = tool[d].key /\ tool'[d].cost = tool[d].cost
          /\ \A d \in ToolCalls : d # c => tool'[d] = tool[d]
      <3>1. CASE tool' = tool
        BY <1>4, <3>1
      <3>2. CASE \E pc \in {"poll", "done"} : GoesOn(c, pc)
        BY <1>1, <3>2, ToolGoesOn
      <3> QED BY <1>3, <3>1, <3>2
    <2>5. SessionTypeOK'
      BY <1>1, <1>2, <2>3, <2>4 DEF SessionTypeOK
    <2>6. \A d \in arriving' : d \in arriving /\ d # c /\ d \in ToolCalls /\ tool'[d] = tool[d]
      BY <1>1, <1>2, <2>4 DEF SessionTypeOK
    <2>7. ArriveEstimated'
      BY <1>1, <2>6 DEF ArriveEstimated
    <2>8. UnknownCostsNothing'
      <3> SUFFICES ASSUME NEW l \in IdemKeys, queued'[l].status = "none" PROVE queued'[l].cost = 0
        BY DEF UnknownCostsNothing
      <3>1. l # k
        BY <2>1, <2>3
      <3> QED BY <1>1, <2>3, <3>1 DEF UnknownCostsNothing
    <2>9. c \in Expected /\ queued[k].cost = 0 /\ queued'[k].cost = tool[c].cost
      BY <1>1, <1>2, <1>5, <1>7, <2>1, <2>3 DEF Expected, UnknownCostsNothing
    <2>10. Expected' \subseteq Expected \ {c}
      <3> SUFFICES ASSUME NEW d \in Expected' PROVE d \in Expected /\ d # c
        OBVIOUS
      <3>1. d \in arriving' /\ queued'[tool'[d].key].status = "none"
        BY DEF Expected
      <3>2. d \in arriving /\ d # c /\ tool'[d] = tool[d] /\ tool[d] \in ToolCall
        BY <1>4, <2>6, <3>1
      <3>3. tool[d].key \in IdemKeys
        BY <3>2 DEF ToolCall
      <3>4. tool[d].key # k
        BY <2>1, <2>3, <3>1, <3>2
      <3>5. queued[tool[d].key].status = "none"
        BY <2>3, <3>1, <3>2, <3>3, <3>4
      <3> QED BY <3>2, <3>5 DEF Expected
    <2>11. \A d \in Expected : tool'[d].cost = tool[d].cost
      BY <1>1, <2>4 DEF Expected, SessionTypeOK
    <2> HIDE DEF k
    <2> QED BY <1>2, <1>5, <2>3, <2>5, <2>7, <2>8, <2>9, <2>10, <2>11, FirstOfKey
  <1> QED BY <1>2, <1>6, <1>7 DEF Enqueued

LEMMA EndActionInv ==
  ASSUME SessionInv, NEW k \in IdemKeys, EndAction(k)
  PROVE  SessionInv'
  <1>1. SessionTypeOK /\ ArriveEstimated /\ UnknownCostsNothing
    BY DEF SessionInv
  <1>2. PICK s \in {"succeeded", "failed"} : queued' = [queued EXCEPT ![k].status = s]
    BY DEF EndAction
  <1>3. /\ queued[k].status = "queued" /\ tool' = tool /\ arriving' = arriving
        /\ reserved' = reserved /\ failedTx' = failedTx
    BY DEF EndAction
  <1> DEFINE row == [queued[k] EXCEPT !.status = s]
  <1>4. queued[k] \in QueuedRow /\ queued \in [IdemKeys -> QueuedRow]
    BY <1>1 DEF SessionTypeOK
  <1>5. row \in QueuedRow /\ row.cost = queued[k].cost /\ row.status = s
    BY <1>4 DEF QueuedRow
  <1>6. queued' = [queued EXCEPT ![k] = row]
    BY <1>2
  <1> HIDE DEF row
  <1>7. /\ queued' \in [IdemKeys -> QueuedRow] /\ queued'[k] = row
        /\ \A l \in IdemKeys : l # k => queued'[l] = queued[l]
    BY <1>4, <1>5, <1>6
  <1>8. \A l \in IdemKeys : /\ queued'[l].cost = queued[l].cost
                            /\ queued'[l].status = "none" => queued[l].status = "none"
    BY <1>5, <1>7
  <1>9. SessionTypeOK'
    BY <1>1, <1>3, <1>7 DEF SessionTypeOK
  <1>10. ArriveEstimated' /\ UnknownCostsNothing'
    BY <1>1, <1>3, <1>8 DEF ArriveEstimated, UnknownCostsNothing
  <1>11. Expected' \subseteq Expected
    <2> SUFFICES ASSUME NEW c \in Expected' PROVE c \in Expected
      OBVIOUS
    <2>1. c \in arriving /\ queued'[tool[c].key].status = "none"
      BY <1>3 DEF Expected
    <2>2. tool[c] \in ToolCall
      BY <1>1, <2>1 DEF SessionTypeOK
    <2>3. tool[c].key \in IdemKeys
      BY <2>2 DEF ToolCall
    <2> QED BY <1>8, <2>1, <2>3 DEF Expected
  <1> QED BY <1>3, <1>8, <1>9, <1>10, <1>11, NothingMore

LEMMA SessionNextInv == SessionInv /\ [SessionNext]_sessionVars => SessionInv'
  <1> SUFFICES ASSUME SessionInv, [SessionNext]_sessionVars PROVE SessionInv'
    OBVIOUS
  <1>0. failedTx \in Nat
    BY DEF SessionInv, SessionTypeOK
  <1>1. ASSUME NEW c \in ToolCalls, EstimateFails(c) PROVE SessionInv'
    BY <1>0, <1>1, ToolMoves DEF EstimateFails, AnswersTool
  <1>2. ASSUME NEW c \in ToolCalls, SubmitFails(c) PROVE SessionInv'
    BY <1>0, <1>2, ToolMoves DEF SubmitFails, AnswersTool, ReservedAfterError
  <1>3. ASSUME NEW c \in ToolCalls, RefuseSubmission(c) PROVE SessionInv'
    <2>1. arriving' \subseteq arriving /\ queued' = queued /\ failedTx' = failedTx
      BY <1>3 DEF RefuseSubmission
    <2>2. reserved' = reserved /\ (AnswersTool(c) \/ tool' = tool)
      BY <1>3 DEF RefuseSubmission, ReservedAfterError
    <2> QED BY <1>0, <2>1, <2>2, ToolMoves, ArrivalDropped DEF AnswersTool
  <1>4. ASSUME NEW c \in ToolCalls, PollStatus(c) PROVE SessionInv'
    <2>1. failedTx' \in Nat
      BY <1>0, <1>4 DEF PollStatus
    <2>2. AnswersTool(c) /\ arriving' = arriving /\ queued' = queued /\ reserved' = reserved
      BY <1>4 DEF PollStatus
    <2> QED BY <2>1, <2>2, ToolMoves DEF AnswersTool
  <1>5. ASSUME NEW c \in ToolCalls, PollEnds(c) PROVE SessionInv'
    BY <1>0, <1>5, ToolMoves DEF PollEnds, AnswersTool
  <1>6. CASE UNCHANGED sessionVars
    BY <1>6, ArrivalDropped DEF sessionVars
  <1> QED
    BY <1>1, <1>2, <1>3, <1>4, <1>5, <1>6, CallToolInv, EstimatedInv, HandleSubmissionInv, EndActionInv
    DEF SessionNext

\* Whatever calls overlap, are given up or repeat a key, what a session has enqueued and what may still
\* arrive stays within its spend ceiling (mcp-server/client.ts submitAction): each estimate is reserved
\* before its request is sent, and a reservation is never released.
THEOREM SpendAlwaysWithinCeiling == SessionSpec => []SpendWithinCeiling
  <1>1. SessionInv => SpendWithinCeiling
    <2> SUFFICES ASSUME SessionInv PROVE SpendWithinCeiling
      OBVIOUS
    <2>1. OfQueued \in Nat /\ OfExpected \in Nat /\ OfQueued + OfExpected <= SpendCeiling
      BY ToolSessionAssumption DEF SessionInv, ReservationsCover, SessionTypeOK
    <2>2. SumFunction(QueuedCosts) = OfQueued
      BY DEF SumFunction, OfQueued, QueuedCosts
    <2> QED BY <2>1, <2>2 DEF SpendWithinCeiling, QueuedCosts, CallCosts, OfExpected, Expected
  <1> QED BY <1>1, SessionInitInv, SessionNextInv, PTL DEF SessionSpec

-----------------------------------------------------------------------------
(***************************************************************************)
(* Faucet: the two unique indexes, and what the handlers that pay hold.    *)
(* A handler from the insertion of its row to its end is the only one with *)
(* that row, the row is pending all the while, and the index of pending    *)
(* rows keeps a second handler of the wallet out. While no answer is lost, *)
(* a row that ends as failed was not paid, so that the rows counted cover  *)
(* the payments; and a wallet whose requests never overlap has no second   *)
(* request between the count and the insertion.                            *)
(***************************************************************************)

FaucetPcs == {"idle", "balances", "skip", "count", "insert", "repeated", "inflight", "send", "funded",
              "failed", "answered", "lost"}
Paying    == {"send", "funded", "failed"}
Statuses  == {"pending", "funded", "failed", "skipped"}
Answers   == Statuses \cup {"none", "address_mismatch", "error", "rate_limited", "balance_insufficient",
                            "create_failed", "inflight"}

GrantRow     == [wallet : Wallets, key : Keys \cup {NoKey}, status : Statuses, age : Nat]
FaucetHandler == [pc : FaucetPcs, wallet : Wallets \cup {"none"}, key : Keys \cup {NoKey}, rich : BOOLEAN,
                  grant : Nat, reply : Answers]

FaucetTypeOK ==
  /\ grants \in Seq(GrantRow)
  /\ transfer \in Seq({"none", "sent", "mined"}) /\ Len(transfer) = Len(grants)
  /\ request \in [Requests -> FaucetHandler]
  /\ age \in Nat /\ faults \in Nat
  /\ \A r \in Requests : HandlerUnderWay(r) => request[r].wallet \in Wallets

\* The rows.
KeyOnce ==
  \A i, j \in DOMAIN grants : grants[i].key # NoKey /\ grants[j].key = grants[i].key => i = j
PendingOnce ==
  \A i, j \in DOMAIN grants :
    grants[i].status = "pending" /\ grants[j].status = "pending" /\ grants[j].wallet = grants[i].wallet => i = j
AgesPast    == \A i \in DOMAIN grants : grants[i].age <= age
PaidCounted == faults = 0 => \A i \in DOMAIN grants : Paid(i) => Counted(i)
CountedOf(w) == {i \in DOMAIN grants : grants[i].wallet = w /\ Counted(i) /\ InLimitWindow(i)}
CountWithin  == \A w \in Wallets \ overlap : CountOfWallet(w) <= PerAddress

\* The handlers.
HoldsRow(r) ==
  request[r].pc \in Paying =>
    /\ request[r].grant \in DOMAIN grants
    /\ grants[request[r].grant].status = "pending"
    /\ grants[request[r].grant].wallet = request[r].wallet
NotPaidYet(r) ==
  faults = 0 /\ request[r].pc \in {"send", "failed"} => transfer[request[r].grant] = "none"
MayInsert(r) ==
  request[r].pc = "insert" /\ request[r].wallet \notin overlap => CountOfWallet(request[r].wallet) < PerAddress
HandlersSound == \A r \in Requests : HoldsRow(r) /\ NotPaidYet(r) /\ MayInsert(r)
OwnRows ==
  \A r, q \in Requests :
    r # q /\ request[r].pc \in Paying /\ request[q].pc \in Paying => request[r].grant # request[q].grant
Alone ==
  \A r, q \in Requests :
    r # q /\ HandlerUnderWay(r) /\ HandlerUnderWay(q) /\ request[r].wallet = request[q].wallet
      => request[r].wallet \in overlap

TableInv   == KeyOnce /\ PendingOnce /\ AgesPast /\ PaidCounted /\ CountWithin
FaucetInv  == FaucetTypeOK /\ TableInv /\ HandlersSound /\ OwnRows /\ Alone

LEMMA CountedFinite ==
  ASSUME FaucetTypeOK, NEW w
  PROVE  /\ IsFiniteSet(CountedOf(w)) /\ CountOfWallet(w) = Cardinality(CountedOf(w))
         /\ CountOfWallet(w) \in Nat
  <1>1. DOMAIN grants = 1..Len(grants) /\ Len(grants) \in Nat
    BY DEF FaucetTypeOK
  <1>2. IsFiniteSet(DOMAIN grants)
    BY <1>1, FS_Interval
  <1>3. CountedOf(w) \subseteq DOMAIN grants
    BY DEF CountedOf
  <1>4. IsFiniteSet(CountedOf(w))
    BY <1>2, <1>3, FS_Subset
  <1> QED BY <1>4, FS_CardinalityType DEF CountOfWallet, CountedOf

\* Fewer rows are counted, or one more is.
LEMMA CountsNoMore ==
  ASSUME FaucetTypeOK, NEW w, CountedOf(w)' \subseteq CountedOf(w)
  PROVE  CountOfWallet(w)' \in Nat /\ CountOfWallet(w)' <= CountOfWallet(w)
  <1>1. IsFiniteSet(CountedOf(w)) /\ CountOfWallet(w) = Cardinality(CountedOf(w))
    BY CountedFinite
  <1>2. /\ IsFiniteSet(CountedOf(w)')
        /\ Cardinality(CountedOf(w)') <= Cardinality(CountedOf(w))
    BY <1>1, FS_Subset
  <1>3. CountOfWallet(w)' = Cardinality(CountedOf(w)')
    BY DEF CountOfWallet, CountedOf
  <1> QED BY <1>1, <1>2, <1>3, FS_CardinalityType

LEMMA CountsOneMore ==
  ASSUME FaucetTypeOK, NEW w, NEW n, CountedOf(w)' \subseteq CountedOf(w) \cup {n}
  PROVE  CountOfWallet(w)' \in Nat /\ CountOfWallet(w)' <= CountOfWallet(w) + 1
  <1>1. /\ IsFiniteSet(CountedOf(w)) /\ CountOfWallet(w) = Cardinality(CountedOf(w))
        /\ CountOfWallet(w) \in Nat
    BY CountedFinite
  <1>2. /\ IsFiniteSet(CountedOf(w) \cup {n})
        /\ Cardinality(CountedOf(w) \cup {n}) <= Cardinality(CountedOf(w)) + 1
    <2> DEFINE s == CountedOf(w)
    <2>1. IsFiniteSet(s) /\ Cardinality(s) \in Nat
      BY <1>1, FS_CardinalityType
    <2> HIDE DEF s
    <2>2. /\ IsFiniteSet(s \cup {n})
          /\ Cardinality(s \cup {n}) = IF n \in s THEN Cardinality(s) ELSE Cardinality(s) + 1
      BY <2>1, FS_AddElement
    <2>3. Cardinality(s \cup {n}) <= Cardinality(s) + 1
      BY <2>1, <2>2
    <2> QED BY <2>2, <2>3 DEF s
  <1>3. /\ IsFiniteSet(CountedOf(w)')
        /\ Cardinality(CountedOf(w)') <= Cardinality(CountedOf(w) \cup {n})
    BY <1>2, FS_Subset
  <1>4. CountOfWallet(w)' = Cardinality(CountedOf(w)')
    BY DEF CountOfWallet, CountedOf
  <1>5. Cardinality(CountedOf(w)') \in Nat /\ Cardinality(CountedOf(w) \cup {n}) \in Nat
    BY <1>2, <1>3, FS_CardinalityType
  <1> QED BY <1>1, <1>2, <1>3, <1>4, <1>5

LEMMA FaucetInitInv == FaucetInit => FaucetInv
  <1> SUFFICES ASSUME FaucetInit PROVE FaucetInv
    OBVIOUS
  <1>1. grants = << >> /\ transfer = << >> /\ age = 0 /\ faults = 0 /\ overlap = {}
    BY DEF FaucetInit
  <1>2. NoRequest \in FaucetHandler /\ NoRequest.pc = "idle"
    BY DEF NoRequest, FaucetHandler, FaucetPcs, Answers
  <1>3. request \in [Requests -> FaucetHandler] /\ \A r \in Requests : request[r].pc = "idle"
    BY <1>2 DEF FaucetInit
  <1>4. FaucetTypeOK
    BY <1>1, <1>3 DEF FaucetTypeOK, HandlerUnderWay
  <1>5. KeyOnce /\ PendingOnce /\ AgesPast /\ PaidCounted
    BY <1>1 DEF KeyOnce, PendingOnce, AgesPast, PaidCounted
  <1>6. CountWithin
    <2> SUFFICES ASSUME NEW w \in Wallets PROVE CountOfWallet(w) <= PerAddress
      BY DEF CountWithin
    <2>1. CountedOf(w) = {}
      BY <1>1 DEF CountedOf
    <2>2. CountOfWallet(w) = 0
      BY <1>4, <2>1, CountedFinite, FS_EmptySet
    <2> QED BY <2>2, FaucetAssumption
  <1>7. HandlersSound /\ OwnRows /\ Alone
    BY <1>3 DEF HandlersSound, HoldsRow, NotPaidYet, MayInsert, OwnRows, Alone, HandlerUnderWay, Paying
  <1> QED BY <1>4, <1>5, <1>6, <1>7 DEF FaucetInv, TableInv

\* The handler of one request changes.
LEMMA OneHandler ==
  ASSUME FaucetTypeOK, NEW r \in Requests, NEW new \in FaucetHandler, Becomes(r, new)
  PROVE  /\ request' \in [Requests -> FaucetHandler] /\ request'[r] = new
         /\ \A q \in Requests : q # r => request'[q] = request[q]
  BY DEF FaucetTypeOK, Becomes

\* Only the handler changes: it goes on with its wallet, and with its row if it pays.
LEMMA HandlerOnly ==
  ASSUME FaucetInv, NEW r \in Requests, NEW new \in FaucetHandler, Becomes(r, new),
         HandlerUnderWay(r), new.wallet = request[r].wallet,
         grants' = grants, transfer' = transfer, age' = age, overlap' = overlap,
         faults' \in Nat, faults' = 0 => faults = 0,
         new.pc = "insert" => CountOfWallet(new.wallet) < PerAddress,
         new.pc \in Paying => request[r].pc \in Paying /\ new.grant = request[r].grant,
         faults' = 0 /\ new.pc \in {"send", "failed"} => transfer[new.grant] = "none"
  PROVE  FaucetInv'
  <1>0. FaucetTypeOK /\ TableInv /\ HandlersSound /\ OwnRows /\ Alone
    BY DEF FaucetInv
  <1>1. /\ request' \in [Requests -> FaucetHandler] /\ request'[r] = new
        /\ \A q \in Requests : q # r => request'[q] = request[q]
    BY <1>0, OneHandler
  <1>2. \A q \in Requests : HandlerUnderWay(q)' => HandlerUnderWay(q) /\ request'[q].wallet = request[q].wallet
    BY <1>1 DEF HandlerUnderWay
  <1>3. \A q \in Requests : request'[q].pc \in Paying =>
          request[q].pc \in Paying /\ request'[q].grant = request[q].grant
    BY <1>1
  <1>4. FaucetTypeOK'
    BY <1>0, <1>1, <1>2 DEF FaucetTypeOK
  <1>5. \A w : CountOfWallet(w)' = CountOfWallet(w)
    BY DEF CountOfWallet, Counted, InLimitWindow
  <1>6. TableInv'
    <2>1. KeyOnce' /\ PendingOnce' /\ AgesPast' /\ PaidCounted'
      BY <1>0 DEF TableInv, KeyOnce, PendingOnce, AgesPast, PaidCounted, Paid, Counted
    <2>2. CountWithin'
      BY <1>0, <1>5 DEF TableInv, CountWithin
    <2> QED BY <2>1, <2>2 DEF TableInv
  <1>7. OwnRows'
    BY <1>0, <1>3 DEF OwnRows
  <1>8. Alone'
    BY <1>0, <1>2 DEF Alone
  <1>9. HandlersSound'
    <2> SUFFICES ASSUME NEW q \in Requests PROVE HoldsRow(q)' /\ NotPaidYet(q)' /\ MayInsert(q)'
      BY DEF HandlersSound
    <2>0. HoldsRow(q) /\ NotPaidYet(q) /\ MayInsert(q) /\ HoldsRow(r)
      BY <1>0 DEF HandlersSound
    <2>1. CASE q # r
      BY <1>1, <1>5, <2>0, <2>1 DEF HoldsRow, NotPaidYet, MayInsert
    <2>2. CASE q = r
      <3>1. HoldsRow(r)'
        BY <1>1, <2>0 DEF HoldsRow
      <3>2. NotPaidYet(r)'
        BY <1>1 DEF NotPaidYet
      <3>3. MayInsert(r)'
        BY <1>1, <1>5 DEF MayInsert
      <3> QED BY <2>2, <3>1, <3>2, <3>3
    <2> QED BY <2>1, <2>2
  <1> QED BY <1>4, <1>6, <1>7, <1>8, <1>9 DEF FaucetInv

\* A row is inserted: it is skipped, or it is pending and the handler goes on to pay it.
LEMMA InsertionInv ==
  ASSUME FaucetInv, NEW r \in Requests, NEW status \in {"skipped", "pending"}, Unique(r, status),
         NEW new \in FaucetHandler, Becomes(r, new), HandlerUnderWay(r), new.wallet = request[r].wallet,
         grants' = Inserted(r, status), transfer' = Append(transfer, "none"),
         age' = age, overlap' = overlap, faults' = faults,
         status = "skipped" => new.pc = "answered",
         status = "pending" => /\ request[r].pc = "insert" /\ new.pc = "send"
                               /\ new.grant = Len(grants) + 1
  PROVE  FaucetInv'
  <1>0. FaucetTypeOK /\ TableInv /\ HandlersSound /\ OwnRows /\ Alone
    BY DEF FaucetInv
  <1>w. PICK w \in Wallets : w = request[r].wallet
    BY <1>0 DEF FaucetTypeOK
  <1> DEFINE n == Len(grants) + 1
             row == [wallet |-> w, key |-> request[r].key, status |-> status, age |-> age]
  <1>1. /\ request' \in [Requests -> FaucetHandler] /\ request'[r] = new
        /\ \A q \in Requests : q # r => request'[q] = request[q]
    BY <1>0, OneHandler
  <1>2. row \in GrantRow /\ row.wallet = w /\ row.key = request[r].key /\ row.status = status /\ row.age = age
    <2>1. request[r] \in FaucetHandler /\ age \in Nat
      BY <1>0 DEF FaucetTypeOK
    <2> QED BY <2>1 DEF GrantRow, FaucetHandler, Statuses
  <1>3. grants' = Append(grants, row)
    BY <1>w DEF Inserted
  <1> HIDE DEF row
  <1>4. /\ grants' \in Seq(GrantRow) /\ DOMAIN grants' = DOMAIN grants \cup {n} /\ Len(grants') = n
        /\ n \notin DOMAIN grants /\ grants'[n] = row
        /\ \A i \in DOMAIN grants : grants'[i] = grants[i]
    <2>1. grants \in Seq(GrantRow)
      BY <1>0 DEF FaucetTypeOK
    <2> QED BY <1>2, <1>3, <2>1, RowInserted
  <1>5. /\ transfer' \in Seq({"none", "sent", "mined"}) /\ Len(transfer') = Len(grants') /\ transfer'[n] = "none"
        /\ \A i \in DOMAIN grants : transfer'[i] = transfer[i]
    <2>1. /\ transfer \in Seq({"none", "sent", "mined"}) /\ Len(transfer) = Len(grants)
          /\ DOMAIN transfer = DOMAIN grants
      BY <1>0 DEF FaucetTypeOK
    <2>2. /\ transfer' \in Seq({"none", "sent", "mined"}) /\ Len(transfer') = Len(transfer) + 1
          /\ transfer'[Len(transfer) + 1] = "none"
          /\ \A i \in DOMAIN transfer : transfer'[i] = transfer[i]
      BY <2>1, RowInserted
    <2> QED BY <1>4, <2>1, <2>2
  <1>6. \A q \in Requests : HandlerUnderWay(q)' => HandlerUnderWay(q) /\ request'[q].wallet = request[q].wallet
    BY <1>1 DEF HandlerUnderWay
  <1>7. FaucetTypeOK'
    BY <1>0, <1>1, <1>4, <1>5, <1>6 DEF FaucetTypeOK
  <1>8. Alone'
    BY <1>0, <1>6 DEF Alone
  <1>9. KeyOnce'
    <2>1. \A i \in DOMAIN grants : request[r].key # NoKey => grants[i].key # request[r].key
      BY DEF Unique, WithKey
    <2> SUFFICES ASSUME NEW i \in DOMAIN grants', NEW j \in DOMAIN grants',
                        grants'[i].key # NoKey, grants'[j].key = grants'[i].key
                 PROVE  i = j
      BY DEF KeyOnce
    <2> QED BY <1>0, <1>2, <1>4, <2>1 DEF TableInv, KeyOnce
  <1>10. PendingOnce'
    <2>1. status = "pending" => \A i \in DOMAIN grants : ~(grants[i].wallet = w /\ grants[i].status = "pending")
      BY <1>w DEF Unique, PendingFor
    <2> SUFFICES ASSUME NEW i \in DOMAIN grants', NEW j \in DOMAIN grants',
                        grants'[i].status = "pending", grants'[j].status = "pending",
                        grants'[j].wallet = grants'[i].wallet
                 PROVE  i = j
      BY DEF PendingOnce
    <2> QED BY <1>0, <1>2, <1>4, <2>1 DEF TableInv, PendingOnce
  <1>11. AgesPast'
    <2>1. age \in Nat /\ age <= age
      BY <1>0 DEF FaucetTypeOK
    <2> QED BY <1>0, <1>2, <1>4, <2>1 DEF TableInv, AgesPast
  <1>12. PaidCounted'
    <2> SUFFICES ASSUME faults = 0, NEW i \in DOMAIN grants', transfer'[i] # "none"
                 PROVE  grants'[i].status \in {"pending", "funded"}
      BY DEF PaidCounted, Paid, Counted
    <2>1. i \in DOMAIN grants /\ transfer[i] # "none" /\ grants'[i] = grants[i]
      BY <1>4, <1>5
    <2> QED BY <1>0, <2>1 DEF TableInv, PaidCounted, Paid, Counted
  <1>13. \A v : v # w \/ status = "skipped" => CountedOf(v)' \subseteq CountedOf(v)
    BY <1>2, <1>4 DEF CountedOf, Counted, InLimitWindow
  <1>14. CountedOf(w)' \subseteq CountedOf(w) \cup {n}
    BY <1>4 DEF CountedOf, Counted, InLimitWindow
  <1>15. \A v : v # w \/ status = "skipped" =>
           CountOfWallet(v)' \in Nat /\ CountOfWallet(v) \in Nat /\ CountOfWallet(v)' <= CountOfWallet(v)
    BY <1>0, <1>13, CountsNoMore, CountedFinite
  <1>16. CountOfWallet(w)' \in Nat /\ CountOfWallet(w) \in Nat /\ CountOfWallet(w)' <= CountOfWallet(w) + 1
    BY <1>0, <1>14, CountsOneMore, CountedFinite
  <1>17. CountWithin'
    <2> SUFFICES ASSUME NEW v \in Wallets \ overlap PROVE CountOfWallet(v)' <= PerAddress
      BY DEF CountWithin
    <2>0. PerAddress \in Nat
      BY FaucetAssumption
    <2>1. CASE v # w \/ status = "skipped"
      <3>1. CountOfWallet(v) <= PerAddress
        BY <1>0 DEF TableInv, CountWithin
      <3> QED BY <1>15, <2>0, <2>1, <3>1
    <2>2. CASE v = w /\ status = "pending"
      <3>1. CountOfWallet(w) < PerAddress
        BY <1>0, <1>w, <2>2 DEF HandlersSound, MayInsert
      <3> QED BY <1>16, <2>0, <2>2, <3>1
    <2> QED BY <2>1, <2>2
  <1>18. OwnRows'
    <2>1. \A q \in Requests : q # r /\ request'[q].pc \in Paying =>
            /\ request'[q].grant = request[q].grant /\ request[q].pc \in Paying
            /\ request[q].grant # n
      BY <1>0, <1>1, <1>4 DEF HandlersSound, HoldsRow
    <2>2. request'[r].pc \in Paying => request'[r].grant = n
      BY <1>1 DEF Paying
    <2> QED BY <1>0, <2>1, <2>2 DEF OwnRows
  <1>19. HandlersSound'
    <2> SUFFICES ASSUME NEW q \in Requests PROVE HoldsRow(q)' /\ NotPaidYet(q)' /\ MayInsert(q)'
      BY DEF HandlersSound
    <2>0. HoldsRow(q) /\ NotPaidYet(q) /\ MayInsert(q)
      BY <1>0 DEF HandlersSound
    <2>1. CASE q # r
      <3>0. request'[q] = request[q]
        BY <1>1, <2>1
      <3>1. HoldsRow(q)'
        BY <1>4, <2>0, <3>0 DEF HoldsRow
      <3>2. NotPaidYet(q)'
        BY <1>5, <2>0, <3>0 DEF HoldsRow, NotPaidYet, Paying
      <3>3. MayInsert(q)'
        <4> SUFFICES ASSUME request[q].pc = "insert", request[q].wallet \notin overlap
                     PROVE  CountOfWallet(request[q].wallet)' < PerAddress
          BY <3>0 DEF MayInsert
        <4>0. PICK v : v = request[q].wallet
          OBVIOUS
        <4>1. CountOfWallet(v) < PerAddress
          BY <2>0, <4>0 DEF MayInsert
        <4>2. HandlerUnderWay(q)
          BY DEF HandlerUnderWay
        <4>3. v # w
          BY <1>0, <1>w, <2>1, <4>0, <4>2 DEF Alone
        <4>4. CountOfWallet(v)' \in Nat /\ CountOfWallet(v) \in Nat /\ CountOfWallet(v)' <= CountOfWallet(v)
          BY <1>15, <4>3
        <4>5. PerAddress \in Nat
          BY FaucetAssumption
        <4>6. CountOfWallet(v)' < PerAddress
          BY <4>1, <4>4, <4>5
        <4>7. CountOfWallet(v)' = CountOfWallet(request[q].wallet)'
          BY <3>0, <4>0
        <4> QED BY <4>6, <4>7
      <3> QED BY <3>1, <3>2, <3>3
    <2>2. CASE q = r
      <3>1. HoldsRow(r)'
        BY <1>1, <1>2, <1>4, <1>w DEF HoldsRow, Paying
      <3>2. NotPaidYet(r)'
        BY <1>1, <1>5 DEF NotPaidYet
      <3>3. MayInsert(r)'
        BY <1>1 DEF MayInsert
      <3> QED BY <2>2, <3>1, <3>2, <3>3
    <2> QED BY <2>1, <2>2
  <1>20. TableInv'
    BY <1>9, <1>10, <1>11, <1>12, <1>17 DEF TableInv
  <1> QED BY <1>7, <1>8, <1>18, <1>19, <1>20 DEF FaucetInv

\* The handler that holds a row records how its payment went, and has answered.
LEMMA RecordInv ==
  ASSUME FaucetInv, NEW r \in Requests, NEW status \in {"funded", "failed"}, NEW new \in FaucetHandler,
         Becomes(r, new), request[r].pc = status, new.pc = "answered", new.wallet = request[r].wallet,
         grants' = [grants EXCEPT ![request[r].grant].status = status],
         transfer' = transfer, age' = age, overlap' = overlap, faults' = faults
  PROVE  FaucetInv'
  <1>0. FaucetTypeOK /\ TableInv /\ HandlersSound /\ OwnRows /\ Alone
    BY DEF FaucetInv
  <1>g. PICK g : g = request[r].grant
    OBVIOUS
  <1> DEFINE row == [grants[g] EXCEPT !.status = status]
  <1>1. /\ request' \in [Requests -> FaucetHandler] /\ request'[r] = new
        /\ \A q \in Requests : q # r => request'[q] = request[q]
    BY <1>0, OneHandler
  <1>2. g \in DOMAIN grants /\ grants[g].status = "pending" /\ NotPaidYet(r)
    BY <1>0, <1>g DEF HandlersSound, HoldsRow, Paying
  <1>3. grants \in Seq(GrantRow) /\ grants[g] \in GrantRow
    BY <1>0, <1>2, RowOf DEF FaucetTypeOK
  <1>4. /\ row \in GrantRow /\ row.wallet = grants[g].wallet /\ row.key = grants[g].key
        /\ row.age = grants[g].age /\ row.status = status
    BY <1>3 DEF GrantRow, Statuses
  <1>5. grants' = [grants EXCEPT ![g] = row]
    BY <1>g
  <1> HIDE DEF row
  <1>6. /\ grants' \in Seq(GrantRow) /\ DOMAIN grants' = DOMAIN grants /\ Len(grants') = Len(grants)
        /\ grants'[g] = row /\ \A i \in DOMAIN grants : i # g => grants'[i] = grants[i]
    BY <1>2, <1>3, <1>4, <1>5, RowChanged
  <1>7. \A i \in DOMAIN grants :
          /\ grants'[i].wallet = grants[i].wallet /\ grants'[i].key = grants[i].key
          /\ grants'[i].age = grants[i].age
          /\ grants'[i].status = "pending" => i # g /\ grants[i].status = "pending"
    BY <1>4, <1>6
  <1>8. \A q \in Requests : HandlerUnderWay(q)' => HandlerUnderWay(q) /\ request'[q].wallet = request[q].wallet
    BY <1>1 DEF HandlerUnderWay
  <1>9. FaucetTypeOK'
    BY <1>0, <1>1, <1>6, <1>8 DEF FaucetTypeOK
  <1>10. Alone'
    BY <1>0, <1>8 DEF Alone
  <1>11. KeyOnce' /\ PendingOnce' /\ AgesPast'
    BY <1>0, <1>6, <1>7 DEF TableInv, KeyOnce, PendingOnce, AgesPast
  <1>12. PaidCounted'
    <2> SUFFICES ASSUME faults = 0, NEW i \in DOMAIN grants, transfer[i] # "none"
                 PROVE  grants'[i].status \in {"pending", "funded"}
      BY <1>6 DEF PaidCounted, Paid, Counted
    <2>1. grants[i].status \in {"pending", "funded"}
      BY <1>0 DEF TableInv, PaidCounted, Paid, Counted
    <2>2. CASE i # g
      BY <1>6, <2>1, <2>2
    <2>3. CASE i = g
      BY <1>2, <1>4, <1>6, <1>g, <2>3 DEF NotPaidYet
    <2> QED BY <2>2, <2>3
  <1>13. \A v : CountedOf(v)' \subseteq CountedOf(v)
    <2> SUFFICES ASSUME NEW v, NEW i \in CountedOf(v)' PROVE i \in CountedOf(v)
      OBVIOUS
    <2>1. /\ i \in DOMAIN grants /\ grants'[i].wallet = v /\ grants'[i].age = age
          /\ grants'[i].status \in {"pending", "funded"}
      BY <1>6 DEF CountedOf, Counted, InLimitWindow
    <2>2. grants[i].wallet = v /\ grants[i].age = age
      BY <1>7, <2>1
    <2>3. grants[i].status \in {"pending", "funded"}
      BY <1>2, <1>6, <2>1
    <2> QED BY <2>1, <2>2, <2>3 DEF CountedOf, Counted, InLimitWindow
  <1>14. \A v : CountOfWallet(v)' \in Nat /\ CountOfWallet(v) \in Nat /\ CountOfWallet(v)' <= CountOfWallet(v)
    BY <1>0, <1>13, CountsNoMore, CountedFinite
  <1>15. PerAddress \in Nat
    BY FaucetAssumption
  <1>16. CountWithin'
    <2> SUFFICES ASSUME NEW v \in Wallets \ overlap PROVE CountOfWallet(v)' <= PerAddress
      BY DEF CountWithin
    <2>1. CountOfWallet(v) <= PerAddress
      BY <1>0 DEF TableInv, CountWithin
    <2> QED BY <1>14, <1>15, <2>1
  <1>17. \A q \in Requests : request'[q].pc \in Paying =>
           q # r /\ request'[q] = request[q] /\ request[q].grant # g
    BY <1>0, <1>1, <1>g DEF OwnRows, Paying
  <1>18. OwnRows'
    BY <1>0, <1>17 DEF OwnRows
  <1>19. HandlersSound'
    <2> SUFFICES ASSUME NEW q \in Requests PROVE HoldsRow(q)' /\ NotPaidYet(q)' /\ MayInsert(q)'
      BY DEF HandlersSound
    <2>0. HoldsRow(q) /\ NotPaidYet(q) /\ MayInsert(q)
      BY <1>0 DEF HandlersSound
    <2>1. HoldsRow(q)'
      BY <1>6, <1>17, <2>0 DEF HoldsRow
    <2>2. NotPaidYet(q)'
      BY <1>17, <2>0 DEF NotPaidYet, Paying
    <2>3. MayInsert(q)'
      <3> SUFFICES ASSUME request'[q].pc = "insert", request'[q].wallet \notin overlap
                   PROVE  CountOfWallet(request[q].wallet)' < PerAddress
        BY DEF MayInsert
      <3>1. request'[q] = request[q]
        BY <1>1
      <3>2. PICK v : v = request[q].wallet
        OBVIOUS
      <3>3. CountOfWallet(v) < PerAddress
        BY <2>0, <3>1, <3>2 DEF MayInsert
      <3>4. CountOfWallet(v)' < PerAddress
        BY <1>14, <1>15, <3>3
      <3>5. CountOfWallet(v)' = CountOfWallet(request[q].wallet)'
        BY <3>1, <3>2
      <3> QED BY <3>1, <3>4, <3>5
    <2> QED BY <2>1, <2>2, <2>3
  <1>20. TableInv'
    BY <1>11, <1>12, <1>16 DEF TableInv
  <1> QED BY <1>9, <1>10, <1>18, <1>19, <1>20 DEF FaucetInv

\* A handler goes on with its wallet and its row; ...
GoesOnWithRow(q) ==
  /\ HandlerUnderWay(q)' => HandlerUnderWay(q)
  /\ request'[q].wallet = request[q].wallet /\ request'[q].grant = request[q].grant
  /\ request'[q].pc \in Paying => request[q].pc \in Paying
  /\ request'[q].pc = "insert" => request[q].pc = "insert"

\* ... and one that has not paid its row has another row than i.
LeavesTransfer(q, i) ==
  (faults' = 0 /\ request'[q].pc \in {"send", "failed"}) =>
    (request[q].pc = request'[q].pc /\ request[q].grant # i)

\* A transfer is sent by its handler, or mined.
LEMMA PaymentInv ==
  ASSUME FaucetInv, NEW i \in DOMAIN grants, NEW t \in {"sent", "mined"},
         transfer' = [transfer EXCEPT ![i] = t],
         grants' = grants, age' = age, overlap' = overlap,
         faults' \in Nat, faults' = 0 => faults = 0 /\ Counted(i),
         \A q \in Requests : GoesOnWithRow(q) /\ LeavesTransfer(q, i),
         request' \in [Requests -> FaucetHandler]
  PROVE  FaucetInv'
  <1>0. FaucetTypeOK /\ TableInv /\ HandlersSound /\ OwnRows /\ Alone
    BY DEF FaucetInv
  <1>1. /\ transfer' \in Seq({"none", "sent", "mined"}) /\ Len(transfer') = Len(transfer)
        /\ transfer'[i] = t /\ \A j \in DOMAIN grants : j # i => transfer'[j] = transfer[j]
    <2>1. /\ transfer \in Seq({"none", "sent", "mined"}) /\ i \in DOMAIN transfer
          /\ DOMAIN transfer = DOMAIN grants
      BY <1>0 DEF FaucetTypeOK
    <2> QED BY <2>1, RowChanged
  <1>2. FaucetTypeOK'
    BY <1>0, <1>1 DEF FaucetTypeOK, GoesOnWithRow
  <1>3. \A w : CountOfWallet(w)' = CountOfWallet(w)
    BY DEF CountOfWallet, Counted, InLimitWindow
  <1>4. PaidCounted'
    BY <1>0, <1>1 DEF TableInv, PaidCounted, Paid, Counted
  <1>5. KeyOnce' /\ PendingOnce' /\ AgesPast'
    BY <1>0 DEF TableInv, KeyOnce, PendingOnce, AgesPast
  <1>6. CountWithin'
    BY <1>0, <1>3 DEF TableInv, CountWithin
  <1>7. OwnRows'
    BY <1>0 DEF OwnRows, GoesOnWithRow
  <1>8. Alone'
    BY <1>0 DEF Alone, GoesOnWithRow
  <1>9. HandlersSound'
    <2> SUFFICES ASSUME NEW q \in Requests PROVE HoldsRow(q)' /\ NotPaidYet(q)' /\ MayInsert(q)'
      BY DEF HandlersSound
    <2>0. HoldsRow(q) /\ NotPaidYet(q) /\ MayInsert(q)
      BY <1>0 DEF HandlersSound
    <2>1. HoldsRow(q)'
      BY <2>0 DEF HoldsRow, GoesOnWithRow
    <2>2. NotPaidYet(q)'
      <3> SUFFICES ASSUME faults' = 0, request'[q].pc \in {"send", "failed"}
                   PROVE  transfer'[request'[q].grant] = "none"
        BY DEF NotPaidYet
      <3>1. request[q].pc = request'[q].pc /\ request[q].grant # i /\ request'[q].grant = request[q].grant
        BY DEF GoesOnWithRow, LeavesTransfer
      <3>2. request[q].grant \in DOMAIN grants /\ transfer[request[q].grant] = "none"
        BY <2>0, <3>1 DEF HoldsRow, NotPaidYet, Paying
      <3> QED BY <1>1, <3>1, <3>2
    <2>3. MayInsert(q)'
      BY <1>3, <2>0 DEF MayInsert, GoesOnWithRow
    <2> QED BY <2>1, <2>2, <2>3
  <1>10. TableInv'
    BY <1>4, <1>5, <1>6 DEF TableInv
  <1> QED BY <1>2, <1>7, <1>8, <1>9, <1>10 DEF FaucetInv

\* The handlers of some requests end, and the rows grow older.
LEMMA EndedOrOlder ==
  ASSUME FaucetInv, grants' = grants, transfer' = transfer, overlap' = overlap, faults' = faults,
         age' \in Nat, age' >= age,
         request' \in [Requests -> FaucetHandler],
         \A q \in Requests : request'[q] = request[q] \/ request'[q].pc = "lost"
  PROVE  FaucetInv'
  <1>0. FaucetTypeOK /\ TableInv /\ HandlersSound /\ OwnRows /\ Alone
    BY DEF FaucetInv
  <1>1. \A q \in Requests : HandlerUnderWay(q)' => HandlerUnderWay(q) /\ request'[q] = request[q]
    BY DEF HandlerUnderWay
  <1>2. \A q \in Requests : request'[q].pc \in Paying \cup {"insert"} => request'[q] = request[q]
    BY DEF Paying
  <1>3. FaucetTypeOK'
    BY <1>0, <1>1 DEF FaucetTypeOK
  <1>4. AgesPast'
    <2> SUFFICES ASSUME NEW i \in DOMAIN grants PROVE grants[i].age <= age'
      BY DEF AgesPast
    <2>1. grants[i] \in GrantRow /\ grants[i].age <= age /\ age \in Nat
      BY <1>0, RowOf DEF FaucetTypeOK, TableInv, AgesPast
    <2>2. grants[i].age \in Nat
      BY <2>1 DEF GrantRow
    <2> QED BY <2>1, <2>2
  <1>5. KeyOnce' /\ PendingOnce' /\ PaidCounted'
    BY <1>0 DEF TableInv, KeyOnce, PendingOnce, PaidCounted, Paid, Counted
  <1>6. \A w : CountedOf(w)' \subseteq CountedOf(w)
    <2> SUFFICES ASSUME NEW w, NEW i \in CountedOf(w)' PROVE i \in CountedOf(w)
      OBVIOUS
    <2>1. i \in DOMAIN grants /\ grants[i].wallet = w /\ grants[i].age = age' /\ Counted(i)
      BY DEF CountedOf, Counted, InLimitWindow
    <2>2. grants[i] \in GrantRow /\ grants[i].age <= age /\ age \in Nat
      BY <1>0, <2>1, RowOf DEF FaucetTypeOK, TableInv, AgesPast
    <2>3. grants[i].age \in Nat
      BY <2>2 DEF GrantRow
    <2>4. grants[i].age = age
      BY <2>1, <2>2, <2>3
    <2> QED BY <2>1, <2>4 DEF CountedOf, InLimitWindow
  <1>7. \A w : CountOfWallet(w)' \in Nat /\ CountOfWallet(w) \in Nat /\ CountOfWallet(w)' <= CountOfWallet(w)
    BY <1>0, <1>6, CountsNoMore, CountedFinite
  <1>8. PerAddress \in Nat
    BY FaucetAssumption
  <1>9. CountWithin'
    <2> SUFFICES ASSUME NEW w \in Wallets \ overlap PROVE CountOfWallet(w)' <= PerAddress
      BY DEF CountWithin
    <2>1. CountOfWallet(w) <= PerAddress
      BY <1>0 DEF TableInv, CountWithin
    <2> QED BY <1>7, <1>8, <2>1
  <1>10. OwnRows'
    BY <1>0, <1>2 DEF OwnRows
  <1>11. Alone'
    BY <1>0, <1>1 DEF Alone
  <1>12. HandlersSound'
    <2> SUFFICES ASSUME NEW q \in Requests PROVE HoldsRow(q)' /\ NotPaidYet(q)' /\ MayInsert(q)'
      BY DEF HandlersSound
    <2>0. HoldsRow(q) /\ NotPaidYet(q) /\ MayInsert(q)
      BY <1>0 DEF HandlersSound
    <2>1. HoldsRow(q)'
      BY <1>2, <2>0 DEF HoldsRow
    <2>2. NotPaidYet(q)'
      BY <1>2, <2>0 DEF NotPaidYet, Paying
    <2>3. MayInsert(q)'
      <3> SUFFICES ASSUME request'[q].pc = "insert", request'[q].wallet \notin overlap
                   PROVE  CountOfWallet(request[q].wallet)' < PerAddress
        BY DEF MayInsert
      <3>1. request'[q] = request[q]
        BY <1>2
      <3>2. PICK v : v = request[q].wallet
        OBVIOUS
      <3>3. CountOfWallet(v) < PerAddress
        BY <2>0, <3>1, <3>2 DEF MayInsert
      <3>4. CountOfWallet(v)' < PerAddress
        BY <1>7, <1>8, <3>3
      <3>5. CountOfWallet(v)' = CountOfWallet(request[q].wallet)'
        BY <3>1, <3>2
      <3> QED BY <3>4, <3>5
    <2> QED BY <2>1, <2>2, <2>3
  <1>13. TableInv'
    BY <1>4, <1>5, <1>9 DEF TableInv
  <1> QED BY <1>3, <1>10, <1>11, <1>12, <1>13 DEF FaucetInv

\* The shape of what a handler becomes.
LEMMA HandlerTyped ==
  ASSUME FaucetInv, NEW r \in Requests
  PROVE  /\ request[r] \in FaucetHandler
         /\ \A pc \in FaucetPcs :
              LET new == [request[r] EXCEPT !.pc = pc]
              IN  /\ new \in FaucetHandler /\ new.pc = pc /\ new.wallet = request[r].wallet
                  /\ new.grant = request[r].grant
         /\ \A reply \in Answers :
              LET new == Answered(request[r], reply)
              IN  /\ new \in FaucetHandler /\ new.pc = "answered" /\ new.wallet = request[r].wallet
  <1>1. request[r] \in FaucetHandler
    BY DEF FaucetInv, FaucetTypeOK
  <1> QED BY <1>1 DEF FaucetHandler, Answered, FaucetPcs, Answers

\* What answers a request that repeats a key.
LEMMA RepeatedTyped ==
  ASSUME FaucetInv, NEW h \in FaucetHandler, NEW k, NEW w, WithKey(k) # {}
  PROVE  Repeated(h, k, w) \in FaucetHandler /\ Repeated(h, k, w).pc = "answered"
         /\ Repeated(h, k, w).wallet = h.wallet
  <1> DEFINE newest == CHOOSE i \in WithKey(k) : \A j \in WithKey(k) : j <= i
  <1>0. grants \in Seq(GrantRow)
    BY DEF FaucetInv, FaucetTypeOK
  <1>1. newest \in DOMAIN grants
    <2>1. WithKey(k) \subseteq Nat
      BY <1>0 DEF WithKey
    <2>2. \E i \in WithKey(k) : \A j \in WithKey(k) : j <= i
      <3>1. \A j \in WithKey(k) : j <= Len(grants)
        BY <1>0 DEF WithKey
      <3>2. Len(grants) \in Nat
        BY <1>0
      <3> QED BY <2>1, <3>1, <3>2, GreatestNumber
    <2>3. newest \in WithKey(k)
      BY <2>2
    <2> HIDE DEF newest
    <2> QED BY <2>3 DEF WithKey
  <1> DEFINE row   == grants[newest]
             reply == IF row.wallet # w THEN "address_mismatch" ELSE row.status
  <1> HIDE DEF newest
  <1>2. row \in GrantRow
    BY <1>0, <1>1, RowOf
  <1>3. reply \in Answers
    BY <1>2 DEF GrantRow, Answers
  <1>4. Repeated(h, k, w) = Answered(h, reply)
    BY DEF Repeated, newest
  <1> HIDE DEF reply
  <1>5. Answered(h, reply) \in FaucetHandler /\ Answered(h, reply).pc = "answered"
        /\ Answered(h, reply).wallet = h.wallet
    BY <1>3 DEF Answered, FaucetHandler, FaucetPcs
  <1> QED BY <1>4, <1>5

\* One lemma for each await of the handler.
LEMMA ReceiveInv ==
  ASSUME FaucetInv, NEW r \in Requests, NEW w \in Wallets, NEW k \in Keys \cup {NoKey}, Receive(r, w, k)
  PROVE  FaucetInv'
  <1> DEFINE start == [NoRequest EXCEPT !.pc = "balances", !.wallet = w, !.key = k]
             new   == IF WithKey(k) # {} THEN Repeated(start, k, w) ELSE start
  <1>0. FaucetTypeOK /\ TableInv /\ HandlersSound /\ OwnRows /\ Alone
    BY DEF FaucetInv
  <1>1. start \in FaucetHandler /\ start.pc = "balances" /\ start.wallet = w
    BY DEF NoRequest, FaucetHandler, FaucetPcs, Answers
  <1>2. request[r].pc = "idle" /\ Becomes(r, new)
    BY DEF Receive
  <1>u. /\ grants' = grants /\ transfer' = transfer /\ faults' = faults /\ age' = age
        /\ overlap' = overlap \cup {v \in {w} : \E q \in Requests \ {r} : HandlerUnderWay(q) /\ request[q].wallet = w}
    BY DEF Receive
  <1> HIDE DEF start
  <1>3. new \in FaucetHandler /\ new.wallet = w /\ new.pc \in {"balances", "answered"}
    BY <1>1, RepeatedTyped
  <1> HIDE DEF new
  <1>4. /\ request' \in [Requests -> FaucetHandler] /\ request'[r] = new
        /\ \A q \in Requests : q # r => request'[q] = request[q]
    BY <1>0, <1>2, <1>3, OneHandler
  <1>5. \A q \in Requests : q # r => (HandlerUnderWay(q)' <=> HandlerUnderWay(q))
    BY <1>4 DEF HandlerUnderWay
  <1>6. FaucetTypeOK'
    BY <1>0, <1>3, <1>4, <1>5, <1>u DEF FaucetTypeOK
  <1>7. overlap \subseteq overlap'
    BY <1>u
  <1>8. \A v : CountOfWallet(v)' = CountOfWallet(v)
    BY <1>u DEF CountOfWallet, Counted, InLimitWindow
  <1>9. KeyOnce' /\ PendingOnce' /\ AgesPast' /\ PaidCounted'
    BY <1>0, <1>u DEF TableInv, KeyOnce, PendingOnce, AgesPast, PaidCounted, Paid, Counted
  <1>10. CountWithin'
    BY <1>0, <1>7, <1>8 DEF TableInv, CountWithin
  <1>11. OwnRows'
    BY <1>0, <1>3, <1>4 DEF OwnRows, Paying
  <1>12. Alone'
    <2> SUFFICES ASSUME NEW p \in Requests, NEW q \in Requests, p # q, HandlerUnderWay(p)',
                        HandlerUnderWay(q)', request'[p].wallet = request'[q].wallet
                 PROVE  request'[p].wallet \in overlap'
      BY DEF Alone
    <2>1. CASE p # r /\ q # r
      <3>1. request'[p] = request[p] /\ request'[q] = request[q] /\ HandlerUnderWay(p) /\ HandlerUnderWay(q)
        BY <1>4, <1>5, <2>1
      <3> QED BY <1>0, <1>7, <3>1 DEF Alone
    <2>2. ASSUME NEW o \in Requests \ {r}, HandlerUnderWay(o)', request'[o].wallet = w PROVE w \in overlap'
      <3>1. request'[o] = request[o] /\ HandlerUnderWay(o)
        BY <1>4, <1>5, <2>2
      <3> QED BY <1>u, <2>2, <3>1
    <2>3. CASE p = r
      BY <1>3, <1>4, <2>2, <2>3
    <2>4. CASE q = r
      BY <1>3, <1>4, <2>2, <2>4
    <2> QED BY <2>1, <2>3, <2>4
  <1>13. HandlersSound'
    <2> SUFFICES ASSUME NEW q \in Requests PROVE HoldsRow(q)' /\ NotPaidYet(q)' /\ MayInsert(q)'
      BY DEF HandlersSound
    <2>0. HoldsRow(q) /\ NotPaidYet(q) /\ MayInsert(q)
      BY <1>0 DEF HandlersSound
    <2>1. CASE q = r
      BY <1>3, <1>4, <2>1 DEF HoldsRow, NotPaidYet, MayInsert, Paying
    <2>2. CASE q # r
      <3>0. request'[q] = request[q]
        BY <1>4, <2>2
      <3>1. HoldsRow(q)' /\ NotPaidYet(q)'
        BY <1>u, <2>0, <3>0 DEF HoldsRow, NotPaidYet
      <3>2. MayInsert(q)'
        BY <1>7, <1>8, <2>0, <3>0 DEF MayInsert
      <3> QED BY <3>1, <3>2
    <2> QED BY <2>1, <2>2
  <1>14. TableInv'
    BY <1>9, <1>10 DEF TableInv
  <1> QED BY <1>6, <1>11, <1>12, <1>13, <1>14 DEF FaucetInv

\* A handler that answers without a row.
LEMMA AnswersInv ==
  ASSUME FaucetInv, NEW r \in Requests, NEW new \in FaucetHandler, Becomes(r, new), HandlerUnderWay(r),
         new.wallet = request[r].wallet,
         new.pc \in {"answered", "skip", "repeated", "inflight", "count"},
         grants' = grants, transfer' = transfer, age' = age, overlap' = overlap,
         faults' \in Nat, faults' = 0 => faults = 0
  PROVE  FaucetInv'
  BY HandlerOnly DEF Paying

LEMMA ReadBalancesInv ==
  ASSUME FaucetInv, NEW r \in Requests, ReadBalances(r)
  PROVE  FaucetInv'
  <1> DEFINE rich == treasury >= MinFaucet + 1
             counts == [request[r] EXCEPT !.pc = "count", !.rich = rich]
  <1>0. request[r] \in FaucetHandler /\ faults \in Nat
    BY DEF FaucetInv, FaucetTypeOK
  <1>1. HandlerUnderWay(r) /\ grants' = grants /\ transfer' = transfer /\ age' = age /\ overlap' = overlap
        /\ faults' = faults
    BY DEF ReadBalances, HandlerUnderWay
  <1>2. rich \in BOOLEAN
    OBVIOUS
  <1> HIDE DEF rich
  <1>3. counts \in FaucetHandler /\ counts.pc = "count" /\ counts.wallet = request[r].wallet
    BY <1>0, <1>2 DEF FaucetHandler, FaucetPcs
  <1>4. CASE Becomes(r, counts)
    BY <1>0, <1>1, <1>3, <1>4, AnswersInv
  <1>5. CASE Continues(r, "skip")
    <2>1. "skip" \in FaucetPcs
      BY DEF FaucetPcs
    <2> QED BY <1>0, <1>1, <1>5, <2>1, HandlerTyped, AnswersInv DEF Continues
  <1>6. CASE Becomes(r, Answered(request[r], "skipped"))
    <2>1. "skipped" \in Answers
      BY DEF Answers, Statuses
    <2> QED BY <1>0, <1>1, <1>6, <2>1, HandlerTyped, AnswersInv
  <1> QED BY <1>4, <1>5, <1>6 DEF ReadBalances, rich

LEMMA InsertSkippedInv ==
  ASSUME FaucetInv, NEW r \in Requests, InsertSkipped(r)
  PROVE  FaucetInv'
  <1>0. "skipped" \in Answers /\ "error" \in Answers /\ faults \in Nat
    BY DEF Answers, Statuses, FaucetInv, FaucetTypeOK
  <1>1. HandlerUnderWay(r) /\ age' = age /\ overlap' = overlap /\ faults' = faults
    BY DEF InsertSkipped, HandlerUnderWay
  <1>2. CASE /\ Unique(r, "skipped") /\ grants' = Inserted(r, "skipped") /\ transfer' = Append(transfer, "none")
             /\ Becomes(r, Answered(request[r], "skipped"))
    <2> DEFINE new == Answered(request[r], "skipped")
    <2>1. new \in FaucetHandler /\ new.pc = "answered" /\ new.wallet = request[r].wallet
      BY <1>0, HandlerTyped
    <2> HIDE DEF new
    <2>2. Becomes(r, new)
      BY <1>2 DEF new
    <2> QED BY <1>1, <1>2, <2>1, <2>2, InsertionInv
  <1>3. CASE Becomes(r, Answered(request[r], "error")) /\ UNCHANGED << grants, transfer >>
    BY <1>0, <1>1, <1>3, HandlerTyped, AnswersInv
  <1> QED BY <1>2, <1>3 DEF InsertSkipped

\* Between the count and the insertion no other request of the wallet can come in unnoticed.
LEMMA CountWindowsInv ==
  ASSUME FaucetInv, NEW r \in Requests, CountWindows(r)
  PROVE  FaucetInv'
  <1>0. "rate_limited" \in Answers /\ "balance_insufficient" \in Answers /\ "insert" \in FaucetPcs /\ faults \in Nat
    BY DEF Answers, FaucetPcs, FaucetInv, FaucetTypeOK
  <1>1. HandlerUnderWay(r) /\ grants' = grants /\ transfer' = transfer /\ age' = age /\ overlap' = overlap
        /\ faults' = faults
    BY DEF CountWindows, HandlerUnderWay
  <1>2. CASE Becomes(r, Answered(request[r], "rate_limited"))
    BY <1>0, <1>1, <1>2, HandlerTyped, AnswersInv
  <1>3. CASE Becomes(r, Answered(request[r], "balance_insufficient"))
    BY <1>0, <1>1, <1>3, HandlerTyped, AnswersInv
  <1>4. CASE Continues(r, "insert") /\ ~(CountOfWallet(request[r].wallet) >= PerAddress)
    <2> DEFINE new == [request[r] EXCEPT !.pc = "insert"]
    <2>1. new \in FaucetHandler /\ new.pc = "insert" /\ new.wallet = request[r].wallet
      BY <1>0, HandlerTyped
    <2>2. Becomes(r, new)
      BY <1>4 DEF Continues
    <2> HIDE DEF new
    <2>3. CountOfWallet(request[r].wallet) \in Nat /\ PerAddress \in Nat
      BY CountedFinite, FaucetAssumption DEF FaucetInv
    <2>4. CountOfWallet(new.wallet) < PerAddress
      BY <1>4, <2>1, <2>3
    <2> QED BY <1>0, <1>1, <2>1, <2>2, <2>4, HandlerOnly DEF Paying
  <1> QED BY <1>2, <1>3, <1>4 DEF CountWindows

LEMMA InsertPendingInv ==
  ASSUME FaucetInv, NEW r \in Requests, InsertPending(r)
  PROVE  FaucetInv'
  <1>0. {"repeated", "inflight", "send"} \subseteq FaucetPcs /\ faults \in Nat
    BY DEF FaucetPcs, FaucetInv, FaucetTypeOK
  <1>1. request[r].pc = "insert" /\ HandlerUnderWay(r) /\ age' = age /\ overlap' = overlap /\ faults' = faults
    BY DEF InsertPending, HandlerUnderWay
  <1>2. CASE /\ Unique(r, "pending") /\ grants' = Inserted(r, "pending") /\ transfer' = Append(transfer, "none")
             /\ Becomes(r, [request[r] EXCEPT !.pc = "send", !.grant = Len(grants) + 1])
    <2> DEFINE new == [request[r] EXCEPT !.pc = "send", !.grant = Len(grants) + 1]
    <2>0. request[r] \in FaucetHandler /\ Len(grants) + 1 \in Nat
      BY DEF FaucetInv, FaucetTypeOK
    <2>1. new \in FaucetHandler /\ new.pc = "send" /\ new.wallet = request[r].wallet
          /\ new.grant = Len(grants) + 1
      BY <2>0 DEF FaucetHandler, FaucetPcs
    <2> HIDE DEF new
    <2>2. Becomes(r, new)
      BY <1>2 DEF new
    <2> QED BY <1>1, <1>2, <2>1, <2>2, InsertionInv
  <1>3. CASE (\E pc \in {"repeated", "inflight"} : Continues(r, pc)) /\ grants' = grants /\ transfer' = transfer
    <2>1. PICK pc \in {"repeated", "inflight"} : Continues(r, pc)
      BY <1>3
    <2> DEFINE new == [request[r] EXCEPT !.pc = pc]
    <2>2. new \in FaucetHandler /\ new.pc = pc /\ new.wallet = request[r].wallet
      BY <1>0, HandlerTyped
    <2>3. Becomes(r, new)
      BY <2>1 DEF Continues
    <2> HIDE DEF new
    <2> QED BY <1>0, <1>1, <1>3, <2>2, <2>3, AnswersInv
  <1> QED BY <1>2, <1>3 DEF InsertPending

LEMMA LookUpRepeatedInv ==
  ASSUME FaucetInv, NEW r \in Requests, LookUpRepeated(r)
  PROVE  FaucetInv'
  <1>0. "create_failed" \in Answers /\ faults \in Nat /\ request[r] \in FaucetHandler
    BY DEF Answers, FaucetInv, FaucetTypeOK
  <1>1. HandlerUnderWay(r) /\ grants' = grants /\ transfer' = transfer /\ age' = age /\ overlap' = overlap
        /\ faults' = faults
    BY DEF LookUpRepeated, HandlerUnderWay
  <1>2. CASE /\ WithKey(request[r].key) # {}
             /\ Becomes(r, Repeated(request[r], request[r].key, request[r].wallet))
    <2> DEFINE new == Repeated(request[r], request[r].key, request[r].wallet)
    <2>1. new \in FaucetHandler /\ new.pc = "answered" /\ new.wallet = request[r].wallet
      BY <1>0, <1>2, RepeatedTyped
    <2> HIDE DEF new
    <2>2. Becomes(r, new)
      BY <1>2 DEF new
    <2> QED BY <1>0, <1>1, <2>1, <2>2, AnswersInv
  <1>3. CASE Becomes(r, Answered(request[r], "create_failed"))
    BY <1>0, <1>1, <1>3, HandlerTyped, AnswersInv
  <1> QED BY <1>2, <1>3 DEF LookUpRepeated

LEMMA LookUpInFlightInv ==
  ASSUME FaucetInv, NEW r \in Requests, LookUpInFlight(r)
  PROVE  FaucetInv'
  <1>0. "inflight" \in Answers /\ "error" \in Answers /\ faults \in Nat
    BY DEF Answers, FaucetInv, FaucetTypeOK
  <1>1. HandlerUnderWay(r) /\ grants' = grants /\ transfer' = transfer /\ age' = age /\ overlap' = overlap
        /\ faults' = faults
    BY DEF LookUpInFlight, HandlerUnderWay
  <1>2. CASE Becomes(r, Answered(request[r], "inflight"))
    BY <1>0, <1>1, <1>2, HandlerTyped, AnswersInv
  <1>3. CASE Becomes(r, Answered(request[r], "error"))
    BY <1>0, <1>1, <1>3, HandlerTyped, AnswersInv
  <1> QED BY <1>2, <1>3 DEF LookUpInFlight

\* The transfer is sent from a row that is pending, and that no other handler holds.
LEMMA SentInv ==
  ASSUME FaucetInv, NEW r \in Requests, request[r].pc = "send", NEW pc \in {"funded", "failed"},
         Continues(r, pc), pc = "failed" => faults' # 0,
         transfer' = [transfer EXCEPT ![request[r].grant] = "sent"],
         grants' = grants, age' = age, overlap' = overlap, faults' \in Nat, faults' = 0 => faults = 0
  PROVE  FaucetInv'
  <1>0. FaucetTypeOK /\ HandlersSound /\ OwnRows
    BY DEF FaucetInv
  <1>1. PICK i : i = request[r].grant
    OBVIOUS
  <1>2. i \in DOMAIN grants /\ Counted(i)
    BY <1>0, <1>1 DEF HandlersSound, HoldsRow, Paying, Counted
  <1> DEFINE new == [request[r] EXCEPT !.pc = pc]
  <1>3. pc \in FaucetPcs
    BY DEF FaucetPcs
  <1>4. new \in FaucetHandler /\ new.pc = pc /\ new.wallet = request[r].wallet /\ new.grant = i
    BY <1>1, <1>3, HandlerTyped
  <1>5. Becomes(r, new)
    BY DEF Continues
  <1> HIDE DEF new
  <1>6. /\ request' \in [Requests -> FaucetHandler] /\ request'[r] = new
        /\ \A q \in Requests : q # r => request'[q] = request[q]
    BY <1>0, <1>4, <1>5, OneHandler
  <1>7. \A q \in Requests : GoesOnWithRow(q)
    BY <1>1, <1>4, <1>6 DEF GoesOnWithRow, HandlerUnderWay, Paying
  <1>8. \A q \in Requests : LeavesTransfer(q, i)
    <2> SUFFICES ASSUME NEW q \in Requests, faults' = 0, request'[q].pc \in {"send", "failed"}
                 PROVE  request[q].pc = request'[q].pc /\ request[q].grant # i
      BY DEF LeavesTransfer
    <2>1. q # r
      BY <1>4, <1>6
    <2> QED BY <1>0, <1>1, <1>6, <2>1 DEF OwnRows, Paying
  <1> QED BY <1>1, <1>2, <1>6, <1>7, <1>8, PaymentInv

LEMMA SendNativeCurrencyInv ==
  ASSUME FaucetInv, NEW r \in Requests, SendNativeCurrency(r)
  PROVE  FaucetInv'
  <1>0. faults \in Nat /\ "failed" \in FaucetPcs /\ NotPaidYet(r)
    BY DEF FaucetInv, FaucetTypeOK, FaucetPcs, HandlersSound
  <1>1. request[r].pc = "send" /\ HandlerUnderWay(r) /\ grants' = grants /\ age' = age /\ overlap' = overlap
    BY DEF SendNativeCurrency, HandlerUnderWay
  <1>2. CASE /\ transfer' = [transfer EXCEPT ![request[r].grant] = "sent"]
             /\ Continues(r, "funded") /\ faults' = faults
    BY <1>0, <1>1, <1>2, SentInv
  <1>3. CASE /\ faults' = faults + 1 /\ transfer' = [transfer EXCEPT ![request[r].grant] = "sent"]
             /\ Continues(r, "failed")
    <2>1. faults' \in Nat /\ faults' # 0
      BY <1>0, <1>3
    <2> QED BY <1>1, <1>3, <2>1, SentInv
  <1>4. CASE Continues(r, "failed") /\ transfer' = transfer /\ faults' = faults
    <2> DEFINE new == [request[r] EXCEPT !.pc = "failed"]
    <2>1. /\ new \in FaucetHandler /\ new.pc = "failed" /\ new.wallet = request[r].wallet
          /\ new.grant = request[r].grant
      BY <1>0, HandlerTyped
    <2>2. Becomes(r, new)
      BY <1>4 DEF Continues
    <2> HIDE DEF new
    <2>3. faults = 0 => transfer[new.grant] = "none"
      BY <1>0, <1>1, <2>1 DEF NotPaidYet
    <2>4. request[r].pc \in Paying /\ new.pc # "insert"
      BY <1>1, <2>1 DEF Paying
    <2> QED BY <1>0, <1>1, <1>4, <2>1, <2>2, <2>3, <2>4, HandlerOnly
  <1> QED BY <1>2, <1>3, <1>4 DEF SendNativeCurrency

LEMMA RecordFundedInv ==
  ASSUME FaucetInv, NEW r \in Requests, RecordFunded(r)
  PROVE  FaucetInv'
  <1>0. faults \in Nat /\ "failed" \in FaucetPcs /\ "funded" \in Answers
    BY DEF FaucetInv, FaucetTypeOK, FaucetPcs, Answers, Statuses
  <1>1. /\ request[r].pc = "funded" /\ HandlerUnderWay(r) /\ transfer' = transfer /\ age' = age
        /\ overlap' = overlap
    BY DEF RecordFunded, HandlerUnderWay
  <1>2. CASE /\ grants' = [grants EXCEPT ![request[r].grant].status = "funded"]
             /\ Becomes(r, Answered(request[r], "funded")) /\ faults' = faults
    <2> DEFINE new == Answered(request[r], "funded")
    <2>1. new \in FaucetHandler /\ new.pc = "answered" /\ new.wallet = request[r].wallet
      BY <1>0, HandlerTyped
    <2> HIDE DEF new
    <2>2. Becomes(r, new)
      BY <1>2 DEF new
    <2> QED BY <1>1, <1>2, <2>1, <2>2, RecordInv
  <1>3. CASE faults' = faults + 1 /\ Continues(r, "failed") /\ grants' = grants
    <2> DEFINE new == [request[r] EXCEPT !.pc = "failed"]
    <2>1. /\ new \in FaucetHandler /\ new.pc = "failed" /\ new.wallet = request[r].wallet
          /\ new.grant = request[r].grant
      BY <1>0, HandlerTyped
    <2>2. Becomes(r, new)
      BY <1>3 DEF Continues
    <2> HIDE DEF new
    <2>3. faults' \in Nat /\ faults' # 0
      BY <1>0, <1>3
    <2>4. request[r].pc \in Paying /\ new.pc # "insert"
      BY <1>1, <2>1 DEF Paying
    <2> QED BY <1>1, <1>3, <2>1, <2>2, <2>3, <2>4, HandlerOnly
  <1> QED BY <1>2, <1>3 DEF RecordFunded

LEMMA RecordFailedInv ==
  ASSUME FaucetInv, NEW r \in Requests, RecordFailed(r)
  PROVE  FaucetInv'
  <1>0. faults \in Nat /\ "failed" \in Answers /\ "error" \in Answers
    BY DEF FaucetInv, FaucetTypeOK, Answers, Statuses
  <1>1. /\ request[r].pc = "failed" /\ HandlerUnderWay(r) /\ transfer' = transfer /\ age' = age
        /\ overlap' = overlap
    BY DEF RecordFailed, HandlerUnderWay
  <1>2. CASE /\ grants' = [grants EXCEPT ![request[r].grant].status = "failed"]
             /\ Becomes(r, Answered(request[r], "failed")) /\ faults' = faults
    <2> DEFINE new == Answered(request[r], "failed")
    <2>1. new \in FaucetHandler /\ new.pc = "answered" /\ new.wallet = request[r].wallet
      BY <1>0, HandlerTyped
    <2> HIDE DEF new
    <2>2. Becomes(r, new)
      BY <1>2 DEF new
    <2> QED BY <1>1, <1>2, <2>1, <2>2, RecordInv
  <1>3. CASE faults' = faults + 1 /\ Becomes(r, Answered(request[r], "error")) /\ grants' = grants
    <2>1. faults' \in Nat /\ faults' # 0
      BY <1>0, <1>3
    <2> QED BY <1>0, <1>1, <1>3, <2>1, HandlerTyped, AnswersInv
  <1> QED BY <1>2, <1>3 DEF RecordFailed

\* The server ends, a transfer is mined, a window passes.
LEMMA CrashInv ==
  ASSUME FaucetInv, Crash
  PROVE  FaucetInv'
  <1>0. /\ grants' = grants /\ transfer' = transfer /\ overlap' = overlap /\ faults' = faults /\ age' = age
        /\ age \in Nat /\ request \in [Requests -> FaucetHandler] /\ "lost" \in FaucetPcs
    BY DEF Crash, FaucetInv, FaucetTypeOK, FaucetPcs
  <1>1. \A q \in Requests : /\ request'[q] = request[q] \/ request'[q].pc = "lost"
                            /\ request'[q] \in FaucetHandler
    <2> SUFFICES ASSUME NEW q \in Requests
                 PROVE  /\ request'[q] = request[q] \/ request'[q].pc = "lost"
                        /\ request'[q] \in FaucetHandler
      OBVIOUS
    <2>1. request'[q] = request[q] \/ request'[q] = [request[q] EXCEPT !.pc = "lost"]
      BY DEF Crash
    <2> DEFINE lost == [request[q] EXCEPT !.pc = "lost"]
    <2>2. lost \in FaucetHandler /\ lost.pc = "lost"
      BY <1>0, HandlerTyped
    <2>3. request'[q] = request[q] \/ request'[q] = lost
      BY <2>1
    <2> HIDE DEF lost
    <2> QED BY <1>0, <2>2, <2>3
  <1>2. request' \in [Requests -> FaucetHandler]
    <2>1. request' = [q \in Requests |-> request'[q]]
      BY DEF Crash
    <2> QED BY <1>1, <2>1
  <1>3. age >= age
    BY <1>0
  <1> QED BY <1>0, <1>1, <1>2, <1>3, EndedOrOlder

LEMMA MinedInv ==
  ASSUME FaucetInv, NEW i \in DOMAIN grants, Mined(i)
  PROVE  FaucetInv'
  <1>0. FaucetTypeOK /\ HandlersSound /\ PaidCounted
    BY DEF FaucetInv, TableInv
  <1>1. /\ transfer[i] = "sent" /\ transfer' = [transfer EXCEPT ![i] = "mined"]
        /\ grants' = grants /\ request' = request /\ faults' = faults /\ age' = age /\ overlap' = overlap
    BY DEF Mined
  <1>2. faults' \in Nat /\ request' \in [Requests -> FaucetHandler]
    BY <1>0, <1>1 DEF FaucetTypeOK
  <1>3. faults' = 0 => faults = 0 /\ Counted(i)
    BY <1>0, <1>1 DEF PaidCounted, Paid
  <1>4. \A q \in Requests : GoesOnWithRow(q)
    BY <1>1 DEF GoesOnWithRow, HandlerUnderWay
  <1>5. \A q \in Requests : LeavesTransfer(q, i)
    BY <1>0, <1>1 DEF LeavesTransfer, HandlersSound, NotPaidYet
  <1> QED BY <1>1, <1>2, <1>3, <1>4, <1>5, PaymentInv

LEMMA OlderInv ==
  ASSUME FaucetInv, grants' = grants, transfer' = transfer, overlap' = overlap, faults' = faults,
         request' = request, age' = age \/ age' = age + 1
  PROVE  FaucetInv'
  <1>1. age \in Nat /\ request' \in [Requests -> FaucetHandler]
    BY DEF FaucetInv, FaucetTypeOK
  <1>2. age' \in Nat /\ age' >= age
    BY <1>1
  <1> QED BY <1>1, <1>2, EndedOrOlder

LEMMA FaucetNextInv == FaucetInv /\ [FaucetNext]_faucetVars => FaucetInv'
  <1> SUFFICES ASSUME FaucetInv, [FaucetNext]_faucetVars PROVE FaucetInv'
    OBVIOUS
  <1>1. ASSUME NEW r \in Requests, Handle(r) PROVE FaucetInv'
    BY <1>1, ReceiveInv, ReadBalancesInv, InsertSkippedInv, CountWindowsInv, InsertPendingInv,
       LookUpRepeatedInv, LookUpInFlightInv, SendNativeCurrencyInv, RecordFundedInv, RecordFailedInv
    DEF Handle
  <1>2. CASE WindowPasses
    BY <1>2, OlderInv DEF WindowPasses
  <1>3. ASSUME NEW w \in Wallets, Spend(w) PROVE FaucetInv'
    BY <1>3, OlderInv DEF Spend
  <1>4. CASE UNCHANGED faucetVars
    BY <1>4, OlderInv DEF faucetVars
  <1> QED BY <1>1, <1>2, <1>3, <1>4, CrashInv, MinedInv DEF FaucetNext

LEMMA FaucetAlwaysSound == FaucetSpec => []FaucetInv
  <1> QED BY FaucetInitInv, FaucetNextInv, PTL DEF FaucetSpec

\* Over retries, concurrent requests and crashes a key is paid once at most, and no two requests pay one
\* wallet at a time (agent-api/server.ts POST /agent/onboard/fund and the indexes of
\* mcp_onboard_faucet_grants).
THEOREM FaucetAlwaysPaysOnce == FaucetSpec => []PaidOnce
  <1>1. FaucetInv => PaidOnce
    <2> SUFFICES ASSUME FaucetInv PROVE PaidOnce
      OBVIOUS
    <2>0. FaucetTypeOK /\ KeyOnce /\ PendingOnce /\ HandlersSound /\ OwnRows
      BY DEF FaucetInv, TableInv
    <2>1. ASSUME NEW k \in Keys PROVE Cardinality({i \in WithKey(k) : Paid(i)}) <= 1
      <3> DEFINE S == {i \in WithKey(k) : Paid(i)}
      <3>1. \A i, j \in S : i = j
        BY <2>0 DEF KeyOnce, WithKey
      <3>2. CASE S = {}
        BY <3>2, FS_EmptySet
      <3>3. CASE S # {}
        <4>1. PICK i : i \in S
          BY <3>3
        <4>2. S = {i}
          BY <3>1, <4>1
        <4> HIDE DEF S
        <4>3. Cardinality({i}) = 1
          BY FS_Singleton
        <4> QED BY <4>2, <4>3 DEF S
      <3> QED BY <3>2, <3>3
    <2>2. ASSUME NEW r \in Requests, NEW q \in Requests, r # q,
                 {request[r].pc, request[q].pc} \subseteq {"send", "funded"}
          PROVE  request[r].wallet # request[q].wallet
      <3>1. request[r].pc \in Paying /\ request[q].pc \in Paying
        BY <2>2 DEF Paying
      <3>2. HoldsRow(r) /\ HoldsRow(q) /\ request[r].grant # request[q].grant
        BY <2>0, <2>2, <3>1 DEF HandlersSound, OwnRows
      <3> QED BY <2>0, <3>1, <3>2 DEF HoldsRow, PendingOnce
    <2> QED BY <2>1, <2>2 DEF PaidOnce
  <1> QED BY <1>1, FaucetAlwaysSound, PTL

\* While no answer is lost, requests of a wallet that never overlap keep within its limit of payments in
\* a window, whatever crashes between them.
THEOREM FaucetAlwaysWithinLimit == FaucetSpec => []WithinLimit
  <1>1. FaucetInv => WithinLimit
    <2> SUFFICES ASSUME FaucetInv, faults = 0, NEW w \in Wallets \ overlap
                 PROVE  Cardinality({i \in DOMAIN grants : grants[i].wallet = w /\ Paid(i) /\ InLimitWindow(i)})
                          <= PerAddress
      BY DEF WithinLimit
    <2> DEFINE S == {i \in DOMAIN grants : grants[i].wallet = w /\ Paid(i) /\ InLimitWindow(i)}
    <2>0. FaucetTypeOK /\ PaidCounted /\ CountWithin
      BY DEF FaucetInv, TableInv
    <2>1. S \subseteq CountedOf(w)
      BY <2>0 DEF PaidCounted, CountedOf
    <2> HIDE DEF S
    <2>2. IsFiniteSet(CountedOf(w)) /\ Cardinality(CountedOf(w)) = CountOfWallet(w) /\ CountOfWallet(w) \in Nat
      BY <2>0, CountedFinite
    <2>3. IsFiniteSet(S) /\ Cardinality(S) <= Cardinality(CountedOf(w))
      BY <2>1, <2>2, FS_Subset
    <2>4. Cardinality(S) \in Nat /\ PerAddress \in Nat
      BY <2>3, FS_CardinalityType, FaucetAssumption
    <2>5. CountOfWallet(w) <= PerAddress
      BY <2>0 DEF CountWithin
    <2>6. Cardinality(S) <= PerAddress
      BY <2>2, <2>3, <2>4, <2>5
    <2> QED BY <2>6 DEF S
  <1> QED BY <1>1, FaucetAlwaysSound, PTL

-----------------------------------------------------------------------------
(***************************************************************************)
(* EquipBest: while the wallet sends nothing its items keep their places   *)
(* in the enumeration, so that the walk by index meets every item that was *)
(* there when the count was read, and the pick of a slot is at least as    *)
(* good as each steady item of that slot already passed.                   *)
(***************************************************************************)

Walking == step \in {"token", "location", "send", "done"}

SteadyInHand ==
  \A i \in steady : /\ ownerOf[i] = Wallet /\ i \in InReach /\ Free(i)
                    /\ ownedTokensIndex[i] <= count
BestOf(i)  == pick[SlotOf[i]] # NoPick /\ Score[pick[SlotOf[i]]] >= Score[i]
PassedBest == \A i \in steady : ownedTokensIndex[i] < index => BestOf(i)
AtHand     == step = "location" => ownerOf[token] = Wallet /\ ownedTokensIndex[token] = index
Through    == step \in {"send", "done"} => index > count
WalkSound  == Walking /\ ~anySent => SteadyInHand /\ PassedBest /\ AtHand /\ Through

WearTypeOK ==
  /\ worn \in [ItemIds -> {"not", "here", "elsewhere"}]
  /\ count \in Nat /\ index \in Nat
  /\ pick \in [Slots -> ItemIds \cup {NoPick}]
  /\ steady \subseteq ItemIds
  /\ step \in {"token", "location"} => index >= 1
  /\ step = "location" => token \in ItemIds
PicksFit == \A s \in Slots : pick[s] # NoPick => SlotOf[pick[s]] = s

WearInv == ItemsInv /\ WearTypeOK /\ PicksFit /\ WalkSound

\* What the wallet holds stays where it is.
PlacesKept ==
  \A j \in ItemIds : ownerOf[j] = Wallet => ownerOf'[j] = Wallet /\ ownedTokensIndex'[j] = ownedTokensIndex[j]

LEMMA MintKeepsPlaces ==
  ASSUME ItemsInv, NEW a \in Accounts, Mint(a)
  PROVE  PlacesKept
  <1>1. nextTokenId \in ItemIds /\ ownerOf[nextTokenId] = Nobody
    BY ItemsAssumption DEF ItemsInv, ItemsTypeOK, Unminted, Mint, ItemIds
  <1>2. Wallet # Nobody
    BY EquipBestAssumption, ItemsAssumption
  <1>3. \A j \in ItemIds : j # nextTokenId =>
          ownerOf'[j] = ownerOf[j] /\ ownedTokensIndex'[j] = ownedTokensIndex[j]
    BY <1>1 DEF Mint, ItemsInv, ItemsTypeOK
  <1> QED BY <1>1, <1>2, <1>3 DEF PlacesKept

\* A transfer from another account moves only items of that account.
LEMMA TransferKeepsPlaces ==
  ASSUME ItemsInv, NEW from \in Accounts, NEW to \in Accounts, NEW i \in ItemIds, from # Wallet,
         TransferFrom(from, to, i)
  PROVE  PlacesKept
  <1> DEFINE s    == ownedTokens[from]
             last == s[Len(s)]
  <1>0. ItemsTypeOK /\ EnumerationExact /\ ownerOf[i] = from /\ from # Nobody
    BY ItemsAssumption DEF ItemsInv, TransferFrom
  <1>1. s \in Seq(ItemIds) /\ ownedTokensIndex[i] \in DOMAIN s
    BY <1>0 DEF ItemsTypeOK, EnumerationExact
  <1>2. Len(s) \in DOMAIN s
    BY <1>1
  <1>3. last \in ItemIds /\ ownerOf[last] = from
    BY <1>0, <1>1, <1>2 DEF EnumerationExact
  <1>4. ownerOf' = [ownerOf EXCEPT ![i] = to]
    BY DEF TransferFrom
  <1>5. \E p, q : ownedTokensIndex' = [[ownedTokensIndex EXCEPT ![last] = p, ![i] = 0] EXCEPT ![i] = q]
    BY DEF TransferFrom, RemovedIndexes, LastToken
  <1> HIDE DEF last, s
  <1>6. \A j \in ItemIds : j # i /\ j # last =>
          ownerOf'[j] = ownerOf[j] /\ ownedTokensIndex'[j] = ownedTokensIndex[j]
    BY <1>0, <1>3, <1>4, <1>5 DEF ItemsTypeOK
  <1> QED BY <1>0, <1>3, <1>6 DEF PlacesKept

LEMMA WearInitInv == EquipBestInit => WearInv
  <1> SUFFICES ASSUME EquipBestInit PROVE WearInv
    OBVIOUS
  <1>1. ItemsInv
    BY ItemsInitInv DEF EquipBestInit
  <1>2. WearTypeOK
    BY DEF EquipBestInit, WearTypeOK
  <1>3. PicksFit /\ WalkSound
    BY DEF EquipBestInit, PicksFit, WalkSound, Walking
  <1> QED BY <1>1, <1>2, <1>3 DEF WearInv

\* A step of the others, between two of the action's reads.
LEMMA OthersMove ==
  ASSUME WearInv, ItemsInv', UNCHANGED readVars, worn' \in [ItemIds -> {"not", "here", "elsewhere"}],
         steady' \subseteq steady, \A j \in steady' : Free(j) => Free(j)',
         ~anySent' => ~anySent /\ PlacesKept
  PROVE  WearInv'
  <1>0. WearTypeOK /\ PicksFit /\ WalkSound
    BY DEF WearInv
  <1>1. step' = step /\ count' = count /\ index' = index /\ token' = token /\ pick' = pick
    BY DEF readVars
  <1>2. WearTypeOK'
    BY <1>0, <1>1 DEF WearTypeOK
  <1>3. PicksFit'
    BY <1>0, <1>1 DEF PicksFit
  <1>4. WalkSound'
    <2> SUFFICES ASSUME Walking, ~anySent'
                 PROVE  SteadyInHand' /\ PassedBest' /\ AtHand' /\ Through'
      BY <1>1 DEF WalkSound, Walking
    <2>1. SteadyInHand /\ PassedBest /\ AtHand /\ Through /\ PlacesKept
      BY <1>0 DEF WalkSound
    <2>2. \A i \in steady' : /\ i \in steady /\ i \in ItemIds /\ ownerOf'[i] = Wallet
                             /\ ownedTokensIndex'[i] = ownedTokensIndex[i]
      BY <1>0, <2>1 DEF SteadyInHand, PlacesKept, WearTypeOK
    <2>3. SteadyInHand'
      BY <1>1, <2>1, <2>2 DEF SteadyInHand
    <2>4. PassedBest'
      BY <1>1, <2>1, <2>2 DEF PassedBest, BestOf
    <2>5. AtHand'
      BY <1>0, <1>1, <2>1 DEF AtHand, PlacesKept, WearTypeOK
    <2>6. Through'
      BY <1>1, <2>1 DEF Through
    <2> QED BY <2>3, <2>4, <2>5, <2>6
  <1> QED BY <1>2, <1>3, <1>4 DEF WearInv

\* What is put on here is free for the action, and an item put on elsewhere is the only one that is not.
LEMMA PutOnTyped ==
  ASSUME worn \in [ItemIds -> {"not", "here", "elsewhere"}], NEW S, NEW place \in {"here", "elsewhere"},
         NEW new, new = PutOn(S, place)
  PROVE  /\ new \in [ItemIds -> {"not", "here", "elsewhere"}]
         /\ \A j \in ItemIds : worn[j] # "elsewhere" /\ (place = "here" \/ j \notin S) => new[j] # "elsewhere"
  BY DEF PutOn

LEMMA LootedInv ==
  ASSUME WearInv, NEW a \in Accounts, Looted(a)
  PROVE  WearInv'
  <1>1. /\ Mint(a) /\ worn' = worn /\ UNCHANGED readVars /\ steady' = steady /\ anySent' = anySent /\ ItemsInv
        /\ worn \in [ItemIds -> {"not", "here", "elsewhere"}]
    BY DEF Looted, WearInv, WearTypeOK
  <1>2. ItemsInv' /\ PlacesKept
    BY <1>1, MintInv, MintKeepsPlaces
  <1>3. \A j \in steady' : Free(j) => Free(j)'
    BY <1>1 DEF Free
  <1> QED BY <1>1, <1>2, <1>3, OthersMove

LEMMA ItemTransferredInv ==
  ASSUME WearInv, NEW from \in Accounts, NEW to \in Accounts, NEW i \in ItemIds, ItemTransferred(from, to, i)
  PROVE  WearInv'
  <1>1. /\ TransferFrom(from, to, i) /\ UNCHANGED readVars
        /\ \/ worn' = worn /\ steady' = steady
           \/ worn' = [worn EXCEPT ![i] = "not"] /\ steady' = steady \ {i}
        /\ anySent' = (anySent \/ from = Wallet)
    BY DEF ItemTransferred
  <1>2. ItemsInv /\ worn \in [ItemIds -> {"not", "here", "elsewhere"}] /\ steady \subseteq ItemIds
    BY DEF WearInv, WearTypeOK
  <1>3. ItemsInv'
    BY <1>1, <1>2, TransferInv
  <1>4. ~anySent' => ~anySent /\ PlacesKept
    BY <1>1, <1>2, TransferKeepsPlaces
  <1>5. worn' \in [ItemIds -> {"not", "here", "elsewhere"}] /\ \A j \in ItemIds : j # i => worn'[j] = worn[j]
    BY <1>1, <1>2
  <1>6. steady' \subseteq steady /\ \A j \in steady' : Free(j) => Free(j)'
    BY <1>1, <1>2, <1>5 DEF Free
  <1> QED BY <1>1, <1>3, <1>4, <1>5, <1>6, OthersMove

LEMMA ItemsStay ==
  ASSUME ItemsInv, UNCHANGED itemsVars
  PROVE  ItemsInv' /\ PlacesKept
  <1>1. /\ nextTokenId' = nextTokenId /\ ownerOf' = ownerOf /\ ownedTokens' = ownedTokens
        /\ ownedTokensIndex' = ownedTokensIndex
    BY DEF itemsVars
  <1> QED BY <1>1 DEF PlacesKept, ItemsInv, ItemsTypeOK, Unminted, EnumerationExact

LEMMA WornElsewhereInv ==
  ASSUME WearInv, NEW i \in ItemIds, WornElsewhere(i)
  PROVE  WearInv'
  <1>1. /\ worn' = PutOn({i}, "elsewhere") /\ UNCHANGED readVars /\ UNCHANGED itemsVars
        /\ steady' = steady \ {i} /\ anySent' = anySent
    BY DEF WornElsewhere
  <1>2. ItemsInv /\ worn \in [ItemIds -> {"not", "here", "elsewhere"}] /\ steady \subseteq ItemIds
    BY DEF WearInv, WearTypeOK
  <1>3. ItemsInv' /\ PlacesKept
    BY <1>1, <1>2, ItemsStay
  <1>4. /\ worn' \in [ItemIds -> {"not", "here", "elsewhere"}]
        /\ \A j \in ItemIds : worn[j] # "elsewhere" /\ j \notin {i} => worn'[j] # "elsewhere"
    BY <1>1, <1>2, PutOnTyped
  <1>5. steady' \subseteq steady /\ \A j \in steady' : Free(j) => Free(j)'
    BY <1>1, <1>2, <1>4 DEF Free
  <1> QED BY <1>1, <1>3, <1>4, <1>5, OthersMove

\* The items in hand when the count is read are within it, and none is passed.
LEMMA ReadCountInv ==
  ASSUME WearInv, ReadCount
  PROVE  WearInv'
  <1>0. ItemsInv /\ WearTypeOK /\ PicksFit
    BY DEF WearInv
  <1>1. /\ count' = Len(ownedTokens[Wallet]) /\ index' = 1 /\ step' \in {"send", "token"}
        /\ step' = "send" => count' = 0
        /\ steady' = {i \in InHand \cap InReach : Free(i)} /\ anySent' = FALSE
        /\ UNCHANGED itemsVars /\ worn' = worn /\ token' = token /\ pick' = pick
    BY DEF ReadCount
  <1>2. ItemsInv' /\ ownerOf' = ownerOf /\ ownedTokensIndex' = ownedTokensIndex
    BY <1>0, <1>1, ItemsStay DEF itemsVars
  <1>3. \A i \in InHand : /\ i \in ItemIds /\ ownerOf[i] = Wallet
                          /\ ownedTokensIndex[i] \in Nat /\ ownedTokensIndex[i] >= 1
                          /\ ownedTokensIndex[i] <= Len(ownedTokens[Wallet])
    <2> SUFFICES ASSUME NEW i \in ItemIds, ownerOf[i] = Wallet
                 PROVE  /\ ownedTokensIndex[i] \in Nat /\ ownedTokensIndex[i] >= 1
                        /\ ownedTokensIndex[i] <= Len(ownedTokens[Wallet])
      BY DEF InHand
    <2>1. Wallet \in Accounts /\ Wallet # Nobody
      BY EquipBestAssumption, ItemsAssumption
    <2>2. ownedTokens[Wallet] \in Seq(ItemIds) /\ ownedTokensIndex[i] \in DOMAIN ownedTokens[Wallet]
      BY <1>0, <2>1 DEF ItemsInv, ItemsTypeOK, EnumerationExact
    <2> QED BY <2>2, RowOf
  <1>4. ownedTokens[Wallet] \in Seq(ItemIds)
    BY <1>0, EquipBestAssumption DEF ItemsInv, ItemsTypeOK
  <1>5. count' \in Nat /\ index' \in Nat /\ index' >= 1 /\ (step' = "send" => index' > count')
    BY <1>1, <1>4
  <1>6. steady' \subseteq ItemIds
    BY <1>1 DEF InHand
  <1>7. WearTypeOK'
    BY <1>0, <1>1, <1>5, <1>6 DEF WearTypeOK
  <1>8. PicksFit'
    BY <1>0, <1>1 DEF PicksFit
  <1>9. SteadyInHand'
    BY <1>1, <1>2, <1>3 DEF SteadyInHand, Free
  <1>10. PassedBest'
    <2> SUFFICES ASSUME NEW i \in steady', ownedTokensIndex'[i] < index' PROVE FALSE
      BY DEF PassedBest
    <2>1. ownedTokensIndex[i] \in Nat /\ ownedTokensIndex[i] >= 1
      BY <1>1, <1>3
    <2> QED BY <1>1, <1>2, <2>1
  <1>11. AtHand' /\ Through'
    BY <1>1, <1>5 DEF AtHand, Through
  <1>12. WalkSound'
    BY <1>9, <1>10, <1>11 DEF WalkSound
  <1> QED BY <1>2, <1>7, <1>8, <1>12 DEF WearInv

\* An index is passed: the steady item there, if any, has its match among the picks.
LEMMA PassedOne ==
  ASSUME WearInv, step \in {"token", "location"}, Skipped(index + 1), UNCHANGED << itemsVars, worn, count, steady, anySent >>,
         pick' \in [Slots -> ItemIds \cup {NoPick}], PicksFit',
         ~anySent => /\ \A i \in steady : BestOf(i) => BestOf(i)'
                     /\ \A i \in steady : ownedTokensIndex[i] = index => BestOf(i)'
  PROVE  WearInv'
  <1>0. ItemsInv /\ WearTypeOK /\ WalkSound
    BY DEF WearInv
  <1>1. /\ index' = index + 1 /\ step' \in {"send", "token"} /\ (step' = "send" => index + 1 > count)
        /\ worn' = worn /\ count' = count /\ steady' = steady /\ anySent' = anySent /\ UNCHANGED itemsVars
    BY DEF Skipped
  <1>2. ItemsInv' /\ ownerOf' = ownerOf /\ ownedTokensIndex' = ownedTokensIndex
    BY <1>0, <1>1, ItemsStay DEF itemsVars
  <1>3. index \in Nat /\ index' \in Nat /\ index' >= 1
    BY <1>0, <1>1 DEF WearTypeOK
  <1>4. WearTypeOK'
    BY <1>0, <1>1, <1>3 DEF WearTypeOK
  <1>5. WalkSound'
    <2> SUFFICES ASSUME ~anySent PROVE SteadyInHand' /\ PassedBest' /\ AtHand' /\ Through'
      BY <1>1 DEF WalkSound
    <2>1. SteadyInHand /\ PassedBest
      BY <1>0 DEF WalkSound, Walking
    <2>2. SteadyInHand'
      BY <1>1, <1>2, <2>1 DEF SteadyInHand, Free
    <2>3. PassedBest'
      <3> SUFFICES ASSUME NEW i \in steady, ownedTokensIndex[i] < index + 1 PROVE BestOf(i)'
        BY <1>1, <1>2 DEF PassedBest
      <3>1. ownedTokensIndex[i] \in Nat
        BY <1>0 DEF ItemsInv, ItemsTypeOK, WearTypeOK
      <3>2. ownedTokensIndex[i] < index \/ ownedTokensIndex[i] = index
        BY <1>3, <3>1
      <3> QED BY <2>1, <3>2 DEF PassedBest
    <2>4. AtHand' /\ Through'
      BY <1>1 DEF AtHand, Through
    <2> QED BY <2>2, <2>3, <2>4
  <1> QED BY <1>2, <1>4, <1>5 DEF WearInv

\* The wallet's array shows at each index the item whose place that is.
LEMMA ItemAtIndex ==
  ASSUME WearInv, index >= 1, ~(index > Len(ownedTokens[Wallet]))
  PROVE  /\ ownedTokens[Wallet][index] \in ItemIds
         /\ ownerOf[ownedTokens[Wallet][index]] = Wallet
         /\ ownedTokensIndex[ownedTokens[Wallet][index]] = index
         /\ \A i \in ItemIds : ownerOf[i] = Wallet /\ ownedTokensIndex[i] = index => i = ownedTokens[Wallet][index]
  <1>0. ItemsTypeOK /\ EnumerationExact /\ index \in Nat /\ Wallet \in Accounts /\ Wallet # Nobody
    BY EquipBestAssumption, ItemsAssumption DEF WearInv, ItemsInv, WearTypeOK
  <1>1. ownedTokens[Wallet] \in Seq(ItemIds)
    BY <1>0 DEF ItemsTypeOK
  <1>2. index \in DOMAIN ownedTokens[Wallet]
    BY <1>0, <1>1
  <1>3. ownedTokens[Wallet][index] \in ItemIds
    BY <1>1, <1>2, RowOf
  <1> QED BY <1>0, <1>2, <1>3 DEF EnumerationExact

LEMMA ReadTokenInv ==
  ASSUME WearInv, ReadToken
  PROVE  WearInv'
  <1>0. ItemsInv /\ WearTypeOK /\ PicksFit /\ WalkSound
    BY DEF WearInv
  <1>1. /\ step = "token" /\ UNCHANGED itemsVars /\ worn' = worn /\ count' = count /\ pick' = pick
        /\ steady' = steady /\ anySent' = anySent
    BY DEF ReadToken
  <1>2. ItemsInv' /\ ownerOf' = ownerOf /\ ownedTokensIndex' = ownedTokensIndex
    BY <1>0, <1>1, ItemsStay DEF itemsVars
  <1>3. PicksFit' /\ index >= 1
    BY <1>0, <1>1 DEF PicksFit, WearTypeOK
  <1>4. CASE step' = "failed" /\ UNCHANGED << index, token >>
    <2>1. WearTypeOK'
      BY <1>0, <1>1, <1>4 DEF WearTypeOK
    <2>2. WalkSound'
      BY <1>4 DEF WalkSound, Walking
    <2> QED BY <1>2, <1>3, <2>1, <2>2 DEF WearInv
  <1>5. CASE ~(index > Len(ownedTokens[Wallet])) /\ token' = ownedTokens[Wallet][index]
    <2>1. /\ token' \in ItemIds /\ ownerOf[token'] = Wallet /\ ownedTokensIndex[token'] = index
          /\ \A i \in ItemIds : ownerOf[i] = Wallet /\ ownedTokensIndex[i] = index => i = token'
      BY <1>3, <1>5, ItemAtIndex
    <2>2. CASE token' \in InReach /\ step' = "location" /\ index' = index
      <3>1. WearTypeOK'
        BY <1>0, <1>1, <1>3, <2>1, <2>2 DEF WearTypeOK
      <3>2. WalkSound'
        <4> SUFFICES ASSUME ~anySent PROVE SteadyInHand' /\ PassedBest' /\ AtHand' /\ Through'
          BY <1>1 DEF WalkSound
        <4>1. SteadyInHand /\ PassedBest
          BY <1>0, <1>1 DEF WalkSound, Walking
        <4>2. SteadyInHand'
          BY <1>1, <1>2, <4>1 DEF SteadyInHand, Free
        <4>3. PassedBest'
          BY <1>1, <1>2, <2>2, <4>1 DEF PassedBest, BestOf
        <4>4. AtHand' /\ Through'
          BY <1>2, <2>1, <2>2 DEF AtHand, Through
        <4> QED BY <4>2, <4>3, <4>4
      <3> QED BY <1>2, <1>3, <3>1, <3>2 DEF WearInv
    <2>3. CASE token' \notin InReach /\ Skipped(index + 1)
      <3>1. \A i \in steady : BestOf(i) => BestOf(i)'
        BY <1>1 DEF BestOf
      <3>2. ~anySent => \A i \in steady : ownedTokensIndex[i] # index
        BY <1>0, <1>1, <2>1, <2>3 DEF WalkSound, Walking, SteadyInHand, WearTypeOK
      <3>3. pick' \in [Slots -> ItemIds \cup {NoPick}]
        BY <1>0, <1>1 DEF WearTypeOK
      <3> QED BY <1>1, <1>3, <2>3, <3>1, <3>2, <3>3, PassedOne
    <2> QED BY <1>5, <2>2, <2>3 DEF ReadToken
  <1> QED BY <1>4, <1>5 DEF ReadToken

LEMMA ReadLocationInv ==
  ASSUME WearInv, ReadLocation
  PROVE  WearInv'
  <1>0. ItemsInv /\ WearTypeOK /\ PicksFit /\ WalkSound
    BY DEF WearInv
  <1>1. /\ step = "location" /\ UNCHANGED << itemsVars, worn, count, steady, anySent >> /\ Skipped(index + 1)
        /\ Free(token) /\ Better(token) => pick' = [pick EXCEPT ![SlotOf[token]] = token]
        /\ ~(Free(token) /\ Better(token)) => pick' = pick
    BY DEF ReadLocation
  <1>2. token \in ItemIds /\ SlotOf[token] \in Slots /\ pick \in [Slots -> ItemIds \cup {NoPick}]
    BY <1>0, <1>1 DEF WearTypeOK, Slots
  <1>3. /\ pick' \in [Slots -> ItemIds \cup {NoPick}]
        /\ \A s \in Slots : s # SlotOf[token] => pick'[s] = pick[s]
        /\ Free(token) /\ Better(token) => pick'[SlotOf[token]] = token
        /\ ~(Free(token) /\ Better(token)) => pick'[SlotOf[token]] = pick[SlotOf[token]]
    <2>1. CASE Free(token) /\ Better(token)
      BY <1>1, <1>2, <2>1
    <2>2. CASE ~(Free(token) /\ Better(token))
      BY <1>1, <1>2, <2>2
    <2> QED BY <2>1, <2>2
  <1>4. PicksFit'
    BY <1>0, <1>2, <1>3 DEF PicksFit
  <1>5. token # NoPick /\ \A s \in Slots : pick[s] # NoPick => pick[s] \in ItemIds
    BY <1>2 DEF NoPick, ItemIds
  <1>6. \A i \in ItemIds : Score[i] \in Nat /\ SlotOf[i] \in Slots
    BY EquipBestAssumption DEF Slots
  <1>7. ASSUME NEW i \in ItemIds, BestOf(i) PROVE BestOf(i)'
    <2>1. CASE SlotOf[i] # SlotOf[token] \/ ~(Free(token) /\ Better(token))
      BY <1>3, <1>6, <1>7, <2>1 DEF BestOf
    <2>2. CASE SlotOf[i] = SlotOf[token] /\ Free(token) /\ Better(token)
      <3>1. pick[SlotOf[i]] \in ItemIds /\ Score[pick[SlotOf[i]]] >= Score[i] /\ pick[SlotOf[i]] # NoPick
        BY <1>5, <1>6, <1>7 DEF BestOf
      <3>2. Score[token] > Score[pick[SlotOf[i]]]
        BY <2>2, <3>1 DEF Better
      <3>3. Score[token] >= Score[i]
        BY <1>2, <1>6, <3>1, <3>2
      <3> QED BY <1>3, <1>5, <2>2, <3>3 DEF BestOf
    <2> QED BY <2>1, <2>2
  <1>8. ASSUME Free(token)
        PROVE  pick'[SlotOf[token]] # NoPick /\ Score[pick'[SlotOf[token]]] >= Score[token]
    <2>1. CASE Better(token)
      <3>1. Score[token] >= Score[token]
        BY <1>2, <1>6
      <3> QED BY <1>3, <1>5, <1>8, <2>1, <3>1
    <2>2. CASE ~Better(token)
      <3>1. pick[SlotOf[token]] # NoPick /\ ~(Score[token] > Score[pick[SlotOf[token]]])
        BY <2>2 DEF Better
      <3>2. pick[SlotOf[token]] \in ItemIds
        BY <1>2, <1>5, <3>1
      <3>3. Score[pick[SlotOf[token]]] >= Score[token]
        BY <1>2, <1>6, <3>1, <3>2
      <3> QED BY <1>3, <2>2, <3>1, <3>3
    <2> QED BY <2>1, <2>2
  <1>9. ASSUME ~anySent, NEW i \in steady, ownedTokensIndex[i] = index PROVE BestOf(i)'
    <2>1. i \in ItemIds /\ ownerOf[i] = Wallet /\ Free(i) /\ ownerOf[token] = Wallet /\ ownedTokensIndex[token] = index
      BY <1>0, <1>1, <1>9 DEF WalkSound, Walking, SteadyInHand, AtHand, WearTypeOK
    <2>2. i = token
      <3>1. Wallet # Nobody
        BY EquipBestAssumption, ItemsAssumption
      <3> QED BY <1>0, <1>2, <1>9, <2>1, <3>1 DEF ItemsInv, EnumerationExact
    <2>3. pick'[SlotOf[token]] # NoPick /\ Score[pick'[SlotOf[token]]] >= Score[token]
      BY <1>8, <2>1, <2>2
    <2> QED BY <2>2, <2>3 DEF BestOf
  <1>10. steady \subseteq ItemIds
    BY <1>0 DEF WearTypeOK
  <1> QED BY <1>1, <1>3, <1>4, <1>7, <1>9, <1>10, PassedOne

\* equipItems leaves what the walk found; it puts nothing on elsewhere.
LEMMA SendEquipInv ==
  ASSUME WearInv, SendEquip
  PROVE  WearInv'
  <1>0. ItemsInv /\ WearTypeOK /\ PicksFit /\ WalkSound
    BY DEF WearInv
  <1>1. /\ step = "send" /\ UNCHANGED itemsVars /\ count' = count /\ index' = index /\ token' = token
        /\ pick' = pick /\ steady' = steady /\ anySent' = anySent
        /\ (worn' = PutOn(Picked, "here") /\ step' = "done") \/ (worn' = worn /\ step' = "failed")
    BY DEF SendEquip
  <1>2. ItemsInv' /\ ownerOf' = ownerOf /\ ownedTokensIndex' = ownedTokensIndex
    BY <1>0, <1>1, ItemsStay DEF itemsVars
  <1>3. worn \in [ItemIds -> {"not", "here", "elsewhere"}]
    BY <1>0 DEF WearTypeOK
  <1>4. PicksFit'
    BY <1>0, <1>1 DEF PicksFit
  <1>5. CASE worn' = worn /\ step' = "failed"
    <2>1. WearTypeOK'
      BY <1>0, <1>1, <1>5 DEF WearTypeOK
    <2>2. WalkSound'
      BY <1>5 DEF WalkSound, Walking
    <2> QED BY <1>2, <1>4, <2>1, <2>2 DEF WearInv
  <1>6. CASE worn' = PutOn(Picked, "here") /\ step' = "done"
    <2>1. /\ worn' \in [ItemIds -> {"not", "here", "elsewhere"}]
          /\ \A j \in ItemIds : worn[j] # "elsewhere" => worn'[j] # "elsewhere"
      BY <1>3, <1>6, PutOnTyped
    <2>2. WearTypeOK'
      BY <1>0, <1>1, <1>6, <2>1 DEF WearTypeOK
    <2>3. WalkSound'
      <3> SUFFICES ASSUME ~anySent PROVE SteadyInHand' /\ PassedBest' /\ AtHand' /\ Through'
        BY <1>1 DEF WalkSound
      <3>1. SteadyInHand /\ PassedBest /\ Through /\ steady \subseteq ItemIds
        BY <1>0, <1>1 DEF WalkSound, Walking, WearTypeOK
      <3>2. SteadyInHand'
        BY <1>1, <1>2, <2>1, <3>1 DEF SteadyInHand, Free
      <3>3. PassedBest'
        BY <1>1, <1>2, <3>1 DEF PassedBest, BestOf
      <3>4. AtHand' /\ Through'
        BY <1>1, <1>6, <3>1 DEF AtHand, Through
      <3> QED BY <3>2, <3>3, <3>4
    <2> QED BY <1>2, <1>4, <2>2, <2>3 DEF WearInv
  <1> QED BY <1>1, <1>5, <1>6

LEMMA AgainInv ==
  ASSUME WearInv, Again
  PROVE  WearInv'
  <1>0. ItemsInv /\ WearTypeOK
    BY DEF WearInv
  <1>1. /\ step' = "start" /\ count' = 0 /\ index' = 0 /\ pick' = [s \in Slots |-> NoPick] /\ steady' = {}
        /\ UNCHANGED itemsVars /\ worn' = worn
    BY DEF Again
  <1>2. ItemsInv'
    BY <1>0, <1>1, ItemsStay
  <1>3. WearTypeOK'
    BY <1>0, <1>1 DEF WearTypeOK
  <1>4. PicksFit' /\ WalkSound'
    BY <1>1 DEF PicksFit, WalkSound, Walking
  <1> QED BY <1>2, <1>3, <1>4 DEF WearInv

LEMMA WearNextInv == WearInv /\ [EquipBestNext]_wearVars => WearInv'
  <1> SUFFICES ASSUME WearInv, [EquipBestNext]_wearVars PROVE WearInv'
    OBVIOUS
  <1>1. CASE UNCHANGED wearVars
    <2>1. /\ UNCHANGED itemsVars /\ worn' = worn /\ UNCHANGED readVars /\ steady' = steady /\ anySent' = anySent
          /\ ItemsInv /\ worn \in [ItemIds -> {"not", "here", "elsewhere"}]
      BY <1>1 DEF wearVars, WearInv, WearTypeOK
    <2>2. ItemsInv' /\ PlacesKept
      BY <2>1, ItemsStay
    <2>3. \A j \in steady' : Free(j) => Free(j)'
      BY <2>1 DEF Free
    <2> QED BY <2>1, <2>2, <2>3, OthersMove
  <1> QED
    BY <1>1, LootedInv, ItemTransferredInv, WornElsewhereInv, ReadCountInv, ReadTokenInv, ReadLocationInv,
       SendEquipInv, AgainInv
    DEF EquipBestNext

\* If the wallet sent nothing (to itself included) while it was read, equip_best ends with an item in each slot at least as good
\* as every item that was in hand and free all along (agent-api/engine.ts equip_best, over
\* Items.tokenOfOwnerByIndex).
THEOREM AlwaysWearsTheBest == EquipBestSpec => []WearsTheBest
  <1>1. WearInv => WearsTheBest
    <2> SUFFICES ASSUME WearInv, step = "done", ~anySent, NEW i \in steady
                 PROVE  \E j \in Picked : SlotOf[j] = SlotOf[i] /\ Score[j] >= Score[i]
      BY DEF WearsTheBest
    <2>0. ItemsTypeOK /\ WearTypeOK /\ PicksFit /\ SteadyInHand /\ PassedBest /\ Through
      BY DEF WearInv, ItemsInv, WalkSound, Walking
    <2>1. i \in ItemIds /\ ownedTokensIndex[i] \in Nat /\ ownedTokensIndex[i] <= count /\ index > count
          /\ count \in Nat /\ index \in Nat
      BY <2>0 DEF ItemsTypeOK, WearTypeOK, SteadyInHand, Through
    <2>2. BestOf(i)
      <3>1. ownedTokensIndex[i] < index
        BY <2>1
      <3> QED BY <2>0, <3>1 DEF PassedBest
    <2>3. SlotOf[i] \in Slots
      BY <2>1 DEF Slots
    <2> DEFINE j == pick[SlotOf[i]]
    <2>4. j \in Picked /\ SlotOf[j] = SlotOf[i] /\ Score[j] >= Score[i]
      BY <2>0, <2>2, <2>3 DEF BestOf, Picked, PicksFit
    <2> QED BY <2>4
  <1> QED BY <1>1, WearInitInv, WearNextInv, PTL DEF EquipBestSpec

-----------------------------------------------------------------------------
(***************************************************************************)
(* Leaderboard: levels only rise, so that whoever was shown is at or       *)
(* before the place where it was, and that place has at least as many      *)
(* characters at or before it as its rank says.                            *)
(***************************************************************************)

BoardKey == Nat \X Ranked
BoardRow == [id : Ranked, level : Nat, rank : Nat, eligible : BOOLEAN]
ReadingState ==
  [pc : {"idle", "epoch", "none", "rows", "more", "done"}, epochMode : BOOLEAN, after : BoardKey \cup {<< >>},
   cutoff : Nat, shown : Seq(BoardRow), first : [Ranked -> Nat] \cup {<< >>}]

BoardTypeOK ==
  /\ level \in [Ranked -> Nat] /\ raised \in [Ranked -> BOOLEAN] /\ ended \in Nat
  /\ reading \in ReadingState

\* The characters that are at or before the key m.
UpTo(m) == {d \in Rows : ~Before(m, Key(d))}
PlaceOf(row) == << row.level, row.id >>

\* A row that was shown, while the next page is after the key after, if there is one.
RowHolds(row, after) ==
  /\ level[row.id] >= row.level /\ row.level > 0
  /\ row.rank <= Cardinality(UpTo(PlaceOf(row)))
  /\ after # << >> => ~Before(after, PlaceOf(row))
  /\ row.eligible => row.level >= ended /\ ended # 0

ShownInOrder(shown) ==
  \A i, k \in 1..Len(shown) : i < k => shown[i].id # shown[k].id /\ shown[i].rank < shown[k].rank

\* Whoever has kept the level of the first page, and is not after the key after, has been shown.
Covered(first, shown, after) ==
  \A c \in Rows : level[c] = first[c] =>
    \/ \E i \in 1..Len(shown) : shown[i].id = c
    \/ after # << >> /\ Before(after, Key(c))

BoardInv ==
  /\ BoardTypeOK
  /\ reading.cutoff # 0 => ended = reading.cutoff
  /\ ShownInOrder(reading.shown)
  /\ \A i \in 1..Len(reading.shown) : RowHolds(reading.shown[i], reading.after)
  /\ reading.pc = "idle" => reading = NotReading
  /\ reading.pc \in {"epoch", "rows"} /\ reading.after = << >> => reading.shown = << >> /\ reading.first = << >>
  /\ reading.pc = "more" => reading.after # << >>
  /\ reading.after # << >> => reading.pc # "done"
  /\ reading.after # << >> \/ reading.pc = "done" =>
       /\ reading.first \in [Ranked -> Nat] /\ \A c \in Ranked : reading.first[c] <= level[c]
       /\ Covered(reading.first, reading.shown, reading.after)

LEMMA BeforeIsOrder ==
  /\ \A j, k, m \in BoardKey : Before(j, k) /\ Before(k, m) => Before(j, m)
  /\ \A k, m \in BoardKey : ~(Before(k, m) /\ Before(m, k))
  /\ \A k, m \in BoardKey : k[2] # m[2] => Before(k, m) \/ Before(m, k)
  /\ \A j, k, m \in BoardKey : ~Before(k, j) /\ Before(k, m) => Before(j, m)
  /\ \A j, k, m \in BoardKey : ~Before(k, j) /\ ~Before(m, k) => ~Before(m, j)
<1>0. \A k \in BoardKey : k[1] \in Nat /\ k[2] \in Nat
  BY LeaderboardAssumption DEF BoardKey
<1>1. \A j, k, m \in BoardKey : Before(j, k) /\ Before(k, m) => Before(j, m)
  BY <1>0 DEF Before
<1>2. \A k, m \in BoardKey : ~(Before(k, m) /\ Before(m, k))
  BY <1>0 DEF Before
<1>3. \A k, m \in BoardKey : k[2] # m[2] => Before(k, m) \/ Before(m, k)
  BY <1>0 DEF Before
<1>4. \A j, k, m \in BoardKey : ~Before(k, j) /\ Before(k, m) => Before(j, m)
  BY <1>0 DEF Before
<1>5. \A j, k, m \in BoardKey : ~Before(k, j) /\ ~Before(m, k) => ~Before(m, j)
  BY <1>0 DEF Before
<1> QED BY <1>1, <1>2, <1>3, <1>4, <1>5

LEMMA KeyIsNotEmpty == \A m \in BoardKey : m # << >>
<1>1. \A m \in BoardKey : DOMAIN m = {1, 2}
  BY DEF BoardKey
<1>2. DOMAIN << >> = {} /\ 1 \in {1, 2}
  OBVIOUS
<1> QED BY <1>1, <1>2

LEMMA KeyTypes ==
  ASSUME BoardTypeOK
  PROVE  /\ \A c \in Ranked : Key(c) \in BoardKey /\ Key(c)[1] = level[c] /\ Key(c)[2] = c
         /\ \A row \in BoardRow : PlaceOf(row) \in BoardKey /\ PlaceOf(row)[1] = row.level /\ PlaceOf(row)[2] = row.id
         /\ IsFiniteSet(Rows) /\ Rows \subseteq Ranked
<1>1. IsFiniteSet(Rows)
  BY LeaderboardAssumption, FS_Subset DEF Rows
<1> QED BY <1>1 DEF BoardTypeOK, BoardKey, BoardRow, Key, PlaceOf, Rows

\* A rank counts whoever is before, and the character itself.
LEMMA RankCounts ==
  ASSUME BoardTypeOK, NEW c \in Rows
  PROVE  /\ Rank(c) \in Nat /\ Rank(c) <= Cardinality(UpTo(Key(c)))
         /\ \A m \in BoardKey : Before(m, Key(c)) => Cardinality(UpTo(m)) < Rank(c)
<1>1. PICK S : S = {d \in Rows : Before(Key(d), Key(c))}
  OBVIOUS
<1>2. IsFiniteSet(S) /\ S \subseteq Rows /\ Rows \subseteq Ranked /\ Cardinality(S) \in Nat /\ Rank(c) = 1 + Cardinality(S)
  BY <1>1, KeyTypes, FS_Subset, FS_CardinalityType DEF Rank
<1>3. /\ \A m \in BoardKey : IsFiniteSet(UpTo(m)) /\ Cardinality(UpTo(m)) \in Nat
      /\ Key(c) \in BoardKey /\ \A d \in Rows : Key(d) \in BoardKey
  BY <1>2, KeyTypes, FS_Subset, FS_CardinalityType DEF UpTo
<1>4. Rank(c) <= Cardinality(UpTo(Key(c)))
  <2>1. c \notin S
    BY <1>1, <1>3, BeforeIsOrder
  <2>2. IsFiniteSet(S \cup {c}) /\ Cardinality(S \cup {c}) = Cardinality(S) + 1
    BY <1>2, <2>1, FS_AddElement
  <2>3. S \cup {c} \subseteq UpTo(Key(c))
    BY <1>1, <1>3, BeforeIsOrder DEF UpTo
  <2>4. Cardinality(S \cup {c}) <= Cardinality(UpTo(Key(c)))
    BY <1>3, <2>3, FS_Subset
  <2> QED BY <1>2, <2>2, <2>4
<1>5. ASSUME NEW m \in BoardKey, Before(m, Key(c)) PROVE Cardinality(UpTo(m)) < Rank(c)
  <2>1. UpTo(m) \subseteq S
    BY <1>1, <1>3, <1>5, BeforeIsOrder DEF UpTo
  <2>2. Cardinality(UpTo(m)) <= Cardinality(S)
    BY <1>2, <2>1, FS_Subset
  <2> QED BY <1>2, <1>3, <2>2
<1> QED BY <1>2, <1>4, <1>5

LEMMA BoardInitInv == BoardInit => BoardInv
<1> SUFFICES ASSUME BoardInit PROVE BoardInv
  OBVIOUS
<1>1. /\ reading = NotReading /\ NotReading \in ReadingState
      /\ NotReading.pc = "idle" /\ NotReading.shown = << >> /\ NotReading.cutoff = 0 /\ NotReading.after = << >>
  BY DEF BoardInit, NotReading, ReadingState
<1>2. BoardTypeOK
  BY <1>1 DEF BoardInit, BoardTypeOK
<1> QED BY <1>1, <1>2 DEF BoardInv, ShownInOrder

\* A level that rises takes nobody back.
LEMMA LevelRowInv ==
  ASSUME BoardInv, NEW c \in Ranked, NEW l \in 1..TopLevel, NEW late \in BOOLEAN, LevelRow(c, l, late)
  PROVE  BoardInv'
<1>1. /\ BoardTypeOK /\ l \in Nat /\ l > level[c] /\ level' = [level EXCEPT ![c] = l] /\ raised' = [raised EXCEPT ![c] = late]
      /\ UNCHANGED << ended, reading >> /\ reading \in ReadingState
  BY LeaderboardAssumption DEF LevelRow, BoardInv, BoardTypeOK
<1>2. BoardTypeOK'
  BY <1>1 DEF BoardTypeOK
<1>3. /\ \A d \in Ranked : level'[d] \in Nat /\ level[d] \in Nat /\ level'[d] >= level[d]
      /\ \A d \in Ranked : level'[d] = level[d] \/ d = c
  BY <1>1 DEF BoardTypeOK
<1>4. ASSUME NEW m \in BoardKey PROVE Cardinality(UpTo(m)) <= Cardinality(UpTo(m)')
  <2>1. PICK S, T : S = UpTo(m) /\ T = UpTo(m)'
    OBVIOUS
  <2>2. S \subseteq T
    <3>1. \A d \in Rows : d \in Rows' /\ (~Before(m, Key(d)) => ~Before(m, Key(d))')
      BY <1>3, LeaderboardAssumption DEF Rows, Key, Before, BoardKey
    <3> QED BY <2>1, <3>1 DEF UpTo
  <2>3. T \subseteq Ranked
    BY <2>1 DEF UpTo, Rows
  <2>4. IsFiniteSet(T) /\ Cardinality(S) <= Cardinality(T)
    BY <2>2, <2>3, LeaderboardAssumption, FS_Subset
  <2> QED BY <2>1, <2>4
<1>5. ASSUME NEW i \in 1..Len(reading.shown) PROVE RowHolds(reading.shown[i], reading.after)'
  <2>1. PICK row, after : row = reading.shown[i] /\ after = reading.after
    OBVIOUS
  <2>2. row \in BoardRow /\ RowHolds(row, after)
    BY <1>1, <2>1 DEF BoardInv, ReadingState
  <2>3. PlaceOf(row) \in BoardKey /\ row.id \in Ranked /\ row.rank \in Nat /\ row.level \in Nat
    BY <1>1, <2>2, KeyTypes DEF BoardRow
  <2>4. PICK S, T : S = UpTo(PlaceOf(row)) /\ T = UpTo(PlaceOf(row))'
    OBVIOUS
  <2>5. Cardinality(S) <= Cardinality(T) /\ Cardinality(S) \in Nat /\ Cardinality(T) \in Nat
    <3>1. S \subseteq Ranked /\ T \subseteq Ranked
      BY <2>4 DEF UpTo, Rows
    <3>2. Cardinality(S) \in Nat /\ Cardinality(T) \in Nat
      BY <3>1, LeaderboardAssumption, FS_Subset, FS_CardinalityType
    <3> QED BY <1>4, <2>3, <2>4, <3>2
  <2>6. row.rank <= Cardinality(T)
    BY <2>2, <2>3, <2>4, <2>5 DEF RowHolds
  <2>7. RowHolds(row, after)'
    BY <1>1, <1>3, <2>2, <2>3, <2>4, <2>6 DEF RowHolds
  <2> QED BY <1>1, <2>1, <2>7
<1>6. ASSUME reading.first \in [Ranked -> Nat], \A d \in Ranked : reading.first[d] <= level[d],
             Covered(reading.first, reading.shown, reading.after)
      PROVE  (\A d \in Ranked : reading.first[d] <= level'[d]) /\ Covered(reading.first, reading.shown, reading.after)'
  <2>1. \A d \in Ranked : reading.first[d] \in Nat
    BY <1>6
  <2>2. \A d \in Ranked : reading.first[d] <= level'[d]
    BY <1>3, <1>6, <2>1
  <2>3. ASSUME NEW d \in Rows', level'[d] = reading.first[d]
        PROVE  d \in Rows /\ level[d] = reading.first[d] /\ Key(d)' = Key(d)
    BY <1>3, <1>6, <2>1, <2>3 DEF Rows, Key
  <2> QED BY <1>1, <1>6, <2>2, <2>3 DEF Covered
<1> QED BY <1>1, <1>2, <1>5, <1>6 DEF BoardInv

LEMMA EpochRowInv ==
  ASSUME BoardInv, NEW cutoff \in 1..TopLevel, EpochRow(cutoff)
  PROVE  BoardInv'
<1>1. /\ BoardTypeOK /\ cutoff \in Nat /\ ended = 0 /\ ended' = cutoff /\ UNCHANGED << level, raised, reading >>
      /\ reading \in ReadingState
  BY LeaderboardAssumption DEF EpochRow, BoardInv, BoardTypeOK
<1>2. BoardTypeOK'
  BY <1>1 DEF BoardTypeOK
<1>3. \A m : UpTo(m)' = UpTo(m)
  BY <1>1 DEF UpTo, Rows, Key
<1>4. \A i \in 1..Len(reading.shown) : RowHolds(reading.shown[i], reading.after)'
  BY <1>1, <1>3 DEF BoardInv, RowHolds
<1>5. Covered(reading.first, reading.shown, reading.after)' <=> Covered(reading.first, reading.shown, reading.after)
  BY <1>1 DEF Covered, Rows, Key
<1>6. reading.cutoff = 0
  BY <1>1 DEF BoardInv, ReadingState
<1> QED BY <1>1, <1>2, <1>4, <1>5, <1>6 DEF BoardInv

LEMMA StartOverInv ==
  ASSUME BoardInv, TablesCleared \/ StopReading
  PROVE  BoardInv'
<1>1. level' \in [Ranked -> Nat] /\ raised' \in [Ranked -> BOOLEAN] /\ ended' \in Nat
  <2>1. CASE TablesCleared
    BY <2>1 DEF TablesCleared
  <2>2. CASE StopReading
    BY <2>2 DEF StopReading, BoardInv, BoardTypeOK
  <2> QED BY <2>1, <2>2
<1>2. /\ reading' = NotReading /\ NotReading \in ReadingState
      /\ NotReading.pc = "idle" /\ NotReading.shown = << >> /\ NotReading.cutoff = 0 /\ NotReading.after = << >>
  BY DEF NotReading, ReadingState, TablesCleared, StopReading
<1> QED BY <1>1, <1>2 DEF BoardInv, BoardTypeOK, ShownInOrder

\* A step of the reader that shows nothing.
LEMMA AskReadInv ==
  ASSUME BoardInv, (\E epochMode \in BOOLEAN : Ask(epochMode)) \/ ReadEpoch
  PROVE  BoardInv'
<1>1. BoardTypeOK /\ reading \in ReadingState /\ UNCHANGED << level, raised, ended >> /\ ended \in Nat
  BY DEF BoardInv, BoardTypeOK, Ask, ReadEpoch
<1>2. \A m : UpTo(m)' = UpTo(m)
  BY <1>1 DEF UpTo, Rows, Key
<1>3. ASSUME NEW r \in ReadingState, reading' = r,
             r.shown = reading.shown, r.first = reading.first, r.after = reading.after,
             r.cutoff = reading.cutoff \/ r.cutoff = ended,
             r.pc \in {"epoch", "rows", "none"},
             r.pc \in {"epoch", "rows"} /\ r.after = << >> => r.shown = << >> /\ r.first = << >>
      PROVE  BoardInv'
  <2>1. \A i \in 1..Len(r.shown) : RowHolds(r.shown[i], r.after)'
    BY <1>1, <1>2, <1>3 DEF BoardInv, RowHolds
  <2>2. r.after # << >> => r.first \in [Ranked -> Nat] /\ (\A c \in Ranked : r.first[c] <= level[c]) /\ Covered(r.first, r.shown, r.after)
    BY <1>3 DEF BoardInv
  <2>3. Covered(r.first, r.shown, r.after)' <=> Covered(r.first, r.shown, r.after)
    BY <1>1 DEF Covered, Rows, Key
  <2>4. BoardTypeOK'
    BY <1>1, <1>3 DEF BoardTypeOK
  <2>5. ShownInOrder(r.shown) /\ (r.cutoff # 0 => ended = r.cutoff)
    BY <1>3 DEF BoardInv
  <2> QED BY <1>1, <1>3, <2>1, <2>2, <2>3, <2>4, <2>5 DEF BoardInv
<1>4. ASSUME NEW epochMode \in BOOLEAN, Ask(epochMode) PROVE BoardInv'
  <2>1. PICK r, s : r = [s EXCEPT !.pc = IF epochMode THEN "epoch" ELSE "rows", !.epochMode = epochMode] /\ s = reading
    OBVIOUS
  <2>2. s \in ReadingState /\ s.pc \in {"idle", "more"} /\ reading' = r
    BY <1>1, <1>4, <2>1 DEF Ask
  <2>3. /\ r \in ReadingState /\ r.shown = s.shown /\ r.first = s.first /\ r.after = s.after /\ r.cutoff = s.cutoff
        /\ r.pc \in {"epoch", "rows"}
    BY <2>1, <2>2 DEF ReadingState
  <2>4. s.after = << >> => s.shown = << >> /\ s.first = << >>
    <3>1. s.pc = "more" => s.after # << >>
      BY <2>1 DEF BoardInv
    <3>2. s.pc = "idle" => s.shown = << >> /\ s.first = << >>
      BY <2>1 DEF BoardInv, NotReading
    <3> QED BY <2>2, <3>1, <3>2
  <2> QED BY <1>3, <2>1, <2>2, <2>3, <2>4
<1>5. CASE ReadEpoch
  <2>1. PICK r, s : r = [s EXCEPT !.cutoff = ended, !.pc = IF ended = 0 THEN "none" ELSE "rows"] /\ s = reading
    OBVIOUS
  <2>2. s \in ReadingState /\ s.pc = "epoch" /\ reading' = r
    BY <1>1, <1>5, <2>1 DEF ReadEpoch
  <2>3. /\ r \in ReadingState /\ r.shown = s.shown /\ r.first = s.first /\ r.after = s.after /\ r.cutoff = ended
        /\ r.pc \in {"none", "rows"}
    BY <1>1, <2>1, <2>2 DEF ReadingState
  <2>4. s.after = << >> => s.shown = << >> /\ s.first = << >>
    BY <2>1, <2>2 DEF BoardInv
  <2> QED BY <1>3, <2>1, <2>2, <2>3, <2>4
<1> QED BY <1>4, <1>5

\* A row of the next page continues what was shown.
LEMMA RowContinues ==
  ASSUME BoardInv, NEW row \in BoardRow, RowHolds(row, reading.after), reading.after \in BoardKey,
         NEW c \in Rows, Before(reading.after, Key(c))
  PROVE  row.id # c /\ row.rank < Rank(c) /\ ~Before(Key(c), PlaceOf(row))
<1>1. /\ BoardTypeOK /\ reading.after # << >> /\ c \in Ranked
      /\ row.id \in Ranked /\ row.level \in Nat /\ row.rank \in Nat /\ level[row.id] \in Nat
  BY KeyIsNotEmpty DEF BoardInv, BoardTypeOK, BoardRow, Rows
<1>2. PlaceOf(row) \in BoardKey /\ Key(c) \in BoardKey /\ Key(row.id) \in BoardKey
  BY <1>1, KeyTypes
<1>3. ~Before(reading.after, PlaceOf(row))
  BY <1>1 DEF RowHolds
<1>4. ~Before(PlaceOf(row), Key(row.id))
  <2>1. /\ Key(row.id)[1] = level[row.id] /\ Key(row.id)[2] = row.id
        /\ PlaceOf(row)[1] = row.level /\ PlaceOf(row)[2] = row.id
    BY DEF Key, PlaceOf
  <2>2. level[row.id] >= row.level /\ row.id \in Nat
    BY <1>1, LeaderboardAssumption DEF RowHolds
  <2> QED BY <1>1, <2>1, <2>2 DEF Before
<1>5. ~Before(reading.after, Key(row.id))
  BY <1>2, <1>3, <1>4, BeforeIsOrder
<1>6. row.id # c
  BY <1>5
<1>7. Before(PlaceOf(row), Key(c))
  BY <1>2, <1>3, BeforeIsOrder
<1>8. row.rank < Rank(c)
  <2>1. Cardinality(UpTo(PlaceOf(row))) < Rank(c) /\ Rank(c) \in Nat
    BY <1>1, <1>2, <1>7, RankCounts
  <2>2. PICK S : S = UpTo(PlaceOf(row))
    OBVIOUS
  <2>3. Cardinality(S) \in Nat
    BY <2>2, LeaderboardAssumption, FS_Subset, FS_CardinalityType DEF UpTo, Rows
  <2>4. row.rank <= Cardinality(S)
    BY <2>2 DEF RowHolds
  <2> QED BY <1>1, <2>1, <2>2, <2>3, <2>4
<1> QED BY <1>2, <1>6, <1>7, <1>8, BeforeIsOrder

\* The row of a character at its own place.
LEMMA ShownRow ==
  ASSUME BoardInv, NEW c \in Rows
  PROVE  /\ Shown(c, reading.cutoff) \in BoardRow
         /\ Shown(c, reading.cutoff).id = c /\ Shown(c, reading.cutoff).rank = Rank(c)
         /\ PlaceOf(Shown(c, reading.cutoff)) = Key(c)
         /\ \A after : (after # << >> => ~Before(after, Key(c))) => RowHolds(Shown(c, reading.cutoff), after)
<1>1. PICK row : row = Shown(c, reading.cutoff)
  OBVIOUS
<1>2. PICK rank, fit : rank = Rank(c) /\ fit = Eligible(c, reading.cutoff)
  OBVIOUS
<1>3. row = [id |-> c, level |-> level[c], rank |-> rank, eligible |-> fit]
  BY <1>1, <1>2 DEF Shown
<1>4. /\ BoardTypeOK /\ c \in Ranked /\ level[c] \in Nat /\ level[c] > 0 /\ rank \in Nat /\ raised[c] \in BOOLEAN
      /\ rank <= Cardinality(UpTo(Key(c)))
  BY <1>2, RankCounts DEF BoardInv, BoardTypeOK, Rows
<1>5. fit \in BOOLEAN /\ (fit => level[c] >= ended /\ ended # 0)
  BY <1>2, <1>4 DEF Eligible, BoardInv
<1>6. /\ row \in BoardRow /\ row.id = c /\ row.rank = rank /\ row.level = level[c] /\ row.eligible = fit
      /\ PlaceOf(row) = Key(c)
  BY <1>3, <1>4, <1>5 DEF BoardRow, PlaceOf, Key
<1>7. ASSUME NEW after, after # << >> => ~Before(after, Key(c)) PROVE RowHolds(row, after)
  BY <1>4, <1>5, <1>6, <1>7 DEF RowHolds
<1> QED BY <1>1, <1>2, <1>6, <1>7

\* The pages are put one after the other.
LEMMA BoardPageInv ==
  ASSUME BoardInv, Page
  PROVE  BoardInv'
<1> DEFINE left0 == {c \in Rows : AfterCursor(reading.after, Key(c))}
<1>1. PICK left, s, n : left = left0 /\ s = reading /\ n = (IF Cardinality(left) > PageSize THEN PageSize ELSE Cardinality(left))
  OBVIOUS
<1>2. PICK more \in BOOLEAN : more <=> Cardinality(left) > PageSize
  OBVIOUS
<1>3. PICK page \in [1..n -> left] :
        /\ InOrder(page, left)
        /\ reading' = [s EXCEPT
             !.shown = @ \o [i \in DOMAIN page |-> Shown(page[i], s.cutoff)],
             !.first = IF @ = << >> THEN level ELSE @,
             !.after = IF Cardinality(left) > PageSize THEN Key(Last(page)) ELSE << >>,
             !.pc    = IF Cardinality(left) > PageSize THEN "more" ELSE "done"]
  <2> DEFINE Turned(r, of, page) ==
        [r EXCEPT
          !.shown = @ \o [i \in DOMAIN page |-> Shown(page[i], r.cutoff)],
          !.first = IF @ = << >> THEN level ELSE @,
          !.after = IF Cardinality(of) > PageSize THEN Key(Last(page)) ELSE << >>,
          !.pc    = IF Cardinality(of) > PageSize THEN "more" ELSE "done"]
  <2>1. \E page \in [1..(IF Cardinality(left0) > PageSize THEN PageSize ELSE Cardinality(left0)) -> left0] :
          InOrder(page, left0) /\ reading' = Turned(reading, left0, page)
    BY DEF Page
  <2>2. \E page \in [1..n -> left] : InOrder(page, left) /\ reading' = Turned(s, left, page)
    <3> HIDE DEF left0, Turned
    <3> QED BY <1>1, <2>1
  <2> QED BY <2>2
<1>4. s.pc = "rows" /\ UNCHANGED << level, raised, ended >> /\ BoardTypeOK /\ s \in ReadingState
  BY <1>1 DEF Page, BoardInv, BoardTypeOK
<1>5. /\ left \subseteq Rows /\ Rows \subseteq Ranked /\ IsFiniteSet(left) /\ Cardinality(left) \in Nat
      /\ \A c \in Rows : Key(c) \in BoardKey /\ (c \in left <=> s.after = << >> \/ Before(s.after, Key(c)))
  <2>1. \A c \in Rows : c \in left <=> s.after = << >> \/ Before(s.after, Key(c))
    BY <1>1 DEF AfterCursor
  <2> QED BY <1>1, <1>4, <2>1, KeyTypes, FS_Subset, FS_CardinalityType
<1>6. /\ n \in Nat /\ (more => n > 0) /\ (~more => n = Cardinality(left))
      /\ page \in Seq(left) /\ DOMAIN page = 1..n /\ Len(page) = n /\ \A i \in 1..n : page[i] \in left /\ page[i] \in Rows
  <2>1. n \in Nat /\ (more => n > 0) /\ (~more => n = Cardinality(left))
    BY <1>1, <1>2, <1>5, LeaderboardAssumption
  <2>2. page \in [1..n -> left]
    BY <1>3
  <2>3. page \in Seq(left) /\ DOMAIN page = 1..n /\ Len(page) = n
    BY <2>1, <2>2
  <2> QED BY <1>5, <2>1, <2>2, <2>3
<1>7. PICK added, after, first, pc :
        /\ added = [i \in 1..n |-> Shown(page[i], s.cutoff)]
        /\ after = (IF more THEN Key(Last(page)) ELSE << >>)
        /\ first = (IF s.first = << >> THEN level ELSE s.first)
        /\ pc = (IF more THEN "more" ELSE "done")
  OBVIOUS
<1>8. /\ added \in Seq(BoardRow) /\ Len(added) = n
      /\ \A i \in 1..n : added[i] \in BoardRow /\ added[i].id = page[i] /\ added[i].rank = Rank(page[i]) /\ Rank(page[i]) \in Nat
  <2>1. \A i \in 1..n : added[i] = Shown(page[i], s.cutoff) /\ added[i] \in BoardRow
    BY <1>1, <1>6, <1>7, ShownRow
  <2>2. added \in [1..n -> BoardRow]
    BY <1>7, <2>1
  <2>3. added \in Seq(BoardRow) /\ Len(added) = n
    BY <1>6, <2>2
  <2>4. \A i \in 1..n : added[i].id = page[i] /\ added[i].rank = Rank(page[i]) /\ Rank(page[i]) \in Nat
    BY <1>1, <1>4, <1>6, <2>1, ShownRow, RankCounts
  <2> QED BY <2>1, <2>3, <2>4
<1>9. /\ more => after = Key(page[n]) /\ after \in BoardKey /\ after # << >>
      /\ ~more => after = << >>
  <2>1. more => Last(page) = page[n] /\ page[n] \in Rows
    BY <1>6 DEF Last
  <2> QED BY <1>5, <1>7, <2>1, KeyIsNotEmpty
<1>10. PICK shown, old : shown = s.shown \o added /\ old = s.shown
  OBVIOUS
<1>11. /\ old \in Seq(BoardRow) /\ shown \in Seq(BoardRow) /\ Len(shown) = Len(old) + n /\ Len(old) \in Nat
       /\ \A i \in 1..Len(old) : shown[i] = old[i] /\ old[i] \in BoardRow
       /\ \A i \in 1..Len(shown) : i \in 1..Len(old) \/ (i - Len(old) \in 1..n /\ shown[i] = added[i - Len(old)])
       /\ \A i \in 1..n : i + Len(old) \in 1..Len(shown) /\ shown[i + Len(old)] = added[i]
  <2>1. old \in Seq(BoardRow)
    BY <1>4, <1>10 DEF ReadingState
  <2>2. shown \in Seq(BoardRow) /\ Len(shown) = Len(old) + n /\ Len(old) \in Nat
    <3>1. added \in Seq(BoardRow) /\ Len(added) = n /\ shown = old \o added
      BY <1>8, <1>10
    <3> HIDE DEF BoardRow
    <3> QED BY <2>1, <3>1
  <2>3. \A i \in 1..Len(old) : shown[i] = old[i] /\ old[i] \in BoardRow
    BY <1>6, <1>8, <1>10, <2>1
  <2>4. \A i \in 1..n : i + Len(old) \in 1..Len(shown) /\ shown[i + Len(old)] = added[i]
    BY <1>6, <1>8, <1>10, <2>1
  <2>5. ASSUME NEW i \in 1..Len(shown), i \notin 1..Len(old) PROVE i - Len(old) \in 1..n /\ shown[i] = added[i - Len(old)]
    <3>1. i - Len(old) \in 1..n /\ (i - Len(old)) + Len(old) = i
      BY <1>6, <2>2, <2>5
    <3> QED BY <2>4, <3>1
  <2>6. \A i \in 1..Len(shown) : i \in 1..Len(old) \/ (i - Len(old) \in 1..n /\ shown[i] = added[i - Len(old)])
    BY <2>5
  <2> QED BY <2>1, <2>2, <2>3, <2>4, <2>6
<1>12. reading' = [pc |-> pc, epochMode |-> s.epochMode, after |-> after, cutoff |-> s.cutoff, shown |-> shown, first |-> first]
  BY <1>2, <1>3, <1>4, <1>6, <1>7, <1>10 DEF ReadingState
<1>13. first \in [Ranked -> Nat] /\ \A c \in Ranked : first[c] <= level[c]
  <2>1. level \in [Ranked -> Nat] /\ \A c \in Ranked : level[c] \in Nat
    BY <1>4 DEF BoardTypeOK
  <2>2. s.after # << >> => s.first \in [Ranked -> Nat] /\ \A c \in Ranked : s.first[c] <= level[c]
    BY <1>1 DEF BoardInv
  <2>3. s.after = << >> => s.first = << >>
    BY <1>1, <1>4 DEF BoardInv
  <2> QED BY <1>7, <2>1, <2>2, <2>3
<1>14. \A i \in 1..Len(old) : RowHolds(old[i], s.after) /\ s.after \in BoardKey /\ s.after # << >>
  <2>1. s.after = << >> => old = << >>
    BY <1>1, <1>4, <1>10 DEF BoardInv
  <2>2. s.after \in BoardKey \cup {<< >>}
    BY <1>4 DEF ReadingState
  <2> QED BY <1>1, <1>10, <2>1, <2>2 DEF BoardInv
<1>15. \A i \in 1..Len(old), k \in 1..n : /\ old[i].id # page[k] /\ old[i].rank < Rank(page[k])
                                          /\ ~Before(Key(page[k]), PlaceOf(old[i]))
  <2>1. TAKE i \in 1..Len(old), k \in 1..n
  <2>2. old[i] \in BoardRow /\ RowHolds(old[i], s.after) /\ s.after \in BoardKey /\ page[k] \in Rows /\ Before(s.after, Key(page[k]))
    BY <1>5, <1>6, <1>11, <1>14
  <2> QED BY <1>1, <2>2, RowContinues
<1>16. \A i, k \in 1..n : i < k => Before(Key(page[i]), Key(page[k])) /\ page[i] # page[k] /\ Rank(page[i]) < Rank(page[k])
  <2>1. TAKE i, k \in 1..n
  <2>2. HAVE i < k
  <2>3. Before(Key(page[i]), Key(page[k])) /\ page[i] \in Rows /\ page[k] \in Rows
    BY <1>3, <1>6, <2>2 DEF InOrder
  <2>4. Key(page[i]) \in BoardKey /\ Key(page[k]) \in BoardKey
    BY <1>5, <2>3
  <2>5. page[i] # page[k]
    BY <2>3, <2>4, BeforeIsOrder
  <2>6. Cardinality(UpTo(Key(page[i]))) < Rank(page[k]) /\ Rank(page[k]) \in Nat
    BY <1>4, <2>3, <2>4, RankCounts
  <2>7. Rank(page[i]) <= Cardinality(UpTo(Key(page[i]))) /\ Rank(page[i]) \in Nat
    BY <1>4, <2>3, RankCounts
  <2>8. PICK S : S = UpTo(Key(page[i]))
    OBVIOUS
  <2>9. Cardinality(S) \in Nat
    BY <2>8, LeaderboardAssumption, FS_Subset, FS_CardinalityType DEF UpTo, Rows
  <2> QED BY <2>3, <2>5, <2>6, <2>7, <2>8, <2>9
<1>17. ShownInOrder(shown)
  <2>1. SUFFICES ASSUME NEW i \in 1..Len(shown), NEW k \in 1..Len(shown), i < k
                 PROVE  shown[i].id # shown[k].id /\ shown[i].rank < shown[k].rank
    BY DEF ShownInOrder
  <2>2. CASE k \in 1..Len(old)
    <3>1. i \in 1..Len(old)
      BY <1>11, <2>1, <2>2
    <3>2. old[i].id # old[k].id /\ old[i].rank < old[k].rank
      BY <1>1, <1>10, <2>1, <2>2, <3>1 DEF BoardInv, ShownInOrder
    <3> QED BY <1>11, <2>2, <3>1, <3>2
  <2>3. CASE k \notin 1..Len(old) /\ i \in 1..Len(old)
    <3>1. PICK kk \in 1..n : shown[k] = added[kk]
      BY <1>11, <2>3
    <3>2. shown[k].id = page[kk] /\ shown[k].rank = Rank(page[kk]) /\ shown[i] = old[i]
      BY <1>8, <1>11, <2>3, <3>1
    <3> QED BY <1>15, <2>3, <3>2
  <2>4. CASE k \notin 1..Len(old) /\ i \notin 1..Len(old)
    <3>1. PICK ii \in 1..n : ii = i - Len(old) /\ shown[i] = added[ii]
      BY <1>11, <2>4
    <3>2. PICK kk \in 1..n : kk = k - Len(old) /\ shown[k] = added[kk]
      BY <1>11, <2>4
    <3>3. ii < kk
      BY <1>6, <1>11, <2>1, <3>1, <3>2
    <3>4. /\ shown[i].id = page[ii] /\ shown[i].rank = Rank(page[ii])
          /\ shown[k].id = page[kk] /\ shown[k].rank = Rank(page[kk])
      BY <1>8, <3>1, <3>2
    <3> QED BY <1>16, <3>3, <3>4
  <2> QED BY <2>2, <2>3, <2>4
<1>18. \A i \in 1..Len(shown) : RowHolds(shown[i], after)
  <2>1. SUFFICES ASSUME NEW i \in 1..Len(shown) PROVE RowHolds(shown[i], after)
    OBVIOUS
  <2>2. CASE i \in 1..Len(old)
    <3>1. more => ~Before(after, PlaceOf(old[i]))
      BY <1>6, <1>9, <1>15, <2>2
    <3>2. RowHolds(old[i], after)
      BY <1>9, <1>14, <2>2, <3>1 DEF RowHolds
    <3> QED BY <1>11, <2>2, <3>2
  <2>3. CASE i \notin 1..Len(old)
    <3>1. PICK k \in 1..n : shown[i] = added[k]
      BY <1>11, <2>3
    <3>2. page[k] \in Rows /\ added[k] = Shown(page[k], reading.cutoff) /\ Key(page[k]) \in BoardKey
      BY <1>1, <1>5, <1>6, <1>7
    <3>3. more => ~Before(after, Key(page[k]))
      <4>1. HAVE more
      <4>2. n \in 1..n /\ page[n] \in Rows /\ Key(page[n]) \in BoardKey
        BY <1>5, <1>6, <4>1
      <4>3. CASE k = n
        BY <1>9, <3>2, <4>1, <4>3, BeforeIsOrder
      <4>4. CASE k < n
        <5>1. Before(Key(page[k]), Key(page[n]))
          BY <1>16, <4>2, <4>4
        <5> QED BY <1>9, <3>2, <4>1, <4>2, <5>1, BeforeIsOrder
      <4> QED BY <1>6, <4>3, <4>4
    <3> QED BY <1>9, <3>1, <3>2, <3>3, ShownRow
  <2> QED BY <2>2, <2>3
<1>19. \A c \in left : (\E k \in 1..n : page[k] = c) \/ (more /\ Before(after, Key(c)))
  <2>1. TAKE c \in left
  <2>2. CASE more
    <3>1. /\ n \in 1..n /\ page[n] \in Rows /\ Key(page[n]) \in BoardKey /\ c \in Rows /\ Key(c) \in BoardKey
          /\ Key(c)[2] = c /\ Key(page[n])[2] = page[n]
      BY <1>5, <1>6, <2>1, <2>2 DEF Key
    <3>2. c = page[n] \/ Before(Key(c), Key(page[n])) \/ Before(Key(page[n]), Key(c))
      BY <3>1, BeforeIsOrder
    <3>3. Before(Key(c), Key(page[n])) => \E k \in 1..n : page[k] = c
      BY <1>3, <1>6, <2>1, <3>1 DEF InOrder
    <3> QED BY <1>9, <2>2, <3>1, <3>2, <3>3
  <2>3. CASE ~more
    <3>1. \A i, k \in 1..n : page[i] = page[k] => i = k
      BY <1>6, <1>16
    <3>2. page \in Injection(1..n, left)
      BY <1>3, <3>1 DEF Injection, IsInjective
    <3>3. Cardinality(1..n) = n
      BY <1>6, FS_Interval
    <3>4. page \in Surjection(1..n, left)
      BY <1>5, <1>6, <2>3, <3>2, <3>3, FS_Injection
    <3> QED BY <2>1, <3>4 DEF Surjection
  <2> QED BY <2>2, <2>3
<1>20. Covered(first, shown, after)
  <2>1. SUFFICES ASSUME NEW c \in Rows, level[c] = first[c]
                 PROVE  (\E i \in 1..Len(shown) : shown[i].id = c) \/ (after # << >> /\ Before(after, Key(c)))
    BY DEF Covered
  <2>2. CASE c \in left
    <3>1. CASE \E k \in 1..n : page[k] = c
      <4>1. PICK k \in 1..n : page[k] = c
        BY <3>1
      <4>2. k + Len(old) \in 1..Len(shown) /\ shown[k + Len(old)].id = c
        BY <1>8, <1>11, <4>1
      <4> QED BY <4>2
    <3> QED BY <1>9, <1>19, <2>2, <3>1
  <2>3. CASE c \notin left
    <3>1. s.after # << >> /\ ~Before(s.after, Key(c))
      BY <1>5, <2>1, <2>3
    <3>2. s.first \in [Ranked -> Nat] /\ Covered(s.first, old, s.after) /\ c \in Ranked
      BY <1>1, <1>5, <1>10, <2>1, <3>1 DEF BoardInv
    <3>3. s.first # << >>
      <4>1. DOMAIN s.first = Ranked /\ DOMAIN << >> = {}
        BY <3>2
      <4> QED BY <3>2, <4>1
    <3>4. level[c] = s.first[c]
      BY <1>7, <2>1, <3>3
    <3>5. PICK i \in 1..Len(old) : old[i].id = c
      BY <2>1, <3>1, <3>2, <3>4 DEF Covered
    <3>6. i \in 1..Len(shown) /\ shown[i].id = c
      BY <1>6, <1>11, <3>5
    <3> QED BY <3>6
  <2> QED BY <2>2, <2>3
<1>21. PICK r : r = reading'
  OBVIOUS
<1>22. /\ r.pc = pc /\ r.after = after /\ r.cutoff = s.cutoff /\ r.shown = shown /\ r.first = first
       /\ pc \in {"more", "done"} /\ (pc = "more" <=> more)
  BY <1>7, <1>12, <1>21
<1>23. r \in ReadingState
  BY <1>4, <1>9, <1>11, <1>12, <1>13, <1>21, <1>22 DEF ReadingState
<1>24. BoardTypeOK'
  BY <1>4, <1>21, <1>23 DEF BoardTypeOK
<1>25. /\ (\A i \in 1..Len(shown) : RowHolds(shown[i], after)') /\ Covered(first, shown, after)'
       /\ \A c \in Ranked : first[c] <= level'[c]
  <2>1. \A m : UpTo(m)' = UpTo(m)
    BY <1>4 DEF UpTo, Rows, Key
  <2>2. \A i \in 1..Len(shown) : RowHolds(shown[i], after)'
    BY <1>4, <1>18, <2>1 DEF RowHolds
  <2>3. Covered(first, shown, after)'
    BY <1>4, <1>20 DEF Covered, Rows, Key
  <2> QED BY <1>4, <1>13, <2>2, <2>3
<1>26. s.cutoff # 0 => ended' = s.cutoff
  BY <1>1, <1>4 DEF BoardInv
<1> QED BY <1>9, <1>13, <1>17, <1>21, <1>22, <1>24, <1>25, <1>26 DEF BoardInv

LEMMA BoardNextInv == BoardInv /\ [BoardNext]_boardVars => BoardInv'
<1> SUFFICES ASSUME BoardInv, [BoardNext]_boardVars PROVE BoardInv'
  OBVIOUS
<1>1. CASE \E c \in Ranked, l \in 1..TopLevel, late \in BOOLEAN : LevelRow(c, l, late)
  BY <1>1, LevelRowInv
<1>2. CASE \E cutoff \in 1..TopLevel : EpochRow(cutoff)
  BY <1>2, EpochRowInv
<1>3. CASE TablesCleared \/ StopReading
  BY <1>3, StartOverInv
<1>4. CASE (\E epochMode \in BOOLEAN : Ask(epochMode)) \/ ReadEpoch
  BY <1>4, AskReadInv
<1>5. CASE Page
  BY <1>5, BoardPageInv
<1>6. CASE UNCHANGED boardVars
  BY <1>6 DEF boardVars, BoardInv, BoardTypeOK, RowHolds, UpTo, Covered, Rows, Key
<1> QED BY <1>1, <1>2, <1>3, <1>4, <1>5, <1>6 DEF BoardNext

\* Whatever rises while the pages are turned, the list reads as if it were one: nobody is on it twice, ranks
\* go up along it, whoever kept its level is on it at its end, and the eligible ones are so by the epoch's row
\* (agent-api/read-model.ts, getLiveLeaderboard and getEpochLeaderboard).
THEOREM ListAlwaysReadsAsOne == BoardSpec => []ListReadsAsOne
<1>1. BoardInv => ListReadsAsOne
  <2> SUFFICES ASSUME BoardInv PROVE ListReadsAsOne
    OBVIOUS
  <2>1. PICK shown : shown = reading.shown
    OBVIOUS
  <2>2. shown \in Seq(BoardRow) /\ DOMAIN shown = 1..Len(shown)
    BY <2>1 DEF BoardInv, BoardTypeOK, ReadingState
  <2>3. \A i \in 1..Len(shown) : shown[i].eligible => shown[i].level >= ended /\ ended # 0
    BY <2>1 DEF BoardInv, RowHolds
  <2>4. \A i, k \in 1..Len(shown) : i < k => shown[i].id # shown[k].id /\ shown[i].rank < shown[k].rank
    BY <2>1 DEF BoardInv, ShownInOrder
  <2>5. reading.pc = "done" => reading.after = << >> /\ Covered(reading.first, shown, reading.after)
    BY <2>1 DEF BoardInv
  <2> QED BY <2>1, <2>2, <2>3, <2>4, <2>5 DEF ListReadsAsOne, Covered
<1> QED BY <1>1, BoardInitInv, BoardNextInv, PTL DEF BoardSpec

-----------------------------------------------------------------------------
(***************************************************************************)
(* ArenaPage: while the visitor has not been hasty, a session and a prompt *)
(* are never asked for at once, because the flag in flight keeps a second  *)
(* request for a session away, and a prompt goes out in a session only.    *)
(***************************************************************************)

BootstrapRecord == [pc : {"idle", "asked"}, by : {"effect", "prompt"}, active : BOOLEAN, post : Posts \cup {NoSource}]

PageTypeOK ==
  /\ session \in Nat /\ given \in Nat /\ inFlight \in BOOLEAN /\ sending \in BOOLEAN
  /\ bootstrap \in [Bootstraps -> BootstrapRecord]
  /\ \A b \in Bootstraps : bootstrap[b].by = "prompt" => bootstrap[b].post \in Posts
  /\ post \in [Posts -> [pc : {"none", "waiting", "posting", "open", "closed"}, session : Nat]]
  /\ source \in Posts \cup {NoSource}

Busy(q) == post[q].pc \in {"posting", "open"}

\* One request for a session, without a session; one prompt, in the session.
OneAtATime ==
  /\ \A b \in Bootstraps : bootstrap[b].pc = "asked" => inFlight /\ session = 0
  /\ \A b, c \in Bootstraps : bootstrap[b].pc = "asked" /\ bootstrap[c].pc = "asked" => b = c
  /\ \A q \in Posts : Busy(q) => session # 0 /\ sending /\ post[q].session = session
  /\ \A q, r \in Posts : Busy(q) /\ Busy(r) => q = r
  /\ sending => \E q \in Posts : Busy(q)
  /\ \A q \in Posts : post[q].pc = "open" <=> source = q

PageInv == PageTypeOK /\ (~hasty => OneAtATime)

LEMMA PageInitInv == ArenaPageInit => PageInv
<1> SUFFICES ASSUME ArenaPageInit PROVE PageInv
  OBVIOUS
<1>1. PICK first : bootstrap = [[b \in Bootstraps |-> NoBootstrap] EXCEPT ![first].pc = "asked", ![first].active = TRUE]
  BY DEF ArenaPageInit
<1>2. /\ bootstrap \in [Bootstraps -> BootstrapRecord]
      /\ \A b \in Bootstraps : bootstrap[b].by = "effect" /\ (bootstrap[b].pc = "asked" => b = first)
  BY <1>1 DEF NoBootstrap, BootstrapRecord
<1>3. \A q \in Posts : post[q] = [pc |-> "none", session |-> 0]
  BY DEF ArenaPageInit
<1> QED BY <1>2, <1>3, ArenaPageAssumption DEF ArenaPageInit, PageInv, PageTypeOK, OneAtATime, Busy, NoSource

\* What is left of the prompts when the stream is closed.
LEMMA ClosedPosts ==
  ASSUME PageTypeOK
  PROVE  /\ ClosedStream(post) \in [Posts -> [pc : {"none", "waiting", "posting", "open", "closed"}, session : Nat]]
         /\ \A q \in Posts : /\ q # source => ClosedStream(post)[q] = post[q]
                             /\ q = source => ClosedStream(post)[q].pc = "closed"
  BY ArenaPageAssumption DEF PageTypeOK, ClosedStream, NoSource

LEMMA AbandonedRequests ==
  ASSUME PageTypeOK, NEW bs, bs \in [Bootstraps -> BootstrapRecord],
         \A b \in Bootstraps : bs[b].by = "prompt" => bs[b].post \in Posts
  PROVE  /\ Abandoned(bs) \in [Bootstraps -> BootstrapRecord]
         /\ \A b \in Bootstraps : /\ Abandoned(bs)[b].by = bs[b].by /\ Abandoned(bs)[b].post = bs[b].post
                                  /\ Abandoned(bs)[b].pc = bs[b].pc
  BY DEF Abandoned, BootstrapRecord

\* A request for a session more, or none.
LEMMA AttemptAsks ==
  ASSUME PageTypeOK, NEW bs \in [Bootstraps -> BootstrapRecord],
         \A b \in Bootstraps : bs[b].by = "prompt" => bs[b].post \in Posts,
         NEW asking \in BOOLEAN, Attempt(bs, asking)
  PROVE  /\ bootstrap' \in [Bootstraps -> BootstrapRecord] /\ inFlight' \in BOOLEAN
         /\ \A b \in Bootstraps : bootstrap'[b].by = "prompt" => bootstrap'[b].post \in Posts
         /\ asking => bootstrap' = bs /\ inFlight' = inFlight
         /\ ~asking => inFlight' /\ \E b \in Bootstraps : \A c \in Bootstraps : c # b => bootstrap'[c] = bs[c]
<1>1. CASE asking
  <2>1. bootstrap' = bs /\ inFlight' = inFlight
    BY <1>1 DEF Attempt
  <2> QED BY <1>1, <2>1 DEF PageTypeOK
<1>2. CASE ~asking
  <2>1. PICK b \in Bootstraps : bootstrap' = Asked(bs, b, "effect", NoSource)
    BY <1>2 DEF Attempt
  <2>2. PICK record : record = [pc |-> "asked", by |-> "effect", active |-> TRUE, post |-> NoSource]
    OBVIOUS
  <2>3. bootstrap' = [bs EXCEPT ![b] = record] /\ record \in BootstrapRecord /\ record.by = "effect"
    BY <2>1, <2>2 DEF Asked, BootstrapRecord
  <2>4. /\ bootstrap' \in [Bootstraps -> BootstrapRecord] /\ bootstrap'[b] = record
        /\ \A c \in Bootstraps : c # b => bootstrap'[c] = bs[c]
    BY <2>3
  <2>5. inFlight' = TRUE
    BY <1>2 DEF Attempt
  <2> QED BY <1>2, <2>3, <2>4, <2>5
<1> QED BY <1>1, <1>2

LEMMA RetryInv ==
  ASSUME PageInv, OnRetryTimer
  PROVE  PageInv'
<1>1. /\ PageTypeOK /\ UNCHANGED << session, given, sending, post, source, hasty >>
      /\ UNCHANGED << bootstrap, inFlight >> \/ (session = 0 /\ Attempt(bootstrap, ~MayAsk))
  BY DEF PageInv, OnRetryTimer
<1>2. CASE UNCHANGED << bootstrap, inFlight >>
  BY <1>1, <1>2 DEF PageInv, PageTypeOK, OneAtATime, Busy
<1>3. CASE session = 0 /\ Attempt(bootstrap, ~MayAsk)
  <2>1. /\ bootstrap' \in [Bootstraps -> BootstrapRecord] /\ inFlight' \in BOOLEAN
        /\ \A b \in Bootstraps : bootstrap'[b].by = "prompt" => bootstrap'[b].post \in Posts
        /\ ~MayAsk => bootstrap' = bootstrap /\ inFlight' = inFlight
        /\ MayAsk => inFlight' /\ \E b \in Bootstraps : \A c \in Bootstraps : c # b => bootstrap'[c] = bootstrap[c]
    BY <1>1, <1>3, AttemptAsks DEF PageTypeOK, MayAsk
  <2>2. PageTypeOK'
    BY <1>1, <2>1 DEF PageTypeOK
  <2>3. ASSUME ~hasty PROVE OneAtATime'
    BY <1>1, <1>3, <2>1, <2>3 DEF PageInv, OneAtATime, Busy, MayAsk
  <2> QED BY <1>1, <2>2, <2>3 DEF PageInv
<1> QED BY <1>1, <1>2, <1>3

LEMMA ArrivesInv ==
  ASSUME PageInv, NEW b \in Bootstraps, SessionArrives(b)
  PROVE  PageInv'
<1>0. PageTypeOK
  BY DEF PageInv
<1>1. PICK q, s : q = bootstrap[b].post /\ s = given + 1
  OBVIOUS
<1>2. PICK bs : bs = [bootstrap EXCEPT ![b] = NoBootstrap]
  OBVIOUS
<1>3. PICK ps : ps = ClosedStream(post)
  OBVIOUS
<1>4. /\ bootstrap[b].pc = "asked" /\ session' = s /\ given' = s /\ inFlight' = FALSE
      /\ bootstrap' = Abandoned(bs) /\ source' = NoSource /\ hasty' = hasty
      /\ IF bootstrap[b].by = "effect" THEN post' = ps /\ sending' = sending
         ELSE post' = [ps EXCEPT ![q] = [pc |-> "posting", session |-> s]] /\ sending' = TRUE
  BY <1>1, <1>2, <1>3 DEF SessionArrives, Posted
<1>5. /\ bs \in [Bootstraps -> BootstrapRecord]
      /\ \A c \in Bootstraps : bs[c].by = "prompt" => bs[c].post \in Posts
      /\ \A c \in Bootstraps : bs[c].pc = "asked" => bootstrap[c].pc = "asked" /\ c # b
  BY <1>0, <1>2 DEF PageTypeOK, BootstrapRecord, NoBootstrap
<1>6. /\ bootstrap' \in [Bootstraps -> BootstrapRecord]
      /\ \A c \in Bootstraps : bootstrap'[c].by = "prompt" => bootstrap'[c].post \in Posts
      /\ \A c \in Bootstraps : bootstrap'[c].pc = "asked" => bootstrap[c].pc = "asked" /\ c # b
  BY <1>0, <1>4, <1>5, AbandonedRequests
<1>7. /\ ps \in [Posts -> [pc : {"none", "waiting", "posting", "open", "closed"}, session : Nat]]
      /\ \A r \in Posts : ps[r].pc \in {"posting", "open"} => Busy(r) /\ r # source
  BY <1>0, <1>3, ClosedPosts DEF Busy
<1>8. s \in Nat /\ s # 0 /\ bootstrap[b].by \in {"effect", "prompt"} /\ (bootstrap[b].by = "prompt" => q \in Posts)
  BY <1>0, <1>1 DEF PageTypeOK, BootstrapRecord
<1>9. PageTypeOK'
  <2>1. post' \in [Posts -> [pc : {"none", "waiting", "posting", "open", "closed"}, session : Nat]]
    BY <1>4, <1>7, <1>8
  <2>2. sending' \in BOOLEAN
    BY <1>0, <1>4 DEF PageTypeOK
  <2> QED BY <1>4, <1>6, <1>8, <2>1, <2>2 DEF PageTypeOK
<1>10. ASSUME ~hasty PROVE OneAtATime'
  <2>1. \A r \in Posts : ~Busy(r)
    BY <1>4, <1>10 DEF PageInv, OneAtATime
  <2>2. \A r \in Posts : ps[r].pc \notin {"posting", "open"}
    BY <1>7, <2>1
  <2>3. ~sending
    BY <1>10, <2>1 DEF PageInv, OneAtATime
  <2>4. \A c \in Bootstraps : bootstrap'[c].pc # "asked"
    BY <1>4, <1>6, <1>10 DEF PageInv, OneAtATime
  <2>5. CASE bootstrap[b].by = "effect"
    BY <1>4, <2>2, <2>3, <2>4, <2>5, ArenaPageAssumption DEF OneAtATime, Busy, NoSource
  <2>6. CASE bootstrap[b].by = "prompt"
    <3>1. /\ q \in Posts /\ post'[q] = [pc |-> "posting", session |-> s]
          /\ \A r \in Posts : r # q => post'[r] = ps[r]
      BY <1>4, <1>7, <1>8, <2>6
    <3>2. \A r \in Posts : Busy(r)' <=> r = q
      BY <2>2, <3>1 DEF Busy
    <3>3. sending' = TRUE
      BY <1>4, <2>6
    <3> QED BY <1>4, <1>8, <2>2, <2>4, <3>1, <3>2, <3>3, ArenaPageAssumption DEF OneAtATime, NoSource
  <2> QED BY <1>8, <2>5, <2>6
<1> QED BY <1>4, <1>9, <1>10 DEF PageInv

LEMMA FailsInv ==
  ASSUME PageInv, NEW b \in Bootstraps, SessionFails(b)
  PROVE  PageInv'
<1>0. PageTypeOK
  BY DEF PageInv
<1>1. /\ bootstrap[b].pc = "asked" /\ bootstrap' = [bootstrap EXCEPT ![b] = NoBootstrap] /\ inFlight' = FALSE
      /\ UNCHANGED << session, given, sending, source, hasty >>
      /\ post' = post \/ (bootstrap[b].post \in Posts /\ post' = [post EXCEPT ![bootstrap[b].post].pc = "none"])
  BY <1>0 DEF SessionFails, PageTypeOK
<1>2. /\ bootstrap' \in [Bootstraps -> BootstrapRecord]
      /\ \A c \in Bootstraps : bootstrap'[c].by = "prompt" => bootstrap'[c].post \in Posts
      /\ \A c \in Bootstraps : bootstrap'[c].pc = "asked" => bootstrap[c].pc = "asked" /\ c # b
  BY <1>0, <1>1 DEF PageTypeOK, BootstrapRecord, NoBootstrap
<1>3. /\ post' \in [Posts -> [pc : {"none", "waiting", "posting", "open", "closed"}, session : Nat]]
      /\ \A q \in Posts : Busy(q)' => Busy(q)
      /\ \A q \in Posts : post'[q].pc = "open" => post[q].pc = "open"
      /\ \A q \in Posts : ~Busy(q) => post'[q].pc \notin {"open"}
  BY <1>0, <1>1 DEF PageTypeOK, Busy
<1>4. ASSUME ~hasty PROVE OneAtATime'
  <2>1. (\A q \in Posts : ~Busy(q)) /\ ~sending
    BY <1>1, <1>4 DEF PageInv, OneAtATime
  <2>2. \A q \in Posts : source # q
    BY <1>4, <2>1 DEF PageInv, OneAtATime, Busy
  <2>3. \A c \in Bootstraps : bootstrap'[c].pc # "asked"
    BY <1>1, <1>2, <1>4 DEF PageInv, OneAtATime
  <2> QED BY <1>1, <1>3, <2>1, <2>2, <2>3 DEF OneAtATime, Busy
<1>5. PageTypeOK'
  BY <1>0, <1>1, <1>2, <1>3 DEF PageTypeOK
<1> QED BY <1>1, <1>4, <1>5 DEF PageInv

LEMMA SendPromptInv ==
  ASSUME PageInv, NEW q \in Posts, SendPrompt(q)
  PROVE  PageInv'
<1>0. PageTypeOK
  BY DEF PageInv
<1>1. post[q].pc = "none" /\ ~sending /\ UNCHANGED << session, given, hasty >>
  BY DEF SendPrompt
<1>2. CASE session # 0 /\ post' = Posted(post, q, session) /\ source' = NoSource /\ sending' = TRUE
           /\ UNCHANGED << bootstrap, inFlight >>
  <2>1. PICK ps : ps = ClosedStream(post)
    OBVIOUS
  <2>2. /\ ps \in [Posts -> [pc : {"none", "waiting", "posting", "open", "closed"}, session : Nat]]
        /\ \A r \in Posts : ps[r].pc \in {"posting", "open"} => Busy(r)
    BY <1>0, <2>1, ClosedPosts DEF Busy
  <2>3. post' = [ps EXCEPT ![q] = [pc |-> "posting", session |-> session]]
    BY <1>2, <2>1 DEF Posted
  <2>4. PageTypeOK'
    BY <1>0, <1>1, <1>2, <2>2, <2>3 DEF PageTypeOK
  <2>5. ASSUME ~hasty PROVE OneAtATime'
    <3>1. \A r \in Posts : ps[r].pc \notin {"posting", "open"}
      BY <1>1, <2>2, <2>5 DEF PageInv, OneAtATime
    <3>2. post'[q] = [pc |-> "posting", session |-> session] /\ \A r \in Posts : r # q => post'[r] = ps[r]
      BY <2>2, <2>3
    <3>3. \A r \in Posts : Busy(r)' <=> r = q
      BY <3>1, <3>2 DEF Busy
    <3>4. (\A b \in Bootstraps : bootstrap[b].pc # "asked")
      BY <1>2, <2>5 DEF PageInv, OneAtATime
    <3> QED BY <1>1, <1>2, <3>1, <3>2, <3>3, <3>4, ArenaPageAssumption DEF OneAtATime, NoSource
  <2> QED BY <1>1, <2>4, <2>5 DEF PageInv
<1>3. CASE /\ MayAsk /\ \E b \in Bootstraps : bootstrap[b].pc = "idle" /\ bootstrap' = Asked(bootstrap, b, "prompt", q)
           /\ inFlight' = TRUE /\ post' = [post EXCEPT ![q].pc = "waiting"]
           /\ UNCHANGED << source, sending >>
  <2>1. PICK b \in Bootstraps : bootstrap' = Asked(bootstrap, b, "prompt", q)
    BY <1>3
  <2>2. /\ bootstrap' \in [Bootstraps -> BootstrapRecord]
        /\ \A c \in Bootstraps : bootstrap'[c].by = "prompt" => bootstrap'[c].post \in Posts
        /\ \A c \in Bootstraps : c # b => bootstrap'[c] = bootstrap[c]
    BY <1>0, <2>1 DEF PageTypeOK, BootstrapRecord, Asked
  <2>3. /\ post' \in [Posts -> [pc : {"none", "waiting", "posting", "open", "closed"}, session : Nat]]
        /\ \A r \in Posts : /\ r # q => post'[r] = post[r]
                            /\ post'[q].pc = "waiting"
    BY <1>0, <1>3 DEF PageTypeOK
  <2>4. PageTypeOK'
    BY <1>0, <1>1, <1>3, <2>2, <2>3 DEF PageTypeOK
  <2>5. ASSUME ~hasty PROVE OneAtATime'
    BY <1>1, <1>3, <2>2, <2>3, <2>5 DEF PageInv, OneAtATime, Busy, MayAsk
  <2> QED BY <1>1, <2>4, <2>5 DEF PageInv
<1> QED BY <1>2, <1>3 DEF SendPrompt

LEMMA StreamInv ==
  ASSUME PageInv, NEW q \in Posts, StreamOpens(q) \/ PostFails(q) \/ FinishStream(q)
  PROVE  PageInv'
<1>0. PageTypeOK
  BY DEF PageInv
<1>1. UNCHANGED << session, given, inFlight, bootstrap, hasty >>
  BY DEF StreamOpens, PostFails, FinishStream
<1>2. PICK pc \in {"open", "closed"} : post' = [post EXCEPT ![q].pc = pc]
  BY DEF StreamOpens, PostFails, FinishStream
<1>3. /\ post' \in [Posts -> [pc : {"none", "waiting", "posting", "open", "closed"}, session : Nat]]
      /\ \A r \in Posts : r # q => post'[r] = post[r]
      /\ post'[q].pc = pc /\ post'[q].session = post[q].session
  BY <1>0, <1>2 DEF PageTypeOK
<1>4. PageTypeOK'
  BY <1>0, <1>1, <1>3 DEF PageTypeOK, StreamOpens, PostFails, FinishStream
<1>5. ASSUME ~hasty PROVE OneAtATime'
  <2>1. Busy(q) /\ OneAtATime
    BY <1>5 DEF PageInv, Busy, StreamOpens, PostFails, FinishStream
  <2>2. \A r \in Posts : r # q => ~Busy(r) /\ ~Busy(r)' /\ source # r
    BY <1>3, <2>1 DEF OneAtATime, Busy
  <2>3. CASE StreamOpens(q)
    <3>1. post'[q].pc = "open" /\ source' = q /\ sending' = sending
      BY <1>0, <2>3 DEF StreamOpens, PageTypeOK
    <3> QED BY <1>1, <1>3, <2>1, <2>2, <3>1 DEF OneAtATime, Busy
  <2>4. CASE PostFails(q) \/ FinishStream(q)
    <3>1. post'[q].pc = "closed" /\ sending' = FALSE /\ source' # q /\ source' \in {source, NoSource}
      BY <1>0, <2>1, <2>4, ArenaPageAssumption DEF PostFails, FinishStream, PageTypeOK, OneAtATime, NoSource
    <3> QED BY <1>1, <1>3, <2>1, <2>2, <3>1, ArenaPageAssumption DEF OneAtATime, Busy, NoSource
  <2> QED BY <2>3, <2>4
<1> QED BY <1>1, <1>4, <1>5 DEF PageInv

LEMMA ClearInv ==
  ASSUME PageInv, NEW closes \in BOOLEAN, NEW asking \in BOOLEAN, NEW flight \in BOOLEAN,
         asking => inFlight, ClearSession(closes, asking, flight)
  PROVE  PageInv'
<1>0. PageTypeOK
  BY DEF PageInv
<1>1. sending' = FALSE /\ session' = 0 /\ given' = given /\ hasty' = (hasty \/ UnderWay)
  BY DEF ClearSession
<1>2. PICK ps : ps = ClosedStream(post)
  OBVIOUS
<1>3. /\ ps \in [Posts -> [pc : {"none", "waiting", "posting", "open", "closed"}, session : Nat]]
      /\ \A q \in Posts : ps[q].pc = "posting" => post[q].pc = "posting"
      /\ \A q \in Posts : ps[q].pc = "open" => post[q].pc = "open" /\ q # source
  BY <1>0, <1>2, ClosedPosts
<1>4. CASE session # 0
  <2>1. Attempt(Abandoned(bootstrap), asking) /\ post' = ps /\ source' = NoSource
    BY <1>2, <1>4 DEF ClearSession
  <2>2. /\ Abandoned(bootstrap) \in [Bootstraps -> BootstrapRecord]
        /\ \A b \in Bootstraps : Abandoned(bootstrap)[b].by = "prompt" => Abandoned(bootstrap)[b].post \in Posts
        /\ \A b \in Bootstraps : Abandoned(bootstrap)[b].pc = bootstrap[b].pc
    BY <1>0, AbandonedRequests DEF PageTypeOK
  <2>3. PICK bs : bs = Abandoned(bootstrap)
    OBVIOUS
  <2>4. /\ bootstrap' \in [Bootstraps -> BootstrapRecord] /\ inFlight' \in BOOLEAN
        /\ \A b \in Bootstraps : bootstrap'[b].by = "prompt" => bootstrap'[b].post \in Posts
        /\ asking => bootstrap' = bs /\ inFlight' = inFlight
        /\ ~asking => inFlight' /\ \E b \in Bootstraps : \A c \in Bootstraps : c # b => bootstrap'[c] = bs[c]
    BY <1>0, <2>1, <2>2, <2>3, AttemptAsks
  <2>5. PageTypeOK'
    BY <1>0, <1>1, <1>3, <2>1, <2>4 DEF PageTypeOK
  <2>6. ASSUME ~hasty' PROVE OneAtATime'
    <3>1. /\ ~hasty /\ (\A q \in Posts : post[q].pc # "posting")
          /\ \A b \in Bootstraps : bootstrap[b].pc = "idle"
      BY <1>1, <2>6 DEF UnderWay, Posting
    <3>2. \A q \in Posts : ~Busy(q)'
      BY <1>3, <2>1, <3>1 DEF Busy, PageInv, OneAtATime
    <3>3. \A b \in Bootstraps : bs[b].pc = "idle"
      BY <2>2, <2>3, <3>1
    <3> QED BY <1>1, <2>1, <2>4, <3>2, <3>3, ArenaPageAssumption DEF OneAtATime, Busy, NoSource
  <2> QED BY <2>5, <2>6 DEF PageInv
<1>5. CASE session = 0
  <2>1. /\ (post' = ps /\ source' = NoSource) \/ (post' = post /\ source' = source)
        /\ inFlight' = flight /\ bootstrap' = bootstrap
    BY <1>2, <1>5 DEF ClearSession
  <2>2. PageTypeOK'
    BY <1>0, <1>1, <1>3, <2>1 DEF PageTypeOK
  <2>3. ASSUME ~hasty' PROVE OneAtATime'
    <3>1. /\ ~hasty /\ \A b \in Bootstraps : bootstrap[b].pc = "idle"
      BY <1>1, <2>3 DEF UnderWay
    <3>2. \A q \in Posts : ~Busy(q)
      BY <1>5, <3>1 DEF PageInv, OneAtATime
    <3>3. \A q \in Posts : source # q
      BY <3>1, <3>2 DEF PageInv, OneAtATime, Busy
    <3>4. \A q \in Posts : ~Busy(q)' /\ source' # q
      BY <1>3, <2>1, <3>2, <3>3, ArenaPageAssumption DEF Busy, NoSource
    <3> QED BY <1>1, <2>1, <3>1, <3>4 DEF OneAtATime, Busy
  <2> QED BY <2>2, <2>3 DEF PageInv
<1> QED BY <1>4, <1>5

LEMMA PageNextInv ==
  ASSUME PageInv, [ArenaPageNext]_pageVars
  PROVE  PageInv'
<1>1. CASE UNCHANGED pageVars
  BY <1>1 DEF PageInv, PageTypeOK, OneAtATime, Busy, pageVars
<1>2. CASE ResetGrokArena \/ DisconnectWallet
  <2>1. inFlight \in BOOLEAN
    BY DEF PageInv, PageTypeOK
  <2> QED BY <1>2, <2>1, ClearInv DEF ResetGrokArena, DisconnectWallet
<1> QED BY <1>1, <1>2, RetryInv, ArrivesInv, FailsInv, SendPromptInv, StreamInv DEF ArenaPageNext

\* The page says that a prompt is under way exactly while one is, takes no other meanwhile, and follows
\* one stream, of the session it is in, however requests for sessions and prompts are answered, unless the
\* visitor clears the session while one of them is under way (App.tsx, sendGrokPrompt and bootstrapGrokSession).
THEOREM AlwaysSendingMeansStreaming == ArenaPageSpec => []SendingMeansStreaming
<1>1. PageInv => SendingMeansStreaming
  <2> SUFFICES ASSUME PageInv, ~hasty
               PROVE  /\ sending <=> Posting \cup Streaming # {}
                      /\ Cardinality(Posting \cup Streaming) <= 1
                      /\ Streaming = (IF source = NoSource THEN {} ELSE {source})
                      /\ \A q \in Posting \cup Streaming : post[q].session = session
    BY DEF SendingMeansStreaming
  <2>1. PageTypeOK /\ OneAtATime
    BY DEF PageInv
  <2>2. \A q : q \in Posting \cup Streaming <=> q \in Posts /\ Busy(q)
    BY DEF Posting, Streaming, Busy
  <2>3. sending <=> Posting \cup Streaming # {}
    BY <2>1, <2>2 DEF OneAtATime, PageTypeOK
  <2>4. Cardinality(Posting \cup Streaming) <= 1
    <3>1. CASE Posting \cup Streaming = {}
      BY <3>1, FS_EmptySet
    <3>2. CASE Posting \cup Streaming # {}
      <4>1. PICK q : q \in Posting \cup Streaming
        BY <3>2
      <4>2. Posting \cup Streaming = {q}
        <5>1. \A r : r \in Posting \cup Streaming => r = q
          BY <2>1, <2>2, <4>1 DEF OneAtATime
        <5> QED BY <4>1, <5>1
      <4>3. PICK busy : busy = Posting \cup Streaming
        OBVIOUS
      <4>4. Cardinality({q}) = 1 /\ busy = {q}
        BY <4>2, <4>3, FS_Singleton
      <4>5. Cardinality(busy) <= 1
        BY <4>4
      <4> QED BY <4>3, <4>5
    <3> QED BY <3>1, <3>2
  <2>5. Streaming = (IF source = NoSource THEN {} ELSE {source})
    BY <2>1, ArenaPageAssumption DEF Streaming, OneAtATime, PageTypeOK, NoSource
  <2>6. \A q \in Posting \cup Streaming : post[q].session = session
    BY <2>1, <2>2 DEF OneAtATime
  <2> QED BY <2>3, <2>4, <2>5, <2>6
<1> QED BY <1>1, PageInitInv, PageNextInv, PTL DEF ArenaPageSpec

-----------------------------------------------------------------------------
(***************************************************************************)
(* RecentFeed: since the page was last loaded, latest is the block of the  *)
(* last row known, so that a poll, which looks back before it, asks for    *)
(* every row that is not known yet.                                        *)
(***************************************************************************)

RowKeys == (1..LastBlock) \X (0..LastIndex)

RecentFeedTypeOK ==
  /\ rows \in Seq(RowKeys) /\ entries \in SUBSET RowKeys /\ latest \in 0..LastBlock /\ known \in Nat
  /\ restarts \in [chain : Nat, page : Nat] /\ restarts.page <= restarts.chain
  /\ poll \in [Polls -> [pc : {"idle", "sent", "answered"}, since : Nat, page : SUBSET RowKeys, seen : Nat]]

\* Rows are in the order of the chain.
RowsInOrder == \A i, j \in 1..Len(rows) : i <= j => ~Older(rows[j], rows[i])

\* A poll asks for what is not known, and its page has the newest of it.
PollSound(p) ==
  /\ poll[p].pc # "idle" => poll[p].since = 0 \/ poll[p].since < latest
  /\ poll[p].pc = "answered" =>
       /\ poll[p].seen \in 0..Len(rows)
       /\ poll[p].page \subseteq {rows[i] : i \in 1..poll[p].seen}
       /\ \A i \in 1..poll[p].seen : i > poll[p].seen - Limit /\ rows[i][1] > poll[p].since => rows[i] \in poll[p].page

PageInSync ==
  /\ known \in 0..Len(rows)
  /\ entries \subseteq {rows[i] : i \in 1..known}
  /\ known = 0 => latest = 0
  /\ known > 0 => latest = rows[known][1]
  /\ \A i \in 1..known : i > known - Limit => rows[i] \in entries
  /\ \A p \in Polls : PollSound(p)

RecentFeedInv ==
  /\ RecentFeedTypeOK /\ RowsInOrder
  /\ restarts.page = restarts.chain => PageInSync

LEMMA GreatestOfTwo ==
  ASSUME NEW a \in Int, NEW b \in Int
  PROVE  Max({a, b}) = IF a >= b THEN a ELSE b
<1>1. \E m \in {a, b} : \A k \in {a, b} : m >= k
  OBVIOUS
<1>2. Max({a, b}) \in {a, b} /\ \A k \in {a, b} : Max({a, b}) >= k
  BY <1>1 DEF Max
<1> QED BY <1>2

LEMMA GreatestOfMany ==
  ASSUME NEW n \in Nat, NEW T, T \subseteq 0..n, T # {}
  PROVE  Max(T) \in T /\ \A k \in T : k <= Max(T)
<1>1. PICK m \in T : \A k \in T : k <= m
  BY GreatestNumber
<1>2. \A k \in T : m >= k
  BY <1>1
<1>3. Max(T) \in T /\ \A k \in T : Max(T) >= k
  BY <1>2 DEF Max
<1> QED BY <1>3

\* There are no more keys than rows.
LEMMA TailCounted ==
  ASSUME NEW n \in Nat, NEW i \in Nat, i <= n, NEW T, T \subseteq {rows[j] : j \in (i + 1)..n}
  PROVE  Cardinality(T) \in Nat /\ Cardinality(T) <= n - i
<1>0. PICK a : a = i + 1 /\ a \in Int /\ n \in Int
  OBVIOUS
<1>1. IsFiniteSet((i + 1)..n) /\ Cardinality((i + 1)..n) = n - i
  <2>1. /\ IsFiniteSet(a..n)
        /\ Cardinality(a..n) = IF a > n THEN 0 ELSE n - a + 1
    BY <1>0, FS_Interval
  <2> QED BY <1>0, <2>1
<1>2. PICK S : S = {rows[j] : j \in (i + 1)..n}
  OBVIOUS
<1>3. [j \in (i + 1)..n |-> rows[j]] \in Surjection((i + 1)..n, S)
  BY <1>2 DEF Surjection
<1>4. IsFiniteSet(S) /\ Cardinality(S) <= n - i
  BY <1>1, <1>3, FS_Surjection
<1> QED BY <1>2, <1>4, FS_Subset, FS_CardinalityType

LEMMA RecentFeedInitInv == RecentFeedInit => RecentFeedInv
  BY RecentFeedAssumption
  DEF RecentFeedInit, RecentFeedInv, RecentFeedTypeOK, RowsInOrder, PageInSync, PollSound, NoPoll

LEMMA AppendInv ==
  ASSUME RecentFeedInv, NEW k \in RowKeys, AppendRow(k)
  PROVE  RecentFeedInv'
<1>1. /\ rows \in Seq(RowKeys) /\ rows' = Append(rows, k)
      /\ UNCHANGED << poll, entries, latest, known, restarts >>
      /\ Len(rows) > 0 => ~Older(k, rows[Len(rows)])
  BY DEF RecentFeedInv, RecentFeedTypeOK, AppendRow, Last
<1>2. /\ rows' \in Seq(RowKeys) /\ Len(rows') = Len(rows) + 1 /\ Len(rows) \in Nat
      /\ \A i \in 1..Len(rows) : rows'[i] = rows[i] /\ rows[i] \in RowKeys
      /\ rows'[Len(rows) + 1] = k
  BY <1>1
<1>3. RecentFeedTypeOK'
  BY <1>1, <1>2 DEF RecentFeedInv, RecentFeedTypeOK
<1>4. RowsInOrder'
  <2> SUFFICES ASSUME NEW i \in 1..(Len(rows) + 1), NEW j \in 1..(Len(rows) + 1), i <= j
               PROVE  ~Older(rows'[j], rows'[i])
    BY <1>2 DEF RowsInOrder
  <2>1. CASE j <= Len(rows)
    BY <1>2, <2>1 DEF RecentFeedInv, RowsInOrder
  <2>2. CASE j = Len(rows) + 1 /\ i <= Len(rows)
    <3>1. ~Older(rows[Len(rows)], rows[i]) /\ ~Older(k, rows[Len(rows)])
      BY <1>1, <1>2, <2>2 DEF RecentFeedInv, RowsInOrder
    <3>2. {k, rows[Len(rows)], rows[i]} \subseteq RowKeys
      BY <1>2, <2>2
    <3>3. ~Older(k, rows[i])
      BY <3>1, <3>2 DEF Older, RowKeys
    <3> QED BY <1>2, <2>2, <3>3
  <2>3. CASE i = Len(rows) + 1
    BY <1>2, <2>3 DEF Older, RowKeys
  <2> QED BY <1>2, <2>1, <2>2, <2>3
<1>5. ASSUME restarts.page = restarts.chain PROVE PageInSync'
  <2>1. PageInSync
    BY <1>5 DEF RecentFeedInv
  <2>2. \A n \in 0..Len(rows) : {rows'[i] : i \in 1..n} = {rows[i] : i \in 1..n}
    BY <1>2
  <2>3. \A p \in Polls : PollSound(p)'
    <3> SUFFICES ASSUME NEW p \in Polls PROVE PollSound(p)'
      OBVIOUS
    <3>1. PollSound(p) /\ poll' = poll /\ latest' = latest
      BY <1>1, <2>1 DEF PageInSync
    <3>2. ASSUME poll[p].pc = "answered"
          PROVE  /\ poll[p].seen \in 0..Len(rows')
                 /\ poll[p].page \subseteq {rows'[i] : i \in 1..poll[p].seen}
                 /\ \A i \in 1..poll[p].seen : i > poll[p].seen - Limit /\ rows'[i][1] > poll[p].since => rows'[i] \in poll[p].page
      BY <1>2, <2>2, <3>1, <3>2 DEF PollSound
    <3> QED BY <3>1, <3>2 DEF PollSound
  <2>4. /\ known \in 0..Len(rows') /\ entries \subseteq {rows'[i] : i \in 1..known}
        /\ known > 0 => latest = rows'[known][1]
        /\ \A i \in 1..known : i > known - Limit => rows'[i] \in entries
    BY <1>2, <2>1, <2>2 DEF PageInSync
  <2> QED BY <1>1, <2>1, <2>3, <2>4 DEF PageInSync
<1> QED BY <1>1, <1>3, <1>4, <1>5 DEF RecentFeedInv

LEMMA EmptyLoadInv ==
  ASSUME RecentFeedInv, EmptyTable \/ LoadPage
  PROVE  RecentFeedInv'
<1>1. RecentFeedTypeOK /\ RowsInOrder
  BY DEF RecentFeedInv
<1>2. CASE EmptyTable
  <2>1. restarts' \in [chain : Nat, page : Nat] /\ restarts'.page < restarts'.chain
    BY <1>1, <1>2 DEF EmptyTable, RecentFeedTypeOK
  <2>2. RecentFeedTypeOK' /\ RowsInOrder'
    BY <1>1, <1>2, <2>1 DEF EmptyTable, RecentFeedTypeOK, RowsInOrder
  <2> QED BY <2>1, <2>2 DEF RecentFeedInv
<1>3. CASE LoadPage
  <2>1. restarts' \in [chain : Nat, page : Nat] /\ restarts'.page = restarts'.chain
    BY <1>1, <1>3 DEF LoadPage, RecentFeedTypeOK
  <2>2. RecentFeedTypeOK' /\ RowsInOrder'
    BY <1>1, <1>3, <2>1, RecentFeedAssumption DEF LoadPage, RecentFeedTypeOK, RowsInOrder, NoPoll
  <2>3. PageInSync'
    BY <1>1, <1>3, RecentFeedAssumption DEF LoadPage, PageInSync, PollSound, NoPoll, RecentFeedTypeOK
  <2> QED BY <2>1, <2>2, <2>3 DEF RecentFeedInv
<1> QED BY <1>2, <1>3

\* A step of a poll changes nothing of the others.
LEMMA PollSteps ==
  ASSUME RecentFeedInv, NEW p \in Polls, NEW r, poll' = [poll EXCEPT ![p] = r],
         r \in [pc : {"idle", "sent", "answered"}, since : Nat, page : SUBSET RowKeys, seen : Nat],
         UNCHANGED << rows, entries, latest, known, restarts >>,
         restarts.page = restarts.chain /\ PageInSync => PollSound(p)'
  PROVE  RecentFeedInv'
<1>1. RecentFeedTypeOK' /\ RowsInOrder'
  BY DEF RecentFeedInv, RecentFeedTypeOK, RowsInOrder
<1>2. \A q \in Polls : q # p => (PollSound(q)' <=> PollSound(q))
  BY DEF RecentFeedInv, RecentFeedTypeOK, PollSound
<1>3. restarts'.page = restarts'.chain => PageInSync'
  BY <1>2 DEF RecentFeedInv, PageInSync
<1> QED BY <1>1, <1>3 DEF RecentFeedInv

LEMMA SendPollInv ==
  ASSUME RecentFeedInv, NEW p \in Polls, SendPoll(p)
  PROVE  RecentFeedInv'
<1>1. /\ latest \in Nat /\ LookbackBlocks \in Nat /\ LookbackBlocks > 0
      /\ poll \in [Polls -> [pc : {"idle", "sent", "answered"}, since : Nat, page : SUBSET RowKeys, seen : Nat]]
  BY RecentFeedAssumption DEF RecentFeedInv, RecentFeedTypeOK
<1>2. SinceLookback \in Nat /\ (SinceLookback = 0 \/ SinceLookback < latest)
  BY <1>1, GreatestOfTwo DEF SinceLookback
<1>3. PICK r : r = [poll[p] EXCEPT !.pc = "sent", !.since = SinceLookback]
  OBVIOUS
<1>4. /\ r \in [pc : {"idle", "sent", "answered"}, since : Nat, page : SUBSET RowKeys, seen : Nat]
      /\ r.pc = "sent" /\ r.since = SinceLookback
  BY <1>1, <1>2, <1>3
<1>5. poll' = [poll EXCEPT ![p] = r] /\ UNCHANGED << rows, entries, latest, known, restarts >>
  BY <1>3 DEF SendPoll
<1>6. PollSound(p)'
  BY <1>1, <1>2, <1>4, <1>5 DEF PollSound
<1> QED BY <1>4, <1>5, <1>6, PollSteps

LEMMA RunQueryInv ==
  ASSUME RecentFeedInv, NEW p \in Polls, RunQuery(p)
  PROVE  RecentFeedInv'
<1>1. /\ rows \in Seq(RowKeys) /\ Limit \in Nat
      /\ poll \in [Polls -> [pc : {"idle", "sent", "answered"}, since : Nat, page : SUBSET RowKeys, seen : Nat]]
  BY RecentFeedAssumption DEF RecentFeedInv, RecentFeedTypeOK
<1>2. PICK n, since, page : n = Len(rows) /\ since = poll[p].since /\ page = RecentRows(since)
  OBVIOUS
<1>3. n \in Nat /\ DOMAIN rows = 1..n /\ since \in Nat /\ \A i \in 1..n : rows[i] \in RowKeys
  BY <1>1, <1>2
<1>4. page \subseteq {rows[i] : i \in 1..n}
  BY <1>2, <1>3 DEF RecentRows
<1>5. ASSUME NEW i \in 1..n, i > n - Limit, rows[i][1] > since PROVE rows[i] \in page
  <2>1. PICK above : above = {j \in DOMAIN rows : rows[j][1] > since}
    OBVIOUS
  <2>2. i \in above /\ {j \in above : j > i} \subseteq (i + 1)..n
    BY <1>3, <1>5, <2>1
  <2>3. IsFiniteSet((i + 1)..n) /\ Cardinality((i + 1)..n) = n - i
    BY <1>3, FS_Interval
  <2>4. Cardinality({j \in above : j > i}) <= n - i /\ Cardinality({j \in above : j > i}) \in Nat
    BY <2>2, <2>3, FS_Subset, FS_CardinalityType
  <2>5. Cardinality({j \in above : j > i}) < Limit
    BY <1>1, <1>3, <1>5, <2>4
  <2> QED BY <1>2, <2>1, <2>2, <2>5 DEF RecentRows
<1>6. PICK r : r = [poll[p] EXCEPT !.pc = "answered", !.page = page, !.seen = n]
  OBVIOUS
<1>7. /\ r \in [pc : {"idle", "sent", "answered"}, since : Nat, page : SUBSET RowKeys, seen : Nat]
      /\ r.pc = "answered" /\ r.page = page /\ r.seen = n /\ r.since = since
  <2>1. page \in SUBSET RowKeys
    BY <1>3, <1>4
  <2>2. PICK c : c = poll[p]
    OBVIOUS
  <2>3. c \in [pc : {"idle", "sent", "answered"}, since : Nat, page : SUBSET RowKeys, seen : Nat] /\ c.since = since
    BY <1>1, <1>2, <2>2
  <2>4. r = [c EXCEPT !.pc = "answered", !.page = page, !.seen = n]
    BY <1>6, <2>2
  <2> QED BY <1>3, <2>1, <2>3, <2>4
<1>8. /\ poll' = [poll EXCEPT ![p] = r] /\ poll[p].pc = "sent"
      /\ UNCHANGED << rows, entries, latest, known, restarts >>
  BY <1>2, <1>6 DEF RunQuery
<1>9. PageInSync => PollSound(p)'
  <2> SUFFICES ASSUME PageInSync PROVE PollSound(p)'
    OBVIOUS
  <2>1. poll'[p] = r /\ rows' = rows /\ latest' = latest
    BY <1>1, <1>8
  <2>2. since = 0 \/ since < latest
    BY <1>2, <1>8 DEF PageInSync, PollSound
  <2>3. n \in 0..Len(rows')
    BY <1>2, <1>3, <2>1
  <2>4. \A i \in 1..n : i > n - Limit /\ rows'[i][1] > since => rows'[i] \in page
    BY <1>5, <2>1
  <2>5. page \subseteq {rows'[i] : i \in 1..n}
    BY <1>4, <2>1
  <2> QED BY <1>7, <2>1, <2>2, <2>3, <2>4, <2>5 DEF PollSound
<1> QED BY <1>7, <1>8, <1>9, PollSteps

\* What a merge leaves, out of rows up to n: none of the newest is pushed out, for
\* there are not as many newer keys as the page has room for.
LEMMA NewestStay ==
  ASSUME RecentFeedInv, NEW n \in 0..Len(rows), NEW all, all \subseteq {rows[i] : i \in 1..n},
         NEW i \in 1..n, i > n - Limit, rows[i] \in all
  PROVE  rows[i] \in Newest(all, Capacity)
<1>1. rows \in Seq(RowKeys) /\ RowsInOrder /\ Len(rows) \in Nat
  BY DEF RecentFeedInv, RecentFeedTypeOK
<1>2. PICK T : T = {m \in all : Older(rows[i], m)}
  OBVIOUS
<1>3. T \subseteq {rows[j] : j \in (i + 1)..n}
  <2> SUFFICES ASSUME NEW m \in T PROVE \E j \in (i + 1)..n : m = rows[j]
    OBVIOUS
  <2>1. PICK j \in 1..n : m = rows[j]
    BY <1>2
  <2>2. ~(j <= i)
    BY <1>1, <1>2, <2>1 DEF RowsInOrder
  <2> QED BY <1>1, <2>1, <2>2
<1>4. Cardinality(T) \in Nat /\ Cardinality(T) <= n - i
  <2>1. n \in Nat /\ i \in Nat /\ i <= n
    BY <1>1
  <2> QED BY <1>3, <2>1, TailCounted
<1>5. Cardinality(T) < Capacity
  BY <1>1, <1>4, RecentFeedAssumption
<1> QED BY <1>2, <1>5 DEF Newest

LEMMA MergeInv ==
  ASSUME RecentFeedInv, NEW p \in Polls, MergeAnswer(p)
  PROVE  RecentFeedInv'
<1>0. /\ RecentFeedTypeOK /\ RowsInOrder /\ rows \in Seq(RowKeys) /\ Len(rows) \in Nat /\ Limit \in Nat
      /\ Limit > 0 /\ LastBlock \in Nat /\ latest \in 0..LastBlock /\ known \in Nat
  BY RecentFeedAssumption DEF RecentFeedInv, RecentFeedTypeOK
<1>1. PICK page, noted, since, all :
        page = poll[p].page /\ noted = poll[p].seen /\ since = poll[p].since /\ all = entries \cup page
  OBVIOUS
<1>2. /\ poll[p].pc = "answered" /\ entries' = Newest(all, Capacity) /\ known' = Max({known, noted})
      /\ poll' = [poll EXCEPT ![p] = NoPoll] /\ rows' = rows /\ restarts' = restarts
  BY <1>1 DEF MergeAnswer, MergeEntries
<1>3. PICK blocks : blocks = {latest} \cup {k[1] : k \in entries'} \cup {k[1] : k \in page}
  OBVIOUS
<1>4. latest' = Max(blocks)
  BY <1>1, <1>3 DEF MergeAnswer
<1>5. /\ page \subseteq RowKeys /\ noted \in Nat /\ since \in Nat /\ all \subseteq RowKeys /\ entries' \subseteq all
  BY <1>0, <1>1, <1>2 DEF RecentFeedTypeOK, Newest
<1>6. blocks \subseteq 0..LastBlock /\ blocks # {}
  BY <1>0, <1>3, <1>5 DEF RowKeys
<1>7. latest' \in blocks /\ \A b \in blocks : b <= latest'
  BY <1>0, <1>4, <1>6, GreatestOfMany
<1>8. known' = IF known >= noted THEN known ELSE noted
  BY <1>0, <1>2, <1>5, GreatestOfTwo
<1>9. RecentFeedTypeOK' /\ RowsInOrder'
  <2>1. poll' \in [Polls -> [pc : {"idle", "sent", "answered"}, since : Nat, page : SUBSET RowKeys, seen : Nat]]
    BY <1>0, <1>2 DEF RecentFeedTypeOK, NoPoll
  <2> QED BY <1>0, <1>2, <1>5, <1>6, <1>7, <1>8, <2>1 DEF RecentFeedTypeOK, RowsInOrder
<1>10. ASSUME restarts.page = restarts.chain PROVE PageInSync'
  <2>1. PageInSync /\ PollSound(p)
    BY <1>10 DEF RecentFeedInv, PageInSync
  <2>2. /\ known \in 0..Len(rows) /\ noted \in 0..Len(rows)
        /\ page \subseteq {rows[i] : i \in 1..noted}
        /\ \A i \in 1..noted : i > noted - Limit /\ rows[i][1] > since => rows[i] \in page
        /\ since = 0 \/ since < latest
    BY <1>1, <1>2, <2>1 DEF PageInSync, PollSound
  <2>3. PICK n \in 0..Len(rows) : n = known' /\ known <= n /\ noted <= n /\ (n = known \/ n = noted)
    BY <1>0, <1>8, <2>2
  <2>4. all \subseteq {rows[i] : i \in 1..n}
    <3>1. \A i \in 1..known : i \in 1..n
      BY <1>0, <2>3
    <3>2. \A i \in 1..noted : i \in 1..n
      BY <1>5, <2>3
    <3>3. entries \subseteq {rows[i] : i \in 1..known}
      BY <2>1 DEF PageInSync
    <3> QED BY <1>1, <2>2, <3>1, <3>2, <3>3
  <2>5. \A i \in 1..Len(rows) : rows[i] \in RowKeys /\ rows[i][1] \in Nat /\ rows[i][1] > 0
    BY <1>0 DEF RowKeys
  <2>6. \A i, j \in 1..Len(rows) : i <= j => rows[i][1] <= rows[j][1]
    BY <1>0, <2>5 DEF RowsInOrder, Older, RowKeys
  <2>7. \A i \in 1..Len(rows) : rows[i][1] <= since => i < known
    <3> SUFFICES ASSUME NEW i \in 1..Len(rows), rows[i][1] <= since PROVE i < known
      OBVIOUS
    <3>1. since < latest /\ known > 0
      BY <1>0, <1>5, <2>1, <2>2, <2>5 DEF PageInSync
    <3>2. latest = rows[known][1] /\ known \in 1..Len(rows)
      BY <1>0, <2>1, <2>2, <3>1 DEF PageInSync
    <3> QED BY <1>0, <1>5, <2>2, <2>5, <2>6, <3>1, <3>2
  <2>8. \A i \in 1..n : i > n - Limit => rows[i] \in all
    <3> SUFFICES ASSUME NEW i \in 1..n, i > n - Limit PROVE rows[i] \in all
      OBVIOUS
    <3>1. CASE i <= known
      <4>1. i \in 1..known /\ i > known - Limit
        <5>1. i \in Nat /\ i > 0 /\ n \in Nat /\ known <= n
          BY <1>0, <2>3
        <5> QED BY <1>0, <3>1, <5>1
      <4> QED BY <1>1, <2>1, <4>1 DEF PageInSync
    <3>2. CASE i > known
      <4>1. n = noted /\ i \in 1..noted /\ i > noted - Limit /\ i \in 1..Len(rows)
        <5>1. i \in Nat /\ i > 0 /\ i <= n /\ n \in Nat /\ n <= Len(rows) /\ (n = known \/ n = noted)
          BY <1>0, <2>3
        <5> QED BY <1>0, <3>2, <5>1
      <4>2. rows[i][1] > since
        BY <1>0, <1>5, <2>5, <2>7, <3>2, <4>1
      <4> QED BY <1>1, <2>2, <4>1, <4>2
    <3> QED BY <1>0, <3>1, <3>2
  <2>9. \A i \in 1..n : i > n - Limit => rows[i] \in entries'
    BY <1>2, <2>4, <2>8, NewestStay
  <2>10. entries' \subseteq {rows[i] : i \in 1..n}
    BY <1>5, <2>4
  <2>11. n = 0 => latest' = 0
    <3> SUFFICES ASSUME n = 0 PROVE latest' = 0
      OBVIOUS
    <3>1. all = {} /\ known = 0
      BY <1>0, <2>3, <2>4
    <3>2. entries' = {} /\ page = {} /\ latest = 0
      BY <1>1, <1>5, <2>1, <3>1 DEF PageInSync
    <3> QED BY <1>3, <1>7, <3>2
  <2>12. n > 0 => latest' = rows[n][1]
    <3> SUFFICES ASSUME n > 0 PROVE latest' = rows[n][1]
      OBVIOUS
    <3>0. n \in 1..n /\ n \in 1..Len(rows) /\ n > n - Limit
      <4>1. n \in Nat /\ n > 0 /\ n <= Len(rows)
        BY <1>0, <2>3
      <4> QED BY <1>0, <4>1
    <3>1. rows[n][1] \in blocks
      BY <1>3, <2>9, <3>0
    <3>2. \A k \in all : k[1] <= rows[n][1]
      BY <1>0, <2>4, <2>6, <3>0
    <3>3. latest <= rows[n][1]
      BY <1>0, <2>1, <2>2, <2>3, <2>5, <2>6, <3>0 DEF PageInSync
    <3>4. \A b \in blocks : b <= rows[n][1]
      BY <1>1, <1>3, <1>5, <3>2, <3>3
    <3> QED BY <1>6, <1>7, <2>5, <3>0, <3>1, <3>4
  <2>13. latest <= latest'
    BY <1>3, <1>7
  <2>14. \A q \in Polls : PollSound(q)'
    <3> SUFFICES ASSUME NEW q \in Polls PROVE PollSound(q)'
      OBVIOUS
    <3>1. CASE q = p
      <4>1. poll'[p] = NoPoll
        BY <1>0, <1>2 DEF RecentFeedTypeOK
      <4>2. poll'[p].pc = "idle"
        BY <4>1 DEF NoPoll
      <4> QED BY <3>1, <4>2 DEF PollSound
    <3>2. CASE q # p
      <4>1. poll'[q] = poll[q] /\ poll[q].since \in Nat /\ PollSound(q) /\ latest' \in Nat
        BY <1>0, <1>2, <1>6, <1>7, <2>1, <3>2 DEF RecentFeedTypeOK, PageInSync
      <4> QED BY <1>0, <1>2, <2>13, <4>1 DEF PollSound
    <3> QED BY <3>1, <3>2
  <2> QED BY <1>2, <2>3, <2>9, <2>10, <2>11, <2>12, <2>14 DEF PageInSync
<1> QED BY <1>2, <1>9, <1>10 DEF RecentFeedInv

LEMMA PollFailsInv ==
  ASSUME RecentFeedInv, NEW p \in Polls, PollFails(p)
  PROVE  RecentFeedInv'
<1>1. NoPoll \in [pc : {"idle", "sent", "answered"}, since : Nat, page : SUBSET RowKeys, seen : Nat] /\ NoPoll.pc = "idle"
  BY DEF NoPoll
<1>2. PollSound(p)'
  BY <1>1 DEF PollFails, PollSound, RecentFeedInv, RecentFeedTypeOK
<1> QED BY <1>1, <1>2, PollSteps DEF PollFails

LEMMA RecentFeedNextInv ==
  ASSUME RecentFeedInv, [RecentFeedNext]_feedVars
  PROVE  RecentFeedInv'
<1>1. CASE UNCHANGED feedVars
  BY <1>1 DEF feedVars, RecentFeedInv, RecentFeedTypeOK, RowsInOrder, PageInSync, PollSound
<1> QED BY <1>1, AppendInv, EmptyLoadInv, SendPollInv, RunQueryInv, MergeInv, PollFailsInv DEF RecentFeedNext, RowKeys

\* The page shows every row that the latest query answered could see and an answer
\* has room for, whatever polls overlap, fail or are overtaken (useFeed.ts, load and mergeEntries).
THEOREM FeedNeverHasGap == RecentFeedSpec => []FeedHasNoGap
<1>1. RecentFeedInv => FeedHasNoGap
  BY DEF RecentFeedInv, PageInSync, FeedHasNoGap
<1> QED BY <1>1, RecentFeedInitInv, RecentFeedNextInv, PTL DEF RecentFeedSpec

-----------------------------------------------------------------------------
(***************************************************************************)
(* GrokArena: what a run remembers, and what a stream got, is the end of   *)
(* all that was pushed, and a run that is open has not ended; a stream is  *)
(* open as long as its run is, because a run that was answered is closed   *)
(* only by an event that ends it.                                          *)
(***************************************************************************)

Chunk == Prompts \X Nat
GrokEvents == [type : {"token", "final"}, of : Seq(Chunk)] \cup {Error} \cup {Action(h) : h \in Hashes}

\* What s has is the end of t, as much of it as is remembered.
TailOf(s, t) == Len(s) <= Len(t) /\ \A i \in 1..Len(s) : s[i] = t[Len(t) - Len(s) + i]
Tells(s, t) == TailOf(s, t) /\ (Len(s) >= MaxEvents \/ Len(s) = Len(t))

RunState == [state : {"none", "open", "closed", "gone"}, text : Seq(Chunk), events : Seq(GrokEvents), seen : SUBSET Hashes]
StreamState == [pc : {"idle", "open", "ended", "not_found", "left"}, run : Prompts \cup {NoRun}, got : Seq(GrokEvents)]
PromptState == [pc : {"idle", "checked", "refused", "failed", "waiting", "sending", "answered"}, session : Sessions]
JobState == [state : {"none", "live", "done"}, made : Nat]

GrokTypeOK ==
  /\ prompt \in [Prompts -> PromptState]
  /\ run \in [Prompts -> RunState]
  /\ pushed \in [Prompts -> Seq(GrokEvents)]
  /\ active \in [Sessions -> Prompts \cup {NoRun}]
  /\ job \in [Prompts -> JobState]
  /\ stream \in [Streams -> StreamState]
  /\ apart \subseteq Sessions

\* A run c, which was pushed all, and whose prompt is at pc.
EndsOnce(all) ==
  \A i, k \in 1..Len(all) : i < k => ~Ends(all[i]) /\ (all[i].type = "action" => all[i] # all[k])
Unopened == {"idle", "checked", "refused"}
Answerable == {"waiting", "sending", "answered"}
RunTells(pc, c, all) ==
  /\ Tells(c.events, all)
  /\ c.state = "open" => \A i \in 1..Len(all) : ~Ends(all[i])
  /\ EndsOnce(all)
  /\ \A i \in 1..Len(all) : all[i].type = "action" => \E h \in c.seen : all[i] = Action(h)
  /\ pc \in Unopened => c = NoState /\ all = << >>
  /\ pc \in Answerable /\ c.state = "closed" => Ending(all)

\* A stream s of that run.
StreamTells(s, pc, c, all) ==
  /\ pc = "answered"
  /\ c.state # "gone" => Tells(s.got, all)
  /\ s.pc = "ended" => Ending(s.got) /\ c.state # "open"
  /\ s.pc = "open" => c.state = "open"

RunsTell == \A p \in Prompts : RunTells(prompt[p].pc, run[p], pushed[p])
StreamsTell ==
  \A st \in Streams : \A p \in Prompts :
    stream[st].pc \in {"open", "ended"} /\ stream[st].run = p => StreamTells(stream[st], prompt[p].pc, run[p], pushed[p])
StreamsHaveRuns == \A st \in Streams : stream[st].pc \in {"open", "ended"} => stream[st].run \in Prompts

GrokInv == GrokTypeOK /\ RunsTell /\ StreamsTell /\ StreamsHaveRuns

\* What a handler pushes to the run c.
News(c, es, text, noted) ==
  /\ es \in Seq(GrokEvents) /\ text \in Seq(Chunk) /\ noted \in SUBSET Hashes /\ c.seen \subseteq noted
  /\ EndsOnce(es)
  /\ \A i \in 1..Len(es) : es[i].type = "action" => \E h \in noted \ c.seen : es[i] = Action(h)

LEMMA EventTypes ==
  /\ \A e \in GrokEvents : e.type \in {"token", "final", "error", "action"}
  /\ \A e \in GrokEvents : e.type = "action" => ~Ends(e)
  /\ \A g, h : Action(g) = Action(h) => g = h
<1>1. \A g, h : Action(g) = Action(h) => g = h
  <2> SUFFICES ASSUME NEW g, NEW h, Action(g) = Action(h) PROVE g = h
    OBVIOUS
  <2>1. Action(g).of = << g >> /\ Action(h).of = << h >>
    BY DEF Action
  <2>2. << g >> = << h >>
    BY <2>1
  <2>3. << g >>[1] = << h >>[1]
    BY <2>2
  <2> QED BY <2>3
<1> QED BY <1>1 DEF GrokEvents, Error, Action, Ends

LEMMA TailGrows ==
  ASSUME NEW S, NEW s \in Seq(S), NEW t \in Seq(S), NEW e \in Seq(S), TailOf(s, t)
  PROVE  TailOf(s \o e, t \o e)
<1>1. /\ Len(s \o e) = Len(s) + Len(e) /\ Len(t \o e) = Len(t) + Len(e)
      /\ Len(s) \in Nat /\ Len(t) \in Nat /\ Len(e) \in Nat /\ Len(s) <= Len(t)
  BY DEF TailOf
<1>2. ASSUME NEW i \in 1..Len(s \o e) PROVE (s \o e)[i] = (t \o e)[Len(t \o e) - Len(s \o e) + i]
  <2>1. PICK d : d = Len(t) - Len(s) /\ d \in Nat /\ Len(t \o e) - Len(s \o e) + i = d + i
    BY <1>1
  <2>2. CASE i <= Len(s)
    <3>1. i \in 1..Len(s) /\ d + i \in 1..Len(t)
      BY <1>1, <2>1, <2>2
    <3>2. (s \o e)[i] = s[i] /\ (t \o e)[d + i] = t[d + i]
      BY <3>1
    <3> QED BY <2>1, <3>1, <3>2 DEF TailOf
  <2>3. CASE i > Len(s)
    <3>1. i - Len(s) \in 1..Len(e) /\ d + i - Len(t) = i - Len(s) /\ d + i > Len(t) /\ d + i <= Len(t) + Len(e)
      BY <1>1, <2>1, <2>3
    <3>2. (s \o e)[i] = e[i - Len(s)] /\ (t \o e)[d + i] = e[d + i - Len(t)]
      BY <1>1, <2>1, <2>3, <3>1
    <3> QED BY <2>1, <3>1, <3>2
  <2> QED BY <1>1, <2>2, <2>3
<1> QED BY <1>1, <1>2 DEF TailOf

LEMMA TailOfTail ==
  ASSUME NEW S, NEW s \in Seq(S), NEW t \in Seq(S), NEW u \in Seq(S), TailOf(s, t), TailOf(t, u)
  PROVE  TailOf(s, u)
<1>0. Len(s) \in Nat /\ Len(t) \in Nat /\ Len(u) \in Nat /\ Len(s) <= Len(t) /\ Len(t) <= Len(u)
  BY DEF TailOf
<1>1. PICK a, b, c : a = Len(s) /\ b = Len(t) /\ c = Len(u) /\ a \in Nat /\ b \in Nat /\ c \in Nat /\ a <= b /\ b <= c
  BY <1>0
<1>2. ASSUME NEW i \in 1..a PROVE s[i] = u[c - a + i]
  <2>1. b - a + i \in 1..b /\ c - b + (b - a + i) = c - a + i
    BY <1>1
  <2>2. s[i] = t[b - a + i] /\ t[b - a + i] = u[c - b + (b - a + i)]
    BY <1>1, <2>1 DEF TailOf
  <2> QED BY <2>1, <2>2
<1> QED BY <1>1, <1>2 DEF TailOf

LEMMA RememberedTail ==
  ASSUME NEW es \in Seq(GrokEvents)
  PROVE  /\ Remembered(es) \in Seq(GrokEvents) /\ TailOf(Remembered(es), es)
         /\ Len(Remembered(es)) = IF Len(es) > MaxEvents THEN MaxEvents ELSE Len(es)
<1>0. Len(es) \in Nat /\ MaxEvents \in Nat /\ MaxEvents > 0
  BY GrokAssumption
<1>1. CASE Len(es) > MaxEvents
  <2>1. PICK m : m = Len(es) - MaxEvents + 1 /\ m \in 1..Len(es)
    BY <1>0, <1>1
  <2>2. Remembered(es) = SubSeq(es, m, Len(es))
    BY <1>1, <2>1 DEF Remembered
  <2>3. /\ SubSeq(es, m, Len(es)) \in Seq(GrokEvents)
        /\ Len(SubSeq(es, m, Len(es))) = Len(es) - m + 1
        /\ \A i \in 1..(Len(es) - m + 1) : SubSeq(es, m, Len(es))[i] = es[m + i - 1]
    BY <1>0, <2>1
  <2>4. Len(es) - m + 1 = MaxEvents /\ \A i \in 1..MaxEvents : m + i - 1 = Len(es) - MaxEvents + i
    BY <1>0, <2>1
  <2> QED BY <1>0, <1>1, <2>2, <2>3, <2>4 DEF TailOf
<1>2. CASE ~(Len(es) > MaxEvents)
  <2>1. Remembered(es) = es
    BY <1>2 DEF Remembered
  <2> QED BY <1>0, <1>2, <2>1 DEF TailOf
<1> QED BY <1>1, <1>2

LEMMA TailIsSuffix ==
  ASSUME NEW S, NEW s \in Seq(S), NEW t \in Seq(S), TailOf(s, t)
  PROVE  IsSuffix(s, t)
<1>1. PICK a, b : a = Len(s) /\ b = Len(t) /\ a \in Nat /\ b \in Nat /\ a <= b
  BY DEF TailOf
<1>2. /\ Reverse(s) = [i \in 1..a |-> s[a - i + 1]] /\ Reverse(t) = [i \in 1..b |-> t[b - i + 1]]
  BY <1>1 DEF Reverse
<1>3. Reverse(s) \in Seq(S) /\ Reverse(t) \in Seq(S) /\ Len(Reverse(s)) = a /\ Len(Reverse(t)) = b
  <2>1. (\A i \in 1..a : s[a - i + 1] \in S) /\ (\A i \in 1..b : t[b - i + 1] \in S)
    <3>1. (\A i \in 1..a : a - i + 1 \in 1..a) /\ (\A i \in 1..b : b - i + 1 \in 1..b)
      BY <1>1
    <3> QED BY <1>1, <3>1
  <2> QED BY <1>1, <1>2, <2>1
<1>4. \A i \in 1..a : Reverse(s)[i] = Reverse(t)[i]
  <2> SUFFICES ASSUME NEW i \in 1..a PROVE s[a - i + 1] = t[b - i + 1]
    BY <1>1, <1>2
  <2>1. a - i + 1 \in 1..a /\ b - a + (a - i + 1) = b - i + 1
    BY <1>1
  <2> QED BY <1>1, <2>1 DEF TailOf
<1>5. SubSeq(Reverse(s), 1, a) = SubSeq(Reverse(t), 1, a)
  <2>1. /\ SubSeq(Reverse(s), 1, a) \in Seq(S) /\ Len(SubSeq(Reverse(s), 1, a)) = a
        /\ \A i \in 1..a : SubSeq(Reverse(s), 1, a)[i] = Reverse(s)[i]
    BY <1>1, <1>3
  <2>2. /\ SubSeq(Reverse(t), 1, a) \in Seq(S) /\ Len(SubSeq(Reverse(t), 1, a)) = a
        /\ \A i \in 1..a : SubSeq(Reverse(t), 1, a)[i] = Reverse(t)[i]
    BY <1>1, <1>3
  <2> QED BY <1>4, <2>1, <2>2
<1> QED BY <1>1, <1>3, <1>5 DEF IsSuffix, IsPrefix

LEMMA TellsGrows ==
  ASSUME NEW s \in Seq(GrokEvents), NEW t \in Seq(GrokEvents), NEW es \in Seq(GrokEvents), Tells(s, t)
  PROVE  Tells(s \o es, t \o es) /\ Tells(Remembered(s \o es), t \o es)
<1>1. /\ s \o es \in Seq(GrokEvents) /\ t \o es \in Seq(GrokEvents)
      /\ Len(s \o es) = Len(s) + Len(es) /\ Len(t \o es) = Len(t) + Len(es)
      /\ Len(s) \in Nat /\ Len(t) \in Nat /\ Len(es) \in Nat
  OBVIOUS
<1>2. TailOf(s \o es, t \o es)
  BY TailGrows DEF Tells
<1>3. Len(s \o es) >= MaxEvents \/ Len(s \o es) = Len(t \o es)
  BY <1>1, GrokAssumption DEF Tells
<1>4. PICK r : r = Remembered(s \o es)
  OBVIOUS
<1>5. /\ r \in Seq(GrokEvents) /\ TailOf(r, s \o es)
      /\ Len(r) = IF Len(s \o es) > MaxEvents THEN MaxEvents ELSE Len(s \o es)
  BY <1>1, <1>4, RememberedTail
<1>6. TailOf(r, t \o es)
  BY <1>1, <1>2, <1>5, TailOfTail
<1>7. Len(r) >= MaxEvents \/ Len(r) = Len(t \o es)
  BY <1>1, <1>3, <1>5, GrokAssumption
<1> QED BY <1>2, <1>3, <1>4, <1>6, <1>7 DEF Tells

\* What is remembered of a run that has ended has its end, which was pushed last.
LEMMA EndIsTold ==
  ASSUME NEW s \in Seq(GrokEvents), NEW t \in Seq(GrokEvents), Tells(s, t), EndsOnce(t)
  PROVE  Ending(s) <=> Ending(t)
<1>1. PICK a, b : a = Len(s) /\ b = Len(t)
  OBVIOUS
<1>2. a \in Nat /\ b \in Nat /\ a <= b /\ \A i \in 1..a : s[i] = t[b - a + i] /\ b - a + i \in 1..b
  BY <1>1 DEF Tells, TailOf
<1>3. ASSUME Ending(s) PROVE Ending(t)
  <2>1. PICK i \in 1..a : Ends(s[i])
    BY <1>1, <1>3 DEF Ending
  <2>2. b - a + i \in 1..b /\ t[b - a + i] = s[i]
    BY <1>2
  <2>3. \E k \in 1..b : Ends(t[k])
    BY <2>1, <2>2
  <2> QED BY <1>1, <2>3 DEF Ending
<1>4. ASSUME Ending(t) PROVE Ending(s)
  <2>1. PICK k \in 1..b : Ends(t[k])
    BY <1>1, <1>4 DEF Ending
  <2>2. ~(k < b)
    BY <1>1, <1>2, <2>1 DEF EndsOnce
  <2>3. k = b /\ a > 0
    BY <1>1, <1>2, <2>1, <2>2, GrokAssumption DEF Tells
  <2>4. a \in 1..a /\ b - a + a = b
    BY <1>2, <2>3
  <2>5. s[a] = t[b]
    BY <1>2, <2>4
  <2> QED BY <1>1, <2>1, <2>3, <2>4, <2>5 DEF Ending
<1> QED BY <1>3, <1>4

\* What a push leaves of a run that is open, and of a stream that hears it.
LEMMA PushedRun ==
  ASSUME NEW c \in RunState, NEW all \in Seq(GrokEvents), NEW pc, RunTells(pc, c, all), c.state = "open",
         NEW es, NEW text, NEW noted, News(c, es, text, noted),
         NEW d, d = [state |-> IF Ending(es) THEN "closed" ELSE c.state,
                     text |-> text, seen |-> noted, events |-> Remembered(c.events \o es)]
  PROVE  /\ d \in RunState /\ all \o es \in Seq(GrokEvents) /\ RunTells(pc, d, all \o es)
         /\ d.state = IF Ending(es) THEN "closed" ELSE "open"
<1>1. PICK n, m, now : n = Len(all) /\ m = Len(es) /\ now = all \o es
  OBVIOUS
<1>2. /\ now \in Seq(GrokEvents) /\ Len(now) = n + m /\ n \in Nat /\ m \in Nat
      /\ es \in Seq(GrokEvents) /\ c.events \in Seq(GrokEvents)
      /\ \A i \in 1..n : now[i] = all[i]
      /\ \A i \in 1..m : now[n + i] = es[i] /\ n + i \in 1..(n + m)
  BY <1>1 DEF News, RunState
<1>3. \A i \in 1..(n + m) : i \in 1..n \/ (i > n /\ i - n \in 1..m /\ now[i] = es[i - n])
  BY <1>2
<1>4. Tells(Remembered(c.events \o es), now) /\ Remembered(c.events \o es) \in Seq(GrokEvents)
  <2>1. Tells(c.events, all) /\ c.events \o es \in Seq(GrokEvents)
    BY <1>2 DEF RunTells
  <2> QED BY <1>1, <1>2, <2>1, TellsGrows, RememberedTail
<1>5. /\ d \in RunState /\ d.state = (IF Ending(es) THEN "closed" ELSE "open")
      /\ d.events = Remembered(c.events \o es) /\ d.seen = noted
  BY <1>4 DEF News, RunState
<1>6. Ending(now) <=> Ending(es)
  <2>1. \A i \in 1..n : ~Ends(all[i])
    BY <1>1 DEF RunTells
  <2>2. ASSUME NEW i \in 1..(n + m), Ends(now[i]) PROVE \E k \in 1..m : Ends(es[k])
    BY <1>2, <1>3, <2>1, <2>2
  <2>3. ASSUME NEW k \in 1..m, Ends(es[k]) PROVE \E i \in 1..(n + m) : Ends(now[i])
    BY <1>2, <2>3
  <2>4. (\E i \in 1..(n + m) : Ends(now[i])) <=> \E k \in 1..m : Ends(es[k])
    BY <2>2, <2>3
  <2>5. DOMAIN now = 1..(n + m) /\ DOMAIN es = 1..m
    BY <1>1, <1>2
  <2> QED BY <2>4, <2>5 DEF Ending
<1>7. d.state = "open" => \A i \in 1..Len(now) : ~Ends(now[i])
  BY <1>2, <1>5, <1>6 DEF Ending
<1>8. EndsOnce(now)
  <2> SUFFICES ASSUME NEW i \in 1..(n + m), NEW k \in 1..(n + m), i < k
               PROVE  ~Ends(now[i]) /\ (now[i].type = "action" => now[i] # now[k])
    BY <1>2 DEF EndsOnce
  <2>1. CASE k <= n
    <3>1. i \in 1..n /\ k \in 1..n
      BY <1>2, <2>1
    <3> QED BY <1>1, <1>2, <3>1 DEF RunTells, EndsOnce
  <2>2. CASE i > n
    <3>1. PICK u, v : u = i - n /\ v = k - n /\ u \in 1..m /\ v \in 1..m /\ u < v
      BY <1>2, <2>2
    <3>2. now[i] = es[u] /\ now[k] = es[v]
      BY <1>2, <1>3, <2>2, <3>1
    <3> QED BY <1>1, <3>1, <3>2 DEF News, EndsOnce
  <2>3. CASE i <= n /\ k > n
    <3>1. i \in 1..n /\ k - n \in 1..m /\ now[k] = es[k - n] /\ now[i] = all[i]
      BY <1>2, <1>3, <2>3
    <3>2. ~Ends(now[i])
      BY <1>1, <3>1 DEF RunTells
    <3>3. ASSUME now[i].type = "action", now[i] = now[k] PROVE FALSE
      <4>1. PICK g \in c.seen : now[i] = Action(g)
        BY <1>1, <3>1, <3>3 DEF RunTells
      <4>2. PICK h \in noted \ c.seen : now[k] = Action(h)
        BY <1>1, <3>1, <3>3 DEF News
      <4>3. g = h
        BY <3>3, <4>1, <4>2, EventTypes
      <4> QED BY <4>3
    <3> QED BY <3>2, <3>3
  <2> QED BY <1>2, <2>1, <2>2, <2>3
<1>9. \A i \in 1..Len(now) : now[i].type = "action" => \E h \in d.seen : now[i] = Action(h)
  <2> SUFFICES ASSUME NEW i \in 1..(n + m), now[i].type = "action" PROVE \E h \in noted : now[i] = Action(h)
    BY <1>2, <1>5
  <2>1. CASE i \in 1..n
    <3>1. \E h \in c.seen : all[i] = Action(h)
      BY <1>1, <1>2, <2>1 DEF RunTells
    <3> QED BY <1>2, <2>1, <3>1 DEF News
  <2>2. CASE i > n /\ i - n \in 1..m /\ now[i] = es[i - n]
    <3>1. \E h \in noted \ c.seen : es[i - n] = Action(h)
      BY <1>1, <2>2 DEF News
    <3> QED BY <2>2, <3>1
  <2> QED BY <1>3, <2>1, <2>2
<1>10. pc \notin Unopened
  BY DEF RunTells, NoState
<1>11. d.state = "closed" => Ending(now)
  BY <1>5, <1>6
<1> QED BY <1>1, <1>2, <1>4, <1>5, <1>7, <1>8, <1>9, <1>10, <1>11 DEF RunTells

HeardBy(s, t, c, d, es) ==
  /\ s.pc = "open" /\ c.state = "open" /\ t = [s EXCEPT !.got = s.got \o es, !.pc = t.pc]
  /\ \/ Ending(es) /\ t.pc = "ended" /\ d.state = "closed"
     \/ ~Ending(es) /\ t.pc = "open" /\ d.state = "open"

LEMMA PushedStream ==
  ASSUME NEW s \in StreamState, NEW pc, NEW c, NEW d, NEW all \in Seq(GrokEvents), NEW es \in Seq(GrokEvents),
         StreamTells(s, pc, c, all), NEW t, HeardBy(s, t, c, d, es)
  PROVE  /\ t \in StreamState /\ t.run = s.run /\ t.pc \in {"open", "ended"}
         /\ StreamTells(t, pc, d, all \o es)
<1>1. /\ s.got \in Seq(GrokEvents) /\ s.got \o es \in Seq(GrokEvents)
      /\ Len(s.got \o es) = Len(s.got) + Len(es) /\ Len(s.got) \in Nat /\ Len(es) \in Nat
      /\ \A i \in 1..Len(es) : (s.got \o es)[Len(s.got) + i] = es[i] /\ Len(s.got) + i \in 1..Len(s.got \o es)
  BY DEF StreamState, HeardBy
<1>2. Tells(s.got \o es, all \o es)
  <2>1. PICK g : g = s.got
    OBVIOUS
  <2>2. Tells(g, all) /\ g \in Seq(GrokEvents)
    BY <1>1, <2>1 DEF StreamTells, HeardBy
  <2>3. Tells(g \o es, all \o es)
    BY <2>2, TellsGrows
  <2> QED BY <2>1, <2>3
<1>3. Ending(es) => Ending(s.got \o es)
  <2> SUFFICES ASSUME Ending(es) PROVE Ending(s.got \o es)
    OBVIOUS
  <2>1. PICK i \in 1..Len(es) : Ends(es[i])
    BY DEF Ending
  <2>2. PICK now : now = s.got \o es
    OBVIOUS
  <2>3. PICK k \in 1..Len(now) : now[k] = es[i]
    BY <1>1, <2>2
  <2>4. DOMAIN now = 1..Len(now)
    BY <1>1, <2>2
  <2>5. Ending(now)
    BY <2>1, <2>3, <2>4 DEF Ending
  <2> QED BY <2>2, <2>5
<1>4. t \in StreamState /\ t.run = s.run /\ t.got = s.got \o es
  BY <1>1 DEF StreamState, HeardBy
<1> QED BY <1>2, <1>3, <1>4 DEF StreamTells, HeardBy

-----------------------------------------------------------------------------

LEMMA GrokInitInv == GrokInit => GrokInv
<1> SUFFICES ASSUME GrokInit PROVE GrokInv
  OBVIOUS
<1>1. (CHOOSE s \in Sessions : TRUE) \in Sessions
  BY GrokAssumption
<1>2. NoState \in RunState /\ NoStream \in StreamState
  BY DEF NoState, RunState, NoStream, StreamState
<1>3. GrokTypeOK
  BY <1>1, <1>2 DEF GrokInit, GrokTypeOK, PromptState, JobState
<1>4. RunTells("idle", NoState, << >>)
  BY DEF RunTells, NoState, Tells, TailOf, EndsOnce, Unopened, Answerable
<1> QED BY <1>3, <1>4 DEF GrokInit, GrokInv, RunsTell, StreamsTell, StreamsHaveRuns, NoStream

\* A push to a run that is open.
LEMMA PushInv ==
  ASSUME GrokInv, NEW r \in Prompts, Open(r), NEW es, NEW text, NEW noted, News(run[r], es, text, noted),
         Push(r, es, text, noted), prompt' = prompt, job' \in [Prompts -> JobState], apart' \subseteq apart
  PROVE  GrokInv'
<1>1. PICK c, all, pc, d : /\ c = run[r] /\ all = pushed[r] /\ pc = prompt[r].pc
                           /\ d = [state |-> IF Ending(es) THEN "closed" ELSE c.state,
                                   text |-> text, seen |-> noted, events |-> Remembered(c.events \o es)]
  OBVIOUS
<1>2. /\ c \in RunState /\ all \in Seq(GrokEvents) /\ RunTells(pc, c, all) /\ c.state = "open"
      /\ News(c, es, text, noted) /\ es \in Seq(GrokEvents)
  BY <1>1 DEF GrokInv, GrokTypeOK, RunsTell, Open, News
<1>3. /\ d \in RunState /\ all \o es \in Seq(GrokEvents) /\ RunTells(pc, d, all \o es)
      /\ d.state = IF Ending(es) THEN "closed" ELSE "open"
  BY <1>1, <1>2, PushedRun
<1>4. run' = [run EXCEPT ![r] = d] /\ pushed' = [pushed EXCEPT ![r] = all \o es]
  BY <1>1 DEF Push
<1>5. \A st \in Streams :
        /\ Hears(st, r) => stream'[st] = [stream[st] EXCEPT !.got = @ \o es, !.pc = IF Ending(es) THEN "ended" ELSE @]
        /\ ~Hears(st, r) => stream'[st] = stream[st]
  BY DEF Push
<1>6. \A st \in Streams : stream[st] \in StreamState
  BY DEF GrokInv, GrokTypeOK
<1>7. ASSUME NEW st \in Streams, Hears(st, r)
      PROVE  /\ stream'[st] \in StreamState /\ stream'[st].run = r /\ stream'[st].pc \in {"open", "ended"}
             /\ StreamTells(stream'[st], pc, d, all \o es)
  <2>1. PICK s, t : s = stream[st] /\ t = stream'[st]
    OBVIOUS
  <2>2. s \in StreamState /\ s.pc = "open" /\ s.run = r
    BY <1>6, <1>7, <2>1 DEF Hears
  <2>3. StreamTells(s, pc, c, all)
    BY <1>1, <2>1, <2>2 DEF GrokInv, StreamsTell
  <2>4. HeardBy(s, t, c, d, es)
    BY <1>2, <1>3, <1>5, <1>7, <2>1, <2>2 DEF StreamState, HeardBy
  <2>5. t \in StreamState /\ t.run = s.run /\ t.pc \in {"open", "ended"} /\ StreamTells(t, pc, d, all \o es)
    BY <1>2, <1>3, <2>2, <2>3, <2>4, PushedStream
  <2> QED BY <2>1, <2>2, <2>5
<1>8. ASSUME NEW st \in Streams, ~Hears(st, r), stream[st].pc \in {"open", "ended"} PROVE stream[st].run # r \/ StreamTells(stream[st], pc, d, all \o es)
  <2> SUFFICES ASSUME stream[st].run = r PROVE FALSE
    OBVIOUS
  <2>1. stream[st].pc = "ended"
    BY <1>8 DEF Hears
  <2>2. StreamTells(stream[st], pc, c, all)
    BY <1>1, <1>8 DEF GrokInv, StreamsTell
  <2> QED BY <1>2, <2>1, <2>2 DEF StreamTells
<1>9. GrokTypeOK'
  <2>1. run' \in [Prompts -> RunState] /\ pushed' \in [Prompts -> Seq(GrokEvents)]
    BY <1>3, <1>4 DEF GrokInv, GrokTypeOK
  <2>2. stream' \in [Streams -> StreamState]
    <3>1. \A st \in Streams : stream'[st] \in StreamState
      BY <1>5, <1>6, <1>7
    <3>2. PICK f : f = stream'
      OBVIOUS
    <3>3. f = [st \in Streams |-> f[st]]
      BY <3>2 DEF Push
    <3> QED BY <3>1, <3>2, <3>3
  <2>3. active' \in [Sessions -> Prompts \cup {NoRun}]
    BY DEF Push, GrokInv, GrokTypeOK
  <2> QED BY <2>1, <2>2, <2>3 DEF GrokInv, GrokTypeOK
<1>10. RunsTell'
  <2> SUFFICES ASSUME NEW q \in Prompts PROVE RunTells(prompt'[q].pc, run'[q], pushed'[q])
    BY DEF RunsTell
  <2>1. CASE q = r
    BY <1>1, <1>3, <1>4, <2>1 DEF GrokInv, GrokTypeOK
  <2>2. CASE q # r
    <3>1. run'[q] = run[q] /\ pushed'[q] = pushed[q]
      BY <1>4, <2>2 DEF GrokInv, GrokTypeOK
    <3> QED BY <3>1 DEF GrokInv, RunsTell
  <2> QED BY <2>1, <2>2
<1>11. StreamsHaveRuns'
  BY <1>5, <1>7 DEF StreamsHaveRuns, GrokInv
<1>12. StreamsTell'
  <2> SUFFICES ASSUME NEW st \in Streams, NEW q \in Prompts, stream'[st].pc \in {"open", "ended"}, stream'[st].run = q
               PROVE  StreamTells(stream'[st], prompt'[q].pc, run'[q], pushed'[q])
    BY DEF StreamsTell
  <2>1. run'[r] = d /\ pushed'[r] = all \o es /\ prompt'[r].pc = pc
    BY <1>1, <1>4 DEF GrokInv, GrokTypeOK
  <2>2. CASE Hears(st, r)
    BY <1>7, <2>1, <2>2
  <2>3. CASE ~Hears(st, r) /\ q = r
    BY <1>5, <1>8, <2>1, <2>3
  <2>4. CASE ~Hears(st, r) /\ q # r
    <3>1. run'[q] = run[q] /\ pushed'[q] = pushed[q] /\ stream'[st] = stream[st]
      BY <1>4, <1>5, <2>4 DEF GrokInv, GrokTypeOK
    <3> QED BY <3>1 DEF GrokInv, StreamsTell
  <2> QED BY <2>2, <2>3, <2>4
<1> QED BY <1>9, <1>10, <1>11, <1>12 DEF GrokInv

\* A step of one prompt, which keeps what its run and the streams rest on.
LEMMA PromptSteps ==
  ASSUME GrokInv, NEW p \in Prompts, NEW c \in PromptState, prompt' = [prompt EXCEPT ![p] = c],
         \/ prompt[p].pc \in Unopened /\ c.pc \in Unopened \cup {"failed"}
         \/ prompt[p].pc \in Answerable /\ c.pc \in Answerable /\ prompt[p].pc # "answered",
         job' \in [Prompts -> JobState], UNCHANGED << run, active, stream, pushed, apart >>
  PROVE  GrokInv'
<1>1. GrokTypeOK'
  BY DEF GrokInv, GrokTypeOK
<1>2. \A q \in Prompts : q # p => prompt'[q] = prompt[q]
  BY DEF GrokInv, GrokTypeOK
<1>3. prompt'[p] = c /\ prompt[p].pc # "answered"
  BY DEF GrokInv, GrokTypeOK, Unopened
<1>4. RunTells(prompt'[p].pc, run[p], pushed[p])
  BY <1>3 DEF GrokInv, RunsTell, RunTells, Unopened, Answerable
<1>5. RunsTell'
  BY <1>2, <1>4 DEF GrokInv, RunsTell
<1>6. StreamsTell' /\ StreamsHaveRuns'
  BY <1>2, <1>3 DEF GrokInv, StreamsTell, StreamsHaveRuns, StreamTells
<1> QED BY <1>1, <1>5, <1>6 DEF GrokInv

LEMMA PromptStepsInv ==
  ASSUME GrokInv, NEW p \in Prompts,
         (\E s \in Sessions : Submit(p, s)) \/ QueryFails(p) \/ Send(p) \/ GatewayAnswers(p)
  PROVE  GrokInv'
<1>1. prompt[p] \in PromptState /\ job[p] \in JobState /\ job \in [Prompts -> JobState]
  BY DEF GrokInv, GrokTypeOK
<1>2. ASSUME NEW s \in Sessions, Submit(p, s) PROVE GrokInv'
  <2>1. PICK c : c = [pc |-> IF active[s] = NoRun THEN "checked" ELSE "refused", session |-> s]
    OBVIOUS
  <2>2. /\ c \in PromptState /\ prompt' = [prompt EXCEPT ![p] = c] /\ prompt[p].pc \in Unopened
        /\ c.pc \in Unopened /\ job' = job /\ UNCHANGED << run, active, stream, pushed, apart >>
    BY <1>2, <2>1 DEF Submit, PromptState, Unopened
  <2> QED BY <1>1, <2>2, PromptSteps
<1>3. CASE QueryFails(p)
  <2>1. PICK c : c = [prompt[p] EXCEPT !.pc = "failed"]
    OBVIOUS
  <2>2. /\ c \in PromptState /\ prompt' = [prompt EXCEPT ![p] = c] /\ prompt[p].pc \in Unopened
        /\ c.pc = "failed" /\ job' = job /\ UNCHANGED << run, active, stream, pushed, apart >>
    BY <1>1, <1>3, <2>1 DEF QueryFails, PromptState, Unopened
  <2> QED BY <1>1, <2>2, PromptSteps
<1>4. CASE Send(p)
  <2>1. PICK c : c = [prompt[p] EXCEPT !.pc = "sending"]
    OBVIOUS
  <2>2. /\ c \in PromptState /\ prompt' = [prompt EXCEPT ![p] = c] /\ prompt[p].pc = "waiting"
        /\ c.pc = "sending" /\ UNCHANGED << run, active, stream, pushed, apart >>
    BY <1>1, <1>4, <2>1 DEF Send, PromptState
  <2>3. job' \in [Prompts -> JobState]
    <3>1. [job[p] EXCEPT !.state = "live"] \in JobState
      BY <1>1 DEF JobState
    <3> QED BY <1>1, <1>4, <3>1 DEF Send
  <2> QED BY <1>1, <2>2, <2>3, PromptSteps DEF Answerable
<1>5. CASE GatewayAnswers(p)
  <2>1. PICK c : c = [prompt[p] EXCEPT !.pc = "answered"]
    OBVIOUS
  <2>2. /\ c \in PromptState /\ prompt' = [prompt EXCEPT ![p] = c] /\ prompt[p].pc = "sending"
        /\ c.pc = "answered" /\ job' = job /\ UNCHANGED << run, active, stream, pushed, apart >>
    BY <1>1, <1>5, <2>1 DEF GatewayAnswers, PromptState
  <2> QED BY <1>1, <2>2, PromptSteps DEF Answerable
<1> QED BY <1>2, <1>3, <1>4, <1>5

LEMMA OpenRunInv ==
  ASSUME GrokInv, NEW p \in Prompts, OpenRun(p)
  PROVE  GrokInv'
<1>1. PICK c, d : c = [prompt[p] EXCEPT !.pc = "waiting"] /\ d = [run[p] EXCEPT !.state = "open"]
  OBVIOUS
<1>2. /\ prompt' = [prompt EXCEPT ![p] = c] /\ run' = [run EXCEPT ![p] = d] /\ prompt[p].pc = "checked"
      /\ UNCHANGED << job, stream, pushed >> /\ apart' \subseteq apart
  BY <1>1 DEF OpenRun
<1>3. /\ c \in PromptState /\ c.pc = "waiting" /\ d \in RunState /\ d.state = "open" /\ d.events = << >>
      /\ run[p] = NoState /\ pushed[p] = << >>
  <2>1. prompt[p] \in PromptState /\ run[p] \in RunState
    BY DEF GrokInv, GrokTypeOK
  <2>2. run[p] = NoState /\ pushed[p] = << >>
    BY <1>2 DEF GrokInv, RunsTell, RunTells, Unopened
  <2>3. PICK e, f : e = run[p] /\ f = prompt[p]
    OBVIOUS
  <2>4. e \in RunState /\ d = [e EXCEPT !.state = "open"] /\ e.events = << >>
    BY <1>1, <2>1, <2>2, <2>3 DEF NoState
  <2>5. d \in RunState /\ d.state = "open" /\ d.events = << >>
    BY <2>4 DEF RunState
  <2>6. c \in PromptState /\ c.pc = "waiting"
    BY <1>1, <2>1 DEF PromptState
  <2> QED BY <2>2, <2>5, <2>6
<1>4. GrokTypeOK'
  <2>1. SessionOf(p) \in Sessions
    BY DEF GrokInv, GrokTypeOK, PromptState, SessionOf
  <2>2. active' \in [Sessions -> Prompts \cup {NoRun}]
    BY <2>1 DEF OpenRun, GrokInv, GrokTypeOK
  <2> QED BY <1>2, <1>3, <2>2 DEF GrokInv, GrokTypeOK
<1>5. \A q \in Prompts : q # p => prompt'[q] = prompt[q] /\ run'[q] = run[q] /\ pushed'[q] = pushed[q]
  BY <1>2 DEF GrokInv, GrokTypeOK
<1>6. prompt'[p] = c /\ run'[p] = d /\ pushed'[p] = << >>
  BY <1>2, <1>3 DEF GrokInv, GrokTypeOK
<1>7. RunTells("waiting", d, << >>)
  BY <1>3 DEF RunTells, Tells, TailOf, EndsOnce, Unopened
<1>8. RunsTell'
  BY <1>3, <1>5, <1>6, <1>7 DEF GrokInv, RunsTell
<1>9. StreamsTell' /\ StreamsHaveRuns'
  BY <1>2, <1>5 DEF GrokInv, StreamsTell, StreamsHaveRuns, StreamTells
<1> QED BY <1>4, <1>8, <1>9 DEF GrokInv

\* Runs whose prompts have not been answered are closed without an event.
LEMMA ClosedInv ==
  ASSUME GrokInv, NEW ps \in SUBSET Prompts, \A p \in ps : prompt[p].pc \in {"waiting", "sending"}, Closed(ps),
         prompt' = [p \in Prompts |-> IF p \in ps THEN [prompt[p] EXCEPT !.pc = "failed"] ELSE prompt[p]],
         UNCHANGED << job, stream, pushed >>, apart' \subseteq apart
  PROVE  GrokInv'
<1>1. \A p \in Prompts : prompt[p] \in PromptState /\ run[p] \in RunState
  BY DEF GrokInv, GrokTypeOK
<1>2. \A p \in Prompts : p \notin ps => prompt'[p] = prompt[p] /\ run'[p] = run[p]
  BY DEF Closed
<1>3. \A p \in ps : prompt'[p] = [prompt[p] EXCEPT !.pc = "failed"] /\ run'[p] = [run[p] EXCEPT !.state = "closed"]
  BY DEF Closed
<1>4. \A p \in ps : /\ prompt'[p] \in PromptState /\ prompt'[p].pc = "failed"
                    /\ run'[p] \in RunState /\ run'[p].state = "closed" /\ run'[p].events = run[p].events
                    /\ run'[p].seen = run[p].seen
  <2> SUFFICES ASSUME NEW p \in ps
               PROVE  /\ prompt'[p] \in PromptState /\ prompt'[p].pc = "failed"
                      /\ run'[p] \in RunState /\ run'[p].state = "closed" /\ run'[p].events = run[p].events
                      /\ run'[p].seen = run[p].seen
    OBVIOUS
  <2>1. PICK c, d, e, f : c = prompt[p] /\ d = run[p] /\ e = prompt'[p] /\ f = run'[p]
    OBVIOUS
  <2>2. c \in PromptState /\ d \in RunState /\ e = [c EXCEPT !.pc = "failed"] /\ f = [d EXCEPT !.state = "closed"]
    BY <1>1, <1>3, <2>1
  <2>3. e \in PromptState /\ e.pc = "failed"
    BY <2>2 DEF PromptState
  <2>4. f \in RunState /\ f.state = "closed" /\ f.events = d.events /\ f.seen = d.seen
    BY <2>2 DEF RunState
  <2> QED BY <2>1, <2>3, <2>4
<1>5. GrokTypeOK'
  <2>1. prompt' \in [Prompts -> PromptState]
    <3>1. \A p \in Prompts : prompt'[p] \in PromptState
      BY <1>1, <1>2, <1>4
    <3> QED BY <3>1
  <2>2. run' \in [Prompts -> RunState]
    <3>1. \A p \in Prompts : run'[p] \in RunState
      BY <1>1, <1>2, <1>4
    <3>2. run' = [p \in Prompts |-> run'[p]]
      BY DEF Closed
    <3> QED BY <3>1, <3>2
  <2>3. active' \in [Sessions -> Prompts \cup {NoRun}]
    BY DEF Closed, GrokInv, GrokTypeOK
  <2> QED BY <2>1, <2>2, <2>3 DEF GrokInv, GrokTypeOK
<1>6. ASSUME NEW p \in Prompts PROVE RunTells(prompt'[p].pc, run'[p], pushed'[p])
  <2>1. RunTells(prompt[p].pc, run[p], pushed[p]) /\ pushed' = pushed
    BY DEF GrokInv, RunsTell
  <2>2. CASE p \in ps
    <3>1. PICK c, d, e, all : c = run[p] /\ d = run'[p] /\ e = prompt'[p].pc /\ all = pushed[p]
      OBVIOUS
    <3>2. /\ e = "failed" /\ d.state = "closed" /\ d.events = c.events /\ d.seen = c.seen
          /\ RunTells(prompt[p].pc, c, all) /\ pushed'[p] = all
      BY <1>4, <2>1, <2>2, <3>1
    <3>3. RunTells(e, d, all)
      BY <3>2 DEF RunTells, Unopened, Answerable
    <3> QED BY <3>1, <3>2, <3>3
  <2>3. CASE p \notin ps
    BY <1>2, <2>1, <2>3
  <2> QED BY <2>2, <2>3
<1>7. \A st \in Streams, p \in Prompts :
        stream[st].pc \in {"open", "ended"} /\ stream[st].run = p => prompt[p].pc = "answered" /\ p \notin ps
  BY DEF GrokInv, StreamsTell, StreamTells
<1>8. StreamsTell' /\ StreamsHaveRuns'
  BY <1>2, <1>7 DEF GrokInv, StreamsTell, StreamsHaveRuns
<1> QED BY <1>5, <1>6, <1>8 DEF GrokInv, RunsTell

LEMMA SendFailsInv ==
  ASSUME GrokInv, NEW p \in Prompts, SendFails(p)
  PROVE  GrokInv'
<1>1. \A q \in {p} : prompt[q].pc \in {"waiting", "sending"}
  BY DEF SendFails
<1>2. /\ Closed({p}) /\ UNCHANGED << job, stream, pushed >> /\ apart' \subseteq apart
      /\ prompt' = [prompt EXCEPT ![p].pc = "failed"]
  BY DEF SendFails
<1>3. prompt' = [q \in Prompts |-> IF q \in {p} THEN [prompt[q] EXCEPT !.pc = "failed"] ELSE prompt[q]]
  BY <1>2 DEF GrokInv, GrokTypeOK
<1>4. {p} \in SUBSET Prompts
  OBVIOUS
<1> QED BY <1>1, <1>2, <1>3, <1>4, ClosedInv

LEMMA DisconnectedInv ==
  ASSUME GrokInv, Disconnected
  PROVE  GrokInv'
<1>1. PICK ps : ps = {p \in Prompts : prompt[p].pc \in {"waiting", "sending"}}
  OBVIOUS
<1>2. /\ Closed(ps) /\ UNCHANGED << job, stream, pushed >> /\ apart' \subseteq apart
      /\ prompt' = [p \in Prompts |-> IF p \in ps THEN [prompt[p] EXCEPT !.pc = "failed"] ELSE prompt[p]]
  BY <1>1 DEF Disconnected
<1>3. ps \in SUBSET Prompts /\ \A p \in ps : prompt[p].pc \in {"waiting", "sending"}
  BY <1>1
<1> QED BY <1>2, <1>3, ClosedInv

LEMMA CleanupInv ==
  ASSUME GrokInv, NEW p \in Prompts, Cleanup(p)
  PROVE  GrokInv'
<1>1. PICK d : d = [NoState EXCEPT !.state = "gone"]
  OBVIOUS
<1>2. d \in RunState /\ d.state = "gone" /\ d.events = << >>
  <2>1. d = [state |-> "gone", text |-> << >>, events |-> << >>, seen |-> {}]
    BY <1>1 DEF NoState
  <2> QED BY <2>1 DEF RunState
<1>3. /\ run' = [run EXCEPT ![p] = d] /\ pushed' = [pushed EXCEPT ![p] = << >>] /\ run[p].state = "closed"
      /\ UNCHANGED << prompt, active, job, stream, apart >>
  BY <1>1 DEF Cleanup
<1>4. GrokTypeOK'
  <2>1. << >> \in Seq(GrokEvents)
    OBVIOUS
  <2> QED BY <1>2, <1>3, <2>1 DEF GrokInv, GrokTypeOK
<1>5. \A q \in Prompts : q # p => run'[q] = run[q] /\ pushed'[q] = pushed[q]
  BY <1>3 DEF GrokInv, GrokTypeOK
<1>6. run'[p] = d /\ pushed'[p] = << >>
  BY <1>3 DEF GrokInv, GrokTypeOK
<1>7. RunTells(prompt[p].pc, d, << >>)
  <2>1. prompt[p].pc \notin Unopened
    BY <1>3 DEF GrokInv, RunsTell, RunTells, NoState
  <2> QED BY <1>2, <2>1 DEF RunTells, Tells, TailOf, EndsOnce
<1>8. RunsTell'
  BY <1>3, <1>5, <1>6, <1>7 DEF GrokInv, RunsTell
<1>9. ASSUME NEW st \in Streams, stream[st].pc \in {"open", "ended"}, stream[st].run = p
      PROVE  StreamTells(stream[st], prompt[p].pc, d, << >>)
  <2>1. StreamTells(stream[st], prompt[p].pc, run[p], pushed[p])
    BY <1>9 DEF GrokInv, StreamsTell
  <2> QED BY <1>2, <1>3, <1>9, <2>1 DEF StreamTells
<1>10. StreamsTell' /\ StreamsHaveRuns'
  BY <1>3, <1>5, <1>6, <1>9 DEF GrokInv, StreamsTell, StreamsHaveRuns
<1> QED BY <1>4, <1>8, <1>10 DEF GrokInv

LEMMA AttachLeaveInv ==
  ASSUME GrokInv, NEW st \in Streams, (\E p \in Prompts : Attach(st, p)) \/ Leave(st)
  PROVE  GrokInv'
<1>1. stream[st] \in StreamState /\ stream \in [Streams -> StreamState]
  BY DEF GrokInv, GrokTypeOK
<1>2. ASSUME NEW t \in StreamState, stream' = [stream EXCEPT ![st] = t],
             t.pc \in {"open", "ended"} => t.run \in Prompts /\ StreamTells(t, prompt[t.run].pc, run[t.run], pushed[t.run]),
             UNCHANGED << prompt, run, active, job, pushed, apart >>
      PROVE  GrokInv'
  <2>1. stream'[st] = t /\ \A u \in Streams : u # st => stream'[u] = stream[u]
    BY <1>1, <1>2
  <2>2. GrokTypeOK'
    BY <1>1, <1>2 DEF GrokInv, GrokTypeOK
  <2>3. RunsTell'
    BY <1>2 DEF GrokInv, RunsTell
  <2>4. StreamsTell' /\ StreamsHaveRuns'
    BY <1>2, <2>1 DEF GrokInv, StreamsTell, StreamsHaveRuns
  <2> QED BY <2>2, <2>3, <2>4 DEF GrokInv
<1>3. ASSUME NEW p \in Prompts, Attach(st, p) PROVE GrokInv'
  <2>1. PICK c, all : c = run[p] /\ all = pushed[p]
    OBVIOUS
  <2>2. /\ c \in RunState /\ c.events \in Seq(GrokEvents) /\ all \in Seq(GrokEvents) /\ RunTells("answered", c, all)
        /\ prompt[p].pc = "answered"
    BY <1>3, <2>1 DEF Attach, GrokInv, GrokTypeOK, RunsTell, RunState
  <2>3. CASE c.state \in {"open", "closed"}
    <3>1. PICK t : t = Attached(p)
      OBVIOUS
    <3>2. /\ t = [pc |-> IF Ending(c.events) \/ c.state = "closed" THEN "ended" ELSE "open", run |-> p, got |-> c.events]
          /\ stream' = [stream EXCEPT ![st] = t] /\ UNCHANGED << prompt, run, active, job, pushed, apart >>
      BY <1>3, <2>1, <2>3, <3>1 DEF Attach, Attached
    <3>3. t \in StreamState /\ t.run = p /\ t.got = c.events /\ t.pc \in {"open", "ended"}
      BY <2>2, <3>2 DEF StreamState
    <3>4. Tells(c.events, all) /\ (Ending(c.events) <=> Ending(all))
      <4>1. Tells(c.events, all) /\ EndsOnce(all)
        BY <2>2 DEF RunTells
      <4> QED BY <2>2, <4>1, EndIsTold
    <3>5. CASE c.state = "closed"
      <4>1. Ending(all) /\ t.pc = "ended"
        BY <2>2, <3>2, <3>5 DEF RunTells, Answerable
      <4>2. StreamTells(t, "answered", c, all)
        BY <3>3, <3>4, <3>5, <4>1 DEF StreamTells
      <4> QED BY <1>2, <2>1, <2>2, <3>2, <3>3, <4>2
    <3>6. CASE c.state = "open"
      <4>1. ~Ending(all)
        BY <2>2, <3>6 DEF RunTells, Ending
      <4>2. t.pc = "open"
        BY <3>2, <3>4, <3>6, <4>1
      <4>3. StreamTells(t, "answered", c, all)
        BY <3>3, <3>4, <3>6, <4>2 DEF StreamTells
      <4> QED BY <1>2, <2>1, <2>2, <3>2, <3>3, <4>3
    <3> QED BY <2>3, <3>5, <3>6
  <2>4. CASE c.state \notin {"open", "closed"}
    <3>1. PICK t : t = [stream[st] EXCEPT !.pc = "not_found"]
      OBVIOUS
    <3>2. t \in StreamState /\ t.pc = "not_found"
      BY <1>1, <3>1 DEF StreamState
    <3>3. stream' = [stream EXCEPT ![st] = t] /\ UNCHANGED << prompt, run, active, job, pushed, apart >>
      BY <1>3, <2>1, <2>4, <3>1 DEF Attach
    <3> QED BY <1>2, <3>2, <3>3
  <2> QED BY <2>3, <2>4
<1>4. CASE Leave(st)
  <2>1. PICK t : t = [NoStream EXCEPT !.pc = "left"]
    OBVIOUS
  <2>2. t \in StreamState /\ t.pc = "left"
    <3>1. t = [pc |-> "left", run |-> NoRun, got |-> << >>]
      BY <2>1 DEF NoStream
    <3> QED BY <3>1 DEF StreamState
  <2>3. stream' = [stream EXCEPT ![st] = t] /\ UNCHANGED << prompt, run, active, job, pushed, apart >>
    BY <1>4, <2>1 DEF Leave
  <2> QED BY <1>2, <2>2, <2>3
<1> QED BY <1>3, <1>4

LEMMA ReportedOnce ==
  ASSUME NEW hs \in SUBSET Hashes
  PROVE  \E n \in Nat : \E each \in [1..n -> hs] :
           /\ Reported(hs) = [i \in 1..n |-> Action(each[i])]
           /\ \A i, k \in 1..n : each[i] = each[k] => i = k
<1>1. IsFiniteSet(hs)
  BY GrokAssumption, FS_Subset
<1>2. PICK n : n = Cardinality(hs)
  OBVIOUS
<1>3. n \in Nat /\ ExistsBijection(1..n, hs)
  BY <1>1, <1>2, FS_CardinalityType
<1>4. \E f \in [1..n -> hs] : IsInjective(f)
  BY <1>3 DEF ExistsBijection, Bijection, Injection
<1>5. PICK each : each = SetToSeq(hs)
  OBVIOUS
<1>6. each \in [1..n -> hs] /\ IsInjective(each)
  BY <1>2, <1>4, <1>5 DEF SetToSeq
<1>7. DOMAIN each = 1..n /\ \A i, k \in 1..n : each[i] = each[k] => i = k
  BY <1>6 DEF IsInjective
<1>8. Reported(hs) = [i \in 1..n |-> Action(each[i])]
  BY <1>5, <1>7 DEF Reported
<1> QED BY <1>3, <1>6, <1>7, <1>8

\* What is detected in a text is news, and so it is when a final follows.
LEMMA DetectedNews ==
  ASSUME GrokInv, NEW r \in Prompts, NEW hs \in SUBSET Hashes
  PROVE  /\ News(run[r], Detected(r, hs), run[r].text, run[r].seen \cup hs)
         /\ \A text \in Seq(Chunk) :
              News(run[r], Detected(r, hs) \o << Final(text) >>, run[r].text, run[r].seen \cup hs)
<1>1. PICK c, new : c = run[r] /\ new = hs \ c.seen
  OBVIOUS
<1>2. /\ c \in RunState /\ new \in SUBSET Hashes /\ Detected(r, hs) = Reported(new) /\ c.text \in Seq(Chunk)
      /\ c.seen \in SUBSET Hashes
  BY <1>1 DEF GrokInv, GrokTypeOK, RunState, Detected
<1>0. PICK n \in Nat : \E each \in [1..n -> new] :
        /\ Reported(new) = [i \in 1..n |-> Action(each[i])]
        /\ \A i, k \in 1..n : each[i] = each[k] => i = k
  BY <1>2, ReportedOnce
<1>3. PICK each \in [1..n -> new] :
        /\ Reported(new) = [i \in 1..n |-> Action(each[i])]
        /\ \A i, k \in 1..n : each[i] = each[k] => i = k
  BY <1>0
<1>4. PICK es : es = Detected(r, hs)
  OBVIOUS
<1>5. es = [i \in 1..n |-> Action(each[i])]
  BY <1>2, <1>3, <1>4
<1>6. \A i \in 1..n : Action(each[i]) \in GrokEvents
  BY <1>2, <1>3 DEF GrokEvents
<1>7. /\ es \in Seq(GrokEvents) /\ Len(es) = n
      /\ \A i \in 1..n : es[i] = Action(each[i]) /\ each[i] \in new /\ es[i] \in GrokEvents /\ es[i].type = "action" /\ ~Ends(es[i])
  BY <1>5, <1>6 DEF Action, Ends
<1>8. \A i, k \in 1..n : i < k => es[i] # es[k]
  <2> SUFFICES ASSUME NEW i \in 1..n, NEW k \in 1..n, i < k, es[i] = es[k] PROVE FALSE
    OBVIOUS
  <2>1. each[i] = each[k]
    BY <1>7, EventTypes
  <2> QED BY <1>3, <2>1
<1>9. new \subseteq (c.seen \cup hs) \ c.seen /\ c.seen \cup hs \in SUBSET Hashes
  BY <1>1, <1>2
<1>10. News(c, es, c.text, c.seen \cup hs)
  <2>1. EndsOnce(es)
    BY <1>7, <1>8 DEF EndsOnce
  <2>2. \A i \in 1..Len(es) : es[i].type = "action" => \E h \in (c.seen \cup hs) \ c.seen : es[i] = Action(h)
    BY <1>7, <1>9
  <2> QED BY <1>2, <1>7, <1>9, <2>1, <2>2 DEF News
<1>11. ASSUME NEW text \in Seq(Chunk) PROVE News(c, es \o << Final(text) >>, c.text, c.seen \cup hs)
  <2>1. PICK f, all : f = Final(text) /\ all = es \o << f >>
    OBVIOUS
  <2>2. f \in GrokEvents /\ f.type = "final"
    BY <2>1 DEF GrokEvents, Final
  <2>3. /\ all \in Seq(GrokEvents) /\ Len(all) = n + 1 /\ all[n + 1] = f
        /\ \A i \in 1..n : all[i] = es[i]
    <3>1. << f >> \in Seq(GrokEvents) /\ Len(<< f >>) = 1 /\ << f >>[1] = f
      BY <2>2
    <3> QED BY <1>7, <2>1, <3>1
  <2>4. \A i \in 1..(n + 1) : i \in 1..n \/ i = n + 1
    OBVIOUS
  <2>5. EndsOnce(all)
    <3> SUFFICES ASSUME NEW i \in 1..(n + 1), NEW k \in 1..(n + 1), i < k
                 PROVE  ~Ends(all[i]) /\ (all[i].type = "action" => all[i] # all[k])
      BY <2>3 DEF EndsOnce
    <3>1. i \in 1..n /\ all[i] = es[i] /\ ~Ends(all[i])
      BY <1>7, <2>3
    <3>2. CASE k \in 1..n
      BY <1>8, <2>3, <3>1, <3>2
    <3>3. CASE k = n + 1
      BY <1>7, <2>2, <2>3, <3>1, <3>3
    <3> QED BY <2>4, <3>1, <3>2, <3>3
  <2>6. \A i \in 1..Len(all) : all[i].type = "action" => \E h \in (c.seen \cup hs) \ c.seen : all[i] = Action(h)
    <3> SUFFICES ASSUME NEW i \in 1..(n + 1), all[i].type = "action" PROVE \E h \in (c.seen \cup hs) \ c.seen : all[i] = Action(h)
      BY <2>3
    <3>1. i \in 1..n
      BY <2>2, <2>3, <2>4
    <3>2. all[i] = Action(each[i]) /\ each[i] \in new
      BY <1>7, <2>3, <3>1
    <3> QED BY <1>9, <3>2
  <2> QED BY <1>2, <1>9, <2>1, <2>3, <2>5, <2>6 DEF News
<1> QED BY <1>1, <1>4, <1>10, <1>11

\* One event that is no action.
LEMMA OneEventNews ==
  ASSUME NEW c \in RunState, NEW e \in GrokEvents, e.type # "action", NEW text \in Seq(Chunk)
  PROVE  News(c, << e >>, text, c.seen)
<1>1. << e >> \in Seq(GrokEvents) /\ Len(<< e >>) = 1 /\ \A i \in 1..1 : << e >>[i] = e
  OBVIOUS
<1>2. c.seen \in SUBSET Hashes
  BY DEF RunState
<1> QED BY <1>1, <1>2 DEF News, EndsOnce

LEMMA RunTimeoutInv ==
  ASSUME GrokInv, NEW p \in Prompts, RunTimeout(p)
  PROVE  GrokInv'
<1>1. PICK c, e : c = run[p] /\ e = Final(c.text)
  OBVIOUS
<1>2. c \in RunState /\ c.text \in Seq(Chunk) /\ e \in GrokEvents /\ e.type = "final"
  BY <1>1 DEF GrokInv, GrokTypeOK, RunState, Final, GrokEvents
<1>3. News(c, << e >>, c.text, c.seen)
  BY <1>2, OneEventNews
<1>4. /\ Open(p) /\ News(run[p], << Final(run[p].text) >>, run[p].text, run[p].seen)
      /\ Push(p, << Final(run[p].text) >>, run[p].text, run[p].seen)
      /\ prompt' = prompt /\ job' \in [Prompts -> JobState] /\ apart' \subseteq apart
  BY <1>1, <1>3 DEF RunTimeout, GrokInv, GrokTypeOK
<1> QED BY <1>4, PushInv

-----------------------------------------------------------------------------

\* Chunks of the prompt p alone.
OwnWords(p, chunks) == \A k \in 1..Len(chunks) : chunks[k][1] = p
Says(p, es) == \A i \in 1..Len(es) : es[i].type \in {"token", "final"} => OwnWords(p, es[i].of)

\* What the gateway has to tell the run r about the prompt j, and what comes of it.
NewsOf(j, r, es, text, noted) ==
  /\ News(run[r], es, text, noted)
  /\ OwnWords(j, run[r].text) => Says(j, es) /\ OwnWords(j, text)
Told(j, r, es, text, noted) ==
  /\ NewsOf(j, r, es, text, noted) /\ Push(r, es, text, noted)
  /\ Ending(es) => job'[j].state # "live"
Heard(j, r) ==
  \/ Nothing
  \/ \E es, text, noted : Told(j, r, es, text, noted)

LEMMA OneEventOf ==
  ASSUME GrokInv, NEW r \in Prompts, NEW j, NEW e \in GrokEvents, e.type # "action", NEW text \in Seq(Chunk),
         OwnWords(j, run[r].text) => OwnWords(j, text) /\ (e.type \in {"token", "final"} => OwnWords(j, e.of))
  PROVE  NewsOf(j, r, << e >>, text, run[r].seen) /\ (e.type = "token" => ~Ending(<< e >>))
<1>1. PICK c : c = run[r] /\ c \in RunState
  BY DEF GrokInv, GrokTypeOK
<1>2. News(c, << e >>, text, c.seen)
  BY <1>1, OneEventNews
<1>3. << e >> \in Seq(GrokEvents) /\ Len(<< e >>) = 1 /\ \A i \in 1..1 : << e >>[i] = e
  OBVIOUS
<1>4. (e.type \in {"token", "final"} => OwnWords(j, e.of)) => Says(j, << e >>)
  BY <1>3 DEF Says
<1>5. e.type = "token" => ~Ending(<< e >>)
  BY <1>3 DEF Ending, Ends
<1> QED BY <1>1, <1>2, <1>4, <1>5 DEF NewsOf

LEMMA ChunksOf ==
  ASSUME NEW j \in Prompts, NEW n \in Nat
  PROVE  Chunks(j, n) \in Seq(Chunk) /\ Len(Chunks(j, n)) = n /\ OwnWords(j, Chunks(j, n))
<1>1. PICK t : t = [i \in 1..n |-> << j, i >>]
  OBVIOUS
<1>2. t \in Seq(Chunk) /\ Len(t) = n
  BY <1>1 DEF Chunk
<1>3. \A k \in 1..n : t[k] = << j, k >>
  BY <1>1
<1>4. OwnWords(j, t)
  BY <1>2, <1>3 DEF OwnWords
<1> QED BY <1>1, <1>2, <1>4 DEF Chunks

LEMMA TokenFinal ==
  ASSUME NEW text \in Seq(Chunk)
  PROVE  /\ Token(text) \in GrokEvents /\ Token(text).type = "token" /\ Token(text).of = text
         /\ Final(text) \in GrokEvents /\ Final(text).type = "final" /\ Final(text).of = text
  BY DEF Token, Final, GrokEvents

LEMMA OwnWordsJoin ==
  ASSUME NEW a \in Seq(Chunk), NEW b \in Seq(Chunk), NEW j, OwnWords(j, a), OwnWords(j, b)
  PROVE  OwnWords(j, a \o b)
<1>1. /\ Len(a) \in Nat /\ Len(b) \in Nat /\ Len(a \o b) = Len(a) + Len(b)
  OBVIOUS
<1>2. ASSUME NEW k \in 1..Len(a \o b) PROVE (a \o b)[k][1] = j
  <2>1. CASE k <= Len(a)
    <3>1. k \in 1..Len(a) /\ (a \o b)[k] = a[k]
      BY <1>1, <2>1
    <3> QED BY <3>1 DEF OwnWords
  <2>2. CASE k > Len(a)
    <3>1. k - Len(a) \in 1..Len(b) /\ (a \o b)[k] = b[k - Len(a)]
      BY <1>1, <2>2
    <3> QED BY <3>1 DEF OwnWords
  <2> QED BY <1>1, <2>1, <2>2
<1> QED BY <1>2 DEF OwnWords

LEMMA ChatDeltaHeard ==
  ASSUME GrokInv, NEW j \in Prompts, NEW r \in Prompts, job'[j].made \in Nat, ChatDelta(j, r)
  PROVE  Heard(j, r)
<1>1. PICK text, had : text = Chunks(j, job'[j].made) /\ had = run[r].text
  OBVIOUS
<1>2. text \in Seq(Chunk) /\ OwnWords(j, text) /\ had \in Seq(Chunk)
  BY <1>1, ChunksOf DEF GrokInv, GrokTypeOK, RunState
<1>3. CASE Len(text) > Len(had)
  <2>1. PICK more, all :
          /\ more = (IF IsPrefix(had, text) THEN SubSeq(text, Len(had) + 1, Len(text)) ELSE text)
          /\ all = (IF IsPrefix(had, text) THEN text ELSE had \o text)
    OBVIOUS
  <2>2. Push(r, << Token(more) >>, all, run[r].seen)
    BY <1>1, <1>3, <2>1 DEF ChatDelta
  <2>3. more \in Seq(Chunk) /\ OwnWords(j, more)
    <3>1. CASE IsPrefix(had, text)
      <4>1. PICK a, b : a = Len(had) + 1 /\ b = Len(text) /\ a \in 1..b /\ b \in Nat
        BY <1>2, <1>3
      <4>2. more = SubSeq(text, a, b)
        BY <2>1, <3>1, <4>1
      <4>3. /\ SubSeq(text, a, b) \in Seq(Chunk) /\ Len(SubSeq(text, a, b)) = b - a + 1
            /\ \A i \in 1..(b - a + 1) : SubSeq(text, a, b)[i] = text[a + i - 1] /\ a + i - 1 \in 1..b
        BY <1>2, <4>1
      <4> QED BY <1>2, <4>1, <4>2, <4>3 DEF OwnWords
    <3>2. CASE ~IsPrefix(had, text)
      BY <1>2, <2>1, <3>2
    <3> QED BY <3>1, <3>2
  <2>4. all \in Seq(Chunk) /\ (OwnWords(j, had) => OwnWords(j, all))
    BY <1>2, <2>1, OwnWordsJoin
  <2>5. NewsOf(j, r, << Token(more) >>, all, run[r].seen) /\ ~Ending(<< Token(more) >>)
    BY <1>1, <2>3, <2>4, TokenFinal, OneEventOf
  <2> QED BY <2>2, <2>5 DEF Heard, Told
<1>4. CASE ~(Len(text) > Len(had))
  BY <1>1, <1>4 DEF ChatDelta, Heard, Told
<1> QED BY <1>3, <1>4

LEMMA AssistantDeltaHeard ==
  ASSUME GrokInv, NEW j \in Prompts, NEW r \in Prompts, job'[j].made \in Nat, AssistantDelta(j, r)
  PROVE  Heard(j, r)
<1>1. PICK chunk, had : chunk = << << j, job'[j].made >> >> /\ had = run[r].text
  OBVIOUS
<1>2. chunk \in Seq(Chunk) /\ OwnWords(j, chunk) /\ had \in Seq(Chunk)
  <2>0. << j, job'[j].made >> \in Chunk
    BY DEF Chunk
  <2>1. chunk \in Seq(Chunk) /\ had \in Seq(Chunk)
    BY <1>1, <2>0 DEF GrokInv, GrokTypeOK, RunState
  <2>2. Len(chunk) = 1 /\ \A k \in 1..1 : chunk[k] = << j, job'[j].made >>
    BY <1>1
  <2>3. OwnWords(j, chunk)
    BY <2>2 DEF OwnWords
  <2> QED BY <2>1, <2>3
<1>3. PICK all \in {had \o chunk, Chunks(j, job'[j].made)} : Push(r, << Token(chunk) >>, all, run[r].seen)
  BY <1>1 DEF AssistantDelta
<1>4. had \o chunk \in Seq(Chunk) /\ (OwnWords(j, had) => OwnWords(j, had \o chunk))
  BY <1>2, OwnWordsJoin
<1>5. all \in Seq(Chunk) /\ (OwnWords(j, had) => OwnWords(j, all))
  BY <1>3, <1>4, ChunksOf
<1>6. NewsOf(j, r, << Token(chunk) >>, all, run[r].seen) /\ ~Ending(<< Token(chunk) >>)
  BY <1>1, <1>2, <1>5, TokenFinal, OneEventOf
<1> QED BY <1>3, <1>6 DEF Heard, Told

LEMMA ReportsHeard ==
  ASSUME GrokInv, NEW j \in Prompts, NEW r \in Prompts,
         \/ \E h \in Hashes : ToolResult(r, h)
         \/ job'[j].state # "live" /\ ((\E hs \in SUBSET Hashes : ChatFinal(j, r, hs)) \/ ChatError(r))
  PROVE  Heard(j, r)
<1>1. PICK had : had = run[r].text /\ had \in Seq(Chunk)
  BY DEF GrokInv, GrokTypeOK, RunState
<1>2. ASSUME NEW hs \in SUBSET Hashes PROVE Detected(r, hs) \in Seq(GrokEvents) /\ \A i \in 1..Len(Detected(r, hs)) : Detected(r, hs)[i].type = "action"
  <2>1. PICK new \in SUBSET Hashes : new = hs \ run[r].seen
    OBVIOUS
  <2>2. PICK n \in Nat : \E each \in [1..n -> new] : Reported(new) = [i \in 1..n |-> Action(each[i])]
    BY ReportedOnce
  <2>3. PICK each \in [1..n -> new] : Reported(new) = [i \in 1..n |-> Action(each[i])]
    BY <2>2
  <2>4. \A i \in 1..n : Action(each[i]) \in GrokEvents /\ Action(each[i]).type = "action"
    BY <2>1 DEF GrokEvents, Action
  <2>5. PICK es : es = Detected(r, hs)
    OBVIOUS
  <2>6. es = [i \in 1..n |-> Action(each[i])]
    BY <2>1, <2>3, <2>5 DEF Detected
  <2>7. es \in Seq(GrokEvents) /\ Len(es) = n /\ \A i \in 1..n : es[i].type = "action"
    BY <2>4, <2>6
  <2> QED BY <2>5, <2>7
<1>3. ASSUME NEW h \in Hashes, ToolResult(r, h) PROVE Heard(j, r)
  <2>1. PICK es : es = Detected(r, {h})
    OBVIOUS
  <2>2. News(run[r], es, had, run[r].seen \cup {h}) /\ Push(r, es, had, run[r].seen \cup {h})
    BY <1>1, <1>3, <2>1, DetectedNews DEF ToolResult
  <2>3. Says(j, es) /\ ~Ending(es)
    <3>1. DOMAIN es = 1..Len(es) /\ \A i \in 1..Len(es) : es[i].type = "action"
      BY <1>2, <2>1
    <3> QED BY <3>1 DEF Says, Ending, Ends
  <2> QED BY <1>1, <2>2, <2>3 DEF Heard, Told, NewsOf
<1>4. ASSUME NEW hs \in SUBSET Hashes, ChatFinal(j, r, hs), job'[j].state # "live" PROVE Heard(j, r)
  <2>1. PICK text : text = Chunks(j, job[j].made)
    OBVIOUS
  <2>2. text \in Seq(Chunk) /\ OwnWords(j, text)
    BY <2>1, ChunksOf DEF GrokInv, GrokTypeOK, JobState
  <2>3. PICK last : last = (IF Len(text) >= Len(had) THEN text ELSE had)
    OBVIOUS
  <2>4. last \in Seq(Chunk) /\ (OwnWords(j, had) => OwnWords(j, last))
    BY <1>1, <2>2, <2>3
  <2>5. PICK said \in SUBSET Hashes : said = IF last = << >> THEN {} ELSE hs
    OBVIOUS
  <2>6. PICK es : es = Detected(r, said) \o << Final(last) >>
    OBVIOUS
  <2>7. Push(r, es, had, run[r].seen \cup said)
    BY <1>1, <1>4, <2>1, <2>3, <2>5, <2>6 DEF ChatFinal
  <2>8. News(run[r], es, had, run[r].seen \cup said)
    BY <1>1, <2>4, <2>6, DetectedNews
  <2>9. OwnWords(j, had) => Says(j, es)
    <3>1. PICK new, f : new = Detected(r, said) /\ f = Final(last)
      OBVIOUS
    <3>2. /\ new \in Seq(GrokEvents) /\ f \in GrokEvents /\ f.of = last
          /\ \A i \in 1..Len(new) : new[i].type = "action"
      BY <1>2, <2>4, <3>1, TokenFinal
    <3>3. << f >> \in Seq(GrokEvents) /\ Len(<< f >>) = 1 /\ << f >>[1] = f
      BY <3>2
    <3>4. /\ es = new \o << f >> /\ Len(es) = Len(new) + 1 /\ Len(new) \in Nat
          /\ es[Len(new) + 1] = f /\ \A i \in 1..Len(new) : es[i] = new[i]
      BY <2>6, <3>1, <3>2, <3>3
    <3>5. \A i \in 1..Len(es) : i \in 1..Len(new) \/ i = Len(new) + 1
      BY <3>4
    <3> QED BY <2>4, <3>2, <3>4, <3>5 DEF Says
  <2> QED BY <1>1, <1>4, <2>7, <2>8, <2>9 DEF Heard, Told, NewsOf
<1>5. CASE job'[j].state # "live" /\ ChatError(r)
  <2>1. Push(r, << Error >>, had, run[r].seen)
    BY <1>1, <1>5 DEF ChatError
  <2>2. Error \in GrokEvents /\ Error.type = "error"
    BY DEF Error, GrokEvents
  <2>3. NewsOf(j, r, << Error >>, had, run[r].seen)
    BY <1>1, <2>2, OneEventOf
  <2> QED BY <1>5, <2>1, <2>3 DEF Heard, Told
<1> QED BY <1>3, <1>4, <1>5

\* What any event of the gateway does.
GatewayStep(j) ==
  /\ job[j].state = "live" /\ job' \in [Prompts -> JobState]
  /\ \A q \in Prompts : q # j => job'[q] = job[q]
  /\ UNCHANGED << prompt, link, drops, apart >>
  /\ \/ Nothing
     \/ \E named \in BOOLEAN : ResolveRunForEvent(j, named) # NoRun /\ Heard(j, ResolveRunForEvent(j, named))

LEMMA Resolved ==
  ASSUME GrokInv, NEW j \in Prompts, NEW named \in BOOLEAN, NEW r, r = ResolveRunForEvent(j, named), r # NoRun
  PROVE  r \in Prompts /\ Open(r) /\ (r = j \/ r = active[SessionOf(j)])
<1>1. active[SessionOf(j)] \in Prompts \cup {NoRun}
  BY DEF GrokInv, GrokTypeOK, PromptState, SessionOf
<1> QED BY <1>1 DEF ResolveRunForEvent

LEMMA GatewaySteps ==
  ASSUME GrokInv, NEW j \in Prompts, Gateway(j)
  PROVE  GatewayStep(j)
<1>1. job[j].state = "live" /\ UNCHANGED << prompt, link, drops, apart >> /\ job[j] \in JobState /\ job \in [Prompts -> JobState]
  BY DEF Gateway, GrokInv, GrokTypeOK
<1>2. /\ job' \in [Prompts -> JobState] /\ \A q \in Prompts : q # j => job'[q] = job[q]
  <2>1. [job[j] EXCEPT !.made = @ + 1] \in JobState /\ [state |-> "done", made |-> 0] \in JobState
    BY <1>1 DEF JobState
  <2>2. PICK d \in JobState : job' = [job EXCEPT ![j] = d]
    <3>1. \/ job' = [job EXCEPT ![j] = [job[j] EXCEPT !.made = @ + 1]]
          \/ job' = [job EXCEPT ![j] = [state |-> "done", made |-> 0]]
          \/ job' = job
      BY DEF Gateway
    <3>2. job = [job EXCEPT ![j] = job[j]]
      BY <1>1
    <3> QED BY <1>1, <2>1, <3>1, <3>2
  <2> QED BY <1>1, <2>2
<1>3. job'[j].made \in Nat
  BY <1>2 DEF JobState
<1>4. \/ Arrives(j, LAMBDA r : ChatDelta(j, r))
      \/ Arrives(j, LAMBDA r : AssistantDelta(j, r))
      \/ \E h \in Hashes : Arrives(j, LAMBDA r : ToolResult(r, h))
      \/ job'[j].state # "live" /\ \E hs \in SUBSET Hashes : Arrives(j, LAMBDA r : ChatFinal(j, r, hs))
      \/ job'[j].state # "live" /\ Arrives(j, ChatError)
  <2>1. job' = [job EXCEPT ![j] = [state |-> "done", made |-> 0]] => job'[j].state # "live"
    BY <1>1
  <2> QED BY <2>1 DEF Gateway
<1>5. ASSUME Arrives(j, LAMBDA r : ChatDelta(j, r)) PROVE GatewayStep(j)
  BY <1>1, <1>2, <1>3, <1>5, Resolved, ChatDeltaHeard DEF Arrives, GatewayStep
<1>6. ASSUME Arrives(j, LAMBDA r : AssistantDelta(j, r)) PROVE GatewayStep(j)
  BY <1>1, <1>2, <1>3, <1>6, Resolved, AssistantDeltaHeard DEF Arrives, GatewayStep
<1>7. ASSUME NEW h \in Hashes, Arrives(j, LAMBDA r : ToolResult(r, h)) PROVE GatewayStep(j)
  BY <1>1, <1>2, <1>7, Resolved, ReportsHeard DEF Arrives, GatewayStep
<1>8. ASSUME NEW hs \in SUBSET Hashes, job'[j].state # "live", Arrives(j, LAMBDA r : ChatFinal(j, r, hs)) PROVE GatewayStep(j)
  BY <1>1, <1>2, <1>8, Resolved, ReportsHeard DEF Arrives, GatewayStep
<1>9. ASSUME job'[j].state # "live", Arrives(j, ChatError) PROVE GatewayStep(j)
  BY <1>1, <1>2, <1>9, Resolved, ReportsHeard DEF Arrives, GatewayStep
<1> QED BY <1>4, <1>5, <1>6, <1>7, <1>8, <1>9

LEMMA GatewayInv ==
  ASSUME GrokInv, NEW j \in Prompts, Gateway(j)
  PROVE  GrokInv'
<1>1. GatewayStep(j)
  BY GatewaySteps
<1>2. CASE Nothing
  BY <1>1, <1>2 DEF Nothing, GatewayStep, GrokInv, GrokTypeOK, RunsTell, StreamsTell, StreamsHaveRuns
<1>3. ASSUME NEW named \in BOOLEAN, NEW r, r = ResolveRunForEvent(j, named), r # NoRun, Heard(j, r), ~Nothing PROVE GrokInv'
  <2>1. r \in Prompts /\ Open(r)
    BY <1>3, Resolved
  <2>2. PICK es, text, noted : Told(j, r, es, text, noted)
    BY <1>3 DEF Heard
  <2>3. prompt' = prompt /\ job' \in [Prompts -> JobState] /\ apart' \subseteq apart
    BY <1>1 DEF GatewayStep
  <2>4. News(run[r], es, text, noted) /\ Push(r, es, text, noted)
    BY <2>2 DEF Told, NewsOf
  <2> QED BY <2>1, <2>2, <2>3, <2>4, PushInv
<1> QED BY <1>1, <1>2, <1>3 DEF GatewayStep

LEMMA GrokNextInv ==
  ASSUME GrokInv, [GrokNext]_grokVars
  PROVE  GrokInv'
<1>1. CASE UNCHANGED grokVars
  BY <1>1 DEF grokVars, GrokInv, GrokTypeOK, RunsTell, StreamsTell, StreamsHaveRuns
<1>2. CASE Connection
  BY <1>2 DEF Connection, GrokInv, GrokTypeOK, RunsTell, StreamsTell, StreamsHaveRuns
<1>3. CASE Disconnected
  BY <1>3, DisconnectedInv
<1>4. ASSUME NEW p \in Prompts,
             \/ \E s \in Sessions : Submit(p, s)
             \/ QueryFails(p) \/ OpenRun(p) \/ Send(p) \/ GatewayAnswers(p) \/ SendFails(p)
             \/ OnTimer(p) \/ Cleanup(p)
             \/ Gateway(p)
      PROVE  GrokInv'
  BY <1>4, PromptStepsInv, OpenRunInv, SendFailsInv, RunTimeoutInv, CleanupInv, GatewayInv DEF OnTimer
<1>5. ASSUME NEW st \in Streams, (\E p \in Prompts : Attach(st, p)) \/ Leave(st) PROVE GrokInv'
  BY <1>5, AttachLeaveInv
<1> QED BY <1>1, <1>2, <1>3, <1>4, <1>5 DEF GrokNext

\* However the gateway, the timer and failures race, a run ends once and reports a
\* transaction once, and a stream has the end of what its run was pushed, all of it
\* where the run could remember it, and the end where it has ended (grok/arena.ts, pushEvent and closeRun).
THEOREM StreamsAlwaysTell == GrokSpec => []StreamsTellTheRun
<1>1. ASSUME GrokInv PROVE StreamsTellTheRun
  <2>1. ASSUME NEW p \in Prompts, NEW i \in DOMAIN pushed[p], NEW k \in DOMAIN pushed[p], i < k
        PROVE  ~Ends(pushed[p][i]) /\ (pushed[p][i].type = "action" => pushed[p][i] # pushed[p][k])
    <3>1. DOMAIN pushed[p] = 1..Len(pushed[p]) /\ EndsOnce(pushed[p])
      BY <1>1 DEF GrokInv, GrokTypeOK, RunsTell, RunTells
    <3> QED BY <2>1, <3>1 DEF EndsOnce
  <2>2. ASSUME NEW st \in Streams, stream[st].pc \in {"open", "ended"}, run[stream[st].run].state # "gone"
        PROVE  LET all == pushed[stream[st].run] IN
               /\ IsSuffix(stream[st].got, all)
               /\ Len(all) <= MaxEvents => stream[st].got = all
               /\ stream[st].pc = "ended" <=> Ending(stream[st].got)
    <3>1. PICK s, p, c, all : s = stream[st] /\ p = s.run /\ c = run[p] /\ all = pushed[p]
      OBVIOUS
    <3>2. p \in Prompts /\ s \in StreamState /\ all \in Seq(GrokEvents) /\ s.got \in Seq(GrokEvents)
      BY <1>1, <2>2, <3>1 DEF GrokInv, GrokTypeOK, StreamsHaveRuns, StreamState
    <3>3. StreamTells(s, prompt[p].pc, c, all) /\ RunTells(prompt[p].pc, c, all) /\ c.state # "gone" /\ s.pc \in {"open", "ended"}
      BY <1>1, <2>2, <3>1, <3>2 DEF GrokInv, StreamsTell, RunsTell
    <3>4. Tells(s.got, all)
      BY <3>3 DEF StreamTells
    <3>5. IsSuffix(s.got, all)
      BY <3>2, <3>4, TailIsSuffix DEF Tells
    <3>6. ASSUME Len(all) <= MaxEvents PROVE s.got = all
      <4>1. PICK got : got = s.got
        OBVIOUS
      <4>2. /\ got \in Seq(GrokEvents) /\ Len(got) \in Nat /\ Len(all) \in Nat /\ MaxEvents \in Nat /\ Len(got) <= Len(all)
            /\ (Len(got) >= MaxEvents \/ Len(got) = Len(all))
            /\ \A i \in 1..Len(got) : got[i] = all[Len(all) - Len(got) + i]
        <5>1. Tells(got, all) /\ got \in Seq(GrokEvents)
          BY <3>2, <3>4, <4>1
        <5> QED BY <3>2, <5>1, GrokAssumption DEF Tells, TailOf
      <4>3. Len(got) = Len(all)
        BY <3>6, <4>2
      <4>4. \A i \in 1..Len(got) : got[i] = all[i]
        <5>1. \A i \in 1..Len(got) : Len(all) - Len(got) + i = i
          BY <4>2, <4>3
        <5> QED BY <4>2, <5>1
      <4> QED BY <3>2, <4>1, <4>2, <4>3, <4>4
    <3>7. s.pc = "ended" <=> Ending(s.got)
      <4>1. Ending(s.got) <=> Ending(all)
        <5>1. EndsOnce(all)
          BY <3>3 DEF RunTells
        <5> QED BY <3>2, <3>4, <5>1, EndIsTold
      <4>2. CASE s.pc = "ended"
        BY <3>3, <4>2 DEF StreamTells
      <4>3. CASE s.pc = "open"
        <5>1. \A i \in 1..Len(all) : ~Ends(all[i])
          BY <3>3, <4>3 DEF StreamTells, RunTells
        <5> QED BY <3>2, <4>1, <4>3, <5>1 DEF Ending
      <4> QED BY <3>3, <4>2, <4>3
    <3> QED BY <3>1, <3>5, <3>6, <3>7
  <2> QED BY <2>1, <2>2 DEF StreamsTellTheRun
<1> QED BY <1>1, GrokInitInv, GrokNextInv, PTL DEF GrokSpec

-----------------------------------------------------------------------------
(***************************************************************************)
(* A session that is apart has one run open at most, that of the prompt    *)
(* which the gateway has still to answer, if there is one: an event of the *)
(* session, whether or not it names the run, comes to the prompt's own.    *)
(***************************************************************************)

SessionsInv ==
  /\ \A s \in Sessions : active[s] # NoRun => SessionOf(active[s]) = s /\ prompt[active[s]].pc # "idle"
  /\ \A p \in Prompts : prompt[p].pc \in Unopened \cup {"waiting"} => job[p].state = "none"

\* Of a prompt p whose session is apart.
KeptApart(p) ==
  /\ \A q \in Prompts : SessionOf(q) = SessionOf(p) /\ Open(p) /\ Open(q) => p = q
  /\ job[p].state = "live" \/ prompt[p].pc = "waiting" => Open(p)
  /\ Says(p, pushed[p]) /\ OwnWords(p, run[p].text)

ApartInv == GrokInv /\ SessionsInv /\ \A p \in Prompts : SessionOf(p) \in apart => KeptApart(p)

LEMMA NothingSaid == \A p : Says(p, << >>) /\ OwnWords(p, << >>)
  BY DEF Says, OwnWords

LEMMA SaysJoin ==
  ASSUME NEW a \in Seq(GrokEvents), NEW b \in Seq(GrokEvents), NEW p, Says(p, a), Says(p, b)
  PROVE  Says(p, a \o b)
<1>1. PICK n, m, c : n = Len(a) /\ m = Len(b) /\ c = a \o b
  OBVIOUS
<1>2. /\ n \in Nat /\ m \in Nat /\ Len(c) = n + m /\ \A i \in 1..n : c[i] = a[i]
      /\ \A i \in 1..(n + m) : i \in 1..n \/ (i - n \in 1..m /\ c[i] = b[i - n])
  BY <1>1
<1> QED BY <1>1, <1>2 DEF Says

LEMMA ApartInit == GrokInit => ApartInv
<1> SUFFICES ASSUME GrokInit PROVE ApartInv
  OBVIOUS
<1>1. SessionsInv
  BY DEF GrokInit, SessionsInv
<1>2. ASSUME NEW p \in Prompts PROVE KeptApart(p)
  BY NothingSaid DEF GrokInit, KeptApart, NoState, Open
<1> QED BY <1>1, <1>2, GrokInitInv DEF ApartInv

LEMMA PromptStepsApart ==
  ASSUME ApartInv, GrokInv', NEW p \in Prompts,
         (\E s \in Sessions : Submit(p, s)) \/ QueryFails(p) \/ Send(p) \/ GatewayAnswers(p)
  PROVE  ApartInv'
<1>0. /\ prompt[p] \in PromptState /\ prompt \in [Prompts -> PromptState] /\ job \in [Prompts -> JobState]
      /\ active \in [Sessions -> Prompts \cup {NoRun}] /\ SessionsInv
      /\ \A q \in Prompts : SessionOf(q) \in apart => KeptApart(q)
  BY DEF ApartInv, GrokInv, GrokTypeOK
<1>1. \A q \in Prompts : prompt[q].pc \in Unopened => run[q] = NoState /\ pushed[q] = << >> /\ ~Open(q)
  BY DEF ApartInv, GrokInv, RunsTell, RunTells, NoState, Open
<1>2. UNCHANGED << run, active, stream, pushed, apart >>
  BY DEF Submit, QueryFails, Send, GatewayAnswers
<1>3. ASSUME NEW c \in PromptState, NEW d \in JobState, prompt' = [prompt EXCEPT ![p] = c], job' = [job EXCEPT ![p] = d],
             \/ prompt[p].pc = "idle" /\ c.pc \in Unopened /\ c.pc # "idle" /\ d = job[p]
             \/ c.session = prompt[p].session /\ prompt[p].pc = "checked" /\ c.pc = "failed" /\ d = job[p]
             \/ c.session = prompt[p].session /\ prompt[p].pc = "waiting" /\ c.pc = "sending"
             \/ c.session = prompt[p].session /\ prompt[p].pc = "sending" /\ c.pc = "answered" /\ d = job[p]
      PROVE  ApartInv'
  <2>1. /\ prompt'[p] = c /\ job'[p] = d
        /\ \A q \in Prompts : q # p => prompt'[q] = prompt[q] /\ job'[q] = job[q] /\ SessionOf(q)' = SessionOf(q)
        /\ \A q \in Prompts : Open(q)' <=> Open(q)
    BY <1>0, <1>2, <1>3 DEF SessionOf, Open
  <2>2. SessionsInv'
    <3>1. ASSUME NEW s \in Sessions, active[s] # NoRun PROVE prompt'[active[s]].session = s /\ prompt'[active[s]].pc # "idle"
      <4>1. PICK r \in Prompts : r = active[s] /\ prompt[r].session = s /\ prompt[r].pc # "idle"
        BY <1>0, <3>1 DEF SessionsInv, SessionOf
      <4>2. CASE r = p
        BY <1>3, <2>1, <4>1, <4>2
      <4>3. CASE r # p
        BY <2>1, <4>1, <4>3
      <4> QED BY <4>1, <4>2, <4>3
    <3>2. ASSUME NEW q \in Prompts, prompt'[q].pc \in Unopened \cup {"waiting"} PROVE job'[q].state = "none"
      <4>1. CASE q # p
        BY <1>0, <2>1, <3>2, <4>1 DEF SessionsInv
      <4>2. CASE q = p
        <5>1. prompt[p].pc = "idle" /\ d = job[p]
          BY <1>3, <2>1, <3>2, <4>2 DEF Unopened
        <5> QED BY <1>0, <2>1, <4>2, <5>1 DEF SessionsInv, Unopened
      <4> QED BY <4>1, <4>2
    <3> QED BY <1>2, <3>1, <3>2 DEF SessionsInv, SessionOf
  <2>3. ASSUME NEW q \in Prompts, SessionOf(q)' \in apart' PROVE KeptApart(q)'
    <3>1. CASE prompt[p].pc = "idle" /\ q = p
      <4>1. ~Open(p)' /\ run'[p] = NoState /\ pushed'[p] = << >>
        BY <1>1, <1>2, <2>1, <3>1 DEF Unopened
      <4>2. job'[p].state = "none" /\ prompt'[p].pc # "waiting"
        BY <1>0, <1>3, <2>1, <3>1 DEF SessionsInv, Unopened
      <4> QED BY <3>1, <4>1, <4>2, NothingSaid DEF KeptApart, NoState
    <3>2. CASE prompt[p].pc = "idle" /\ q # p
      <4>1. ~Open(p) /\ KeptApart(q)
        BY <1>0, <1>1, <1>2, <2>1, <2>3, <3>2 DEF Unopened
      <4> QED BY <1>2, <2>1, <3>2, <4>1 DEF KeptApart
    <3>3. CASE prompt[p].pc # "idle"
      <4>1. \A x \in Prompts : SessionOf(x)' = SessionOf(x)
        BY <1>3, <2>1, <3>3 DEF SessionOf
      <4>2. KeptApart(q)
        BY <1>0, <1>2, <2>3, <4>1
      <4>3. job'[q].state = "live" \/ prompt'[q].pc = "waiting" => Open(q)
        BY <1>3, <2>1, <3>3, <4>2 DEF KeptApart
      <4> QED BY <1>2, <2>1, <4>1, <4>2, <4>3 DEF KeptApart
    <3> QED BY <3>1, <3>2, <3>3
  <2> QED BY <2>2, <2>3 DEF ApartInv
<1>4. ASSUME NEW s \in Sessions, Submit(p, s) PROVE ApartInv'
  <2>1. PICK c : c = [pc |-> IF active[s] = NoRun THEN "checked" ELSE "refused", session |-> s]
    OBVIOUS
  <2>2. /\ c \in PromptState /\ prompt' = [prompt EXCEPT ![p] = c] /\ prompt[p].pc = "idle"
        /\ c.pc \in Unopened /\ c.pc # "idle" /\ job' = job
    BY <1>4, <2>1 DEF Submit, PromptState, Unopened
  <2> QED BY <1>0, <1>3, <2>2
<1>5. CASE QueryFails(p)
  <2>1. PICK c : c = [prompt[p] EXCEPT !.pc = "failed"]
    OBVIOUS
  <2>2. /\ c \in PromptState /\ prompt' = [prompt EXCEPT ![p] = c] /\ prompt[p].pc = "checked"
        /\ c.pc = "failed" /\ c.session = prompt[p].session /\ job' = job
    BY <1>0, <1>5, <2>1 DEF QueryFails, PromptState
  <2> QED BY <1>0, <1>3, <2>2
<1>6. CASE Send(p)
  <2>1. PICK c, d : c = [prompt[p] EXCEPT !.pc = "sending"] /\ d = [job[p] EXCEPT !.state = "live"]
    OBVIOUS
  <2>2. /\ c \in PromptState /\ prompt' = [prompt EXCEPT ![p] = c] /\ prompt[p].pc = "waiting"
        /\ c.pc = "sending" /\ c.session = prompt[p].session /\ job' = [job EXCEPT ![p] = d] /\ d \in JobState
    BY <1>0, <1>6, <2>1 DEF Send, PromptState, JobState
  <2> QED BY <1>3, <2>2
<1>7. CASE GatewayAnswers(p)
  <2>1. PICK c : c = [prompt[p] EXCEPT !.pc = "answered"]
    OBVIOUS
  <2>2. /\ c \in PromptState /\ prompt' = [prompt EXCEPT ![p] = c] /\ prompt[p].pc = "sending"
        /\ c.pc = "answered" /\ c.session = prompt[p].session /\ job' = job
    BY <1>0, <1>7, <2>1 DEF GatewayAnswers, PromptState
  <2> QED BY <1>0, <1>3, <2>2
<1> QED BY <1>4, <1>5, <1>6, <1>7

LEMMA OpenRunApart ==
  ASSUME ApartInv, GrokInv', NEW p \in Prompts, OpenRun(p)
  PROVE  ApartInv'
<1>0. /\ prompt \in [Prompts -> PromptState] /\ job \in [Prompts -> JobState] /\ run \in [Prompts -> RunState]
      /\ active \in [Sessions -> Prompts \cup {NoRun}] /\ SessionsInv
      /\ \A q \in Prompts : SessionOf(q) \in apart => KeptApart(q)
  BY DEF ApartInv, GrokInv, GrokTypeOK
<1>1. /\ prompt[p].pc = "checked" /\ prompt' = [prompt EXCEPT ![p].pc = "waiting"]
      /\ run' = [run EXCEPT ![p].state = "open"] /\ active' = [active EXCEPT ![SessionOf(p)] = p]
      /\ apart' = apart \ {SessionOf(q) : q \in {q \in Prompts \ {p} : SessionOf(q) = SessionOf(p) /\ Open(q)}}
      /\ job' = job /\ pushed' = pushed
  BY DEF OpenRun
<1>2. run[p] = NoState /\ pushed[p] = << >> /\ job[p].state = "none"
  BY <1>0, <1>1 DEF ApartInv, GrokInv, RunsTell, RunTells, Unopened, SessionsInv
<1>3. /\ \A q \in Prompts : SessionOf(q)' = SessionOf(q) /\ (q # p => run'[q] = run[q] /\ prompt'[q] = prompt[q])
      /\ prompt'[p].pc = "waiting" /\ run'[p].state = "open" /\ run'[p].text = << >>
  <2>1. PICK c, d : c = prompt[p] /\ d = run[p]
    OBVIOUS
  <2>2. c \in PromptState /\ d \in RunState /\ d.text = << >>
    <3>1. c \in PromptState /\ d \in RunState
      BY <1>0, <2>1
    <3>2. d = [state |-> "none", text |-> << >>, events |-> << >>, seen |-> {}]
      BY <1>2, <2>1 DEF NoState
    <3> QED BY <3>1, <3>2
  <2>3. prompt' = [prompt EXCEPT ![p] = [c EXCEPT !.pc = "waiting"]] /\ run' = [run EXCEPT ![p] = [d EXCEPT !.state = "open"]]
    BY <1>1, <2>1
  <2> QED BY <1>0, <2>1, <2>2, <2>3 DEF PromptState, RunState, SessionOf
<1>4. SessionsInv'
  <2>1. ASSUME NEW s \in Sessions, active'[s] # NoRun PROVE prompt'[active'[s]].session = s /\ prompt'[active'[s]].pc # "idle"
    <3>1. CASE s = SessionOf(p)
      <4>1. active'[s] = p
        BY <1>0, <1>1, <2>1, <3>1
      <4> QED BY <1>3, <3>1, <4>1 DEF SessionOf
    <3>2. CASE s # SessionOf(p)
      <4>1. PICK r \in Prompts : r = active[s] /\ active'[s] = r /\ SessionOf(r) = s /\ prompt[r].pc # "idle"
        BY <1>0, <1>1, <2>1, <3>2 DEF SessionsInv
      <4> QED BY <1>3, <3>2, <4>1 DEF SessionOf
    <3> QED BY <3>1, <3>2
  <2>2. \A q \in Prompts : prompt'[q].pc \in Unopened \cup {"waiting"} => job'[q].state = "none"
    BY <1>0, <1>1, <1>2, <1>3 DEF SessionsInv
  <2> QED BY <2>1, <2>2 DEF SessionsInv, SessionOf
<1>5. ASSUME NEW q \in Prompts, SessionOf(q)' \in apart' PROVE KeptApart(q)'
  <2>1. SessionOf(q) \in apart /\ KeptApart(q)
    BY <1>0, <1>1, <1>3, <1>5
  <2>2. CASE SessionOf(q) = SessionOf(p)
    <3>1. \A x \in Prompts : SessionOf(x) = SessionOf(p) /\ x # p => ~Open(x) /\ ~Open(x)'
      BY <1>1, <1>3, <1>5, <2>2 DEF Open
    <3>2. CASE q = p
      <4>1. Open(p)' /\ Says(p, pushed'[p]) /\ OwnWords(p, run'[p].text)
        BY <1>1, <1>2, <1>3, NothingSaid DEF Open
      <4> QED BY <1>3, <3>1, <3>2, <4>1 DEF KeptApart
    <3>3. CASE q # p
      <4>1. ~Open(q)' /\ ~(job[q].state = "live" \/ prompt[q].pc = "waiting")
        BY <2>1, <2>2, <3>1, <3>3 DEF KeptApart
      <4> QED BY <1>1, <1>3, <2>1, <3>3, <4>1 DEF KeptApart
    <3> QED BY <3>2, <3>3
  <2>3. CASE SessionOf(q) # SessionOf(p)
    <3>1. q # p /\ \A x \in Prompts : SessionOf(x) = SessionOf(q) => (Open(x)' <=> Open(x))
      BY <1>3, <2>3 DEF Open
    <3> QED BY <1>1, <1>3, <2>1, <3>1 DEF KeptApart
  <2> QED BY <2>2, <2>3
<1> QED BY <1>4, <1>5 DEF ApartInv

\* Runs that are closed, of which none that its gateway has still to answer is in a session that stays apart.
LEMMA ClosedApart ==
  ASSUME ApartInv, GrokInv', NEW ps \in SUBSET Prompts, Closed(ps),
         \A p \in ps : prompt'[p].pc = "failed" /\ prompt'[p].session = prompt[p].session,
         \A p \in Prompts : p \notin ps => prompt'[p] = prompt[p],
         apart' = apart \ Unfinished(ps), UNCHANGED << job, stream, pushed >>
  PROVE  ApartInv'
<1>0. /\ run \in [Prompts -> RunState]
      /\ active \in [Sessions -> Prompts \cup {NoRun}] /\ SessionsInv
      /\ \A q \in Prompts : SessionOf(q) \in apart => KeptApart(q)
  BY DEF ApartInv, GrokInv, GrokTypeOK
<1>1. \A p \in Prompts : /\ SessionOf(p)' = SessionOf(p) /\ run'[p].text = run[p].text
                         /\ (p \notin ps => run'[p] = run[p]) /\ (p \in ps => ~Open(p)')
  <2> SUFFICES ASSUME NEW p \in Prompts
               PROVE  /\ SessionOf(p)' = SessionOf(p) /\ run'[p].text = run[p].text
                      /\ (p \notin ps => run'[p] = run[p]) /\ (p \in ps => ~Open(p)')
    OBVIOUS
  <2>1. PICK d : d = run[p] /\ d \in RunState
    BY <1>0
  <2>2. IF p \in ps THEN run'[p] = [d EXCEPT !.state = "closed"] ELSE run'[p] = d
    BY <2>1 DEF Closed
  <2>3. run'[p].text = d.text /\ (p \in ps => run'[p].state = "closed")
    BY <2>1, <2>2 DEF RunState
  <2> QED BY <2>1, <2>2, <2>3 DEF SessionOf, Open
<1>2. \A p \in Prompts : Open(p)' => Open(p) /\ p \notin ps
  BY <1>1 DEF Open
<1>3. SessionsInv'
  <2>1. ASSUME NEW s \in Sessions, active'[s] # NoRun PROVE prompt'[active'[s]].session = s /\ prompt'[active'[s]].pc # "idle"
    <3>1. active'[s] = active[s]
      BY <2>1 DEF Closed
    <3>2. PICK r \in Prompts : r = active[s] /\ prompt[r].session = s /\ prompt[r].pc # "idle"
      BY <1>0, <2>1, <3>1 DEF SessionsInv, SessionOf
    <3> QED BY <3>1, <3>2
  <2>2. \A q \in Prompts : prompt'[q].pc \in Unopened \cup {"waiting"} => job'[q].state = "none"
    BY <1>0 DEF SessionsInv, Unopened
  <2> QED BY <2>1, <2>2 DEF SessionsInv, SessionOf
<1>4. ASSUME NEW q \in Prompts, SessionOf(q)' \in apart' PROVE KeptApart(q)'
  <2>1. SessionOf(q) \in apart /\ KeptApart(q) /\ SessionOf(q) \notin Unfinished(ps)
    BY <1>0, <1>1, <1>4
  <2>2. job'[q].state = "live" \/ prompt'[q].pc = "waiting" => Open(q)'
    <3>1. CASE q \in ps
      BY <2>1, <3>1 DEF Unfinished
    <3>2. CASE q \notin ps
      BY <1>1, <2>1, <3>2 DEF KeptApart, Open
    <3> QED BY <3>1, <3>2
  <2> QED BY <1>1, <1>2, <2>1, <2>2 DEF KeptApart
<1> QED BY <1>3, <1>4 DEF ApartInv

\* A push to the run r.
LEMMA PushApart ==
  ASSUME ApartInv, GrokInv', NEW r \in Prompts, NEW es, NEW text, NEW noted, Open(r), News(run[r], es, text, noted),
         Push(r, es, text, noted), prompt' = prompt, apart' \subseteq apart,
         \A q \in Prompts : (job'[q].state = "live" => job[q].state = "live") /\ (job[q].state = "none" => job'[q].state = "none"),
         SessionOf(r) \in apart' =>
           Says(r, es) /\ OwnWords(r, text) /\ (Ending(es) => job'[r].state # "live" /\ prompt[r].pc # "waiting")
  PROVE  ApartInv'
<1>0. /\ run \in [Prompts -> RunState] /\ pushed \in [Prompts -> Seq(GrokEvents)]
      /\ active \in [Sessions -> Prompts \cup {NoRun}] /\ SessionsInv
      /\ \A q \in Prompts : SessionOf(q) \in apart => KeptApart(q)
  BY DEF ApartInv, GrokInv, GrokTypeOK
<1>1. PICK d : d = [state |-> IF Ending(es) THEN "closed" ELSE run[r].state,
                    text |-> text, seen |-> noted, events |-> Remembered(run[r].events \o es)]
  OBVIOUS
<1>2. run' = [run EXCEPT ![r] = d] /\ pushed' = [pushed EXCEPT ![r] = pushed[r] \o es]
  BY <1>1 DEF Push
<1>3. d.text = text /\ (~Ending(es) => d.state = "open")
  BY <1>1 DEF Open
<1>4. /\ run'[r] = d /\ pushed'[r] = pushed[r] \o es
      /\ \A q \in Prompts : SessionOf(q)' = SessionOf(q) /\ (q # r => run'[q] = run[q] /\ pushed'[q] = pushed[q])
  BY <1>0, <1>2 DEF SessionOf
<1>5. \A q \in Prompts : Open(q)' => Open(q)
  BY <1>4 DEF Open
<1>6. SessionsInv'
  <2>1. \A s \in Sessions : active'[s] # NoRun => active'[s] = active[s]
    BY <1>0 DEF Push
  <2>2. ASSUME NEW s \in Sessions, active'[s] # NoRun PROVE prompt'[active'[s]].session = s /\ prompt'[active'[s]].pc # "idle"
    <3>1. PICK q \in Prompts : q = active[s] /\ prompt[q].session = s /\ prompt[q].pc # "idle"
      BY <1>0, <2>1, <2>2 DEF SessionsInv, SessionOf
    <3> QED BY <2>1, <2>2, <3>1
  <2>3. \A q \in Prompts : prompt'[q].pc \in Unopened \cup {"waiting"} => job'[q].state = "none"
    BY <1>0 DEF SessionsInv
  <2> QED BY <2>2, <2>3 DEF SessionsInv, SessionOf
<1>7. ASSUME NEW q \in Prompts, SessionOf(q)' \in apart' PROVE KeptApart(q)'
  <2>1. SessionOf(q) \in apart /\ KeptApart(q)
    BY <1>0, <1>4, <1>7
  <2>2. CASE q # r
    BY <1>4, <1>5, <2>1, <2>2 DEF KeptApart, Open
  <2>3. CASE q = r
    <3>1. Says(r, es) /\ OwnWords(r, text) /\ (Ending(es) => job'[r].state # "live" /\ prompt[r].pc # "waiting")
      BY <1>4, <1>7, <2>3
    <3>2. Says(r, pushed'[r])
      BY <1>0, <1>4, <2>1, <2>3, <3>1, SaysJoin DEF KeptApart, News
    <3>3. ~Ending(es) => Open(r)'
      BY <1>3, <1>4 DEF Open
    <3>4. OwnWords(r, run'[r].text)
      BY <1>3, <1>4, <3>1
    <3> QED BY <1>4, <1>5, <2>1, <2>3, <3>1, <3>2, <3>3, <3>4 DEF KeptApart
  <2> QED BY <2>2, <2>3
<1> QED BY <1>6, <1>7 DEF ApartInv

LEMMA RunTimeoutApart ==
  ASSUME ApartInv, GrokInv', NEW p \in Prompts, RunTimeout(p)
  PROVE  ApartInv'
<1>1. PICK c, e : c = run[p] /\ e = Final(c.text)
  OBVIOUS
<1>2. c \in RunState /\ c.text \in Seq(Chunk) /\ e \in GrokEvents /\ e.type = "final" /\ e.of = c.text /\ GrokInv
  BY <1>1 DEF ApartInv, GrokInv, GrokTypeOK, RunState, Final, GrokEvents
<1>3. NewsOf(p, p, << e >>, c.text, c.seen)
  BY <1>1, <1>2, OneEventOf
<1>4. /\ Open(p) /\ Push(p, << e >>, c.text, c.seen) /\ prompt' = prompt /\ job' = job /\ apart' = apart \ Unfinished({p})
  BY <1>1 DEF RunTimeout
<1>5. ASSUME SessionOf(p) \in apart'
      PROVE  Says(p, << e >>) /\ OwnWords(p, c.text) /\ job'[p].state # "live" /\ prompt[p].pc # "waiting"
  <2>1. KeptApart(p)
    BY <1>4, <1>5 DEF ApartInv
  <2>2. OwnWords(p, c.text) /\ Says(p, << e >>)
    BY <1>1, <1>3, <2>1 DEF KeptApart, NewsOf
  <2>3. SessionOf(p) \notin Unfinished({p})
    BY <1>4, <1>5
  <2> QED BY <1>4, <2>2, <2>3 DEF Unfinished
<1>6. News(run[p], << e >>, c.text, c.seen)
  BY <1>3 DEF NewsOf
<1> QED BY <1>4, <1>5, <1>6, PushApart

LEMMA GatewayApart ==
  ASSUME ApartInv, GrokInv', NEW j \in Prompts, Gateway(j)
  PROVE  ApartInv'
<1>1. GatewayStep(j) /\ GrokInv /\ SessionsInv /\ job[j].state = "live" /\ prompt' = prompt /\ apart' = apart
  BY GatewaySteps DEF ApartInv, GatewayStep
<1>2. \A q \in Prompts : /\ job'[q].state = "live" => job[q].state = "live"
                         /\ job[q].state = "none" => job'[q].state = "none"
  BY <1>1 DEF GatewayStep
<1>3. CASE Nothing
  <2>1. SessionsInv'
    BY <1>1, <1>2, <1>3 DEF SessionsInv, SessionOf, Nothing
  <2>2. ASSUME NEW q \in Prompts, SessionOf(q)' \in apart' PROVE KeptApart(q)'
    <3>1. KeptApart(q)
      BY <1>1, <2>2 DEF ApartInv, SessionOf
    <3> QED BY <1>1, <1>2, <1>3, <3>1 DEF KeptApart, Nothing, SessionOf, Open
  <2> QED BY <2>1, <2>2 DEF ApartInv
<1>4. ASSUME NEW named \in BOOLEAN, NEW r, r = ResolveRunForEvent(j, named), r # NoRun, Heard(j, r), ~Nothing PROVE ApartInv'
  <2>1. r \in Prompts /\ Open(r) /\ (r = j \/ r = active[SessionOf(j)])
    BY <1>1, <1>4, Resolved
  <2>2. PICK es, text, noted : Told(j, r, es, text, noted)
    BY <1>4 DEF Heard
  <2>3. /\ News(run[r], es, text, noted) /\ Push(r, es, text, noted) /\ (Ending(es) => job'[j].state # "live")
        /\ OwnWords(j, run[r].text) => Says(j, es) /\ OwnWords(j, text)
    BY <2>2 DEF Told, NewsOf
  <2>4. SessionOf(r) = SessionOf(j)
    <3>1. SessionOf(j) \in Sessions
      BY <1>1 DEF GrokInv, GrokTypeOK, PromptState, SessionOf
    <3> QED BY <1>1, <1>4, <2>1, <3>1 DEF SessionsInv
  <2>5. ASSUME SessionOf(r) \in apart'
        PROVE  Says(r, es) /\ OwnWords(r, text) /\ (Ending(es) => job'[r].state # "live" /\ prompt[r].pc # "waiting")
    <3>1. KeptApart(j) /\ KeptApart(r)
      BY <1>1, <2>1, <2>4, <2>5 DEF ApartInv
    <3>2. r = j
      BY <1>1, <2>1, <2>4, <3>1 DEF KeptApart
    <3>3. prompt[j].pc # "waiting"
      BY <1>1 DEF SessionsInv
    <3> QED BY <2>3, <3>1, <3>2, <3>3 DEF KeptApart
  <2> QED BY <1>1, <1>2, <2>1, <2>3, <2>5, PushApart
<1> QED BY <1>1, <1>3, <1>4 DEF GatewayStep

LEMMA CleanupApart ==
  ASSUME ApartInv, GrokInv', NEW p \in Prompts, Cleanup(p)
  PROVE  ApartInv'
<1>0. /\ run \in [Prompts -> RunState] /\ pushed \in [Prompts -> Seq(GrokEvents)] /\ SessionsInv
  BY DEF ApartInv, GrokInv, GrokTypeOK
<1>1. PICK d : d = [NoState EXCEPT !.state = "gone"]
  OBVIOUS
<1>2. d.text = << >> /\ d.state = "gone"
  BY <1>1 DEF NoState
<1>3. /\ run' = [run EXCEPT ![p] = d] /\ pushed' = [pushed EXCEPT ![p] = << >>] /\ ~Open(p)
      /\ UNCHANGED << prompt, active, job, apart >>
  BY <1>1 DEF Cleanup, Open
<1>4. /\ run'[p] = d /\ pushed'[p] = << >>
      /\ \A q \in Prompts : (Open(q)' <=> Open(q)) /\ (q # p => run'[q] = run[q] /\ pushed'[q] = pushed[q])
  BY <1>0, <1>2, <1>3 DEF Open
<1>5. SessionsInv'
  BY <1>0, <1>3 DEF SessionsInv, SessionOf
<1>6. ASSUME NEW q \in Prompts, SessionOf(q)' \in apart' PROVE KeptApart(q)'
  <2>1. KeptApart(q)
    BY <1>3, <1>6 DEF ApartInv, SessionOf
  <2>2. Says(q, pushed'[q]) /\ OwnWords(q, run'[q].text)
    BY <1>2, <1>4, <2>1, NothingSaid DEF KeptApart
  <2> QED BY <1>3, <1>4, <2>1, <2>2 DEF KeptApart, SessionOf
<1> QED BY <1>5, <1>6 DEF ApartInv

LEMMA OthersApart ==
  ASSUME ApartInv, GrokInv', UNCHANGED << prompt, run, active, job, pushed, apart >>
  PROVE  ApartInv'
BY DEF ApartInv, SessionsInv, KeptApart, SessionOf, Open

LEMMA SendFailsApart ==
  ASSUME ApartInv, GrokInv', NEW p \in Prompts, SendFails(p)
  PROVE  ApartInv'
<1>1. prompt \in [Prompts -> PromptState]
  BY DEF ApartInv, GrokInv, GrokTypeOK
<1>2. PICK c : c = prompt[p] /\ c \in PromptState
  BY <1>1
<1>3. prompt' = [prompt EXCEPT ![p] = [c EXCEPT !.pc = "failed"]]
  BY <1>2 DEF SendFails
<1>4. prompt'[p].pc = "failed" /\ prompt'[p].session = prompt[p].session /\ \A q \in Prompts : q # p => prompt'[q] = prompt[q]
  BY <1>1, <1>2, <1>3 DEF PromptState
<1>5. Closed({p}) /\ apart' = apart \ Unfinished({p}) /\ UNCHANGED << job, stream, pushed >>
  BY DEF SendFails
<1> QED BY <1>4, <1>5, ClosedApart

LEMMA DisconnectedApart ==
  ASSUME ApartInv, GrokInv', Disconnected
  PROVE  ApartInv'
<1>1. prompt \in [Prompts -> PromptState]
  BY DEF ApartInv, GrokInv, GrokTypeOK
<1>2. PICK ps \in SUBSET Prompts : ps = {p \in Prompts : prompt[p].pc \in {"waiting", "sending"}}
  OBVIOUS
<1>3. /\ Closed(ps) /\ UNCHANGED << job, stream, pushed >> /\ apart' = apart \ Unfinished(ps)
      /\ prompt' = [p \in Prompts |-> IF p \in ps THEN [prompt[p] EXCEPT !.pc = "failed"] ELSE prompt[p]]
  BY <1>2 DEF Disconnected
<1>4. \A p \in ps : prompt'[p].pc = "failed" /\ prompt'[p].session = prompt[p].session
  BY <1>1, <1>3 DEF PromptState
<1>5. \A p \in Prompts : p \notin ps => prompt'[p] = prompt[p]
  BY <1>3
<1> QED BY <1>3, <1>4, <1>5, ClosedApart

LEMMA ApartNext ==
  ASSUME ApartInv, [GrokNext]_grokVars
  PROVE  ApartInv'
<1>0. GrokInv'
  BY GrokNextInv DEF ApartInv
<1>1. CASE UNCHANGED grokVars
  BY <1>0, <1>1, OthersApart DEF grokVars
<1>2. CASE Connection
  BY <1>0, <1>2, OthersApart DEF Connection
<1>3. CASE Disconnected
  BY <1>0, <1>3, DisconnectedApart
<1>4. ASSUME NEW p \in Prompts,
             \/ \E s \in Sessions : Submit(p, s)
             \/ QueryFails(p) \/ OpenRun(p) \/ Send(p) \/ GatewayAnswers(p) \/ SendFails(p)
             \/ OnTimer(p) \/ Cleanup(p)
             \/ Gateway(p)
      PROVE  ApartInv'
  BY <1>0, <1>4, PromptStepsApart, OpenRunApart, SendFailsApart, RunTimeoutApart, CleanupApart, GatewayApart DEF OnTimer
<1>5. ASSUME NEW st \in Streams, (\E p \in Prompts : Attach(st, p)) \/ Leave(st) PROVE ApartInv'
  BY <1>0, <1>5, OthersApart DEF Attach, Leave
<1> QED BY <1>1, <1>2, <1>3, <1>4, <1>5 DEF GrokNext

\* In a session whose prompts have not overlapped, and whose runs the gateway itself
\* has ended, what a run shows is the answer to its own prompt (grok/arena.ts, resolveRunForEvent).
THEOREM RunsAlwaysAnswerTheirPrompt == GrokSpec => []AnswersItsPrompt
<1>1. ASSUME ApartInv PROVE AnswersItsPrompt
  <2> SUFFICES ASSUME NEW p \in Prompts, SessionOf(p) \in apart, NEW i \in DOMAIN pushed[p],
                      pushed[p][i].type \in {"token", "final"}, NEW k \in DOMAIN pushed[p][i].of
               PROVE  pushed[p][i].of[k][1] = p
    BY DEF AnswersItsPrompt
  <2>1. PICK all, e : all = pushed[p] /\ e = all[i]
    OBVIOUS
  <2>2. all \in Seq(GrokEvents) /\ Says(p, all)
    BY <1>1, <2>1 DEF ApartInv, GrokInv, GrokTypeOK, KeptApart
  <2>3. i \in 1..Len(all) /\ e \in GrokEvents /\ e.type \in {"token", "final"}
    BY <2>1, <2>2
  <2>4. e.of \in Seq(Chunk)
    BY <2>3 DEF GrokEvents, Error, Action
  <2>5. OwnWords(p, e.of) /\ DOMAIN e.of = 1..Len(e.of)
    BY <2>1, <2>2, <2>3, <2>4 DEF Says
  <2> QED BY <2>1, <2>5 DEF OwnWords
<1> QED BY <1>1, ApartInit, ApartNext, PTL DEF GrokSpec

-----------------------------------------------------------------------------
(***************************************************************************)
(* Advice: each refusal has a cause in one of the reads (Cause). While the *)
(* contract would serve the action all along, no read has what it asks     *)
(* against it (Agrees), and what a refusal that is final was read from     *)
(* stays as it was (Tells).                                                *)
(***************************************************************************)

Kinds    == {"items", "mmo"}
Listings == [active : BOOLEAN, mine : BOOLEAN, mmo : BOOLEAN]
Epochs   == {"running", "over", "finalized"}
WorldState ==
  [block : Nat, mine : BOOLEAN, run : Runs, slots : Nat, openable : Nat, price : Nat, epoch : Epochs,
   claimed : BOOLEAN, listing : Listings, approved : SUBSET Kinds, commit : BOOLEAN]

AdviceTypeOK ==
  /\ asked \in Questions /\ world \in WorldState
  /\ sent \subseteq Kinds /\ outcome \in {"none", "done", "failed", "unfit"} /\ held \in BOOLEAN /\ calm \in BOOLEAN

\* What was read as f, v, says still of the world w.
ReadTells(w, f, v) ==
  /\ f = "window" => (v.resolved => ~w.commit) /\ (v.expired => w.block > RevealWindow)
  /\ f = "now" => v \in Nat /\ v <= w.block
  /\ f = "mine" => v = w.mine
  /\ f = "epoch" => (v = "finalized" => w.epoch = "finalized")
  /\ f = "claimed" => (v => w.claimed)
  /\ f = "listing" => (w.listing.active => v.active) /\ (w.listing.mine => v.mine)

\* What the contract would ask of it.
Agrees(q, f, v) ==
  /\ f = "window" /\ q.commit => ~v.resolved /\ ~v.expired /\ v.canReveal
  /\ f = "mine" /\ q.type \in Owned => v
  /\ f = "run" /\ q.type \in {"start_dungeon"} \cup Gear => ~v.active
  /\ f = "run" /\ q.type = "next_room" => v.active /\ ~(q.arg > v.charges)
  /\ f = "slots" /\ q.type = "start_dungeon" => ~(v < q.arg)
  /\ f = "openable" /\ q.type = "open_lootboxes_max" => v # 0
  /\ f = "epoch" /\ q.type = "finalize_epoch" => v # "finalized"
  /\ f = "epoch" /\ q.type \in Claims => v = "finalized"
  /\ f = "claimed" /\ q.type \in Claims => ~v
  /\ f = "listing" /\ q.type \in Listed => v.active
  /\ f = "listing" /\ q.type \in Closing => v.mine
  /\ f = "now" /\ q.type \in {"fulfill_trade_offer", "fill_rfq"} => v <= OfferExpiry
  /\ f = "now" /\ q.type = "cancel_expired_trade_offer" => v > OfferExpiry
  /\ f = "now" /\ q.type = "create_rfq" /\ q.arg > 0 => q.arg > v /\ q.arg <= v + MaxTtl

\* What was read is as it was, but for what was sent since.
ReadIsNow(f, v) ==
  /\ f = "price" => v = world.price
  /\ f = "listing" => v = world.listing
  /\ f = "approved" => v \cup sent = world.approved

AmountFits(q) == q.type \in {"create_rfq", "buy_premium_lootboxes"} => q.fits

\* The answer, but for the expiry, follows from what was read.
AnswerIsRead ==
  /\ answer.code = Code(asked, seen) /\ answer.value = ValueOf(asked, seen) /\ answer.intents = Approvals(asked, seen)
  /\ \A i \in DOMAIN Reads(asked) : Reads(asked)[i] \in DOMAIN seen

AdviceInv ==
  /\ AdviceTypeOK
  /\ \A f \in DOMAIN seen : ReadTells(world, f, seen[f])
  /\ held => AmountFits(asked) /\ \A f \in DOMAIN seen : Agrees(asked, f, seen[f])
  /\ Pending => sent = {} /\ outcome = "none" /\ (held => Serves(asked))
  /\ ~Pending => AnswerIsRead
  /\ calm => \A f \in DOMAIN seen : ReadIsNow(f, seen[f])
  /\ AdviceSuffices

-----------------------------------------------------------------------------
(* Refusals and what they are read from                                    *)

IsSeq(r) == \E S : r \in Seq(S)
InSeq(f, r) == \E i \in DOMAIN r : r[i] = f

LEMMA InConcat ==
  ASSUME NEW a, NEW b, IsSeq(a), IsSeq(b)
  PROVE  IsSeq(a \o b) /\ \A f : InSeq(f, a \o b) <=> InSeq(f, a) \/ InSeq(f, b)
<1>1. PICK S : a \in Seq(S)
  BY DEF IsSeq
<1>2. PICK T : b \in Seq(T)
  BY DEF IsSeq
<1>3. PICK U : U = S \cup T
  OBVIOUS
<1>4. a \in Seq(U) /\ b \in Seq(U)
  BY <1>1, <1>2, <1>3
<1>5. PICK c, m, n : c = a \o b /\ m = Len(a) /\ n = Len(b)
  OBVIOUS
<1>6. /\ c \in Seq(U) /\ m \in Nat /\ n \in Nat /\ DOMAIN a = 1..m /\ DOMAIN b = 1..n /\ DOMAIN c = 1..(m + n)
      /\ \A i \in 1..m : c[i] = a[i]
      /\ \A i \in 1..n : c[m + i] = b[i]
  BY <1>4, <1>5
<1>7. \A i \in 1..(m + n) : i \in 1..m \/ (i - m \in 1..n /\ m + (i - m) = i)
  BY <1>6
<1>8. ASSUME NEW f PROVE InSeq(f, c) <=> InSeq(f, a) \/ InSeq(f, b)
  <2>1. ASSUME NEW i \in DOMAIN c, c[i] = f PROVE InSeq(f, a) \/ InSeq(f, b)
    BY <1>6, <1>7, <2>1 DEF InSeq
  <2>2. ASSUME NEW i \in DOMAIN a, a[i] = f PROVE \E k \in DOMAIN c : c[k] = f
    BY <1>6, <2>2
  <2>3. ASSUME NEW i \in DOMAIN b, b[i] = f PROVE \E k \in DOMAIN c : c[k] = f
    <3>1. m + i \in 1..(m + n) /\ c[m + i] = f
      BY <1>6, <2>3
    <3> QED BY <1>6, <3>1
  <2> QED BY <2>1, <2>2, <2>3 DEF InSeq
<1> QED BY <1>5, <1>6, <1>8 DEF IsSeq

\* An answer is OK or the code of a refusal whose condition holds.
LEMMA FirstOfHits ==
  ASSUME NEW r, IsSeq(r)
  PROVE  FirstOf(r) = Ok \/ \E i \in DOMAIN r : r[i][1] /\ FirstOf(r) = r[i][2]
<1>1. PICK hit : hit = {i \in DOMAIN r : r[i][1]}
  OBVIOUS
<1>2. PICK n \in Nat : hit \subseteq 0..n
  BY <1>1 DEF IsSeq
<1>3. CASE hit = {}
  BY <1>1, <1>3 DEF FirstOf
<1>4. CASE hit # {}
  <2>1. \E i \in hit : \A j \in hit : i <= j
    BY <1>2, <1>4, LeastNumber
  <2>2. PICK i : i = CHOOSE k \in hit : \A j \in hit : k <= j
    OBVIOUS
  <2>3. i \in hit
    BY <2>1, <2>2
  <2>4. FirstOf(r) = r[i][2]
    BY <1>1, <1>4, <2>2 DEF FirstOf
  <2> QED BY <1>1, <2>3, <2>4
<1> QED BY <1>3, <1>4

\* What was read, where it was, that the code c of a refusal is about.
Cause(q, s, c) ==
  \/ c = "COMMIT_RESOLVED"              /\ q.commit /\ s.window.resolved
  \/ c = "REVEAL_EXPIRED"               /\ q.commit /\ s.window.expired
  \/ c = "REVEAL_TOO_EARLY"             /\ q.commit /\ ~s.window.canReveal
  \/ c = "ONLY_CHARACTER_OWNER"         /\ q.type \in Owned /\ ~s.mine
  \/ c = "RUN_ALREADY_ACTIVE"           /\ q.type = "start_dungeon" /\ s.run.active
  \/ c = "INSUFFICIENT_EQUIPPED_SLOTS"  /\ q.type = "start_dungeon" /\ s.slots < q.arg
  \/ c = "RUN_NOT_ACTIVE"               /\ q.type = "next_room" /\ ~s.run.active
  \/ c = "POTION_UNAVAILABLE"           /\ q.type = "next_room" /\ q.arg > s.run.charges
  \/ c = "INSUFFICIENT_LOOTBOX_CREDITS" /\ q.type = "open_lootboxes_max" /\ s.openable = 0
  \/ c = "GEAR_LOCKED_DURING_RUN"       /\ q.type \in Gear /\ s.run.active
  \/ c = "INVALID_AMOUNT"               /\ q.type = "create_rfq" /\ ~q.fits
  \/ c = "INVALID_EXPIRY"               /\ q.type = "create_rfq" /\ (q.arg <= s.now \/ q.arg > s.now + MaxTtl)
  \/ c = "EPOCH_ALREADY_FINALIZED"      /\ q.type = "finalize_epoch" /\ s.epoch = "finalized"
  \/ c = "EPOCH_NOT_FINALIZED"          /\ q.type \in Claims /\ s.epoch # "finalized"
  \/ c = "ALREADY_CLAIMED"              /\ q.type \in Claims /\ s.claimed
  \/ c = "DEPLOYER_CLAIM_DISABLED"
  \/ c = "INACTIVE"                     /\ q.type \in Listed /\ ~s.listing.active
  \/ c = "EXPIRED"                      /\ q.type \in {"fulfill_trade_offer", "fill_rfq"} /\ s.now > OfferExpiry
  \/ c = "NOT_MAKER"                    /\ q.type \in Closing /\ ~s.listing.mine
  \/ c = "OFFER_NOT_EXPIRED"            /\ q.type = "cancel_expired_trade_offer" /\ s.now <= OfferExpiry

\* Each refusal of r has its cause.
CausesOf(q, s, r) == IsSeq(r) /\ \A i \in DOMAIN r : r[i][1] => Cause(q, s, r[i][2])

LEMMA CausesConcat ==
  ASSUME NEW q, NEW s, NEW a, NEW b, CausesOf(q, s, a), CausesOf(q, s, b)
  PROVE  CausesOf(q, s, a \o b)
<1>1. PICK c : c = a \o b
  OBVIOUS
<1>2. IsSeq(c) /\ \A f : InSeq(f, c) <=> InSeq(f, a) \/ InSeq(f, b)
  BY <1>1, InConcat DEF CausesOf
<1>3. ASSUME NEW i \in DOMAIN c, c[i][1] PROVE Cause(q, s, c[i][2])
  <2>1. PICK f : f = c[i]
    OBVIOUS
  <2>2. InSeq(f, a) \/ InSeq(f, b)
    <3>1. InSeq(f, c)
      BY <1>3, <2>1 DEF InSeq
    <3> QED BY <1>2, <3>1
  <2>3. f[1] => Cause(q, s, f[2])
    BY <2>2 DEF InSeq, CausesOf
  <2> QED BY <1>3, <2>1, <2>3
<1> QED BY <1>1, <1>2, <1>3 DEF CausesOf

LEMMA ShortSeqs ==
  ASSUME NEW a, NEW b, NEW c
  PROVE  /\ IsSeq(<< >>) /\ IsSeq(<< a >>) /\ IsSeq(<< a, b >>) /\ IsSeq(<< a, b, c >>)
         /\ DOMAIN << >> = {} /\ DOMAIN << a >> = {1} /\ DOMAIN << a, b >> = {1, 2} /\ DOMAIN << a, b, c >> = {1, 2, 3}
<1>1. PICK S : S = {a, b, c}
  OBVIOUS
<1>2. << >> \in Seq(S) /\ << a >> \in Seq(S) /\ << a, b >> \in Seq(S) /\ << a, b, c >> \in Seq(S)
  BY <1>1
<1> QED BY <1>2 DEF IsSeq

HasCause(q, s, refusal) == refusal[1] => Cause(q, s, refusal[2])

LEMMA ShortCauses ==
  ASSUME NEW q, NEW s, NEW a, NEW b, NEW c
  PROVE  /\ CausesOf(q, s, << >>)
         /\ HasCause(q, s, a) => CausesOf(q, s, << a >>)
         /\ HasCause(q, s, a) /\ HasCause(q, s, b) => CausesOf(q, s, << a, b >>)
         /\ HasCause(q, s, a) /\ HasCause(q, s, b) /\ HasCause(q, s, c) => CausesOf(q, s, << a, b, c >>)
<1>1. CausesOf(q, s, << >>)
  BY ShortSeqs DEF CausesOf
<1>2. ASSUME HasCause(q, s, a) PROVE CausesOf(q, s, << a >>)
  <2>1. << a >>[1] = a
    OBVIOUS
  <2> QED BY <1>2, <2>1, ShortSeqs DEF CausesOf, HasCause
<1>3. ASSUME HasCause(q, s, a), HasCause(q, s, b) PROVE CausesOf(q, s, << a, b >>)
  <2>1. << a, b >>[1] = a /\ << a, b >>[2] = b
    OBVIOUS
  <2> QED BY <1>3, <2>1, ShortSeqs DEF CausesOf, HasCause
<1>4. ASSUME HasCause(q, s, a), HasCause(q, s, b), HasCause(q, s, c) PROVE CausesOf(q, s, << a, b, c >>)
  <2>1. << a, b, c >>[1] = a /\ << a, b, c >>[2] = b /\ << a, b, c >>[3] = c
    OBVIOUS
  <2>2. PICK r : r = << a, b, c >>
    OBVIOUS
  <2>3. ASSUME NEW i \in DOMAIN r, r[i][1] PROVE Cause(q, s, r[i][2])
    <3>1. r[i] \in {a, b, c}
      BY <2>1, <2>2, <2>3, ShortSeqs
    <3> QED BY <1>4, <2>3, <3>1 DEF HasCause
  <2> QED BY <2>2, <2>3, ShortSeqs DEF CausesOf
<1> QED BY <1>1, <1>2, <1>3, <1>4

LEMMA CausesOfGate ==
  ASSUME NEW q, NEW s, q.commit
  PROVE  CausesOf(q, s, RevealWindowGate(s)) /\ CausesOf(q, s, EvaluateRevealWindow(s))
<1>1. PICK a, b, c, d :
        /\ a = << s.window.resolved, "COMMIT_RESOLVED" >> /\ b = << s.window.expired, "REVEAL_EXPIRED" >>
        /\ c = << ~s.window.canReveal /\ s.height < RevealDelay, "REVEAL_TOO_EARLY" >>
        /\ d = << ~s.window.canReveal, "REVEAL_TOO_EARLY" >>
  OBVIOUS
<1>2. RevealWindowGate(s) = << a, b, c >> /\ EvaluateRevealWindow(s) = << a, b, d >>
  BY <1>1 DEF RevealWindowGate, EvaluateRevealWindow
<1>3. HasCause(q, s, a) /\ HasCause(q, s, b) /\ HasCause(q, s, c) /\ HasCause(q, s, d)
  BY <1>1 DEF Cause, HasCause
<1> QED BY <1>2, <1>3, ShortCauses

LEMMA CausesOfOwner ==
  ASSUME NEW q, NEW s
  PROVE  CausesOf(q, s, OwnedBySigner(q, s))
<1>1. PICK a : a = << ~s.mine, "ONLY_CHARACTER_OWNER" >>
  OBVIOUS
<1>2. CASE q.type \in Owned
  <2>1. OwnedBySigner(q, s) = << a >>
    BY <1>1, <1>2 DEF OwnedBySigner, CharacterOwner
  <2>2. HasCause(q, s, a)
    BY <1>1, <1>2 DEF HasCause, Cause
  <2> QED BY <2>1, <2>2, ShortCauses
<1>3. CASE q.type \notin Owned
  BY <1>3, ShortCauses DEF OwnedBySigner
<1> QED BY <1>2, <1>3

LEMMA CausesOfType ==
  ASSUME NEW q, NEW s
  PROVE  CausesOf(q, s, OfType(q, s))
<1>1. CASE q.type = "start_dungeon"
  <2>1. PICK a, b : a = << s.run.active, "RUN_ALREADY_ACTIVE" >> /\ b = << s.slots < q.arg, "INSUFFICIENT_EQUIPPED_SLOTS" >>
    OBVIOUS
  <2>2. OfType(q, s) = << a, b >>
    BY <1>1, <2>1 DEF OfType, StartDungeon, Gear, Claims, Closing
  <2>3. HasCause(q, s, a) /\ HasCause(q, s, b)
    BY <1>1, <2>1 DEF HasCause, Cause
  <2> QED BY <2>2, <2>3, ShortCauses
<1>2. CASE q.type = "next_room"
  <2>1. PICK a, b : a = << ~s.run.active, "RUN_NOT_ACTIVE" >> /\ b = << q.arg > s.run.charges, "POTION_UNAVAILABLE" >>
    OBVIOUS
  <2>2. OfType(q, s) = << a, b >>
    BY <1>2, <2>1 DEF OfType, NextRoom, Gear, Claims, Closing
  <2>3. HasCause(q, s, a) /\ HasCause(q, s, b)
    BY <1>2, <2>1 DEF HasCause, Cause
  <2> QED BY <2>2, <2>3, ShortCauses
<1>3. CASE q.type = "open_lootboxes_max"
  <2>1. PICK a : a = << s.openable = 0, "INSUFFICIENT_LOOTBOX_CREDITS" >>
    OBVIOUS
  <2>2. OfType(q, s) = << a >>
    BY <1>3, <2>1 DEF OfType, OpenLootboxesMax, Gear, Claims, Closing
  <2>3. HasCause(q, s, a)
    BY <1>3, <2>1 DEF HasCause, Cause
  <2> QED BY <2>2, <2>3, ShortCauses
<1>4. CASE q.type \in Gear
  <2>1. PICK a : a = << s.run.active, "GEAR_LOCKED_DURING_RUN" >>
    OBVIOUS
  <2>2. OfType(q, s) = << a >>
    BY <1>4, <2>1 DEF OfType, GearAction, Gear, Claims, Closing
  <2>3. HasCause(q, s, a)
    BY <1>4, <2>1 DEF HasCause, Cause
  <2> QED BY <2>2, <2>3, ShortCauses
<1>5. CASE q.type = "create_rfq"
  <2>1. PICK a, b : a = << ~q.fits, "INVALID_AMOUNT" >> /\ b = << q.arg <= s.now \/ q.arg > s.now + MaxTtl, "INVALID_EXPIRY" >>
    OBVIOUS
  <2>2. OfType(q, s) = << a, b >>
    BY <1>5, <2>1 DEF OfType, CreateRfq, Gear, Claims, Closing
  <2>3. HasCause(q, s, a) /\ HasCause(q, s, b)
    BY <1>5, <2>1 DEF HasCause, Cause
  <2> QED BY <2>2, <2>3, ShortCauses
<1>6. CASE q.type = "finalize_epoch"
  <2>1. PICK a : a = << s.epoch = "finalized", "EPOCH_ALREADY_FINALIZED" >>
    OBVIOUS
  <2>2. OfType(q, s) = << a >>
    BY <1>6, <2>1 DEF OfType, FinalizeEpoch, Gear, Claims, Closing
  <2>3. HasCause(q, s, a)
    BY <1>6, <2>1 DEF HasCause, Cause
  <2> QED BY <2>2, <2>3, ShortCauses
<1>7. CASE q.type \in Claims
  <2>1. PICK a, b, c : /\ a = << s.epoch # "finalized", "EPOCH_NOT_FINALIZED" >> /\ b = << s.claimed, "ALREADY_CLAIMED" >>
                       /\ c = << ~AllowDeployerClaims, "DEPLOYER_CLAIM_DISABLED" >>
    OBVIOUS
  <2>2. HasCause(q, s, a) /\ HasCause(q, s, b) /\ HasCause(q, s, c)
    BY <1>7, <2>1 DEF HasCause, Cause
  <2>3. CausesOf(q, s, << a, b >>) /\ CausesOf(q, s, << c >> \o << a, b >>)
    BY <2>2, ShortCauses, CausesConcat
  <2>4. OfType(q, s) \in {Claim(s), ClaimDeployer(s)}
    BY <1>7 DEF OfType, Gear, Claims, Closing
  <2>5. Claim(s) = << a, b >> /\ ClaimDeployer(s) = << c >> \o << a, b >>
    BY <2>1 DEF Claim, ClaimDeployer
  <2> QED BY <2>3, <2>4, <2>5
<1>8. CASE q.type \in {"fulfill_trade_offer", "fill_rfq"}
  <2>1. PICK a, b : a = << ~s.listing.active, "INACTIVE" >> /\ b = << s.now > OfferExpiry, "EXPIRED" >>
    OBVIOUS
  <2>2. OfType(q, s) = << a, b >>
    BY <1>8, <2>1 DEF OfType, FulfillTradeOffer, Gear, Claims, Closing
  <2>3. HasCause(q, s, a) /\ HasCause(q, s, b)
    BY <1>8, <2>1 DEF HasCause, Cause, Listed
  <2> QED BY <2>2, <2>3, ShortCauses
<1>9. CASE q.type \in Closing
  <2>1. PICK a, b : a = << ~s.listing.active, "INACTIVE" >> /\ b = << ~s.listing.mine, "NOT_MAKER" >>
    OBVIOUS
  <2>2. OfType(q, s) = << a, b >>
    BY <1>9, <2>1 DEF OfType, CancelTradeOffer, Gear, Claims, Closing
  <2>3. HasCause(q, s, a) /\ HasCause(q, s, b)
    BY <1>9, <2>1 DEF HasCause, Cause, Listed
  <2> QED BY <2>2, <2>3, ShortCauses
<1>10. CASE q.type = "cancel_expired_trade_offer"
  <2>1. PICK a, b : a = << ~s.listing.active, "INACTIVE" >> /\ b = << s.now <= OfferExpiry, "OFFER_NOT_EXPIRED" >>
    OBVIOUS
  <2>2. OfType(q, s) = << a, b >>
    BY <1>10, <2>1 DEF OfType, CancelExpiredTradeOffer, Gear, Claims, Closing
  <2>3. HasCause(q, s, a) /\ HasCause(q, s, b)
    BY <1>10, <2>1 DEF HasCause, Cause, Listed
  <2> QED BY <2>2, <2>3, ShortCauses
<1>11. CASE ~(q.type \in {"start_dungeon", "next_room", "open_lootboxes_max", "create_rfq", "finalize_epoch",
                          "fulfill_trade_offer", "fill_rfq", "cancel_expired_trade_offer"} \cup Gear \cup Claims \cup Closing)
  <2>1. OfType(q, s) = << >>
    BY <1>11 DEF OfType, Gear, Claims, Closing
  <2> QED BY <2>1, ShortCauses
<1> QED BY <1>1, <1>2, <1>3, <1>4, <1>5, <1>6, <1>7, <1>8, <1>9, <1>10, <1>11

\* An answer that refuses has a cause.
LEMMA CodeHasCause ==
  ASSUME NEW q \in Questions, NEW s
  PROVE  Code(q, s) \in {Ok, "ERROR"} \/ (q.of # "cost" /\ Cause(q, s, Code(q, s)))
<1>1. ASSUME NEW r, CausesOf(q, s, r) PROVE FirstOf(r) = Ok \/ Cause(q, s, FirstOf(r))
  BY <1>1, FirstOfHits DEF CausesOf
<1>2. \A c : Quoted(q, c) \in {c, "ERROR"}
  BY DEF Quoted
<1>3. CASE q.of = "preflight"
  <2>1. CausesOf(q, s, IF q.commit THEN RevealWindowGate(s) ELSE << >>)
    BY CausesOfGate, ShortCauses
  <2>2. PICK a, r : a = (IF q.commit THEN RevealWindowGate(s) ELSE << >>) /\ r = a \o OwnedBySigner(q, s) \o OfType(q, s)
    OBVIOUS
  <2>3. CausesOf(q, s, r)
    <3>1. CausesOf(q, s, a \o OwnedBySigner(q, s))
      BY <2>1, <2>2, CausesOfOwner, CausesConcat
    <3> QED BY <2>2, <3>1, CausesOfType, CausesConcat
  <2>4. Code(q, s) = IF FirstOf(r) = Ok THEN Quoted(q, FirstOf(r)) ELSE FirstOf(r)
    BY <1>3, <2>2 DEF Code, Preflight
  <2> QED BY <1>1, <1>2, <1>3, <2>3, <2>4
<1>4. CASE q.of = "menu"
  <2>1. PICK r : r = IF q.type = "reveal_pending_commit" THEN EvaluateRevealWindow(s) ELSE OwnedBySigner(q, s) \o OfType(q, s)
    OBVIOUS
  <2>2. q.type = "reveal_pending_commit" => q.commit
    BY DEF Questions
  <2>3. CausesOf(q, s, OwnedBySigner(q, s) \o OfType(q, s))
    BY CausesOfOwner, CausesOfType, CausesConcat
  <2>4. CausesOf(q, s, r)
    BY <2>1, <2>2, <2>3, CausesOfGate
  <2>5. Code(q, s) = Quoted(q, FirstOf(r))
    BY <1>4, <2>1 DEF Code, Menu
  <2> QED BY <1>1, <1>2, <1>4, <2>4, <2>5
<1>5. CASE q.of = "plan"
  <2>1. Code(q, s) = Quoted(q, FirstOf(OwnedBySigner(q, s)))
    BY <1>5 DEF Code, Plan
  <2> QED BY <1>1, <1>2, <1>5, <2>1, CausesOfOwner
<1>6. CASE q.of = "cost"
  BY <1>2, <1>6 DEF Code
<1> QED BY <1>3, <1>4, <1>5, <1>6 DEF Questions

-----------------------------------------------------------------------------
(* What is read for an answer                                              *)

LEMMA InShort ==
  ASSUME NEW a, NEW b
  PROVE  InSeq(a, << a >>) /\ InSeq(a, << a, b >>) /\ InSeq(b, << a, b >>)
<1>1. << a >>[1] = a /\ << a, b >>[1] = a /\ << a, b >>[2] = b
  OBVIOUS
<1> QED BY <1>1, ShortSeqs DEF InSeq

LEMMA StateReadsHave ==
  ASSUME NEW q
  PROVE  /\ IsSeq(StateReads(q))
         /\ q.type \in {"start_dungeon", "next_room"} \cup Gear => InSeq("run", StateReads(q))
         /\ q.type = "start_dungeon" => InSeq("slots", StateReads(q))
         /\ q.type = "open_lootboxes_max" => InSeq("openable", StateReads(q))
         /\ q.type \in {"finalize_epoch"} \cup Claims => InSeq("epoch", StateReads(q))
         /\ q.type \in Claims => InSeq("claimed", StateReads(q))
         /\ q.type \in Listed => InSeq("listing", StateReads(q))
         /\ q.type \in {"create_rfq"} \cup Listed => InSeq("now", StateReads(q))
<1> USE DEF StateReads, Gear, Claims, Listed, Closing
<1>1. CASE q.type = "start_dungeon"
  <2>1. StateReads(q) = << "run", "slots" >>
    BY <1>1
  <2> QED BY <1>1, <2>1, ShortSeqs, InShort
<1>2. CASE q.type \in Gear \cup {"next_room"}
  <2>1. StateReads(q) = << "run" >>
    BY <1>2
  <2> QED BY <1>2, <2>1, ShortSeqs, InShort
<1>3. CASE q.type = "open_lootboxes_max"
  <2>1. StateReads(q) = << "openable" >>
    BY <1>3
  <2> QED BY <1>3, <2>1, ShortSeqs, InShort
<1>4. CASE q.type = "finalize_epoch"
  <2>1. StateReads(q) = << "epoch" >>
    BY <1>4
  <2> QED BY <1>4, <2>1, ShortSeqs, InShort
<1>5. CASE q.type \in Claims
  <2>1. StateReads(q) = << "epoch", "claimed" >>
    BY <1>5
  <2> QED BY <1>5, <2>1, ShortSeqs, InShort
<1>6. CASE q.type \in Listed
  <2>1. StateReads(q) = << "listing", "now" >>
    BY <1>6
  <2> QED BY <1>6, <2>1, ShortSeqs, InShort
<1>7. CASE q.type = "create_rfq"
  <2>1. StateReads(q) = << "now" >>
    BY <1>7
  <2> QED BY <1>7, <2>1, ShortSeqs, InShort
<1>8. CASE ~(q.type \in {"start_dungeon", "next_room", "open_lootboxes_max", "finalize_epoch", "create_rfq"} \cup Gear \cup Claims \cup Listed)
  <2>1. StateReads(q) = << >>
    BY <1>8
  <2> QED BY <1>8, <2>1, ShortSeqs
<1> QED BY <1>1, <1>2, <1>3, <1>4, <1>5, <1>6, <1>7, <1>8

LEMMA OtherReadsHave ==
  ASSUME NEW q
  PROVE  /\ IsSeq(GateReads(q)) /\ IsSeq(OwnerReads(q)) /\ IsSeq(PriceReads(q)) /\ IsSeq(ApprovalReads(q))
         /\ q.commit => InSeq("window", GateReads(q))
         /\ q.type \in Owned => InSeq("mine", OwnerReads(q))
         /\ q.type \in Priced => InSeq("price", PriceReads(q))
         /\ Minds(q) => InSeq("approved", ApprovalReads(q))
<1>1. IsSeq(GateReads(q)) /\ (q.commit => InSeq("window", GateReads(q)))
  BY ShortSeqs, InShort DEF GateReads
<1>2. IsSeq(OwnerReads(q)) /\ (q.type \in Owned => InSeq("mine", OwnerReads(q)))
  BY ShortSeqs, InShort DEF OwnerReads
<1>3. IsSeq(PriceReads(q)) /\ (q.type \in Priced => InSeq("price", PriceReads(q)))
  BY ShortSeqs, InShort DEF PriceReads
<1>4. IsSeq(ApprovalReads(q)) /\ (Minds(q) => InSeq("approved", ApprovalReads(q)))
  BY ShortSeqs, InShort DEF ApprovalReads
<1> QED BY <1>1, <1>2, <1>3, <1>4

LEMMA PreflightReadsHave ==
  ASSUME NEW q, NEW f,
         InSeq(f, GateReads(q)) \/ InSeq(f, PriceReads(q)) \/ InSeq(f, OwnerReads(q))
           \/ InSeq(f, StateReads(q)) \/ InSeq(f, ApprovalReads(q))
  PROVE  InSeq(f, PreflightReads(q))
<1>1. PICK a, b, c, d, e : /\ a = GateReads(q) /\ b = PriceReads(q) /\ c = OwnerReads(q) /\ d = StateReads(q) /\ e = ApprovalReads(q)
  OBVIOUS
<1>2. IsSeq(a) /\ IsSeq(b) /\ IsSeq(c) /\ IsSeq(d) /\ IsSeq(e)
  BY <1>1, StateReadsHave, OtherReadsHave
<1>3. PICK ab, abc, abcd : ab = a \o b /\ abc = ab \o c /\ abcd = abc \o d
  OBVIOUS
<1>4. IsSeq(ab) /\ (InSeq(f, a) \/ InSeq(f, b) => InSeq(f, ab))
  BY <1>2, <1>3, InConcat
<1>5. IsSeq(abc) /\ (InSeq(f, ab) \/ InSeq(f, c) => InSeq(f, abc))
  BY <1>2, <1>3, <1>4, InConcat
<1>6. IsSeq(abcd) /\ (InSeq(f, abc) \/ InSeq(f, d) => InSeq(f, abcd))
  BY <1>2, <1>3, <1>5, InConcat
<1>7. InSeq(f, abcd) \/ InSeq(f, e) => InSeq(f, abcd \o e)
  BY <1>2, <1>6, InConcat
<1> QED BY <1>1, <1>3, <1>4, <1>5, <1>6, <1>7 DEF PreflightReads

LEMMA MenuReadsHave ==
  ASSUME NEW q, NEW f, f \in {"mine", "run", "slots", "openable", "price"} \/ InSeq(f, GateReads(q))
  PROVE  InSeq(f, MenuReads(q))
<1>1. PICK a : a = << "mine", "run", "slots", "openable", "price" >>
  OBVIOUS
<1>2. /\ a \in Seq({"mine", "run", "slots", "openable", "price"}) /\ DOMAIN a = 1..5
      /\ a[1] = "mine" /\ a[2] = "run" /\ a[3] = "slots" /\ a[4] = "openable" /\ a[5] = "price"
  BY <1>1
<1>3. IsSeq(a) /\ (f \in {"mine", "run", "slots", "openable", "price"} => InSeq(f, a))
  BY <1>2 DEF IsSeq, InSeq
<1>4. InSeq(f, a \o GateReads(q))
  BY <1>3, InConcat, OtherReadsHave
<1> QED BY <1>1, <1>4 DEF MenuReads

LEMMA PlanReadsHave ==
  ASSUME NEW q, NEW f,
         InSeq(f, OwnerReads(q)) \/ InSeq(f, PriceReads(q)) \/ InSeq(f, ApprovalReads(q))
           \/ (f = "listing" /\ q.type = "fulfill_trade_offer")
  PROVE  InSeq(f, PlanReads(q))
<1>1. PICK a, b, c, d : /\ a = OwnerReads(q) /\ c = ApprovalReads(q) /\ d = PriceReads(q)
                        /\ b = IF q.type = "fulfill_trade_offer" THEN << "listing" >> ELSE << >>
  OBVIOUS
<1>2. IsSeq(a) /\ IsSeq(b) /\ IsSeq(c) /\ IsSeq(d) /\ (q.type = "fulfill_trade_offer" => InSeq("listing", b))
  BY <1>1, OtherReadsHave, ShortSeqs, InShort
<1>3. PICK ab, abc : ab = a \o b /\ abc = ab \o c
  OBVIOUS
<1>4. IsSeq(ab) /\ (InSeq(f, a) \/ InSeq(f, b) => InSeq(f, ab))
  BY <1>2, <1>3, InConcat
<1>5. IsSeq(abc) /\ (InSeq(f, ab) \/ InSeq(f, c) => InSeq(f, abc))
  BY <1>2, <1>3, <1>4, InConcat
<1>6. InSeq(f, abc) \/ InSeq(f, d) => InSeq(f, abc \o d)
  BY <1>2, <1>5, InConcat
<1> QED BY <1>1, <1>2, <1>3, <1>4, <1>5, <1>6 DEF PlanReads

\* What an answer rests on is read for it.
LEMMA ReadsHave ==
  ASSUME NEW q \in Questions
  PROVE  /\ q.of # "cost" /\ q.type \in Owned => InSeq("mine", Reads(q))
         /\ q.of # "menu" /\ q.type \in Priced => InSeq("price", Reads(q))
         /\ Minds(q) => InSeq("approved", Reads(q))
         /\ Minds(q) /\ q.type = "fulfill_trade_offer" => InSeq("listing", Reads(q))
         /\ q.of \in {"preflight", "menu"} =>
              /\ q.commit => InSeq("window", Reads(q))
              /\ q.type \in {"start_dungeon", "next_room"} \cup Gear => InSeq("run", Reads(q))
              /\ q.type = "start_dungeon" => InSeq("slots", Reads(q))
              /\ q.type = "open_lootboxes_max" => InSeq("openable", Reads(q))
              /\ q.type \in {"finalize_epoch"} \cup Claims => InSeq("epoch", Reads(q))
              /\ q.type \in Claims => InSeq("claimed", Reads(q))
              /\ q.type \in Listed => InSeq("listing", Reads(q))
              /\ q.type \in {"create_rfq"} \cup Listed => InSeq("now", Reads(q))
<1>1. CASE q.of = "preflight"
  <2>1. Reads(q) = PreflightReads(q)
    BY <1>1 DEF Reads
  <2>2. q.type = "fulfill_trade_offer" => q.type \in Listed
    BY DEF Listed
  <2> QED BY <1>1, <2>1, <2>2, PreflightReadsHave, StateReadsHave, OtherReadsHave
<1>2. CASE q.of = "menu"
  <2>1. Reads(q) = MenuReads(q) /\ ~Minds(q)
    BY <1>2 DEF Reads, Minds
  <2>2. q.type \notin {"finalize_epoch", "create_rfq"} \cup Claims \cup Listed
    BY <1>2 DEF Questions, OnMenu, Owned, Committed, Gear, Claims, Listed, Closing
  <2> QED BY <1>2, <2>1, <2>2, MenuReadsHave, OtherReadsHave
<1>3. CASE q.of = "plan"
  <2>1. Reads(q) = PlanReads(q)
    BY <1>3 DEF Reads
  <2> QED BY <1>3, <2>1, PlanReadsHave, OtherReadsHave
<1>4. CASE q.of = "cost"
  <2>1. Reads(q) = PriceReads(q) /\ ~Minds(q)
    BY <1>4 DEF Reads, CostReads, Minds
  <2> QED BY <1>4, <2>1, OtherReadsHave
<1> QED BY <1>1, <1>2, <1>3, <1>4 DEF Questions

-----------------------------------------------------------------------------
(* The invariant                                                           *)

LEMMA QuestionTypes ==
  ASSUME NEW q \in Questions
  PROVE  /\ q.arg \in Nat /\ q.fits \in BOOLEAN /\ q.commit \in BOOLEAN /\ q.of \in {"preflight", "menu", "plan", "cost"}
         /\ q.of = "menu" => q.type \in OnMenu
BY AdviceAssumption DEF Questions

LEMMA OfIsIn ==
  ASSUME NEW q, NEW types, NEW values, NEW v \in values
  PROVE  Of(q, types, values) \subseteq values
<1>1. (CHOOSE x \in values : TRUE) \in values
  OBVIOUS
<1> QED BY <1>1 DEF Of

LEMMA AdviceInitInv == Init => AdviceInv
<1> SUFFICES ASSUME Init PROVE AdviceInv
  OBVIOUS
<1>1. world \in WorldState
  <2>1. PICK q : q = asked
    OBVIOUS
  <2>2. [active |-> TRUE, charges |-> 0, lasts |-> 0] \in RunsOf(q) /\ [active |-> TRUE, mine |-> TRUE, mmo |-> TRUE] \in Listings /\ 0 \in 0..MaxCount
    BY AdviceAssumption DEF Runs, RunsOf, Listings
  <2>3. /\ Of(q, Owned, BOOLEAN) \subseteq BOOLEAN
        /\ Of(q, Gear \cup {"start_dungeon", "next_room"}, RunsOf(q)) \subseteq RunsOf(q)
        /\ Of(q, {"start_dungeon"}, 0..MaxCount) \subseteq Nat
        /\ Of(q, {"open_lootboxes_max"}, 0..MaxCount) \subseteq Nat
        /\ Of(q, Listed, Listings) \subseteq Listings
        /\ Of(q, Sellable, SUBSET Kinds) \subseteq SUBSET Kinds
    <3>1. TRUE \in BOOLEAN /\ {} \in SUBSET Kinds /\ 0..MaxCount \subseteq Nat
      OBVIOUS
    <3> QED BY <2>2, <3>1, OfIsIn
  <2>4. world \in Worlds(q)
    BY <2>1 DEF Init
  <2>5. PICK a, b, c, d, e, g :
          /\ a = Of(q, Owned, BOOLEAN) /\ b = Of(q, Gear \cup {"start_dungeon", "next_room"}, RunsOf(q))
          /\ c = Of(q, {"start_dungeon"}, 0..MaxCount) /\ d = Of(q, {"open_lootboxes_max"}, 0..MaxCount)
          /\ e = Of(q, Listed, Listings) /\ g = Of(q, Sellable, SUBSET Kinds)
    OBVIOUS
  <2>6. world \in [block : {0}, mine : a, run : b, slots : c, openable : d, price : {1}, epoch : {"running"}, claimed : {FALSE},
                   listing : e, approved : g, commit : IF q.commit THEN BOOLEAN ELSE {FALSE}]
    BY <2>4, <2>5 DEF Worlds, Kinds, Listings
  <2>7. a \subseteq BOOLEAN /\ b \subseteq Runs /\ c \subseteq Nat /\ d \subseteq Nat /\ e \subseteq Listings /\ g \subseteq SUBSET Kinds
    BY <2>3, <2>5 DEF RunsOf
  <2>8. "running" \in Epochs /\ 0 \in Nat /\ 1 \in Nat
    BY DEF Epochs
  <2> HIDE DEF Kinds, Listings, Epochs
  <2> QED BY <2>6, <2>7, <2>8 DEF WorldState
<1>2. AdviceTypeOK
  <2>1. Serves(asked) \in BOOLEAN
    BY DEF Serves, PotionsTaken, Accepts
  <2> QED BY <1>1, <2>1 DEF Init, AdviceTypeOK
<1>3. DOMAIN seen = {}
  BY DEF Init
<1>4. held => AmountFits(asked)
  BY DEF Init, Serves, PotionsTaken, Accepts, AmountFits
<1>5. Pending
  BY DEF Init, Pending
<1> QED BY <1>2, <1>3, <1>4, <1>5 DEF Init, AdviceInv, AdviceSuffices

\* What is read is so, and the contract, if it accepts the action, has nothing against it.
LEMMA ReadIsSound ==
  ASSUME AdviceTypeOK, NEW f
  PROVE  /\ ReadTells(world, f, Read(f))
         /\ Serves(asked) => Agrees(asked, f, Read(f))
         /\ sent = {} => ReadIsNow(f, Read(f))
<1>1. PICK w, q : w = world /\ q = asked
  OBVIOUS
<1>2. w \in WorldState /\ q \in Questions /\ w.block \in Nat /\ q.arg \in Nat /\ w.slots \in Nat /\ w.run.charges \in Nat
  BY <1>1, QuestionTypes, AdviceAssumption DEF AdviceTypeOK, WorldState, Runs
<1>3. CASE f = "window"
  <2>1. PICK v : v = [resolved |-> ~w.commit, expired |-> w.commit /\ w.block > RevealWindow, canReveal |-> w.commit /\ InWindow]
    OBVIOUS
  <2>2. Read(f) = v
    BY <1>1, <1>3, <2>1 DEF Read
  <2>3. v.resolved = ~w.commit /\ v.expired = (w.commit /\ w.block > RevealWindow) /\ v.canReveal = (w.commit /\ InWindow)
    BY <2>1
  <2>4. Serves(q) /\ q.commit => w.commit /\ InWindow /\ ~(w.block > RevealWindow)
    BY <1>1, <1>2, AdviceAssumption DEF Serves, PotionsTaken, Accepts, InWindow
  <2> QED BY <1>1, <1>2, <1>3, <2>2, <2>3, <2>4 DEF ReadTells, Agrees, ReadIsNow
<1>4. CASE f \in {"now", "height"}
  <2>1. Read(f) = w.block
    BY <1>1, <1>4 DEF Read
  <2>2. Serves(q) => /\ q.type \in {"fulfill_trade_offer", "fill_rfq"} => w.block <= OfferExpiry
                     /\ q.type = "cancel_expired_trade_offer" => w.block > OfferExpiry
                     /\ q.type = "create_rfq" => Expiry(q) \in (w.block + 1)..(w.block + MaxTtl)
    BY <1>1 DEF Serves, PotionsTaken, Accepts
  <2>3. q.arg > 0 => Expiry(q) = q.arg
    BY <1>2 DEF Expiry
  <2>4. Serves(q) /\ q.type = "create_rfq" /\ q.arg > 0 => q.arg > w.block /\ q.arg <= w.block + MaxTtl
    BY <1>2, <2>2, <2>3, AdviceAssumption
  <2> QED BY <1>1, <1>2, <1>4, <2>1, <2>2, <2>4 DEF ReadTells, Agrees, ReadIsNow
<1>5. CASE f \notin {"window", "now", "height"}
  <2>1. Read(f) = w[f]
    BY <1>1, <1>5 DEF Read
  <2>2. ReadTells(w, f, w[f])
    BY <1>5 DEF ReadTells
  <2>3. Serves(q) => Agrees(q, f, w[f])
    BY <1>1, <1>2, <1>5 DEF Serves, PotionsTaken, Accepts, Agrees
  <2>4. sent = {} => ReadIsNow(f, w[f])
    BY <1>1, <1>5 DEF ReadIsNow
  <2> QED BY <1>1, <2>1, <2>2, <2>3, <2>4
<1> QED BY <1>3, <1>4, <1>5

LEMMA AskChainInv ==
  ASSUME AdviceInv, AskChain
  PROVE  AdviceInv'
<1>1. PICK f, v, s, d : /\ f = Reads(asked)[CHOOSE i \in DOMAIN Reads(asked) :
                              /\ Reads(asked)[i] \notin DOMAIN seen
                              /\ \A j \in 1..(i - 1) : Reads(asked)[j] \in DOMAIN seen]
                        /\ v = Read(f) /\ s = seen /\ d = DOMAIN seen
  OBVIOUS
<1>2. seen' = [g \in d \cup {f} |-> IF g = f THEN v ELSE s[g]]
  <2>1. seen' = [g \in d \cup {f} |-> IF g = f THEN Read(g) ELSE s[g]]
    BY <1>1 DEF AskChain
  <2> QED BY <1>1, <2>1
<1>3. /\ DOMAIN seen' = {f} \cup d
      /\ seen'[f] = v
      /\ \A g \in d : g # f => seen'[g] = s[g]
  BY <1>2
<1>4. Pending /\ UNCHANGED << world, asked, answer, sent, outcome, held, calm >>
  BY DEF AskChain
<1>5. AdviceTypeOK /\ sent = {} /\ outcome = "none" /\ (held => Serves(asked))
  BY <1>4 DEF AdviceInv
<1>6. \A g \in DOMAIN seen' : ReadTells(world, g, seen'[g])
  BY <1>1, <1>3, <1>5, ReadIsSound DEF AdviceInv
<1>7. ASSUME held PROVE \A g \in DOMAIN seen' : Agrees(asked, g, seen'[g])
  <2>1. Agrees(asked, f, v)
    BY <1>1, <1>5, <1>7, ReadIsSound
  <2>2. \A g \in d : Agrees(asked, g, s[g])
    BY <1>1, <1>7 DEF AdviceInv
  <2> QED BY <1>3, <2>1, <2>2
<1>8. calm => \A g \in DOMAIN seen' : ReadIsNow(g, seen'[g])
  BY <1>1, <1>3, <1>5, ReadIsSound DEF AdviceInv
<1>9. AdviceTypeOK'
  BY <1>4, <1>5 DEF AdviceTypeOK
<1>10. Pending' /\ AdviceSuffices' /\ (Serves(asked)' <=> Serves(asked))
  BY <1>4, <1>5 DEF Pending, AdviceSuffices, Serves, PotionsTaken, Accepts, InWindow, Expiry
<1>11. \A g, u : ReadIsNow(g, u)' <=> ReadIsNow(g, u)
  BY <1>4 DEF ReadIsNow
<1>12. held => AmountFits(asked)
  BY DEF AdviceInv
<1> QED BY <1>4, <1>5, <1>6, <1>7, <1>8, <1>9, <1>10, <1>11, <1>12 DEF AdviceInv

\* How time, others and the plan itself may change the world: ended commits, offers, epochs and claims stay so.
Moves(w) ==
  /\ w \in WorldState /\ w.block >= world.block /\ (w.commit => world.commit) /\ w.mine = world.mine
  /\ (world.epoch = "finalized" => w.epoch = "finalized") /\ (world.claimed => w.claimed)
  /\ (w.listing.active => world.listing.active) /\ w.listing.mine = world.listing.mine

LEMMA TellsStill ==
  ASSUME AdviceTypeOK, NEW w, Moves(w), NEW f, NEW v, ReadTells(world, f, v)
  PROVE  ReadTells(w, f, v)
<1>1. PICK u : u = world
  OBVIOUS
<1>2. u.block \in Nat /\ w.block \in Nat /\ w.block >= u.block /\ RevealWindow \in Nat
  BY <1>1, AdviceAssumption DEF AdviceTypeOK, WorldState, Moves
<1> QED BY <1>1, <1>2 DEF ReadTells, Moves

\* What an answer rests on does not change with the world.
LEMMA AnswerStays ==
  ASSUME AnswerIsRead, UNCHANGED << asked, seen, answer >>
  PROVE  AnswerIsRead'
<1>1. PICK q, s, a : q = asked /\ s = seen /\ a = answer
  OBVIOUS
<1>2. q = asked' /\ s = seen' /\ a = answer'
  BY <1>1
<1>3. /\ a.code = Code(q, s) /\ a.value = ValueOf(q, s) /\ a.intents = Approvals(q, s)
      /\ \A i \in DOMAIN Reads(q) : Reads(q)[i] \in DOMAIN s
  BY <1>1 DEF AnswerIsRead
<1> QED BY <1>2, <1>3 DEF AnswerIsRead

\* Nothing that was calm about has moved.
Undisturbed(w) == w.price = world.price /\ w.listing = world.listing /\ w.approved = world.approved

LEMMA ChangeInv ==
  ASSUME AdviceInv, NEW w, Change(w), Moves(w),
         (calm' = FALSE /\ outcome = "none") \/ (UNCHANGED calm /\ Undisturbed(w))
  PROVE  AdviceInv'
<1>1. world' = w /\ UNCHANGED << asked, seen, answer, sent, outcome >> /\ held' = (held /\ (Pending => Serves(asked)'))
  BY DEF Change
<1>2. AdviceTypeOK
  BY DEF AdviceInv
<1>3. Serves(asked)' \in BOOLEAN
  BY DEF Serves, PotionsTaken, Accepts
<1>4. AdviceTypeOK'
  BY <1>1, <1>2, <1>3 DEF AdviceTypeOK, Moves
<1>5. \A f \in DOMAIN seen' : ReadTells(world', f, seen'[f])
  BY <1>1, <1>2, TellsStill DEF AdviceInv
<1>6. held' => AmountFits(asked') /\ \A f \in DOMAIN seen' : Agrees(asked', f, seen'[f])
  BY <1>1 DEF AdviceInv
<1>7. Pending' <=> Pending
  BY <1>1 DEF Pending
<1>8. Pending' => sent' = {} /\ outcome' = "none" /\ (held' => Serves(asked)')
  BY <1>1, <1>7 DEF AdviceInv
<1>9. ~Pending' => AnswerIsRead'
  BY <1>1, <1>7, AnswerStays DEF AdviceInv
<1>10. CASE calm' = FALSE /\ outcome = "none"
  <2>1. AdviceSuffices'
    BY <1>10 DEF AdviceSuffices
  <2> QED BY <1>4, <1>5, <1>6, <1>8, <1>9, <1>10, <2>1 DEF AdviceInv
<1>11. CASE UNCHANGED calm /\ Undisturbed(w)
  <2>0. \A f, v : ReadIsNow(f, v)' <=> ReadIsNow(f, v)
    BY <1>1, <1>11 DEF ReadIsNow, Undisturbed
  <2>1. (calm => \A f \in DOMAIN seen : ReadIsNow(f, seen[f]))'
    <3>1. PICK s : s = seen
      OBVIOUS
    <3>2. s = seen'
      BY <1>1, <3>1
    <3>3. calm => \A f \in DOMAIN s : ReadIsNow(f, s[f])
      BY <3>1 DEF AdviceInv
    <3>4. calm' => \A f \in DOMAIN s : ReadIsNow(f, s[f])'
      BY <1>11, <2>0, <3>3
    <3> QED BY <3>2, <3>4
  <2>2. AdviceSuffices'
    <3>1. Minds(asked') = Minds(asked) /\ Takes(asked)' = Takes(asked)
      BY <1>1, <1>11 DEF Takes, Undisturbed
    <3> QED BY <1>1, <1>11, <3>1 DEF AdviceInv, AdviceSuffices, Undisturbed
  <2> QED BY <1>4, <1>5, <1>6, <1>8, <1>9, <2>1, <2>2 DEF AdviceInv
<1> QED BY <1>10, <1>11

LEMMA NewBlockInv ==
  ASSUME AdviceInv, NewBlock
  PROVE  AdviceInv'
<1>1. PICK u, w : u = world /\ w = [u EXCEPT !.block = u.block + 1]
  OBVIOUS
<1>2. u \in WorldState
  BY <1>1 DEF AdviceInv, AdviceTypeOK
<1>3. u.block \in Nat /\ u.block + 1 \in Nat /\ u.block + 1 >= u.block
  BY <1>2 DEF WorldState
<1>4. /\ w \in WorldState /\ w.block = u.block + 1 /\ w.mine = u.mine /\ w.epoch = u.epoch /\ w.claimed = u.claimed
      /\ w.listing = u.listing /\ w.commit = u.commit /\ w.price = u.price /\ w.approved = u.approved
  BY <1>1, <1>2, <1>3 DEF WorldState
<1>5. Moves(w) /\ Undisturbed(w)
  BY <1>1, <1>3, <1>4 DEF Moves, Undisturbed
<1>6. Change(w) /\ UNCHANGED calm
  <2>1. [world EXCEPT !.block = @ + 1] = w
    BY <1>1
  <2> QED BY <2>1 DEF NewBlock
<1> QED BY <1>5, <1>6, ChangeInv

\* Every change that is not time's own is one that Moves allows.
LEMMA OthersMoveWorld ==
  ASSUME AdviceTypeOK, OthersAct
  PROVE  \E w : Change(w) /\ Moves(w)
<1> DEFINE Tame(u, w) ==
      /\ w \in WorldState /\ w.block = u.block /\ (w.commit => u.commit) /\ w.mine = u.mine
      /\ (u.epoch = "finalized" => w.epoch = "finalized") /\ (u.claimed => w.claimed)
      /\ (w.listing.active => u.listing.active) /\ w.listing.mine = u.listing.mine
<1>1. PICK u : u = world
  OBVIOUS
<1>2. u \in WorldState /\ u.block \in Nat /\ MaxCount \in Nat
  BY <1>1, AdviceAssumption DEF AdviceTypeOK, WorldState
<1>3. ASSUME NEW w, Change(w), Tame(u, w) PROVE Change(w) /\ Moves(w)
  BY <1>1, <1>2, <1>3 DEF Moves
<1>4. CASE RunMoves
  <2>1. PICK r \in Runs : Change([u EXCEPT !.run = r])
    BY <1>1, <1>2, <1>4 DEF RunMoves, RunsOf
  <2>2. Tame(u, [u EXCEPT !.run = r])
    BY <1>2, <2>1 DEF WorldState, Epochs, Listings
  <2> QED BY <1>3, <2>1, <2>2
<1>5. CASE GearMoves
  <2>1. PICK n \in Nat : Change([u EXCEPT !.slots = n])
    BY <1>1, <1>2, <1>5 DEF GearMoves
  <2>2. Tame(u, [u EXCEPT !.slots = n])
    BY <1>2, <2>1 DEF WorldState, Epochs, Listings
  <2> QED BY <1>3, <2>1, <2>2
<1>6. CASE CreditsMove
  <2>1. PICK n \in Nat : Change([u EXCEPT !.openable = n])
    BY <1>1, <1>2, <1>6 DEF CreditsMove
  <2>2. Tame(u, [u EXCEPT !.openable = n])
    BY <1>2, <2>1 DEF WorldState, Epochs, Listings
  <2> QED BY <1>3, <2>1, <2>2
<1>7. CASE PriceMoves
  <2>1. PICK n \in Nat : Change([u EXCEPT !.price = n])
    BY <1>1, <1>2, <1>7 DEF PriceMoves
  <2>2. Tame(u, [u EXCEPT !.price = n])
    BY <1>2, <2>1 DEF WorldState, Epochs, Listings
  <2> QED BY <1>3, <2>1, <2>2
<1>8. CASE EpochMoves
  <2>1. \/ u.epoch = "running" /\ Change([u EXCEPT !.epoch = "over"])
        \/ u.epoch = "over" /\ Change([u EXCEPT !.epoch = "finalized"])
        \/ Change([u EXCEPT !.claimed = TRUE])
    BY <1>1, <1>8 DEF EpochMoves
  <2>2. /\ u.epoch = "running" => Tame(u, [u EXCEPT !.epoch = "over"])
        /\ Tame(u, [u EXCEPT !.epoch = "finalized"]) /\ Tame(u, [u EXCEPT !.claimed = TRUE])
    BY <1>2 DEF WorldState, Epochs
  <2> QED BY <1>3, <2>1, <2>2
<1>9. CASE ListingEnds
  <2>1. PICK l : l = [u.listing EXCEPT !.active = FALSE]
    OBVIOUS
  <2>2. Change([u EXCEPT !.listing = l]) /\ u.listing.active
    <3>1. [u EXCEPT !.listing.active = FALSE] = [u EXCEPT !.listing = l]
      BY <2>1
    <3> QED BY <1>1, <1>9, <3>1 DEF ListingEnds
  <2>3. u.listing \in Listings
    BY <1>2 DEF WorldState
  <2>4. l \in Listings /\ l.mine = u.listing.mine
    BY <2>1, <2>3 DEF Listings
  <2>5. Tame(u, [u EXCEPT !.listing = l])
    BY <1>2, <2>2, <2>4 DEF WorldState
  <2> QED BY <1>3, <2>2, <2>5
<1>10. CASE CommitEnds
  <2>1. Change([u EXCEPT !.commit = FALSE])
    BY <1>1, <1>10 DEF CommitEnds
  <2>2. Tame(u, [u EXCEPT !.commit = FALSE])
    BY <1>2 DEF WorldState
  <2> QED BY <1>3, <2>1, <2>2
<1>11. CASE Revoke
  <2>1. PICK a : Change([u EXCEPT !.approved = a]) /\ a \subseteq u.approved
    BY <1>1, <1>11 DEF Revoke
  <2>2. a \subseteq Kinds
    BY <1>2, <2>1 DEF WorldState
  <2>3. Tame(u, [u EXCEPT !.approved = a])
    BY <1>2, <2>2 DEF WorldState
  <2> QED BY <1>3, <2>1, <2>3
<1> HIDE DEF Tame
<1> QED BY <1>4, <1>5, <1>6, <1>7, <1>8, <1>9, <1>10, <1>11 DEF OthersAct

LEMMA OthersActInv ==
  ASSUME AdviceInv, OthersAct
  PROVE  AdviceInv'
<1>1. calm' = FALSE /\ outcome = "none" /\ AdviceTypeOK
  BY DEF OthersAct, AdviceInv
<1>2. PICK w : Change(w) /\ Moves(w)
  BY <1>1, OthersMoveWorld
<1> QED BY <1>1, <1>2, ChangeInv

LEMMA AnswerInv ==
  ASSUME AdviceInv, Answer
  PROVE  AdviceInv'
<1>1. UNCHANGED << world, asked, seen, sent, outcome, held, calm >> /\ Pending
  BY DEF Answer
<1>2. PICK q, s, a : q = asked /\ s = seen /\ a = answer'
  OBVIOUS
<1>3. q = asked' /\ s = seen'
  BY <1>1, <1>2
<1>4. AnswerIsRead'
  <2>1. a = Given(q, s) /\ \A i \in DOMAIN Reads(q) : Reads(q)[i] \in DOMAIN s
    BY <1>2 DEF Answer
  <2>2. a.code = Code(q, s) /\ a.value = ValueOf(q, s) /\ a.intents = Approvals(q, s)
    BY <2>1 DEF Given
  <2> QED BY <1>2, <1>3, <2>1, <2>2 DEF AnswerIsRead
<1>5. AdviceTypeOK'
  BY <1>1 DEF AdviceInv, AdviceTypeOK
<1>6. sent' = {} /\ outcome' = "none" /\ (held' => Serves(asked)')
  <2>1. Serves(asked)' <=> Serves(asked)
    BY <1>1 DEF Serves, PotionsTaken, Accepts, InWindow, Expiry
  <2> QED BY <1>1, <2>1 DEF AdviceInv
<1>7. AdviceSuffices'
  BY <1>6 DEF AdviceSuffices
<1>8. (calm => \A f \in DOMAIN seen : ReadIsNow(f, seen[f]))'
  <2>1. \A f, v : ReadIsNow(f, v)' <=> ReadIsNow(f, v)
    BY <1>1 DEF ReadIsNow
  <2>2. calm => \A f \in DOMAIN s : ReadIsNow(f, s[f])
    BY <1>2 DEF AdviceInv
  <2>3. calm' => \A f \in DOMAIN s : ReadIsNow(f, s[f])'
    BY <1>1, <2>1, <2>2
  <2> QED BY <1>3, <2>3
<1>9. \A f \in DOMAIN seen' : ReadTells(world', f, seen'[f])
  BY <1>1 DEF AdviceInv
<1>10. held' => AmountFits(asked') /\ \A f \in DOMAIN seen' : Agrees(asked', f, seen'[f])
  BY <1>1 DEF AdviceInv
<1> QED BY <1>4, <1>5, <1>6, <1>7, <1>8, <1>9, <1>10 DEF AdviceInv

LEMMA SendApprovalInv ==
  ASSUME AdviceInv, NEW kind \in Kinds, SendApproval(kind)
  PROVE  AdviceInv'
<1>1. UNCHANGED << asked, seen, answer, outcome, held, calm >> /\ ~Pending /\ outcome = "none" /\ sent' = sent \cup {kind}
  BY DEF SendApproval, Advised
<1>2. PICK u, w, b : u = world /\ b = u.approved \cup {kind} /\ w = [u EXCEPT !.approved = b]
  OBVIOUS
<1>3. world' = w
  BY <1>2 DEF SendApproval
<1>4. u \in WorldState /\ AdviceTypeOK
  BY <1>2 DEF AdviceInv, AdviceTypeOK
<1>5. b \subseteq Kinds
  BY <1>2, <1>4 DEF WorldState
<1>6. /\ w \in WorldState /\ w.block = u.block /\ w.mine = u.mine /\ w.epoch = u.epoch /\ w.claimed = u.claimed
      /\ w.listing = u.listing /\ w.commit = u.commit /\ w.price = u.price /\ w.approved = b
  BY <1>2, <1>4, <1>5 DEF WorldState
<1>7. Moves(w)
  <2>1. u.block \in Nat
    BY <1>4 DEF WorldState
  <2> QED BY <1>2, <1>6, <2>1 DEF Moves
<1>8. AdviceTypeOK'
  BY <1>1, <1>3, <1>4, <1>6 DEF AdviceTypeOK
<1>9. \A f \in DOMAIN seen' : ReadTells(world', f, seen'[f])
  BY <1>1, <1>3, <1>4, <1>7, TellsStill DEF AdviceInv
<1>10. held' => AmountFits(asked') /\ \A f \in DOMAIN seen' : Agrees(asked', f, seen'[f])
  BY <1>1 DEF AdviceInv
<1>11. ~Pending' /\ AnswerIsRead'
  BY <1>1, AnswerStays DEF AdviceInv, Pending
<1>12. (calm => \A f \in DOMAIN seen : ReadIsNow(f, seen[f]))'
  <2>1. \A f, v : ReadIsNow(f, v) => ReadIsNow(f, v)'
    <3>1. PICK t, t2 : t = sent /\ t2 = sent'
      OBVIOUS
    <3>2. ASSUME NEW f, NEW v, ReadIsNow(f, v) PROVE ReadIsNow(f, v)'
      <4>1. t2 = t \cup {kind} /\ (f = "approved" => v \cup t = u.approved)
        BY <1>1, <1>2, <3>1, <3>2 DEF ReadIsNow
      <4>2. f = "approved" => v \cup t2 = b
        BY <1>2, <4>1
      <4>3. (f = "price" => v = w.price) /\ (f = "listing" => v = w.listing)
        BY <1>2, <1>6, <3>2 DEF ReadIsNow
      <4> QED BY <1>3, <1>6, <3>1, <4>2, <4>3 DEF ReadIsNow
    <3> QED BY <3>2
  <2>2. PICK s : s = seen
    OBVIOUS
  <2>3. calm => \A f \in DOMAIN s : ReadIsNow(f, s[f])
    BY <2>2 DEF AdviceInv
  <2>4. calm' => \A f \in DOMAIN s : ReadIsNow(f, s[f])'
    BY <1>1, <2>1, <2>3
  <2> QED BY <1>1, <2>2, <2>4
<1>13. AdviceSuffices'
  BY <1>1 DEF AdviceSuffices
<1> QED BY <1>8, <1>9, <1>10, <1>11, <1>12, <1>13 DEF AdviceInv

\* The approvals of a plan, once sent, are those that the contract takes, and its value is the price.
LEMMA PlanIsEnough ==
  ASSUME AdviceInv, Advised, calm, answer.intents \subseteq sent
  PROVE  /\ Minds(asked) => Takes(asked) \subseteq world.approved
         /\ asked.type \in Priced => answer.value >= world.price
<1>1. PICK q, s, a, w, t : q = asked /\ s = seen /\ a = answer /\ w = world /\ t = sent
  OBVIOUS
<1>2. /\ q \in Questions /\ w \in WorldState /\ q.of # "menu" /\ a.intents \subseteq t
      /\ a.value = ValueOf(q, s) /\ a.intents = Approvals(q, s)
      /\ \A i \in DOMAIN Reads(q) : Reads(q)[i] \in DOMAIN s
  BY <1>1 DEF AdviceInv, AdviceTypeOK, Advised, AnswerIsRead
<1>3. \A f \in DOMAIN s : ReadIsNow(f, s[f])
  BY <1>1 DEF AdviceInv
<1>4. \A f : InSeq(f, Reads(q)) => f \in DOMAIN s
  BY <1>2 DEF InSeq
<1>5. ASSUME q.type \in Priced PROVE a.value >= w.price
  <2>1. "price" \in DOMAIN s
    BY <1>2, <1>4, <1>5, ReadsHave
  <2>2. s["price"] = w.price
    BY <1>1, <1>3, <2>1 DEF ReadIsNow
  <2>3. a.value = s.price /\ w.price \in Nat
    BY <1>2, <1>5 DEF ValueOf, WorldState
  <2> QED BY <2>2, <2>3
<1>6. ASSUME Minds(q) PROVE Takes(q) \subseteq w.approved
  <2>1. "approved" \in DOMAIN s
    BY <1>2, <1>4, <1>6, ReadsHave
  <2>2. s["approved"] \cup t = w.approved
    BY <1>1, <1>3, <2>1 DEF ReadIsNow
  <2>3. q.type \in {"create_trade_offer", "fulfill_trade_offer", "create_rfq"}
    BY <1>6 DEF Minds
  <2>4. ASSUME NEW k \in Takes(q) PROVE k \in w.approved
    <3>1. CASE q.type = "create_trade_offer"
      <4>1. k = "items"
        BY <2>4, <3>1 DEF Takes
      <4>2. Approvals(q, s) = {kind \in Kinds \ s.approved : kind = "items"}
        BY <1>6, <3>1 DEF Approvals, Kinds
      <4> QED BY <1>2, <2>2, <4>1, <4>2 DEF Kinds
    <3>2. CASE q.type = "create_rfq"
      <4>1. k = "mmo"
        BY <2>4, <3>2 DEF Takes
      <4>2. Approvals(q, s) = {kind \in Kinds \ s.approved : kind = "mmo"}
        BY <1>6, <3>2 DEF Approvals, Kinds
      <4> QED BY <1>2, <2>2, <4>1, <4>2 DEF Kinds
    <3>3. CASE q.type = "fulfill_trade_offer"
      <4>1. k = "items" \/ (k = "mmo" /\ w.listing.mmo)
        BY <1>1, <2>4, <3>3 DEF Takes
      <4>2. Approvals(q, s) = {kind \in Kinds \ s.approved : kind = "items" \/ s.listing.mmo}
        BY <1>6, <3>3 DEF Approvals, Kinds
      <4>3. "listing" \in DOMAIN s
        BY <1>2, <1>4, <1>6, <3>3, ReadsHave
      <4>4. s["listing"] = w.listing
        BY <1>1, <1>3, <4>3 DEF ReadIsNow
      <4> QED BY <1>2, <2>2, <4>1, <4>2, <4>4 DEF Kinds
    <3> QED BY <2>3, <3>1, <3>2, <3>3
  <2> QED BY <2>4
<1>7. Takes(asked) = Takes(q)
  BY <1>1
<1> QED BY <1>1, <1>5, <1>6, <1>7

LEMMA SendActionInv ==
  ASSUME AdviceInv, SendAction
  PROVE  AdviceInv'
<1>1. UNCHANGED << world, asked, seen, answer, sent, held, calm >> /\ ~Pending /\ Advised /\ answer.intents \subseteq sent
  BY DEF SendAction, Advised
<1>2. outcome' \in {"unfit", "done", "failed"}
  BY DEF SendAction
<1>3. AdviceTypeOK'
  BY <1>1, <1>2 DEF AdviceInv, AdviceTypeOK
<1>4. ~Pending' /\ AnswerIsRead'
  BY <1>1, AnswerStays DEF AdviceInv, Pending
<1>5. (calm => \A f \in DOMAIN seen : ReadIsNow(f, seen[f]))'
  <2>1. \A f, v : ReadIsNow(f, v)' <=> ReadIsNow(f, v)
    BY <1>1 DEF ReadIsNow
  <2>2. PICK s : s = seen
    OBVIOUS
  <2>3. calm => \A f \in DOMAIN s : ReadIsNow(f, s[f])
    BY <2>2 DEF AdviceInv
  <2>4. calm' => \A f \in DOMAIN s : ReadIsNow(f, s[f])'
    BY <1>1, <2>1, <2>3
  <2> QED BY <1>1, <2>2, <2>4
<1>6. AdviceSuffices'
  <2>1. ASSUME calm, Minds(asked) \/ Takes(asked) \subseteq world.approved PROVE outcome' # "failed"
    <3>1. Takes(asked) \subseteq world.approved /\ (asked.type \in Priced => answer.value >= world.price)
      BY <1>1, <2>1, PlanIsEnough
    <3> QED BY <3>1 DEF SendAction
  <2>2. Takes(asked)' = Takes(asked)
    BY <1>1 DEF Takes
  <2> QED BY <1>1, <2>1, <2>2 DEF AdviceSuffices
<1>7. \A f \in DOMAIN seen' : ReadTells(world', f, seen'[f])
  BY <1>1 DEF AdviceInv
<1>8. held' => AmountFits(asked') /\ \A f \in DOMAIN seen' : Agrees(asked', f, seen'[f])
  BY <1>1 DEF AdviceInv
<1> QED BY <1>3, <1>4, <1>5, <1>6, <1>7, <1>8 DEF AdviceInv

LEMMA AdviceStutterInv ==
  ASSUME AdviceInv, UNCHANGED vars
  PROVE  AdviceInv'
<1>1. UNCHANGED << world, asked, seen, answer, sent, outcome, held, calm >>
  BY DEF vars
<1>2. AdviceTypeOK' /\ AdviceSuffices' /\ (Pending' <=> Pending) /\ (Serves(asked)' <=> Serves(asked))
  BY <1>1 DEF AdviceInv, AdviceTypeOK, AdviceSuffices, Takes, Pending, Serves, PotionsTaken, Accepts, InWindow, Expiry
<1>3. ~Pending' => AnswerIsRead'
  BY <1>1, <1>2, AnswerStays DEF AdviceInv
<1>4. (calm => \A f \in DOMAIN seen : ReadIsNow(f, seen[f]))'
  <2>1. \A f, v : ReadIsNow(f, v)' <=> ReadIsNow(f, v)
    BY <1>1 DEF ReadIsNow
  <2>2. PICK s : s = seen
    OBVIOUS
  <2>3. calm => \A f \in DOMAIN s : ReadIsNow(f, s[f])
    BY <2>2 DEF AdviceInv
  <2>4. calm' => \A f \in DOMAIN s : ReadIsNow(f, s[f])'
    BY <1>1, <2>1, <2>3
  <2> QED BY <1>1, <2>2, <2>4
<1>5. \A f \in DOMAIN seen' : ReadTells(world', f, seen'[f])
  BY <1>1 DEF AdviceInv
<1>6. held' => AmountFits(asked') /\ \A f \in DOMAIN seen' : Agrees(asked', f, seen'[f])
  BY <1>1 DEF AdviceInv
<1>7. Pending' => sent' = {} /\ outcome' = "none" /\ (held' => Serves(asked)')
  BY <1>1, <1>2 DEF AdviceInv
<1> QED BY <1>2, <1>3, <1>4, <1>5, <1>6, <1>7 DEF AdviceInv

LEMMA AdviceAlwaysInv == Spec => []AdviceInv
<1>1. ASSUME AdviceInv, [Next]_vars PROVE AdviceInv'
  BY <1>1, AskChainInv, AnswerInv, SendApprovalInv, SendActionInv, NewBlockInv, OthersActInv, AdviceStutterInv DEF Next, Kinds
<1> QED BY <1>1, AdviceInitInv, PTL DEF Spec

\* The plan itself refuses nothing but what is another's.
LEMMA PlanCode ==
  ASSUME NEW q, NEW s, q.of = "plan"
  PROVE  Code(q, s) \in {Ok, "ERROR", "ONLY_CHARACTER_OWNER"}
<1>1. PICK a : a = << ~s.mine, "ONLY_CHARACTER_OWNER" >>
  OBVIOUS
<1>2. OwnedBySigner(q, s) \in {<< >>, << a >>}
  BY <1>1 DEF OwnedBySigner, CharacterOwner
<1>3. FirstOf(OwnedBySigner(q, s)) \in {Ok, "ONLY_CHARACTER_OWNER"}
  <2>1. PICK r : r = OwnedBySigner(q, s)
    OBVIOUS
  <2>2. IsSeq(r) /\ \A i \in DOMAIN r : r[i] = a
    <3>1. << a >>[1] = a
      OBVIOUS
    <3> QED BY <1>2, <2>1, <3>1, ShortSeqs
  <2>3. a[2] = "ONLY_CHARACTER_OWNER"
    BY <1>1
  <2> QED BY <2>1, <2>2, <2>3, FirstOfHits
<1>4. Code(q, s) = Quoted(q, FirstOf(OwnedBySigner(q, s)))
  BY DEF Code, Plan
<1> QED BY <1>3, <1>4 DEF Quoted

\* A refusal has its cause in a read that was made.
LEMMA RefusalIsRead ==
  ASSUME AdviceInv, Refused
  PROVE  /\ Cause(asked, seen, answer.code)
         /\ asked.type \in Owned => "mine" \in DOMAIN seen
         /\ \/ answer.code = "ONLY_CHARACTER_OWNER"
            \/ /\ asked.commit => "window" \in DOMAIN seen
               /\ asked.type \in {"start_dungeon", "next_room"} \cup Gear => "run" \in DOMAIN seen
               /\ asked.type = "start_dungeon" => "slots" \in DOMAIN seen
               /\ asked.type = "open_lootboxes_max" => "openable" \in DOMAIN seen
               /\ asked.type \in {"finalize_epoch"} \cup Claims => "epoch" \in DOMAIN seen
               /\ asked.type \in Claims => "claimed" \in DOMAIN seen
               /\ asked.type \in Listed => "listing" \in DOMAIN seen
               /\ asked.type \in {"create_rfq"} \cup Listed => "now" \in DOMAIN seen
<1>1. PICK q, s, c : q = asked /\ s = seen /\ c = answer.code
  OBVIOUS
<1>2. q \in Questions /\ c = Code(q, s) /\ c \notin {Ok, "ERROR"} /\ \A i \in DOMAIN Reads(q) : Reads(q)[i] \in DOMAIN s
  BY <1>1 DEF AdviceInv, AdviceTypeOK, Refused, AnswerIsRead
<1>3. \A f : InSeq(f, Reads(q)) => f \in DOMAIN s
  BY <1>2 DEF InSeq
<1>4. q.of # "cost" /\ Cause(q, s, c)
  BY <1>2, CodeHasCause
<1>5. q.of \in {"preflight", "menu"} \/ c = "ONLY_CHARACTER_OWNER"
  BY <1>2, <1>4, PlanCode, QuestionTypes
<1> QED BY <1>1, <1>2, <1>3, <1>4, <1>5, ReadsHave

LEMMA RefusedInv ==
  ASSUME AdviceInv
  PROVE  RefusedAtSomeMoment
<1> SUFFICES ASSUME Refused, asked.type = "create_rfq" => asked.arg > 0, held PROVE FALSE
  BY DEF RefusedAtSomeMoment
<1>1. PICK q, s, c : q = asked /\ s = seen /\ c = answer.code
  OBVIOUS
<1>2. AmountFits(q) /\ \A f \in DOMAIN s : Agrees(q, f, s[f])
  BY <1>1 DEF AdviceInv
<1>3. Cause(q, s, c) /\ c # "DEPLOYER_CLAIM_DISABLED" /\ q \in Questions /\ q.arg \in Nat
  BY <1>1, RefusalIsRead, QuestionTypes DEF AdviceInv, AdviceTypeOK, Refused
<1>4. q.type \in Owned => s.mine
  <2>1. q.type \in Owned => "mine" \in DOMAIN s
    BY <1>1, RefusalIsRead
  <2> QED BY <1>2, <2>1 DEF Agrees
<1>5. CASE c = "ONLY_CHARACTER_OWNER"
  BY <1>3, <1>4, <1>5 DEF Cause
<1>6. CASE c # "ONLY_CHARACTER_OWNER"
  <2>1. /\ q.commit => "window" \in DOMAIN s
        /\ q.type \in {"start_dungeon", "next_room"} \cup Gear => "run" \in DOMAIN s
        /\ q.type = "start_dungeon" => "slots" \in DOMAIN s
        /\ q.type = "open_lootboxes_max" => "openable" \in DOMAIN s
        /\ q.type \in {"finalize_epoch"} \cup Claims => "epoch" \in DOMAIN s
        /\ q.type \in Claims => "claimed" \in DOMAIN s
        /\ q.type \in Listed => "listing" \in DOMAIN s
        /\ q.type \in {"create_rfq"} \cup Listed => "now" \in DOMAIN s
    BY <1>1, <1>6, RefusalIsRead
  <2>2. q.commit => ~s.window.resolved /\ ~s.window.expired /\ s.window.canReveal
    BY <1>2, <2>1 DEF Agrees
  <2>3. /\ q.type \in {"start_dungeon"} \cup Gear => ~s.run.active
        /\ q.type = "next_room" => s.run.active /\ ~(q.arg > s.run.charges)
    BY <1>2, <2>1 DEF Agrees
  <2>4. q.type = "start_dungeon" => ~(s.slots < q.arg)
    BY <1>2, <2>1 DEF Agrees
  <2>5. q.type = "open_lootboxes_max" => s.openable # 0
    BY <1>2, <2>1 DEF Agrees
  <2>6. /\ q.type = "finalize_epoch" => s.epoch # "finalized"
        /\ q.type \in Claims => s.epoch = "finalized"
        /\ q.type \in Claims => ~s.claimed
    BY <1>2, <2>1 DEF Agrees
  <2>7. (q.type \in Listed => s.listing.active) /\ (q.type \in Closing => s.listing.mine)
    BY <1>2, <2>1 DEF Agrees, Listed
  <2>8. q.type \in {"create_rfq"} \cup Listed => s.now \in Nat
    BY <1>1, <2>1 DEF AdviceInv, ReadTells
  <2>9. /\ q.type \in {"fulfill_trade_offer", "fill_rfq"} => ~(s.now > OfferExpiry)
        /\ q.type = "cancel_expired_trade_offer" => ~(s.now <= OfferExpiry)
        /\ q.type = "create_rfq" => ~(q.arg <= s.now \/ q.arg > s.now + MaxTtl)
    <3>1. {"fulfill_trade_offer", "fill_rfq", "cancel_expired_trade_offer"} \subseteq Listed
      BY DEF Listed
    <3>2. q.type = "create_rfq" => q.arg > 0
      BY <1>1
    <3>3. /\ q.type \in {"fulfill_trade_offer", "fill_rfq"} => s.now <= OfferExpiry
          /\ q.type = "cancel_expired_trade_offer" => s.now > OfferExpiry
          /\ q.type = "create_rfq" => q.arg > s.now /\ q.arg <= s.now + MaxTtl
      BY <1>2, <2>1, <3>1, <3>2 DEF Agrees
    <3> QED BY <1>3, <2>8, <3>1, <3>3, AdviceAssumption
  <2>10. q.type = "create_rfq" => q.fits
    BY <1>2 DEF AmountFits
  <2> QED BY <1>3, <1>6, <2>2, <2>3, <2>4, <2>5, <2>6, <2>7, <2>9, <2>10 DEF Cause
<1> QED BY <1>5, <1>6

LEMMA FinalInv ==
  ASSUME AdviceInv
  PROVE  RefusedForGood
<1> SUFFICES ASSUME Refused, ~Retryable(answer.code), answer.code \notin Passing, Accepts(asked) PROVE FALSE
  BY DEF RefusedForGood
<1>1. PICK q, s, c, w : q = asked /\ s = seen /\ c = answer.code /\ w = world
  OBVIOUS
<1>2. w \in WorldState /\ w.block \in Nat /\ \A f \in DOMAIN s : ReadTells(w, f, s[f])
  BY <1>1 DEF AdviceInv, AdviceTypeOK, WorldState
<1>3. /\ Cause(q, s, c) /\ c # "DEPLOYER_CLAIM_DISABLED" /\ c \notin Passing
      /\ c \notin {"REVEAL_TOO_EARLY", "EPOCH_NOT_FINALIZED", "OFFER_NOT_EXPIRED"}
  BY <1>1, RefusalIsRead DEF Refused, Retryable
<1>4. /\ q.commit => w.commit /\ ~(w.block > RevealWindow)
      /\ q.type \in Owned => w.mine
      /\ q.type = "finalize_epoch" => w.epoch = "over"
      /\ q.type \in Claims => ~w.claimed
      /\ q.type \in Listed => w.listing.active
      /\ q.type \in Closing => w.listing.mine
      /\ q.type \in {"fulfill_trade_offer", "fill_rfq"} => w.block <= OfferExpiry
      /\ q.type = "create_rfq" => q.fits
  <2>1. /\ q.commit => w.commit /\ w.block \in RevealDelay..RevealWindow
        /\ q.type \in Owned => w.mine
        /\ q.type = "finalize_epoch" => w.epoch = "over"
        /\ q.type \in Claims => ~w.claimed
        /\ q.type \in Listed => w.listing.active
        /\ q.type \in Closing => w.listing.mine
        /\ q.type \in {"fulfill_trade_offer", "fill_rfq"} => w.block <= OfferExpiry
        /\ q.type = "create_rfq" => q.fits
    BY <1>1 DEF Accepts, InWindow
  <2> QED BY <1>2, <2>1, AdviceAssumption
<1>5. q.type \in Owned => s.mine
  <2>1. q.type \in Owned => "mine" \in DOMAIN s
    BY <1>1, RefusalIsRead
  <2> QED BY <1>2, <1>4, <2>1 DEF ReadTells
<1>6. CASE c = "ONLY_CHARACTER_OWNER"
  BY <1>3, <1>5, <1>6 DEF Cause
<1>7. CASE c # "ONLY_CHARACTER_OWNER"
  <2>1. /\ q.commit => "window" \in DOMAIN s
        /\ q.type \in {"finalize_epoch"} \cup Claims => "epoch" \in DOMAIN s
        /\ q.type \in Claims => "claimed" \in DOMAIN s
        /\ q.type \in Listed => "listing" \in DOMAIN s /\ "now" \in DOMAIN s
    BY <1>1, <1>7, RefusalIsRead
  <2>2. q.commit => ~s.window.resolved /\ ~s.window.expired
    BY <1>2, <1>4, <2>1 DEF ReadTells
  <2>3. (q.type = "finalize_epoch" => s.epoch # "finalized") /\ (q.type \in Claims => ~s.claimed)
    BY <1>2, <1>4, <2>1 DEF ReadTells
  <2>4. (q.type \in Listed => s.listing.active) /\ (q.type \in Closing => s.listing.mine)
    BY <1>2, <1>4, <2>1 DEF ReadTells, Listed
  <2>5. q.type \in {"fulfill_trade_offer", "fill_rfq"} => ~(s.now > OfferExpiry)
    <3>1. q.type \in Listed => s.now \in Nat /\ s.now <= w.block
      BY <1>2, <2>1 DEF ReadTells
    <3>2. q.type \in {"fulfill_trade_offer", "fill_rfq"} => q.type \in Listed
      BY DEF Listed
    <3> QED BY <1>2, <1>4, <3>1, <3>2, AdviceAssumption
  <2> QED BY <1>3, <1>4, <1>7, <2>2, <2>3, <2>4, <2>5 DEF Cause, Passing
<1> QED BY <1>6, <1>7

\* However the chain moves between the reads of an answer (client.ts, valid-actions.ts), what preflight.ts or
\* the menu refuses, the contract would have refused at some moment between the question and the answer, or
\* would have taken without doing all that was asked (GameWorld.sol: a maximal opening that opens nothing, a
\* list of rooms with more potions than charges).
THEOREM RefusalsAlwaysHadCause == Spec => []RefusedAtSomeMoment
BY AdviceAlwaysInv, RefusedInv, PTL

\* A refusal of preflight.ts that is not retryable, about an owner, a commit, an epoch or an offer, is final:
\* the contract does not accept that action at any later moment.
THEOREM FinalRefusalsAlwaysStand == Spec => []RefusedForGood
BY AdviceAlwaysInv, FinalInv, PTL

\* Who sends the approvals and the value that tx-intents.ts, preflight.ts or cost-estimator.ts told him, while
\* nobody else acts, is not turned down for an approval or for the value.
THEOREM AdviceAlwaysSuffices == Spec => []AdviceSuffices
<1>1. AdviceInv => AdviceSuffices
  BY DEF AdviceInv
<1> QED BY <1>1, AdviceAlwaysInv, PTL
=============================================================================
