-------------------------- MODULE TokenStoreProofs --------------------------
(***************************************************************************)
(* What TokenStore promises for any number of clients, codes and tokens,   *)
(* however requests and saves interleave, fail, and are cut off by         *)
(* restarts.                                                               *)
(*                                                                         *)
(* The heart of it is a statement about every table there is: the live     *)
(* one, the snapshot in each save, and the one in the file.  No step makes *)
(* a table that is not one of the old ones or the new live one, and the    *)
(* history a table is judged by only grows, so the old ones stay sound.    *)
(***************************************************************************)
EXTENDS TokenStore, TLAPS

Live == [refresh |-> refresh_tokens, access |-> access_tokens]

RefreshSound(t) ==
    \A r \in RefreshTokens :
        t.refresh[r] # NoEntry =>
            opened_by[r] # NoEntry /\ t.refresh[r] = issued_to[opened_by[r]]

AccessSound(t) ==
    \A a \in AccessTokens :
        t.access[a] # NoEntry =>
            minted_by[a] # NoEntry /\ t.access[a].client_id = t.refresh[minted_by[a]]

Sound(t) == RefreshSound(t) /\ AccessSound(t)

(* A code in the table carries the client it was issued to; a session was *)
(* opened with a code that was issued.                                    *)
CodesKnown ==
    /\ \A c \in Codes :
          auth_codes[c] # NoEntry => auth_codes[c].client_id = issued_to[c]
    /\ \A r \in RefreshTokens :
          opened_by[r] # NoEntry => issued_to[opened_by[r]] # NoEntry

(* A revoked session was one, and is gone. *)
RevokedGone ==
    \A r \in revoked : opened_by[r] # NoEntry /\ refresh_tokens[r] = NoEntry

TokenInv ==
    /\ TypeOK
    /\ CodesKnown
    /\ CodeOpensOneSession
    /\ \A t \in Tables : Sound(t)
    /\ RevokedGone
-----------------------------------------------------------------------------
LEMMA StartSaveFlags ==
    ASSUME TypeOK, NEW s, NEW r, NEW q, StartSave(s, q, r)
    PROVE  disturbed' \in BOOLEAN
BY DEF StartSave, TypeOK

\* A save in flight is well typed when the tables it snapshots are.
LEMMA StartSaveTyped ==
    ASSUME TypeOK, NEW s \in Slots, NEW r \in RefreshTokens, NEW q \in Request,
           StartSave(s, q, r),
           refresh_tokens' \in [RefreshTokens -> Clients \cup {NoEntry}],
           access_tokens' \in [AccessTokens -> Entry \cup {NoEntry}]
    PROVE  saves' \in [Slots -> Save \cup {NoEntry}]
<1> DEFINE overlap == \E t \in Slots : saves[t] # NoEntry
           new == [snap    |-> [refresh |-> refresh_tokens', access |-> access_tokens'],
                   shared  |-> overlap,
                   request |-> q,
                   token   |-> r]
<1>1. new \in Save
  <2>1. [refresh |-> refresh_tokens', access |-> access_tokens'] \in Snapshot
      BY DEF Snapshot
  <2>2. overlap \in BOOLEAN
      OBVIOUS
  <2> HIDE DEF overlap
  <2> QED
      BY <2>1, <2>2 DEF Save
<1> HIDE DEF new
<1>2. \A t \in Slots : saves[t] \in Save => [saves[t] EXCEPT !.shared = TRUE] \in Save
    BY DEF Save
<1>3. saves' = [t \in Slots |->
          IF t = s THEN new
          ELSE IF saves[t] = NoEntry THEN NoEntry
          ELSE [saves[t] EXCEPT !.shared = TRUE]]
    BY DEF StartSave, new
<1> QED
    BY <1>1, <1>2, <1>3 DEF TypeOK

\* Minting keeps the tables of access tokens well typed.
LEMMA MintTyped ==
    ASSUME TypeOK, NEW a \in AccessTokens, NEW r \in RefreshTokens,
           NEW client \in Clients, Mint(a, r, client)
    PROVE  /\ access_tokens' \in [AccessTokens -> Entry \cup {NoEntry}]
           /\ minted_by' \in [AccessTokens -> RefreshTokens \cup {NoEntry}]
           /\ minted_at' \in [AccessTokens -> Time]
<1>1. [client_id |-> client, issued_at |-> wall] \in Entry
    BY DEF TypeOK, Entry
<1> QED
    BY <1>1 DEF TypeOK, Mint

\* A step of the store leads to a well typed state.
LEMMA TypeStep ==
    ASSUME TypeOK, [Next]_vars
    PROVE  TypeOK'
<1> USE TokenConstants
<1>1. ASSUME NEW c \in Codes, NEW client \in Clients, IssueCode(c, client)
      PROVE  TypeOK'
  <2>1. [client_id |-> client, issued_at |-> uptime] \in Entry
      BY DEF TypeOK, Entry
  <2> QED
      BY <1>1, <2>1 DEF IssueCode, TypeOK, clocks
<1>2. ASSUME NEW c \in Codes, NEW client \in Clients, RejectCode(c, client)
      PROVE  TypeOK'
    BY <1>2 DEF RejectCode, ConsumeCode, TypeOK, clocks, history
<1>3. ASSUME NEW c \in Codes, NEW client \in Clients, NEW r \in RefreshTokens,
             NEW a \in AccessTokens, NEW s \in Slots, ExchangeCode(c, client, r, a, s)
      PROVE  TypeOK'
  <2>1. Mint(a, r, client) /\ StartSave(s, "exchange", r)
      BY <1>3 DEF ExchangeCode
  <2>2. refresh_tokens' \in [RefreshTokens -> Clients \cup {NoEntry}]
      BY <1>3 DEF ExchangeCode, TypeOK
  <2>3. saves' \in [Slots -> Save \cup {NoEntry}]
      BY <2>1, <2>2, MintTyped, StartSaveTyped DEF Request
  <2> QED
      BY <1>3, <2>1, <2>2, <2>3, MintTyped, StartSaveFlags DEF ExchangeCode, ConsumeCode, TypeOK, clocks
<1>4. ASSUME NEW r \in RefreshTokens, NEW s \in Slots, Revoke(r, s)
      PROVE  TypeOK'
  <2>1. /\ refresh_tokens' \in [RefreshTokens -> Clients \cup {NoEntry}]
        /\ access_tokens' \in [AccessTokens -> Entry \cup {NoEntry}]
      BY <1>4 DEF Revoke, TypeOK
  <2>2. StartSave(s, "revoke", r)
      BY <1>4 DEF Revoke
  <2>3. saves' \in [Slots -> Save \cup {NoEntry}]
      BY <2>1, <2>2, StartSaveTyped DEF Request
  <2> QED
      BY <1>4, <2>1, <2>2, <2>3, StartSaveFlags DEF Revoke, TypeOK, clocks
<1>5. ASSUME NEW r \in RefreshTokens, NEW s \in Slots, NEW a \in AccessTokens,
             NEW claimed \in Clients \cup {NoEntry}, RefreshAccess(r, claimed, a, s)
      PROVE  TypeOK'
  <2>1. refresh_tokens[r] \in Clients /\ Mint(a, r, refresh_tokens[r])
      BY <1>5 DEF RefreshAccess, TypeOK
  <2>2. StartSave(s, "refresh", r) /\ UNCHANGED <<auth_codes, refresh_tokens>>
      BY <1>5 DEF RefreshAccess
  <2>3. saves' \in [Slots -> Save \cup {NoEntry}]
      BY <2>1, <2>2, MintTyped, StartSaveTyped DEF Request, TypeOK
  <2> QED
      BY <1>5, <2>1, <2>2, <2>3, MintTyped, StartSaveFlags DEF RefreshAccess, TypeOK, clocks
<1>6. ASSUME NEW a \in AccessTokens, Evict(a)
      PROVE  TypeOK'
    BY <1>6 DEF Evict, TypeOK, clocks, history
<1>7. ASSUME NEW s \in Slots, FinishSave(s)
      PROVE  TypeOK'
  <2>1. saves[s] \in Save /\ saves[s].snap \in Snapshot /\ saves[s].token \in RefreshTokens
      BY <1>7 DEF FinishSave, TypeOK, Save
  <2>2. \A u \in Slots : saves[u] # NoEntry => saves[u].snap \in Snapshot
      BY DEF TypeOK, Save
  <2>3. file' \in Snapshot \cup {Damaged}
      BY <1>7, <2>1, <2>2 DEF FinishSave, TypeOK
  <2>4. acked' \in SUBSET RefreshTokens /\ dead' \in SUBSET RefreshTokens
      BY <1>7, <2>1 DEF FinishSave, TypeOK
  <2> QED
      BY <1>7, <2>3, <2>4 DEF FinishSave, TypeOK, tables, clocks
<1>8. CASE Restart
  <2>1. EmptySnapshot \in Snapshot
      BY DEF EmptySnapshot, EmptyRefresh, EmptyAccess, Snapshot
  <2>2. /\ refresh_tokens' \in [RefreshTokens -> Clients \cup {NoEntry}]
        /\ access_tokens' \in [AccessTokens -> Entry \cup {NoEntry}]
      BY <1>8, <2>1 DEF Restart, TypeOK, Snapshot
  <2> QED
      BY <1>8, <2>2 DEF Restart, TypeOK, clocks
<1>9. CASE Tick \/ SetClockBack
    BY <1>9 DEF Tick, SetClockBack, TypeOK, Time, tables, history
<1>10. CASE UNCHANGED vars
    BY <1>10 DEF vars, TypeOK, tables, clocks, history
<1> QED
    BY <1>1, <1>2, <1>3, <1>4, <1>5, <1>6, <1>7, <1>8, <1>9, <1>10 DEF Next
-----------------------------------------------------------------------------
\* History only grows.
LEMMA HistoryGrows ==
    ASSUME TypeOK, [Next]_vars
    PROVE  /\ \A c \in Codes : issued_to[c] # NoEntry => issued_to'[c] = issued_to[c]
           /\ \A r \in RefreshTokens : opened_by[r] # NoEntry => opened_by'[r] = opened_by[r]
           /\ \A a \in AccessTokens : minted_by[a] # NoEntry =>
                  minted_by'[a] = minted_by[a] /\ minted_at'[a] = minted_at[a]
<1>1. ASSUME NEW c \in Codes, NEW client \in Clients,
             IssueCode(c, client) \/ RejectCode(c, client)
      PROVE  /\ UNCHANGED <<opened_by, minted_by, minted_at>>
             /\ issued_to' = issued_to
                \/ (issued_to[c] = NoEntry /\ issued_to' = [issued_to EXCEPT ![c] = client])
    BY <1>1 DEF IssueCode, RejectCode, history
<1>2. ASSUME NEW c \in Codes, NEW client \in Clients, NEW r \in RefreshTokens,
             NEW a \in AccessTokens, NEW s \in Slots, ExchangeCode(c, client, r, a, s)
      PROVE  /\ UNCHANGED issued_to
             /\ opened_by[r] = NoEntry /\ opened_by' = [opened_by EXCEPT ![r] = c]
             /\ minted_by[a] = NoEntry /\ minted_by' = [minted_by EXCEPT ![a] = r]
             /\ minted_at' = [minted_at EXCEPT ![a] = uptime]
    BY <1>2 DEF ExchangeCode, Mint
<1>3. ASSUME NEW r \in RefreshTokens, NEW s \in Slots, NEW a \in AccessTokens,
             NEW claimed \in Clients \cup {NoEntry}, RefreshAccess(r, claimed, a, s)
      PROVE  /\ UNCHANGED <<issued_to, opened_by>>
             /\ minted_by[a] = NoEntry /\ minted_by' = [minted_by EXCEPT ![a] = r]
             /\ minted_at' = [minted_at EXCEPT ![a] = uptime]
    BY <1>3 DEF RefreshAccess, Mint
<1>4. ASSUME \/ \E r \in RefreshTokens, s \in Slots : Revoke(r, s)
             \/ \E a \in AccessTokens : Evict(a)
             \/ \E s \in Slots : FinishSave(s)
             \/ Restart \/ Tick \/ SetClockBack \/ UNCHANGED vars
      PROVE  UNCHANGED <<issued_to, opened_by, minted_by, minted_at>>
    BY <1>4 DEF Revoke, Evict, FinishSave, Restart, Tick, SetClockBack, vars, history
<1> QED
    BY <1>1, <1>2, <1>3, <1>4 DEF Next, TypeOK

\* Of what StartSave snapshots and what was in flight.
LEMMA StartSaveTables ==
    ASSUME TypeOK, NEW s \in Slots, NEW q, NEW r, StartSave(s, q, r),
           file' = file, NEW t \in Tables'
    PROVE  t \in Tables \/ t = Live'
<1>1. CASE t = Live'
    BY <1>1
<1>2. CASE t \in {file'} \ {Damaged}
    BY <1>2 DEF Tables
<1>3. CASE \E u \in Slots : saves'[u] # NoEntry /\ t = saves'[u].snap
  <2>1. PICK u \in Slots : saves'[u] # NoEntry /\ t = saves'[u].snap
      BY <1>3
  <2>2. CASE u = s
      BY <2>1, <2>2 DEF StartSave, Live
  <2>3. CASE u # s
    <3>1. saves[u] \in Save /\ saves[u] # NoEntry
        BY <2>1, <2>3 DEF StartSave, TypeOK
    <3>2. saves'[u] = [saves[u] EXCEPT !.shared = TRUE]
        BY <2>3, <3>1 DEF StartSave
    <3>3. t = saves[u].snap
        BY <2>1, <3>1, <3>2 DEF Save
    <3> QED
        BY <3>1, <3>3 DEF Tables
  <2> QED
      BY <2>2, <2>3
<1> QED
    BY <1>1, <1>2, <1>3 DEF Tables, Live

\* No step makes a table out of nothing: each is an old one or the new live one.
LEMMA TablesStep ==
    ASSUME TypeOK, [Next]_vars, NEW t \in Tables'
    PROVE  t \in Tables \/ t = Live'
<1>1. ASSUME UNCHANGED <<saves, file>>
      PROVE  t \in Tables \/ t = Live'
    BY <1>1 DEF Tables, Live
<1>2. CASE \/ \E c \in Codes, client \in Clients : IssueCode(c, client) \/ RejectCode(c, client)
           \/ \E a \in AccessTokens : Evict(a)
           \/ Tick \/ SetClockBack \/ UNCHANGED vars
    BY <1>1, <1>2 DEF IssueCode, RejectCode, Evict, Tick, SetClockBack, vars
<1>3. ASSUME NEW c \in Codes, NEW client \in Clients, NEW r \in RefreshTokens,
             NEW a \in AccessTokens, NEW s \in Slots, ExchangeCode(c, client, r, a, s)
      PROVE  t \in Tables \/ t = Live'
    BY <1>3, StartSaveTables DEF ExchangeCode
<1>4. ASSUME NEW r \in RefreshTokens, NEW s \in Slots, Revoke(r, s)
      PROVE  t \in Tables \/ t = Live'
    BY <1>4, StartSaveTables DEF Revoke
<1>5. ASSUME NEW r \in RefreshTokens, NEW s \in Slots, NEW a \in AccessTokens,
             NEW claimed \in Clients \cup {NoEntry}, RefreshAccess(r, claimed, a, s)
      PROVE  t \in Tables \/ t = Live'
    BY <1>5, StartSaveTables DEF RefreshAccess
<1>6. ASSUME NEW s \in Slots, FinishSave(s)
      PROVE  t \in Tables \/ t = Live'
  <2>1. /\ saves[s] # NoEntry
        /\ \/ \E u \in Slots : saves[u] # NoEntry /\ file' = saves[u].snap
           \/ file' = file \/ file' = Damaged
        /\ saves' = [saves EXCEPT ![s] = NoEntry]
        /\ UNCHANGED <<refresh_tokens, access_tokens>>
      BY <1>6 DEF FinishSave, tables
  <2> QED
      BY <2>1 DEF Tables, TypeOK
<1>7. CASE Restart
    BY <1>7 DEF Restart, Tables, Live
<1> QED
    BY <1>2, <1>3, <1>4, <1>5, <1>6, <1>7 DEF Next
-----------------------------------------------------------------------------
LEMMA TokenInit == Init => TokenInv
<1> SUFFICES ASSUME Init PROVE TokenInv
    OBVIOUS
<1> USE TokenConstants
<1>1. TypeOK
  <2>1. EmptySnapshot \in Snapshot
      BY DEF EmptySnapshot, EmptyRefresh, EmptyAccess, Snapshot
  <2>2. disturbed \in BOOLEAN
      BY DEF Init
  <2> QED
      BY <2>1, <2>2 DEF Init, TypeOK, EmptyRefresh, EmptyAccess, Time
<1>2. CodesKnown /\ CodeOpensOneSession /\ RevokedGone
    BY DEF Init, CodesKnown, CodeOpensOneSession, RevokedGone
<1>3. ASSUME NEW t \in Tables
      PROVE  Sound(t)
  <2>1. t = EmptySnapshot
      BY <1>3 DEF Init, Tables, EmptySnapshot
  <2> QED
      BY <2>1 DEF Sound, RefreshSound, AccessSound, EmptySnapshot, EmptyRefresh, EmptyAccess
<1> QED
    BY <1>1, <1>2, <1>3 DEF TokenInv

\* A sound table stays sound.
LEMMA SoundStays ==
    ASSUME TokenInv, [Next]_vars, NEW t \in Tables
    PROVE  Sound(t)'
<1>1. TypeOK /\ CodesKnown /\ Sound(t)
    BY DEF TokenInv
<1>2. RefreshSound(t)'
  <2> SUFFICES ASSUME NEW r \in RefreshTokens, t.refresh[r] # NoEntry
               PROVE  opened_by'[r] # NoEntry /\ t.refresh[r] = issued_to'[opened_by'[r]]
      BY DEF RefreshSound
  <2>1. /\ opened_by[r] # NoEntry /\ t.refresh[r] = issued_to[opened_by[r]]
        /\ opened_by[r] \in Codes
      BY <1>1 DEF Sound, RefreshSound, TypeOK
  <2> QED
      BY <1>1, <2>1, HistoryGrows DEF CodesKnown
<1>3. AccessSound(t)'
    BY <1>1, HistoryGrows DEF Sound, AccessSound
<1> QED
    BY <1>2, <1>3 DEF Sound

\* The new live table is sound.
LEMMA LiveSound ==
    ASSUME TokenInv, [Next]_vars
    PROVE  Sound(Live)'
<1> USE TokenConstants
<1>1. TypeOK /\ CodesKnown /\ Live \in Tables /\ Sound(Live)
    BY DEF TokenInv, Tables, Live
<1>2. ASSUME Live' = Live
      PROVE  Sound(Live)'
  <2>1. Live' \in Tables
      BY <1>1, <1>2
  <2>2. ASSUME NEW t \in Tables, t = Live'
        PROVE  Sound(Live)'
    <3>1. Sound(t)'
        BY SoundStays
    <3> QED
        BY <3>1, <2>2 DEF Sound, RefreshSound, AccessSound, Live
  <2> QED
      BY <2>1, <2>2
<1>3. CASE \/ \E c \in Codes, client \in Clients : IssueCode(c, client) \/ RejectCode(c, client)
           \/ \E s \in Slots : FinishSave(s)
           \/ Tick \/ SetClockBack \/ UNCHANGED vars
    BY <1>2, <1>3
    DEF IssueCode, RejectCode, FinishSave, Tick, SetClockBack, vars, tables, Live
<1>4. /\ \A r \in RefreshTokens : refresh_tokens[r] # NoEntry =>
            /\ opened_by[r] \in Codes /\ opened_by[r] # NoEntry
            /\ refresh_tokens[r] = issued_to[opened_by[r]]
      /\ \A a \in AccessTokens : access_tokens[a] # NoEntry =>
            /\ minted_by[a] \in RefreshTokens /\ minted_by[a] # NoEntry
            /\ access_tokens[a].client_id = refresh_tokens[minted_by[a]]
            /\ access_tokens[a].client_id \in Clients
    BY <1>1 DEF Sound, RefreshSound, AccessSound, Live, TypeOK, Entry
<1>5. ASSUME NEW c \in Codes, NEW client \in Clients, NEW r \in RefreshTokens,
             NEW a \in AccessTokens, NEW s \in Slots, ExchangeCode(c, client, r, a, s)
      PROVE  Sound(Live)'
  <2>1. /\ auth_codes[c] # NoEntry /\ auth_codes[c].client_id = client
        /\ opened_by[r] = NoEntry /\ minted_by[a] = NoEntry
        /\ refresh_tokens' = [refresh_tokens EXCEPT ![r] = client]
        /\ opened_by' = [opened_by EXCEPT ![r] = c]
        /\ access_tokens' = [access_tokens EXCEPT ![a] = [client_id |-> client, issued_at |-> wall]]
        /\ minted_by' = [minted_by EXCEPT ![a] = r]
        /\ issued_to' = issued_to
      BY <1>5 DEF ExchangeCode, ConsumeCode, CodeGood, Mint
  <2>2. issued_to[c] = client
      BY <1>1, <2>1 DEF CodesKnown
  <2>3. RefreshSound(Live)'
      BY <1>1, <1>4, <2>1, <2>2 DEF RefreshSound, Live, TypeOK
  <2>4. \A b \in AccessTokens : access_tokens[b] # NoEntry => b # a /\ minted_by[b] # r
      BY <1>4, <2>1
  <2>5. AccessSound(Live)'
      BY <1>1, <1>4, <2>1, <2>4 DEF AccessSound, Live, TypeOK
  <2> QED
      BY <2>3, <2>5 DEF Sound
<1>6. ASSUME NEW r \in RefreshTokens, NEW s \in Slots, NEW a \in AccessTokens,
             NEW claimed \in Clients \cup {NoEntry}, RefreshAccess(r, claimed, a, s)
      PROVE  Sound(Live)'
  <2>1. /\ minted_by[a] = NoEntry
        /\ access_tokens' = [access_tokens EXCEPT ![a] =
                                [client_id |-> refresh_tokens[r], issued_at |-> wall]]
        /\ minted_by' = [minted_by EXCEPT ![a] = r]
        /\ UNCHANGED <<refresh_tokens, issued_to, opened_by>>
      BY <1>6 DEF RefreshAccess, Mint
  <2>2. RefreshSound(Live)'
      BY <1>4, <2>1 DEF RefreshSound, Live
  <2>3. \A b \in AccessTokens : access_tokens[b] # NoEntry => b # a
      BY <1>4, <2>1
  <2>4. AccessSound(Live)'
      BY <1>1, <1>4, <2>1, <2>3 DEF AccessSound, Live, TypeOK
  <2> QED
      BY <2>2, <2>4 DEF Sound
<1>7. ASSUME NEW r \in RefreshTokens, NEW s \in Slots, Revoke(r, s)
      PROVE  Sound(Live)'
  <2>1. /\ refresh_tokens' = [refresh_tokens EXCEPT ![r] = NoEntry]
        /\ UNCHANGED <<issued_to, opened_by, minted_by>>
      BY <1>7 DEF Revoke
  <2>2. RefreshSound(Live)'
      BY <1>1, <1>4, <2>1 DEF RefreshSound, Live, TypeOK
  <2>3. ASSUME NEW b \in AccessTokens, access_tokens'[b] # NoEntry
        PROVE  /\ access_tokens'[b] = access_tokens[b]
               /\ minted_by[b] # r
      BY <1>4, <1>7, <2>3 DEF Revoke
  <2>4. AccessSound(Live)'
      BY <1>1, <1>4, <2>1, <2>3 DEF AccessSound, Live, TypeOK
  <2> QED
      BY <2>2, <2>4 DEF Sound
<1>8. ASSUME NEW a \in AccessTokens, Evict(a)
      PROVE  Sound(Live)'
    BY <1>1, <1>4, <1>8 DEF Evict, Sound, RefreshSound, AccessSound, Live, TypeOK, history
<1>9. CASE Restart
  <2>1. UNCHANGED <<issued_to, opened_by, minted_by>>
      BY <1>9 DEF Restart
  <2>2. CASE file = Damaged
      BY <2>2, <1>9
      DEF Restart, EmptySnapshot, EmptyRefresh, EmptyAccess, Sound, RefreshSound, AccessSound, Live
  <2>3. CASE file # Damaged
    <3>1. Sound(file) /\ refresh_tokens' = file.refresh /\ access_tokens' = file.access
        BY <2>3, <1>9 DEF Restart, TokenInv, Tables
    <3> QED
        BY <2>1, <3>1 DEF Sound, RefreshSound, AccessSound, Live
  <2> QED
      BY <2>2, <2>3
<1> QED
    BY <1>3, <1>5, <1>6, <1>7, <1>8, <1>9 DEF Next
\* How codes move: issued once, consumed once.
LEMMA CodesStep ==
    ASSUME TokenInv, [Next]_vars
    PROVE  CodesKnown' /\ CodeOpensOneSession'
<1> USE TokenConstants
<1>1. TypeOK /\ CodesKnown /\ CodeOpensOneSession /\ TypeOK'
    BY TypeStep DEF TokenInv
<1>2. ASSUME NEW c \in Codes, NEW client \in Clients, IssueCode(c, client)
      PROVE  CodesKnown' /\ CodeOpensOneSession'
  <2>1. /\ issued_to[c] = NoEntry
        /\ issued_to' = [issued_to EXCEPT ![c] = client]
        /\ auth_codes'[c].client_id = client
        /\ \A d \in Codes \ {c} : auth_codes'[d] \in {auth_codes[d], NoEntry}
        /\ UNCHANGED opened_by
      BY <1>2, <1>1 DEF IssueCode, TypeOK
  <2>2. CodesKnown'
      BY <1>1, <2>1 DEF CodesKnown, TypeOK
  <2>3. CodeOpensOneSession'
      BY <1>1, <2>1 DEF CodesKnown, CodeOpensOneSession, TypeOK
  <2> QED
      BY <2>2, <2>3
<1>3. ASSUME NEW c \in Codes, NEW client \in Clients, RejectCode(c, client)
      PROVE  CodesKnown' /\ CodeOpensOneSession'
    BY <1>1, <1>3 DEF RejectCode, ConsumeCode, history, CodesKnown, CodeOpensOneSession, TypeOK
<1>4. ASSUME NEW c \in Codes, NEW client \in Clients, NEW r \in RefreshTokens,
             NEW a \in AccessTokens, NEW s \in Slots, ExchangeCode(c, client, r, a, s)
      PROVE  CodesKnown' /\ CodeOpensOneSession'
  <2>1. /\ auth_codes[c] # NoEntry /\ auth_codes' = [auth_codes EXCEPT ![c] = NoEntry]
        /\ auth_codes[c].client_id = client
        /\ opened_by[r] = NoEntry /\ opened_by' = [opened_by EXCEPT ![r] = c]
        /\ issued_to' = issued_to
      BY <1>4 DEF ExchangeCode, ConsumeCode, CodeGood
  <2>2. \A q \in RefreshTokens : opened_by[q] # c
      BY <1>1, <2>1 DEF CodeOpensOneSession
  <2>3. issued_to[c] = client
      BY <1>1, <2>1 DEF CodesKnown
  <2>4. CodesKnown'
      BY <1>1, <2>1, <2>3 DEF CodesKnown, TypeOK
  <2>5. CodeOpensOneSession'
      BY <1>1, <2>1, <2>2 DEF CodeOpensOneSession, TypeOK
  <2> QED
      BY <2>4, <2>5
<1>5. CASE Restart
    BY <1>1, <1>5 DEF Restart, CodesKnown, CodeOpensOneSession, TypeOK
<1>6. ASSUME UNCHANGED <<auth_codes, opened_by, issued_to>>
      PROVE  CodesKnown' /\ CodeOpensOneSession'
    BY <1>1, <1>6 DEF CodesKnown, CodeOpensOneSession
<1>7. ASSUME NEW r \in RefreshTokens, NEW s \in Slots,
             Revoke(r, s) \/ \E a \in AccessTokens, claimed \in Clients \cup {NoEntry} :
                               RefreshAccess(r, claimed, a, s)
      PROVE  UNCHANGED <<auth_codes, opened_by, issued_to>>
    BY <1>7 DEF Revoke, RefreshAccess
<1>8. ASSUME \/ \E a \in AccessTokens : Evict(a)
             \/ \E s \in Slots : FinishSave(s)
             \/ Tick \/ SetClockBack \/ UNCHANGED vars
      PROVE  UNCHANGED <<auth_codes, opened_by, issued_to>>
    BY <1>8 DEF Evict, FinishSave, Tick, SetClockBack, vars, tables, history
<1> QED
    BY <1>2, <1>3, <1>4, <1>5, <1>6, <1>7, <1>8 DEF Next

\* A revoked session stays gone until the next start.
LEMMA RevokedStep ==
    ASSUME TokenInv, [Next]_vars
    PROVE  RevokedGone'
<1> USE TokenConstants
<1>1. TypeOK /\ RevokedGone
    BY DEF TokenInv
<1>2. ASSUME NEW r \in RefreshTokens, NEW s \in Slots, Revoke(r, s)
      PROVE  RevokedGone'
  <2>1. refresh_tokens[r] # NoEntry => opened_by[r] # NoEntry
    <3>1. RefreshSound(Live)
        BY DEF TokenInv, Tables, Sound, Live
    <3> QED
        BY <3>1 DEF RefreshSound, Live
  <2>2. /\ refresh_tokens' = [refresh_tokens EXCEPT ![r] = NoEntry]
        /\ revoked' = IF refresh_tokens[r] # NoEntry THEN revoked \cup {r} ELSE revoked
        /\ UNCHANGED opened_by
      BY <1>2 DEF Revoke
  <2> QED
      BY <1>1, <2>1, <2>2 DEF RevokedGone, TypeOK
<1>3. ASSUME NEW c \in Codes, NEW client \in Clients, NEW r \in RefreshTokens,
             NEW a \in AccessTokens, NEW s \in Slots, ExchangeCode(c, client, r, a, s)
      PROVE  RevokedGone'
  <2>1. /\ opened_by[r] = NoEntry /\ opened_by' = [opened_by EXCEPT ![r] = c]
        /\ refresh_tokens' = [refresh_tokens EXCEPT ![r] = client]
        /\ revoked' = revoked
      BY <1>3 DEF ExchangeCode
  <2> QED
      BY <1>1, <2>1 DEF RevokedGone, TypeOK
<1>4. CASE Restart
    BY <1>4 DEF Restart, RevokedGone
<1>5. ASSUME UNCHANGED <<refresh_tokens, opened_by, revoked>>
      PROVE  RevokedGone'
    BY <1>1, <1>5 DEF RevokedGone
<1>6. ASSUME \/ \E c \in Codes, client \in Clients : IssueCode(c, client) \/ RejectCode(c, client)
             \/ \E r \in RefreshTokens, s \in Slots, a \in AccessTokens,
                   claimed \in Clients \cup {NoEntry} : RefreshAccess(r, claimed, a, s)
             \/ \E a \in AccessTokens : Evict(a)
             \/ \E s \in Slots : FinishSave(s)
             \/ Tick \/ SetClockBack \/ UNCHANGED vars
      PROVE  UNCHANGED <<refresh_tokens, opened_by, revoked>>
    BY <1>6
    DEF IssueCode, RejectCode, RefreshAccess, Evict, FinishSave, Tick, SetClockBack,
        vars, tables, history
<1> QED
    BY <1>2, <1>3, <1>4, <1>5, <1>6 DEF Next

\* TokenInv holds in every state.
LEMMA TokenInvariance == Spec => []TokenInv
<1>1. TokenInv /\ [Next]_vars => TokenInv'
  <2> SUFFICES ASSUME TokenInv, [Next]_vars PROVE TokenInv'
      OBVIOUS
  <2>1. TypeOK' /\ CodesKnown' /\ CodeOpensOneSession' /\ RevokedGone'
      BY TypeStep, CodesStep, RevokedStep DEF TokenInv
  <2>2. ASSUME NEW t \in Tables'
        PROVE  Sound(t)'
    <3>1. CASE t \in Tables
        BY <3>1, SoundStays
    <3>2. CASE t = Live'
        BY <3>2, LiveSound DEF Sound, RefreshSound, AccessSound
    <3> QED
        BY <3>1, <3>2, TablesStep DEF TokenInv
  <2> QED
      BY <2>1, <2>2 DEF TokenInv, Sound, RefreshSound, AccessSound
<1> QED
    BY TokenInit, <1>1, PTL DEF Spec
-----------------------------------------------------------------------------
\* Every reachable state is well typed.
THEOREM TypeCorrect == Spec => []TypeOK
<1>1. TokenInv => TypeOK
    BY DEF TokenInv
<1> QED
    BY <1>1, TokenInvariance, PTL

\* An authorization code opens one session at most (exchange_code removes it
\* before it looks at it), for any number of clients, codes and requests.
THEOREM CodesOpenOneSession == Spec => []CodeOpensOneSession
<1>1. TokenInv => CodeOpensOneSession
    BY DEF TokenInv
<1> QED
    BY <1>1, TokenInvariance, PTL

\* Sessions and access tokens never change hands, in memory, in a save under
\* way, in the file, and across restarts.
THEOREM SessionsKeepTheirClient == Spec => []SessionKeepsItsClient
<1>1. TokenInv => SessionKeepsItsClient
    BY DEF TokenInv, Sound, RefreshSound, AccessSound, SessionKeepsItsClient
<1> QED
    BY <1>1, TokenInvariance, PTL

\* Once revoke_refresh_token has run, none of the tokens of the session is
\* accepted before the next start.
THEOREM RevocationsTakeEffect == Spec => []RevocationTakesEffect
<1>1. TokenInv => RevocationTakesEffect
  <2> SUFFICES ASSUME TokenInv, NEW r \in revoked
               PROVE  /\ refresh_tokens[r] = NoEntry
                      /\ \A a \in AccessTokens : minted_by[a] = r => ~Accepts(a)
      BY DEF RevocationTakesEffect
  <2>1. refresh_tokens[r] = NoEntry /\ TypeOK /\ AccessSound(Live)
      BY DEF TokenInv, RevokedGone, Tables, Live, Sound
  <2>2. ASSUME NEW a \in AccessTokens, minted_by[a] = r
        PROVE  access_tokens[a] = NoEntry
      BY <2>1, <2>2, TokenConstants DEF AccessSound, Live, TypeOK, Entry
  <2> QED
      BY <2>1, <2>2 DEF Accepts
<1> QED
    BY <1>1, TokenInvariance, PTL
-----------------------------------------------------------------------------
(* Until the clock is set back, an entry's issued_at is the moment its token *)
(* was minted, in every table; once it has been, it stays behind.            *)
Dated(t) ==
    \A a \in AccessTokens : t.access[a] # NoEntry => t.access[a].issued_at = minted_at[a]

AllDated == \A t \in Tables : Dated(t)

DatedInv == wall <= uptime /\ (wall = uptime => AllDated)

LEMMA ClocksStep ==
    ASSUME TypeOK, wall <= uptime, [Next]_vars
    PROVE  wall' <= uptime' /\ (wall' = uptime' => wall = uptime)
<1>1. CASE UNCHANGED clocks
    BY <1>1 DEF clocks
<1>2. CASE Tick
    BY <1>2 DEF Tick, TypeOK, Time
<1>3. CASE SetClockBack
    BY <1>3, TokenConstants DEF SetClockBack, TypeOK, Time
<1> QED
    BY <1>1, <1>2, <1>3
    DEF Next, IssueCode, RejectCode, ExchangeCode, RefreshAccess, Revoke, Evict,
        FinishSave, Restart, vars

LEMMA DatedStep ==
    ASSUME TokenInv, wall = uptime, AllDated, TokenInv', [Next]_vars
    PROVE  AllDated'
<1> USE TokenConstants
<1>1. TypeOK /\ wall = uptime /\ Dated(Live) /\ AccessSound(Live)
    BY DEF AllDated, TokenInv, Tables, Live, Sound
<1>2. ASSUME NEW t \in Tables
      PROVE  Dated(t)'
  <2>1. Dated(t) /\ AccessSound(t)
      BY DEF AllDated, TokenInv, Sound
  <2> QED
      BY <1>1, <2>1, HistoryGrows DEF Dated, AccessSound
<1>3. ASSUME NEW a \in AccessTokens, NEW r \in RefreshTokens, NEW client, Mint(a, r, client)
      PROVE  Dated(Live)'
  <2>1. /\ access_tokens' = [access_tokens EXCEPT ![a] = [client_id |-> client, issued_at |-> wall]]
        /\ minted_at' = [minted_at EXCEPT ![a] = uptime]
      BY <1>3 DEF Mint
  <2> QED
      BY <1>1, <2>1 DEF Dated, Live, TypeOK
<1>4. ASSUME UNCHANGED minted_at,
             \A a \in AccessTokens : access_tokens'[a] \in {access_tokens[a], NoEntry}
      PROVE  Dated(Live)'
    BY <1>1, <1>4 DEF Dated, Live
<1>5. ASSUME Restart
      PROVE  Dated(Live)'
  <2>1. UNCHANGED minted_at
      BY <1>5 DEF Restart
  <2>2. CASE file = Damaged
      BY <2>2, <1>5 DEF Restart, EmptySnapshot, EmptyAccess, Dated, Live
  <2>3. CASE file # Damaged
    <3>1. Dated(file) /\ access_tokens' = file.access
        BY <2>3, <1>5 DEF Restart, AllDated, Tables
    <3> QED
        BY <2>1, <3>1 DEF Dated, Live
  <2> QED
      BY <2>2, <2>3
<1>6. Dated(Live)'
  <2>1. ASSUME NEW c \in Codes, NEW client \in Clients, NEW r \in RefreshTokens,
               NEW a \in AccessTokens, NEW s \in Slots, ExchangeCode(c, client, r, a, s)
        PROVE  Dated(Live)'
      BY <1>3, <2>1 DEF ExchangeCode
  <2>2. ASSUME NEW r \in RefreshTokens, NEW s \in Slots, NEW a \in AccessTokens,
               NEW claimed \in Clients \cup {NoEntry}, RefreshAccess(r, claimed, a, s)
        PROVE  Dated(Live)'
      BY <1>3, <2>2 DEF RefreshAccess
  <2>3. ASSUME NEW r \in RefreshTokens, NEW s \in Slots, Revoke(r, s)
        PROVE  Dated(Live)'
      BY <1>4, <2>3 DEF Revoke
  <2>4. ASSUME NEW a \in AccessTokens, Evict(a)
        PROVE  Dated(Live)'
      BY <1>1, <1>4, <2>4 DEF Evict, TypeOK, history
  <2>5. ASSUME \/ \E c \in Codes, client \in Clients : IssueCode(c, client) \/ RejectCode(c, client)
               \/ \E s \in Slots : FinishSave(s)
               \/ Tick \/ SetClockBack \/ UNCHANGED vars
        PROVE  Dated(Live)'
    <3>1. UNCHANGED <<access_tokens, minted_at>>
        BY <2>5
        DEF IssueCode, RejectCode, FinishSave, Tick, SetClockBack, vars, tables, history
    <3> QED
        BY <1>4, <3>1
  <2> QED
      BY <1>5, <2>1, <2>2, <2>3, <2>4, <2>5 DEF Next
<1>7. ASSUME NEW t \in Tables'
      PROVE  Dated(t)'
  <2>1. CASE t \in Tables
      BY <1>2, <2>1
  <2>2. CASE t = Live'
      BY <1>6, <2>2 DEF Dated
  <2> QED
      BY <1>1, <2>1, <2>2, TablesStep
<1> QED
    BY <1>7 DEF AllDated, Dated

\* As long as the clock was never set back, no access token is accepted beyond
\* its lifetime, however often the store is reloaded in between.
THEOREM AcceptedTokensStayYoung == Spec => []AcceptedTokensAreYoung
<1>1. Init => DatedInv
  <2> SUFFICES ASSUME Init PROVE DatedInv
      OBVIOUS
  <2>1. \A t \in Tables : Dated(t)
      BY DEF Init, Tables, Dated, EmptySnapshot, EmptyAccess
  <2> QED
      BY <2>1 DEF Init, DatedInv, AllDated
<1>2. DatedInv /\ TokenInv /\ TokenInv' /\ [Next]_vars => DatedInv'
  <2> SUFFICES ASSUME DatedInv, TokenInv, TokenInv', [Next]_vars
               PROVE  DatedInv'
      OBVIOUS
  <2>1. wall' <= uptime' /\ (wall' = uptime' => wall = uptime)
      BY ClocksStep DEF DatedInv, TokenInv
  <2>2. ASSUME wall' = uptime' PROVE AllDated'
      BY <2>1, <2>2, DatedStep DEF DatedInv
  <2> QED
      BY <2>1, <2>2 DEF DatedInv
<1>3. DatedInv /\ TokenInv => AcceptedTokensAreYoung
  <2> SUFFICES ASSUME DatedInv, TokenInv, NEW a \in AccessTokens, Accepts(a), wall = uptime
               PROVE  uptime - minted_at[a] <= AccessTTL
      BY DEF AcceptedTokensAreYoung
  <2>1. Dated(Live) /\ TypeOK
      BY DEF DatedInv, AllDated, TokenInv, Tables, Live
  <2>2. access_tokens[a] # NoEntry /\ ~(wall > access_tokens[a].issued_at + AccessTTL)
      BY DEF Accepts, AccessExpired
  <2>3. access_tokens[a].issued_at = minted_at[a]
      BY <2>1, <2>2 DEF Dated, Live
  <2> QED
      BY <2>1, <2>2, <2>3, TokenConstants DEF TypeOK, Time
<1> QED
    BY <1>1, <1>2, <1>3, TokenInvariance, PTL DEF Spec
-----------------------------------------------------------------------------
(* For as long as saves neither overlap nor fail an answer is about every    *)
(* table, so no restart takes it back.                                       *)

OneAtATime ==
    \A s, t \in Slots : saves[s] # NoEntry /\ saves[t] # NoEntry => s = t

Answered ==
    \A t \in Tables :
        /\ \A r \in acked \ withdrawn : t.refresh[r] # NoEntry
        /\ \A r \in dead : t.refresh[r] = NoEntry

(* What the save in flight is about to answer holds of its snapshot and of *)
(* the live table.                                                         *)
AboutToAnswer ==
    \A s \in Slots : saves[s] # NoEntry =>
        LET r == saves[s].token IN
        /\ ~saves[s].shared
        /\ saves[s].snap.refresh = refresh_tokens
        /\ saves[s].request = "exchange" => refresh_tokens[r] # NoEntry
        /\ saves[s].request = "revoke" => refresh_tokens[r] = NoEntry /\ r \in withdrawn

AnsweredInv ==
    /\ OneAtATime
    /\ file # Damaged
    /\ Answered
    /\ AboutToAnswer
    /\ dead \subseteq withdrawn /\ withdrawn \subseteq acked
    /\ \A r \in acked : opened_by[r] # NoEntry

(* What of AnsweredInv a step can disturb only through the tables. *)
Bookkeeping ==
    /\ dead \subseteq withdrawn /\ withdrawn \subseteq acked
    /\ \A r \in acked : opened_by[r] # NoEntry

\* A request that changes the live table and starts the only save there is.
LEMMA StartSaveAnswered ==
    ASSUME ~disturbed', TypeOK, TypeOK', AnsweredInv, Answered',
           NEW s \in Slots, NEW q \in Request, NEW r \in RefreshTokens, StartSave(s, q, r),
           file' = file, Bookkeeping',
           q = "exchange" => refresh_tokens'[r] # NoEntry,
           q = "revoke" => refresh_tokens'[r] = NoEntry /\ r \in withdrawn'
    PROVE  AnsweredInv'
<1>1. \A t \in Slots : saves[t] = NoEntry
    BY DEF StartSave, TypeOK
<1>2. /\ ~saves'[s].shared /\ saves'[s].snap.refresh = refresh_tokens'
      /\ saves'[s].request = q /\ saves'[s].token = r
      /\ \A t \in Slots \ {s} : saves'[t] = NoEntry
    BY <1>1 DEF StartSave
<1>3. AboutToAnswer' /\ OneAtATime'
    BY <1>2 DEF AboutToAnswer, OneAtATime
<1> QED
    BY <1>3 DEF AnsweredInv, Bookkeeping

LEMMA AnsweredStep ==
    ASSUME ~disturbed', AnsweredInv, TokenInv, TokenInv', [Next]_vars
    PROVE  AnsweredInv'
<1> USE TokenConstants
<1>1. TypeOK /\ TypeOK' /\ Live \in Tables /\ Answered /\ AboutToAnswer /\ Bookkeeping
    BY DEF TokenInv, AnsweredInv, Bookkeeping, Tables, Live
<1>2. /\ \A r \in acked \ withdrawn : refresh_tokens[r] # NoEntry
      /\ \A r \in dead : refresh_tokens[r] = NoEntry
      /\ \A r \in RefreshTokens : refresh_tokens[r] # NoEntry => opened_by[r] # NoEntry
  <2>1. RefreshSound(Live)
      BY <1>1 DEF TokenInv, Sound
  <2> QED
      BY <1>1, <2>1 DEF Answered, Live, RefreshSound
<1>3. ASSUME acked' = acked, dead' = dead, withdrawn \subseteq withdrawn',
             \A t \in Tables : \A r \in dead : t.refresh[r] = NoEntry,
             \A r \in acked \ withdrawn' : refresh_tokens'[r] # NoEntry,
             \A r \in dead : refresh_tokens'[r] = NoEntry
      PROVE  Answered'
  <2> SUFFICES ASSUME NEW t \in Tables'
               PROVE  /\ \A r \in acked' \ withdrawn' : t.refresh[r] # NoEntry
                      /\ \A r \in dead' : t.refresh[r] = NoEntry
      BY DEF Answered
  <2>1. t \in Tables \/ t = Live'
      BY <1>1, TablesStep
  <2> QED
      BY <1>1, <1>3, <2>1 DEF Answered, Live
<1>4. \A t \in Tables : \A r \in dead : t.refresh[r] = NoEntry
    BY <1>1 DEF Answered
<1>5. ASSUME NEW c \in Codes, NEW client \in Clients, NEW r \in RefreshTokens,
             NEW a \in AccessTokens, NEW s \in Slots, ExchangeCode(c, client, r, a, s)
      PROVE  AnsweredInv'
  <2>1. /\ opened_by[r] = NoEntry /\ opened_by' = [opened_by EXCEPT ![r] = c]
        /\ refresh_tokens' = [refresh_tokens EXCEPT ![r] = client]
        /\ UNCHANGED <<file, acked, withdrawn, dead>> /\ StartSave(s, "exchange", r)
      BY <1>5 DEF ExchangeCode
  <2>2. r \notin acked /\ r \notin dead
      BY <1>1, <2>1 DEF Bookkeeping
  <2>3. Answered'
      BY <1>1, <1>2, <1>3, <1>4, <2>1, <2>2 DEF TypeOK
  <2>4. Bookkeeping'
      BY <1>1, <2>1, <2>2 DEF Bookkeeping, TypeOK
  <2>5. refresh_tokens'[r] # NoEntry
      BY <1>1, <2>1 DEF TypeOK
  <2> QED
      BY <1>1, <2>1, <2>3, <2>4, <2>5, StartSaveAnswered DEF Request
<1>6. ASSUME NEW r \in RefreshTokens, NEW s \in Slots, Revoke(r, s)
      PROVE  AnsweredInv'
  <2>1. /\ refresh_tokens' = [refresh_tokens EXCEPT ![r] = NoEntry]
        /\ withdrawn' = withdrawn \cup {r} /\ r \in acked
        /\ UNCHANGED <<file, opened_by, acked, dead>> /\ StartSave(s, "revoke", r)
      BY <1>6 DEF Revoke
  <2>2. Answered'
      BY <1>1, <1>2, <1>3, <1>4, <2>1 DEF TypeOK
  <2>3. Bookkeeping'
      BY <1>1, <2>1 DEF Bookkeeping
  <2>4. refresh_tokens'[r] = NoEntry /\ r \in withdrawn'
      BY <1>1, <2>1 DEF TypeOK
  <2> QED
      BY <1>1, <2>1, <2>2, <2>3, <2>4, StartSaveAnswered DEF Request
<1>7. ASSUME NEW r \in RefreshTokens, NEW s \in Slots, NEW a \in AccessTokens,
             NEW claimed \in Clients \cup {NoEntry}, RefreshAccess(r, claimed, a, s)
      PROVE  AnsweredInv'
  <2>1. /\ UNCHANGED <<refresh_tokens, file, opened_by, acked, withdrawn, dead>>
        /\ StartSave(s, "refresh", r)
      BY <1>7 DEF RefreshAccess
  <2>2. Answered' /\ Bookkeeping'
      BY <1>1, <1>2, <1>3, <1>4, <2>1 DEF Bookkeeping
  <2> QED
      BY <1>1, <2>1, <2>2, StartSaveAnswered DEF Request
<1>8. ASSUME NEW s \in Slots, FinishSave(s)
      PROVE  AnsweredInv'
  <2> DEFINE save == saves[s]
  <2>1. /\ save \in Save /\ ~save.shared /\ save.snap.refresh = refresh_tokens
        /\ save.request = "exchange" => refresh_tokens[save.token] # NoEntry
        /\ save.request = "revoke" =>
              refresh_tokens[save.token] = NoEntry /\ save.token \in withdrawn
      BY <1>1, <1>8 DEF FinishSave, AboutToAnswer, TypeOK
  <2>2. /\ file' = save.snap /\ saves' = [saves EXCEPT ![s] = NoEntry]
        /\ acked' = IF save.request = "exchange" THEN acked \cup {save.token} ELSE acked
        /\ dead' = IF save.request = "revoke" THEN dead \cup {save.token} ELSE dead
        /\ UNCHANGED <<refresh_tokens, access_tokens, opened_by, withdrawn>>
      BY <1>8 DEF FinishSave, tables
  <2> HIDE DEF save
  <2>3. \A t \in Slots : saves'[t] = NoEntry
      BY <1>1, <1>8, <2>2 DEF AnsweredInv, OneAtATime, FinishSave, TypeOK
  <2>4. \A t \in Tables' : t.refresh = refresh_tokens
      BY <2>1, <2>2, <2>3 DEF Tables
  <2>5. Answered'
      BY <1>2, <2>1, <2>2, <2>4 DEF Answered
  <2>6. Bookkeeping'
      BY <1>1, <1>2, <2>1, <2>2 DEF Bookkeeping, Save
  <2>7. file' # Damaged
      BY <2>1, <2>2 DEF Save
  <2> QED
      BY <2>3, <2>5, <2>6, <2>7 DEF AnsweredInv, Bookkeeping, AboutToAnswer, OneAtATime
<1>9. ASSUME UNCHANGED <<refresh_tokens, file, saves, opened_by, acked, withdrawn, dead>>
      PROVE  AnsweredInv'
  <2>1. Answered'
      BY <1>2, <1>3, <1>4, <1>9
  <2> QED
      BY <1>9, <2>1 DEF AnsweredInv, AboutToAnswer, OneAtATime
<1>10. ASSUME \/ \E c \in Codes, client \in Clients : IssueCode(c, client) \/ RejectCode(c, client)
              \/ \E a \in AccessTokens : Evict(a)
              \/ Tick \/ SetClockBack \/ UNCHANGED vars
       PROVE  UNCHANGED <<refresh_tokens, file, saves, opened_by, acked, withdrawn, dead>>
    BY <1>10
    DEF IssueCode, RejectCode, Evict, Tick, SetClockBack, vars, tables, history
<1>11. CASE Restart
  <2>1. /\ refresh_tokens' = file.refresh /\ saves' = [t \in Slots |-> NoEntry]
        /\ UNCHANGED <<file, opened_by, acked, withdrawn, dead>>
      BY <1>11 DEF Restart, AnsweredInv
  <2>2. file \in Tables
      BY DEF AnsweredInv, Tables
  <2>3. Answered'
      BY <1>1, <1>3, <1>4, <2>1, <2>2 DEF Answered
  <2> QED
      BY <1>1, <2>1, <2>3 DEF AnsweredInv, AboutToAnswer, Bookkeeping, OneAtATime
<1> QED
    BY <1>5, <1>6, <1>7, <1>8, <1>9, <1>10, <1>11 DEF Next

LEMMA DisturbedStays ==
    ASSUME TypeOK, [Next]_vars, ~disturbed'
    PROVE  ~disturbed
BY DEF Next, IssueCode, RejectCode, ExchangeCode, RefreshAccess, Revoke, Evict, FinishSave,
       Restart, Tick, SetClockBack, StartSave, vars, history, TypeOK

LEMMA AnsweredInvariance == Spec => [](~disturbed => AnsweredInv)
<1>1. Init => AnsweredInv
  <2> SUFFICES ASSUME Init PROVE AnsweredInv
      OBVIOUS
  <2>1. EmptySnapshot \in Snapshot
      BY DEF EmptySnapshot, EmptyRefresh, EmptyAccess, Snapshot
  <2>2. file # Damaged
      BY <2>1, TokenConstants DEF Init
  <2> QED
      BY <2>2 DEF Init, AnsweredInv, Answered, AboutToAnswer, OneAtATime
<1>2. (~disturbed => AnsweredInv) /\ TokenInv /\ TokenInv' /\ [Next]_vars
        => (~disturbed => AnsweredInv)'
    BY AnsweredStep, DisturbedStays DEF TokenInv
<1> QED
    BY <1>1, <1>2, TokenInvariance, PTL DEF Spec

\* As long as saves neither overlap nor fail, a session whose exchange was
\* answered survives any restart until somebody asks to revoke it.
THEOREM SessionsSurvive == Spec => []SessionsAreDurableInTurn
<1>1. (~disturbed => AnsweredInv) => SessionsAreDurableInTurn
    BY DEF AnsweredInv, Answered, Tables, AnsweredSessionsAreDurable, SessionsAreDurableInTurn
<1> QED
    BY <1>1, AnsweredInvariance, PTL

\* As long as saves neither overlap nor fail, an answered revocation is not
\* undone by any restart.
THEOREM RevocationsSurvive == Spec => []RevocationsAreDurableInTurn
<1>1. (~disturbed => AnsweredInv) => RevocationsAreDurableInTurn
  <2> SUFFICES ASSUME AnsweredInv, NEW r \in dead
               PROVE  refresh_tokens[r] = NoEntry /\ (file = Damaged \/ file.refresh[r] = NoEntry)
      BY DEF AnsweredRevocationsAreDurable, RevocationsAreDurableInTurn
  <2>1. \A t \in Tables : t.refresh[r] = NoEntry
      BY DEF AnsweredInv, Answered
  <2>2. Live \in Tables /\ Live.refresh = refresh_tokens /\ (file = Damaged \/ file \in Tables)
      BY DEF Live, Tables
  <2> QED
      BY <2>1, <2>2
<1> QED
    BY <1>1, AnsweredInvariance, PTL
=============================================================================
