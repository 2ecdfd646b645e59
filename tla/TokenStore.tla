----------------------------- MODULE TokenStore -----------------------------
(***************************************************************************)
(* TokenStore (ha_auth.rs): one-time authorization codes, refresh tokens   *)
(* and access tokens, kept in three tables behind one mutex and saved to   *)
(* tokens.json after each change.                                          *)
(*                                                                         *)
(* The mutex is released before the save and no other lock orders the      *)
(* saves, so several snapshots may be on their way to the file at once.    *)
(* A save is therefore two steps: the snapshot, taken with the change, and *)
(* the moment its blocking task ends.  What overlapping tasks may leave in *)
(* the file is what AtomicSave shows of them: either document, or none.    *)
(***************************************************************************)
EXTENDS Naturals, FiniteSets

CONSTANTS
    Clients,        \* client_id values
    Codes,          \* authorization codes, one per new_token()
    RefreshTokens,  \* refresh tokens
    AccessTokens,   \* access tokens
    Slots,          \* bound: how many saves may be in flight at once
    CodeTTL,        \* AUTH_CODE_TTL_SECS
    AccessTTL,      \* ACCESS_TOKEN_TTL_SECS
    MaxTime,        \* bound on the clocks
    SavesFail,      \* TRUE: a save may fail (its error is only logged)
    NoEntry,        \* a key that is not in a table
    Damaged         \* tokens.json is no document of this store

Time     == 0..MaxTime
Entry    == [client_id : Clients, issued_at : Time]
Snapshot == [refresh : [RefreshTokens -> Clients \cup {NoEntry}],
             access  : [AccessTokens -> Entry \cup {NoEntry}]]

ASSUME TokenConstants ==
    /\ CodeTTL \in Nat /\ AccessTTL \in Nat /\ MaxTime \in Nat
    /\ SavesFail \in BOOLEAN
    /\ NoEntry \notin Clients \cup Codes \cup RefreshTokens
    /\ Damaged \notin Snapshot

VARIABLES
    auth_codes,      \* code -> entry
    refresh_tokens,  \* refresh token -> client
    access_tokens,   \* access token -> entry
    file,            \* what tokens.json holds
    saves,           \* slot -> save in flight
    uptime,          \* Instant::now(): never goes back
    wall             \* now_unix_secs()

\* History, read by the properties only.
VARIABLES
    issued_to,   \* code -> the client it was issued to
    opened_by,   \* refresh token -> the code it was exchanged for
    minted_by,   \* access token -> the refresh token it belongs to
    minted_at,   \* access token -> the uptime at which it was minted
    revoked,     \* refresh tokens revoked since the last start
    acked,       \* refresh tokens whose exchange has been answered
    withdrawn,   \* refresh tokens for which a revocation was ever asked
    dead,        \* refresh tokens whose revocation has been answered
    disturbed    \* saves have overlapped, or one did not leave what it wrote

tables  == <<auth_codes, refresh_tokens, access_tokens>>
clocks  == <<uptime, wall>>
history == <<issued_to, opened_by, minted_by, minted_at, revoked, acked, withdrawn, dead,
             disturbed>>
vars    == <<tables, file, saves, clocks, history>>

Request  == {"exchange", "refresh", "revoke"}
Save     == [snap : Snapshot, shared : BOOLEAN, request : Request, token : RefreshTokens]

EmptyRefresh  == [r \in RefreshTokens |-> NoEntry]
EmptyAccess   == [a \in AccessTokens |-> NoEntry]
EmptySnapshot == [refresh |-> EmptyRefresh, access |-> EmptyAccess]

TypeOK ==
    /\ auth_codes \in [Codes -> Entry \cup {NoEntry}]
    /\ refresh_tokens \in [RefreshTokens -> Clients \cup {NoEntry}]
    /\ access_tokens \in [AccessTokens -> Entry \cup {NoEntry}]
    /\ file \in Snapshot \cup {Damaged}
    /\ saves \in [Slots -> Save \cup {NoEntry}]
    /\ uptime \in Time /\ wall \in Time
    /\ issued_to \in [Codes -> Clients \cup {NoEntry}]
    /\ opened_by \in [RefreshTokens -> Codes \cup {NoEntry}]
    /\ minted_by \in [AccessTokens -> RefreshTokens \cup {NoEntry}]
    /\ minted_at \in [AccessTokens -> Time]
    /\ revoked \in SUBSET RefreshTokens
    /\ acked \in SUBSET RefreshTokens
    /\ withdrawn \in SUBSET RefreshTokens
    /\ dead \in SUBSET RefreshTokens
    /\ disturbed \in BOOLEAN

Init ==
    /\ auth_codes = [c \in Codes |-> NoEntry]
    /\ refresh_tokens = EmptyRefresh
    /\ access_tokens = EmptyAccess
    /\ file = EmptySnapshot
    /\ saves = [s \in Slots |-> NoEntry]
    /\ uptime = 0 /\ wall = 0
    /\ issued_to = [c \in Codes |-> NoEntry]
    /\ opened_by = [r \in RefreshTokens |-> NoEntry]
    /\ minted_by = [a \in AccessTokens |-> NoEntry]
    /\ minted_at = [a \in AccessTokens |-> 0]
    /\ revoked = {} /\ acked = {} /\ withdrawn = {} /\ dead = {}
    /\ disturbed = FALSE
-----------------------------------------------------------------------------
\* Mutant of StartSave: the snapshot is taken before the change.
StartSaveEarly(s, request, token) ==
    /\ saves[s] = NoEntry
    /\ saves' = [saves EXCEPT ![s] =
          [snap    |-> [refresh |-> refresh_tokens, access |-> access_tokens],
           shared  |-> FALSE,
           request |-> request,
           token   |-> token]]
    /\ disturbed' = (disturbed \/ \E t \in Slots : saves[t] # NoEntry)

(* save_persisted: snapshot the tables, start the blocking task.  Saves in  *)
(* flight together share the temporary file.                                *)
StartSave(s, request, token) ==
    LET overlap == \E t \in Slots : saves[t] # NoEntry IN
    /\ saves[s] = NoEntry
    /\ saves' = [t \in Slots |->
          IF t = s
          THEN [snap    |-> [refresh |-> refresh_tokens', access |-> access_tokens'],
                shared  |-> overlap,
                request |-> request,
                token   |-> token]
          ELSE IF saves[t] = NoEntry THEN NoEntry
          ELSE [saves[t] EXCEPT !.shared = TRUE]]
    /\ disturbed' = (disturbed \/ overlap)

\* The task of slot s ends and the request is answered.  Alone it replaces the
\* file, unless it fails; overlapping others it may also find its temporary file
\* renamed away, publish what another wrote, or leave no complete document.
FinishSave(s) ==
    LET save == saves[s] IN
    /\ save # NoEntry
    /\ \/ file' = save.snap
       \/ (SavesFail \/ save.shared) /\ UNCHANGED file
       \/ /\ save.shared
          /\ \/ file' = Damaged
             \/ \E t \in Slots : /\ saves[t] # NoEntry /\ saves[t].shared
                                /\ file' = saves[t].snap
    /\ saves' = [saves EXCEPT ![s] = NoEntry]
    /\ acked' = IF save.request = "exchange" THEN acked \cup {save.token} ELSE acked
    /\ dead' = IF save.request = "revoke" THEN dead \cup {save.token} ELSE dead
    /\ disturbed' = (disturbed \/ file' # save.snap)
    /\ UNCHANGED <<tables, clocks, issued_to, opened_by, minted_by, minted_at,
                   revoked, withdrawn>>
-----------------------------------------------------------------------------
(* Requests.  A token that is "new" is one new_token() has not returned yet; *)
(* a client presents a refresh token only after it was given it.             *)

CodeExpired(c) == uptime - auth_codes[c].issued_at > CodeTTL

\* issue_auth_code: sweep what has expired, then insert the new code.
IssueCode(c, client) ==
    /\ issued_to[c] = NoEntry
    /\ auth_codes' = [d \in Codes |->
          IF d = c THEN [client_id |-> client, issued_at |-> uptime]
          ELSE IF auth_codes[d] # NoEntry /\ CodeExpired(d) THEN NoEntry
          ELSE auth_codes[d]]
    /\ issued_to' = [issued_to EXCEPT ![c] = client]
    /\ UNCHANGED <<refresh_tokens, access_tokens, file, saves, clocks, opened_by,
                   minted_by, minted_at, revoked, acked, withdrawn, dead, disturbed>>

\* Mutant: get in place of remove.
PeekCode(c) == auth_codes[c] # NoEntry /\ UNCHANGED auth_codes

\* The code is consumed whether or not it turns out to be good.
ConsumeCode(c) ==
    /\ auth_codes[c] # NoEntry
    /\ auth_codes' = [auth_codes EXCEPT ![c] = NoEntry]

\* Mutant: the client of the code is not compared.
CodeFresh(c, client) == ~CodeExpired(c)

CodeGood(c, client) == ~CodeExpired(c) /\ auth_codes[c].client_id = client

\* Mutant: the moment it expires is stored where the moment it was issued goes.
MintWithExpiry(a, r, client) ==
    /\ minted_by[a] = NoEntry
    /\ access_tokens' = [access_tokens EXCEPT ![a] =
          [client_id |-> client, issued_at |-> wall + AccessTTL]]
    /\ minted_by' = [minted_by EXCEPT ![a] = r]
    /\ minted_at' = [minted_at EXCEPT ![a] = uptime]

\* A new access token a of the session of r.
Mint(a, r, client) ==
    /\ minted_by[a] = NoEntry
    /\ access_tokens' = [access_tokens EXCEPT ![a] = [client_id |-> client, issued_at |-> wall]]
    /\ minted_by' = [minted_by EXCEPT ![a] = r]
    /\ minted_at' = [minted_at EXCEPT ![a] = uptime]

\* exchange_code, accepted: a session is opened and saved.
ExchangeCode(c, client, r, a, s) ==
    /\ ConsumeCode(c)
    /\ CodeGood(c, client)
    /\ opened_by[r] = NoEntry
    /\ refresh_tokens' = [refresh_tokens EXCEPT ![r] = client]
    /\ opened_by' = [opened_by EXCEPT ![r] = c]
    /\ Mint(a, r, client)
    /\ StartSave(s, "exchange", r)
    /\ UNCHANGED <<file, clocks, issued_to, revoked, acked, withdrawn, dead>>

\* exchange_code, rejected: expired, or another client's code.
RejectCode(c, client) ==
    /\ ConsumeCode(c)
    /\ ~CodeGood(c, client)
    /\ UNCHANGED <<refresh_tokens, access_tokens, file, saves, clocks, history>>

\* refresh_access_token: client_id may be left out of the request.
RefreshAccess(r, claimed, a, s) ==
    /\ r \in acked
    /\ refresh_tokens[r] # NoEntry
    /\ claimed \in {NoEntry, refresh_tokens[r]}
    /\ Mint(a, r, refresh_tokens[r])
    /\ UNCHANGED <<auth_codes, refresh_tokens>>
    /\ StartSave(s, "refresh", r)
    /\ UNCHANGED <<file, clocks, issued_to, opened_by, revoked, acked, withdrawn, dead>>

\* Mutant of Revoke: the access tokens stay.
RevokeRefreshOnly(r, s) ==
    /\ r \in acked
    /\ refresh_tokens' = [refresh_tokens EXCEPT ![r] = NoEntry]
    /\ revoked' = IF refresh_tokens[r] # NoEntry THEN revoked \cup {r} ELSE revoked
    /\ withdrawn' = withdrawn \cup {r}
    /\ UNCHANGED <<auth_codes, access_tokens>>
    /\ StartSave(s, "revoke", r)
    /\ UNCHANGED <<file, clocks, issued_to, opened_by, minted_by, minted_at, acked, dead>>

\* revoke_refresh_token: every access token of the same client goes too.  A token
\* that is not in the table (revoked before, or lost in a restart) changes
\* nothing but is answered, and saved, all the same.
Revoke(r, s) ==
    LET client == refresh_tokens[r] IN
    /\ r \in acked
    /\ refresh_tokens' = [refresh_tokens EXCEPT ![r] = NoEntry]
    /\ access_tokens' = [a \in AccessTokens |->
          IF client # NoEntry /\ access_tokens[a] # NoEntry
                /\ access_tokens[a].client_id = client
          THEN NoEntry ELSE access_tokens[a]]
    /\ revoked' = IF client # NoEntry THEN revoked \cup {r} ELSE revoked
    /\ withdrawn' = withdrawn \cup {r}
    /\ UNCHANGED auth_codes
    /\ StartSave(s, "revoke", r)
    /\ UNCHANGED <<file, clocks, issued_to, opened_by, minted_by, minted_at, acked, dead>>

\* now.saturating_sub(issued_at) > ACCESS_TOKEN_TTL_SECS
AccessExpired(a) == wall > access_tokens[a].issued_at + AccessTTL

\* What validate_access_token would answer for a.
Accepts(a) == access_tokens[a] # NoEntry /\ ~AccessExpired(a)

\* validate_access_token evicts an expired entry; it does not save.
Evict(a) ==
    /\ access_tokens[a] # NoEntry
    /\ AccessExpired(a)
    /\ access_tokens' = [access_tokens EXCEPT ![a] = NoEntry]
    /\ UNCHANGED <<auth_codes, refresh_tokens, file, saves, clocks, history>>
-----------------------------------------------------------------------------
(* The environment. *)

\* The process stops at any point and starts again: load_persisted.  A file
\* that does not parse counts as empty; codes are never persisted.
Restart ==
    LET loaded == IF file = Damaged THEN EmptySnapshot ELSE file IN
    /\ auth_codes' = [c \in Codes |-> NoEntry]
    /\ refresh_tokens' = loaded.refresh
    /\ access_tokens' = loaded.access
    /\ saves' = [s \in Slots |-> NoEntry]
    /\ revoked' = {}
    /\ UNCHANGED <<file, clocks, issued_to, opened_by, minted_by, minted_at,
                   acked, withdrawn, dead, disturbed>>

Tick ==
    /\ uptime < MaxTime /\ wall < MaxTime
    /\ uptime' = uptime + 1
    /\ wall' = wall + 1
    /\ UNCHANGED <<tables, file, saves, history>>

\* A start without NTP: the wall clock falls behind uptime, for good.
SetClockBack ==
    /\ wall' \in 0..wall
    /\ UNCHANGED <<tables, file, saves, uptime, history>>

Next ==
    \/ \E c \in Codes, client \in Clients :
          \/ IssueCode(c, client)
          \/ RejectCode(c, client)
          \/ \E r \in RefreshTokens, a \in AccessTokens, s \in Slots :
                ExchangeCode(c, client, r, a, s)
    \/ \E r \in RefreshTokens, s \in Slots :
          \/ Revoke(r, s)
          \/ \E a \in AccessTokens, claimed \in Clients \cup {NoEntry} :
                RefreshAccess(r, claimed, a, s)
    \/ \E a \in AccessTokens : Evict(a)
    \/ \E s \in Slots : FinishSave(s)
    \/ Restart
    \/ Tick
    \/ SetClockBack

Spec == Init /\ [][Next]_vars
-----------------------------------------------------------------------------
(* Properties. *)

\* Every table of sessions there is: the live one, the one on its way to the
\* file in each save, and the one in the file.
Tables ==
    {[refresh |-> refresh_tokens, access |-> access_tokens]}
    \cup {saves[s].snap : s \in {t \in Slots : saves[t] # NoEntry}}
    \cup ({file} \ {Damaged})

\* No two sessions come from one code, a code that opened a session is gone,
\* and no restart brings it back.
CodeOpensOneSession ==
    \A r \in RefreshTokens :
        opened_by[r] # NoEntry =>
            /\ auth_codes[opened_by[r]] = NoEntry
            /\ \A q \in RefreshTokens : opened_by[q] = opened_by[r] => q = r

\* A session belongs to the client its code was issued to, and so do its access
\* tokens, in memory, in every snapshot and in the file.
SessionKeepsItsClient ==
    \A t \in Tables :
        /\ \A r \in RefreshTokens :
              t.refresh[r] # NoEntry =>
                  opened_by[r] # NoEntry /\ t.refresh[r] = issued_to[opened_by[r]]
        /\ \A a \in AccessTokens :
              t.access[a] # NoEntry =>
                  minted_by[a] # NoEntry /\ t.access[a].client_id = t.refresh[minted_by[a]]

\* Since the last start a revoked refresh token mints nothing and none of the
\* access tokens minted for it is accepted, however requests interleave.
RevocationTakesEffect ==
    \A r \in revoked :
        /\ refresh_tokens[r] = NoEntry
        /\ \A a \in AccessTokens : minted_by[a] = r => ~Accepts(a)

\* A token is not accepted longer than its lifetime after it was minted, also
\* when the store was reloaded in between, as long as the clock was never set.
AcceptedTokensAreYoung ==
    \A a \in AccessTokens :
        Accepts(a) /\ wall = uptime => uptime - minted_at[a] <= AccessTTL

\* With no save under way, the answered sessions that nobody asked to revoke would
\* survive a restart ("refresh tokens and access tokens survive restarts").
AnsweredSessionsAreDurable ==
    (\A s \in Slots : saves[s] = NoEntry) =>
    \A r \in acked \ withdrawn : file # Damaged /\ file.refresh[r] # NoEntry

\* A revocation that was answered holds after any restart.
AnsweredRevocationsAreDurable ==
    \A r \in dead : refresh_tokens[r] = NoEntry /\ (file = Damaged \/ file.refresh[r] = NoEntry)

\* Both of it holds for as long as saves neither overlap nor fail.
SessionsAreDurableInTurn    == ~disturbed => AnsweredSessionsAreDurable
RevocationsAreDurableInTurn == ~disturbed => AnsweredRevocationsAreDurable
=============================================================================
