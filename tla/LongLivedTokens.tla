---------------------------- MODULE LongLivedTokens ----------------------------
(***************************************************************************)
(* The long-lived access tokens (long_lived_token_store.rs) and the forms  *)
(* that create and revoke them (http.rs).                                  *)
(*                                                                         *)
(* A request changes the list in memory, then writes all of it to the file *)
(* in place while it holds a read guard of the list.  The writing itself   *)
(* is a job of a blocking thread, which opens and truncates the file and   *)
(* then writes.  A request whose connection ends is dropped with its       *)
(* guard; its job goes on.                                                 *)
(***************************************************************************)
EXTENDS Naturals, FiniteSets

CONSTANTS
    REQUEST,     \* requests in flight at once: a bound
    TOKEN,       \* tokens that may be created
    Broken       \* a file that does not parse: empty, cut off or mixed

ASSUME TokensAssumption == \A list \in SUBSET TOKEN : Broken # list

VARIABLES
    live,        \* LongLivedTokenStore.inner: the tokens' records
    tokenFile,   \* long_lived_tokens.json: a set of tokens, or Broken
    request,     \* REQUEST |-> [at, does, token]
    job,         \* REQUEST |-> what its blocking job is about to write, if any
    made,        \* tokens created so far: ids are random
    kept, gone,  \* tokens answered as created and not touched since, as revoked
    disturbed    \* a write was left by its request, failed or was cut off

tokenVars == <<live, tokenFile, request, job, made, kept, gone, disturbed>>

Free == [at |-> "free"]
NoJob == [at |-> "none"]
InFlight == {r \in REQUEST : job[r] # NoJob}

TokensInit ==
    /\ live = {} /\ tokenFile = {}
    /\ request = [r \in REQUEST |-> Free]
    /\ job = [r \in REQUEST |-> NoJob]
    /\ made = {} /\ kept = {} /\ gone = {} /\ disturbed = FALSE

\* Mutant: the list is copied and its guard released before the write.
ReadersNone == {}

\* The requests with a read guard: those in persist, while their job runs.
Readers == {r \in REQUEST : request[r].at = "persist"}

\* create: a record is pushed under the write guard.
CreateToken(r, t) ==
    /\ request[r] = Free /\ job[r] = NoJob /\ t \notin made /\ Readers = {}
    /\ live' = live \cup {t} /\ made' = made \cup {t}
    /\ request' = [request EXCEPT ![r] = [at |-> "changed", does |-> "create", token |-> t]]
    /\ UNCHANGED <<tokenFile, job, kept, gone, disturbed>>

\* revoke: a token that is not there is answered at once, and nothing written.
RevokeToken(r, t) ==
    /\ request[r] = Free /\ job[r] = NoJob /\ t \in live /\ Readers = {}
    /\ live' = live \ {t} /\ kept' = kept \ {t}
    /\ request' = [request EXCEPT ![r] = [at |-> "changed", does |-> "revoke", token |-> t]]
    /\ UNCHANGED <<tokenFile, job, made, gone, disturbed>>

\* The forms of the profile page.
ApiTokenCreate(r, t) == CreateToken(r, t)
ApiTokenRevoke(r, t) == RevokeToken(r, t)

\* persist: the guard, the document, and tokio::fs::write's job.
Persist(r) ==
    /\ request[r].at = "changed"
    /\ request' = [request EXCEPT ![r].at = "persist"]
    /\ job' = [job EXCEPT ![r] = [at |-> "open", data |-> live]]
    /\ UNCHANGED <<live, tokenFile, made, kept, gone, disturbed>>

Truncate(r) ==
    /\ job[r].at = "open"
    /\ tokenFile' = Broken
    /\ job' = [job EXCEPT ![r].at = "write"]
    /\ UNCHANGED <<live, request, made, kept, gone, disturbed>>

\* The bytes land on what others wrote since the truncation: the document, or
\* one with the end of another behind it.
Write(r) ==
    /\ job[r].at = "write"
    /\ tokenFile' \in {job[r].data} \cup
                      (IF tokenFile \in {Broken, job[r].data} THEN {} ELSE {Broken})
    /\ job' = [job EXCEPT ![r] = NoJob]
    /\ IF request[r].at = "persist"
       THEN /\ request' = [request EXCEPT ![r] = Free]
            /\ kept' = IF request[r].does = "create" /\ request[r].token \in live
                       THEN kept \cup {request[r].token} ELSE kept
            /\ gone' = IF request[r].does = "revoke"
                       THEN gone \cup {request[r].token} ELSE gone
       ELSE UNCHANGED <<request, kept, gone>>
    /\ UNCHANGED <<live, made, disturbed>>

\* Opening or writing fails: the request answers an error, the list stays
\* changed.
WriteFails(r) ==
    /\ job[r] # NoJob
    /\ job' = [job EXCEPT ![r] = NoJob]
    /\ request' = [request EXCEPT ![r] = Free]
    /\ disturbed' = TRUE
    /\ UNCHANGED <<live, tokenFile, made, kept, gone>>

Dropped(r) ==
    /\ request[r] # Free
    /\ request' = [request EXCEPT ![r] = Free]
    /\ disturbed' = TRUE
    /\ UNCHANGED <<live, tokenFile, job, made, kept, gone>>

\* load: a file that does not parse is an empty list.
Load(content) == IF content = Broken THEN {} ELSE content

\* The process ends, at any point, and starts again.
TokensRestart ==
    /\ live' = Load(tokenFile)
    /\ request' = [r \in REQUEST |-> Free]
    /\ job' = [r \in REQUEST |-> NoJob]
    /\ disturbed' = (disturbed \/ \E r \in REQUEST : job[r].at = "write")
    /\ UNCHANGED <<tokenFile, made, kept, gone>>

TokensNext ==
    \/ \E r \in REQUEST :
          \/ \E t \in TOKEN : ApiTokenCreate(r, t) \/ ApiTokenRevoke(r, t)
          \/ Persist(r) \/ Truncate(r) \/ Write(r) \/ WriteFails(r) \/ Dropped(r)
    \/ TokensRestart

TokensSpec == TokensInit /\ [][TokensNext]_tokenVars

(***************************************************************************)
(* Properties.                                                             *)
(***************************************************************************)
\* Unless a write was abandoned, failed or was cut off by the end of the
\* process: a token answered as created is there until somebody revokes it, one
\* answered as revoked stays away, in memory and, when nobody writes, in the
\* file, whichever requests overlap and whenever the process starts again
\* (long_lived_token_store.rs, create, revoke and persist).
TokensAreAsAnswered ==
    ~disturbed =>
        /\ kept \subseteq live /\ gone \cap live = {}
        /\ (\A r \in REQUEST : job[r].at # "write") =>
              /\ tokenFile # Broken
              /\ gone \cap tokenFile = {}
              /\ kept \subseteq tokenFile
===============================================================================
