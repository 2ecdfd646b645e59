----------------------------- MODULE Onboarding -----------------------------
(***************************************************************************)
(* First-run setup and the owner's account: the handlers that read and     *)
(* write onboarding.json (storage.rs) and auth_user.json (auth_store.rs),  *)
(* with the decisions of core.rs between them.                             *)
(*                                                                         *)
(* The server runs on one thread, so handlers interleave at their awaits   *)
(* only: a handler is a chain of actions, one per file access, with what   *)
(* it decides on resuming.  A read takes no lock, so what it returned may  *)
(* be out of date when the handler goes on.  update_onboarding reads,      *)
(* changes and replaces the file under Storage's mutex and is one action   *)
(* (AtomicSave shows what that takes); so is AuthStore::save_user.         *)
(***************************************************************************)
EXTENDS Naturals, Sequences, FiniteSets

CONSTANTS
    Requests,    \* bound: the requests that are ever made
    MaxActive,   \* bound: how many of them are handled at the same time
    Kinds,       \* the kinds of request made
    Usernames,
    Passwords,
    Trimmed,     \* password -> the password without the blanks around it
    Starts,      \* subset of {"fresh", "legacy"}: the data directory found at start
    Nobody       \* no user stored

AllKinds == {"status", "create_user", "core_config", "analytics", "integration",
             "complete", "authorize", "login", "change_password"}

Credentials == [username : Usernames, password : Passwords]
StoredUser  == [username : Usernames, password : Passwords, hashed : BOOLEAN]

ASSUME OnboardingConstants ==
    /\ MaxActive \in Nat \ {0}
    /\ Kinds \subseteq AllKinds
    /\ Starts \subseteq {"fresh", "legacy"}
    /\ Trimmed \in [Passwords -> Passwords]
    /\ \A w \in Passwords : Trimmed[Trimmed[w]] = Trimmed[w]
    /\ Nobody \notin StoredUser \cup Credentials

VARIABLES
    onboarding,    \* onboarding.json
    auth_user,     \* auth_user.json, or Nobody when there is no such file
    runtime_mode,  \* core.mode_controller
    req,           \* request -> state of its handler
    believed,      \* history: credentials that may be in force, as far as the
                   \* answers given so far tell
    overlapped     \* history: two requests have been handled at the same time

vars == <<onboarding, auth_user, runtime_mode, req, believed, overlapped>>

StepNames   == {"user", "core_config", "analytics", "integration"}
Onb == [onboarded : BOOLEAN, done : Seq(StepNames), user : StoredUser \cup {Nobody}]

Idle == [kind |-> "none", pc |-> "idle"]
Answers == {"ok", "refused", "error", "lost"}
Resuming == {"read", "check", "update", "sync", "save_user",
             "login_read", "login_check", "load_user", "load_legacy", "save_legacy",
             "verify", "migrate_auth", "migrate_onboarding", "store_new"}
Handler == [kind : AllKinds, pc : Resuming, cred : Credentials, target : Credentials,
            seen : Onb, user : StoredUser \cup {Nobody}]
Ended   == [kind : AllKinds, pc : Answers]
Quiet(p) == req[p].pc \in {"idle"} \cup Answers
Active == {p \in Requests : ~Quiet(p)}

ModeOf(onboarded) == IF onboarded THEN "operational" ELSE "unprovisioned"
StepDone(o, step) == \E i \in DOMAIN o.done : o.done[i] = step

Trim(cred) == [cred EXCEPT !.password = Trimmed[@]]
Login(u) == [username |-> u.username, password |-> u.password]
Hashed(cred) == [username |-> cred.username, password |-> cred.password, hashed |-> TRUE]

TypeOK ==
    /\ onboarding \in Onb
    /\ auth_user \in StoredUser \cup {Nobody}
    /\ runtime_mode \in {"operational", "unprovisioned"}
    /\ req \in [Requests -> {Idle} \cup Handler \cup Ended]
    /\ believed \subseteq Credentials \cup {Nobody}
    /\ overlapped \in BOOLEAN

Fresh == [onboarded |-> FALSE, done |-> <<>>, user |-> Nobody]

\* A directory written before passwords were hashed and kept in their own file.
Legacy(cred) == [onboarded |-> TRUE, done |-> <<"user", "core_config">>,
                 user |-> [Hashed(cred) EXCEPT !.hashed = FALSE]]

Init ==
    /\ \/ "fresh" \in Starts /\ onboarding = Fresh /\ believed = {Nobody}
       \/ "legacy" \in Starts /\ \E cred \in Credentials :
             onboarding = Legacy(cred) /\ believed = {cred}
    /\ auth_user = Nobody
    /\ runtime_mode = ModeOf(onboarding.onboarded)
    /\ req = [p \in Requests |-> Idle]
    /\ overlapped = FALSE
-----------------------------------------------------------------------------
(* Moving a handler on. *)

\* An answered request leaves nothing of its handler's state.
At(p, pc) ==
    IF pc \in Answers THEN [kind |-> req[p].kind, pc |-> pc] ELSE [req[p] EXCEPT !.pc = pc]

Goto(p, pc) == req' = [req EXCEPT ![p] = At(p, pc)]

\* The request is answered with success: its credentials are in force.
Confirm(p) == Goto(p, "ok") /\ believed' = {req[p].target}

\* From here on the credentials may come into force.
Attempt(p, pc, cred) == Goto(p, pc) /\ believed' = believed \cup {cred}

SyncMode(onboarded) == runtime_mode' = ModeOf(onboarded)

\* The two steps after the account ask for an access token; one is given out for
\* an answered login, or was before this start.
TokenHeld ==
    \/ onboarding.onboarded /\ onboarding.user # Nobody
    \/ \E p \in Requests :
          req[p].kind \in {"create_user", "authorize", "login"} /\ req[p].pc = "ok"

\* A request arrives.  `cred` are the credentials it carries, `target` those it
\* asks to be in force afterwards.
Arrive(p, kind, cred, target) ==
    /\ req[p].pc = "idle"
    /\ Cardinality(Active) < MaxActive
    /\ kind # "change_password" => target = cred
    /\ kind \in {"analytics", "integration"} => TokenHeld
    /\ target.username = cred.username
    /\ req' = [req EXCEPT ![p] =
          [kind   |-> kind,
           pc     |-> CASE kind = "complete" -> "update"
                        [] kind = "login" -> "login_read"
                        [] kind = "change_password" -> "load_user"
                        [] OTHER -> "read",
           cred   |-> cred,
           target |-> target,
           seen   |-> Fresh,
           user   |-> Nobody]]
    /\ overlapped' = (overlapped \/ Active # {})
    /\ UNCHANGED <<onboarding, auth_user, runtime_mode, believed>>
-----------------------------------------------------------------------------
(* load_onboarding_state: read without the lock, then set the mode. *)

Read(p) ==
    /\ req[p].pc \in {"read", "login_read"}
    /\ req' = [req EXCEPT ![p].seen = onboarding,
                          ![p].pc = IF req[p].pc = "read" THEN "check" ELSE "login_check"]
    /\ UNCHANGED <<onboarding, auth_user, runtime_mode, believed>>

\* What each handler decides on what it read.
Refuses(kind, seen) ==
    \/ kind = "create_user" /\ (StepDone(seen, "user") \/ seen.user # Nobody)
    \/ kind = "core_config" /\ (StepDone(seen, "core_config") \/ ~StepDone(seen, "user"))
    \/ kind \in {"analytics", "integration"} /\ StepDone(seen, kind)

Check(p) ==
    LET kind == req[p].kind
        seen == req[p].seen
    IN
    /\ req[p].pc = "check"
    /\ SyncMode(seen.onboarded)
    /\ CASE Refuses(kind, seen) ->
               Goto(p, "refused") /\ UNCHANGED believed
         [] kind = "status" ->
               Goto(p, "ok") /\ UNCHANGED believed
         [] kind = "authorize" /\ seen.onboarded ->
               Goto(p, "login_read") /\ UNCHANGED believed
         [] kind \in {"create_user", "authorize"} /\ ~Refuses(kind, seen)
               /\ (kind = "authorize" => ~seen.onboarded) ->
               Attempt(p, "update", IF kind = "authorize" THEN Trim(req[p].cred) ELSE req[p].cred)
         [] OTHER ->
               Goto(p, "update") /\ UNCHANGED believed
    /\ UNCHANGED <<onboarding, auth_user>>
-----------------------------------------------------------------------------
(* The closures passed to update_onboarding. *)

AddStep(o, step) == [o EXCEPT !.done = Append(@, step)]

CreateUser(o, cred) == [AddStep(o, "user") EXCEPT !.user = Hashed(cred)]

CompleteCoreConfig(o) ==
    LET next == AddStep(o, "core_config") IN
    [next EXCEPT !.onboarded = StepDone(next, "user") /\ StepDone(next, "core_config")]

CompleteOnboarding(o) == [o EXCEPT !.onboarded = TRUE, !.done = <<"user", "core_config">>]

\* Mutant: the owner is saved to auth_user.json alone.
BootstrapNoOwner(o, cred) == CompleteOnboarding(o)


\* auth_authorize_submit trims what it stores.
BootstrapOwner(o, cred) == [CompleteOnboarding(o) EXCEPT !.user = Hashed(Trim(cred))]

Updated(kind, o, cred) ==
    CASE kind = "create_user" -> CreateUser(o, cred)
      [] kind = "core_config" -> CompleteCoreConfig(o)
      [] kind \in {"analytics", "integration"} -> AddStep(o, kind)
      [] kind = "complete" -> CompleteOnboarding(o)
      [] kind = "authorize" -> BootstrapOwner(o, cred)

\* Mutant: the change is applied to what the handler read earlier.
UpdateStale(p) ==
    LET kind == req[p].kind
        next == Updated(kind, req[p].seen, req[p].cred)
    IN
    /\ req[p].pc = "update"
    /\ onboarding' = next
    /\ IF kind \in {"analytics", "integration"} THEN Goto(p, "ok")
       ELSE req' = [req EXCEPT ![p].seen = next,
                               ![p].pc = IF kind = "authorize" THEN "save_user" ELSE "sync"]
    /\ UNCHANGED <<auth_user, runtime_mode, believed>>

Update(p) ==
    LET kind == req[p].kind
        next == Updated(kind, onboarding, req[p].cred)
    IN
    /\ req[p].pc = "update"
    /\ onboarding' = next
    /\ IF kind \in {"analytics", "integration"} THEN Goto(p, "ok")
       ELSE req' = [req EXCEPT ![p].seen = next,
                               ![p].pc = IF kind = "authorize" THEN "save_user" ELSE "sync"]
    /\ UNCHANGED <<auth_user, runtime_mode, believed>>

\* Back from the update: the mode follows.  create_onboarding_user does so before
\* it saves the user, bootstrap_authorized_owner after.
Sync(p) ==
    /\ req[p].pc = "sync"
    /\ SyncMode(req[p].seen.onboarded)
    /\ Goto(p, CASE req[p].kind = "create_user" -> "save_user"
                 [] req[p].kind = "authorize" -> "login_read"
                 [] OTHER -> "ok")
    /\ UNCHANGED <<onboarding, auth_user, believed>>

\* What the handler hands to AuthStore::save_user.
Stored(p) ==
    CASE req[p].pc = "save_user" /\ req[p].kind = "create_user" -> Hashed(req[p].cred)
      [] req[p].pc = "save_user" /\ req[p].kind = "authorize" -> Hashed(Trim(req[p].cred))
      [] req[p].pc = "save_legacy" -> req[p].user
      [] req[p].pc = "store_new" -> Hashed(req[p].target)

SaveUser(p) ==
    /\ req[p].pc = "save_user"
    /\ auth_user' = Stored(p)
    /\ \/ req[p].kind = "create_user" /\ Confirm(p)
       \/ req[p].kind = "authorize" /\ Goto(p, "sync") /\ UNCHANGED believed
    /\ UNCHANGED <<onboarding, runtime_mode>>
-----------------------------------------------------------------------------
(* auth_user: find the account, falling back to the copy in onboarding.json. *)

LoginCheck(p) ==
    /\ req[p].pc = "login_check"
    /\ SyncMode(req[p].seen.onboarded)
    /\ Goto(p, "load_user")
    /\ UNCHANGED <<onboarding, auth_user, believed>>

\* Mutant: the copy in onboarding.json is always taken.
LoadUserLegacy(p) ==
    /\ req[p].pc = "load_user"
    /\ Goto(p, "load_legacy")
    /\ UNCHANGED <<onboarding, auth_user, runtime_mode, believed>>

LoadUser(p) ==
    /\ req[p].pc = "load_user"
    /\ req' = [req EXCEPT ![p].user = auth_user,
                          ![p].pc = IF auth_user = Nobody THEN "load_legacy" ELSE "verify"]
    /\ UNCHANGED <<onboarding, auth_user, runtime_mode, believed>>

LoadLegacy(p) ==
    /\ req[p].pc = "load_legacy"
    /\ req' = [req EXCEPT ![p].user = onboarding.user,
                          ![p].pc = IF onboarding.user = Nobody THEN "verify" ELSE "save_legacy"]
    /\ UNCHANGED <<onboarding, auth_user, runtime_mode, believed>>

SaveLegacy(p) ==
    /\ req[p].pc = "save_legacy"
    /\ auth_user' = Stored(p)
    /\ Goto(p, "verify")
    /\ UNCHANGED <<onboarding, runtime_mode, believed>>

\* The credentials are compared, untrimmed, with what was loaded.  A login with a plaintext
\* password goes on to migrate it, a password change to store the new one.
Verify(p) ==
    LET user  == req[p].user
        valid == user # Nobody /\ Login(user) = req[p].cred
    IN
    /\ req[p].pc = "verify"
    /\ \/ ~valid /\ Goto(p, "refused") /\ UNCHANGED believed
       \/ valid /\ req[p].kind = "change_password" /\ Attempt(p, "store_new", req[p].target)
       \/ /\ valid
          /\ req[p].kind # "change_password"
          /\ IF user.hashed THEN Confirm(p)
             ELSE Goto(p, "migrate_auth") /\ UNCHANGED believed
    /\ UNCHANGED <<onboarding, auth_user, runtime_mode>>

\* First copy of the migrated password; an error is only logged.
MigrateAuth(p) ==
    /\ req[p].pc = "migrate_auth"
    /\ auth_user' \in {[req[p].user EXCEPT !.hashed = TRUE], auth_user}
    /\ Goto(p, "migrate_onboarding")
    /\ UNCHANGED <<onboarding, runtime_mode, believed>>

\* Second copy: only the password field of whatever user is stored there now.
MigrateOnboarding(p) ==
    /\ req[p].pc = "migrate_onboarding"
    /\ onboarding' \in
          {IF onboarding.user = Nobody THEN onboarding
           ELSE [onboarding EXCEPT !.user.password = req[p].cred.password,
                                   !.user.hashed = TRUE],
           onboarding}
    /\ Confirm(p)
    /\ UNCHANGED <<auth_user, runtime_mode>>

\* Mutant: the new hash goes to onboarding.json only.
StoreNewInOnboarding(p) ==
    /\ req[p].pc = "store_new"
    /\ onboarding' = [onboarding EXCEPT !.user = Stored(p)]
    /\ Confirm(p)
    /\ UNCHANGED <<auth_user, runtime_mode>>

\* api_user_change_password: the new hash goes to auth_user.json only.
StoreNewPassword(p) ==
    /\ req[p].pc = "store_new"
    /\ auth_user' = Stored(p)
    /\ Confirm(p)
    /\ UNCHANGED <<onboarding, runtime_mode>>
-----------------------------------------------------------------------------
(* A write fails and the handler answers 500.  When the failure comes after the *)
(* rename (the directory sync), the file has been replaced all the same.        *)
Fail(p) ==
    /\ req[p].pc \in {"update", "save_user", "save_legacy", "store_new"}
    /\ \/ UNCHANGED <<onboarding, auth_user>>
       \/ /\ req[p].pc = "update"
          /\ onboarding' = Updated(req[p].kind, onboarding, req[p].cred)
          /\ UNCHANGED auth_user
       \/ /\ req[p].pc # "update"
          /\ auth_user' = Stored(p)
          /\ UNCHANGED onboarding
    /\ Goto(p, "error")
    /\ UNCHANGED <<runtime_mode, believed>>

\* The process stops and starts: requests get no answer, the mode is set from
\* the file (AppState::new_initialized).
Restart ==
    /\ req' = [p \in Requests |-> IF Quiet(p) THEN req[p] ELSE At(p, "lost")]
    /\ SyncMode(onboarding.onboarded)
    /\ UNCHANGED <<onboarding, auth_user, believed>>

Handle(p) ==
    \/ Read(p) \/ Check(p) \/ Update(p) \/ Sync(p) \/ SaveUser(p)
    \/ LoginCheck(p) \/ LoadUser(p) \/ LoadLegacy(p) \/ SaveLegacy(p)
    \/ Verify(p) \/ MigrateAuth(p) \/ MigrateOnboarding(p) \/ StoreNewPassword(p)
    \/ Fail(p)

Next ==
    \/ \E p \in Requests, kind \in Kinds, cred \in Credentials, target \in Credentials :
          Arrive(p, kind, cred, target)
    \/ (Restart \/ \E p \in Requests : Handle(p)) /\ UNCHANGED overlapped

Spec == Init /\ [][Next]_vars
-----------------------------------------------------------------------------
(* Properties. *)

\* Once the hub is onboarded nothing un-onboards it, whatever handlers overlap.
OnboardedForGood == [][onboarding.onboarded => onboarding'.onboarded]_vars

\* The mode is "operational" only when the file says onboarded: a handler that
\* resumes late may report setup as unfinished, never as finished too early.
OperationalImpliesOnboarded == runtime_mode = "operational" => onboarding.onboarded

\* A hub that is onboarded step by step has an owner ("Create the first admin
\* user" comes before "Mark onboarding complete" in docs/onboarding-contract.md).
\* The request "complete" asks for no step and is set apart.
OnboardedHasOwner ==
    onboarding.onboarded /\ (\A p \in Requests : req[p].kind # "complete") =>
        onboarding.user # Nobody

\* The user step succeeds once: a second request is refused.
UserStepRunsOnce ==
    Cardinality({p \in Requests : req[p].kind = "create_user" /\ req[p].pc = "ok"}) <= 1

\* It does when requests are handled one after the other.
UserStepRunsOnceInTurn == ~overlapped => UserStepRunsOnce

Migrated == auth_user # Nobody /\ auth_user.hashed

\* A plaintext password is gone from auth_user.json once a login with it has
\* succeeded and migrated it; nothing puts it back.
HashedForGood == [][Migrated => auth_user'.hashed]_vars

\* So it is when requests are handled one after the other.
HashedForGoodInTurn == [][~overlapped /\ Migrated => auth_user'.hashed]_vars

\* What auth_user would find now.
AccountInForce ==
    IF auth_user # Nobody THEN Login(auth_user)
    ELSE IF onboarding.user # Nobody THEN Login(onboarding.user)
    ELSE Nobody

\* At rest, requests having been handled one after the other, the account in force
\* is one the answers given allow: the credentials last confirmed, or those of a
\* later request that was never answered with success.
AccountIsAsAnswered == Active = {} /\ ~overlapped => AccountInForce \in believed

\* At rest the mode is the one the file calls for, unless requests overlapped or a
\* write failed.
ModeFollowsFile ==
    Active = {} /\ ~overlapped /\ (\A p \in Requests : req[p].pc # "error") =>
        runtime_mode = ModeOf(onboarding.onboarded)

\* What the answers say is so when requests are handled one after the other: the
\* user step ran once, the account in force is the one last confirmed, and the
\* mode is the file's (core.rs, http.rs: reads and checks outside the lock).
AnswersHoldInTurn == UserStepRunsOnceInTurn /\ AccountIsAsAnswered /\ ModeFollowsFile
=============================================================================
