-------------------------- MODULE OnboardingProofs --------------------------
(***************************************************************************)
(* What Onboarding promises for any number of requests handled at once.    *)
(*                                                                         *)
(* update_onboarding changes the current file, so what holds of the file   *)
(* is kept by every closure it is given (UpdatedSound).  What a handler    *)
(* has read may be stale, but only ever too cautious: the file it read     *)
(* said "onboarded" only if the file of now does (NeverAhead).             *)
(*                                                                         *)
(* Requests that are handled in turn are believed for another reason: a    *)
(* handler that is alone finds on resuming what it read (Knows), so each   *)
(* step leaves an account in force that some request asked for, and the    *)
(* mode is behind the file only while the handler that changed it has yet  *)
(* to say so (InTurn).                                                     *)
(***************************************************************************)
EXTENDS Onboarding, FiniteSetTheorems, TLAPS

SetupOnly == {"status", "create_user", "core_config", "analytics", "integration", "authorize"}
Updating  == {"create_user", "core_config", "analytics", "integration", "complete", "authorize"}

(* Which handlers may be at which point. *)
Stages ==
    \A p \in Requests :
        /\ req[p].kind \in Kinds \cup {"none"}
        /\ req[p].pc \in {"read", "check"} => req[p].kind \in SetupOnly
        /\ req[p].pc = "update" => req[p].kind \in Updating
        /\ req[p].pc = "sync" => req[p].kind \in Updating \ {"analytics", "integration"}
        /\ req[p].pc = "save_user" => req[p].kind \in {"create_user", "authorize"}
        /\ req[p].pc \in {"save_legacy", "migrate_auth"} => req[p].user # Nobody

StepsDone(o) == o.onboarded => StepDone(o, "user") /\ StepDone(o, "core_config")

HasUser(o) == StepDone(o, "user") => o.user # Nobody

(* What a handler believes, and the mode, are never ahead of the file. *)
NeverAhead ==
    /\ runtime_mode = "operational" => onboarding.onboarded
    /\ \A p \in Requests :
          req[p].pc \in Resuming /\ req[p].seen.onboarded => onboarding.onboarded

SetupInv == TypeOK /\ Stages /\ StepsDone(onboarding) /\ NeverAhead

(* No request for "complete" was made. *)
StepByStep == \A p \in Requests : req[p].kind # "complete"

OwnerInv == SetupInv /\ (StepByStep => HasUser(onboarding))
-----------------------------------------------------------------------------
(* The closures passed to update_onboarding. *)

\* Recording a step changes nothing else and forgets none.
LEMMA AddStepLemma ==
    ASSUME NEW o \in Onb, NEW step \in StepNames
    PROVE  /\ AddStep(o, step) \in Onb
           /\ AddStep(o, step).onboarded = o.onboarded
           /\ AddStep(o, step).user = o.user
           /\ \A s \in StepNames : StepDone(AddStep(o, step), s) <=> s = step \/ StepDone(o, s)
<1> DEFINE Lists == Seq(StepNames)
           n == AddStep(o, step)
<1>1. Append(o.done, step) \in Lists /\ o.done \in Lists
    BY DEF Onb
<1>2. ASSUME NEW l \in Lists
      PROVE  /\ [o EXCEPT !.done = l] \in Onb
             /\ [o EXCEPT !.done = l].onboarded = o.onboarded
             /\ [o EXCEPT !.done = l].done = l
             /\ [o EXCEPT !.done = l].user = o.user
  <2>1. Onb = [onboarded : BOOLEAN, done : Lists, user : StoredUser \cup {Nobody}]
      BY DEF Onb
  <2> HIDE DEF Lists
  <2> QED
      BY <2>1
<1>3. n = [o EXCEPT !.done = Append(o.done, step)]
    BY DEF AddStep
<1>4. n \in Onb /\ n.onboarded = o.onboarded /\ n.user = o.user /\ n.done = Append(o.done, step)
  <2> DEFINE l == Append(o.done, step)
  <2>1. l \in Lists /\ n = [o EXCEPT !.done = l]
      BY <1>1, <1>3
  <2> HIDE DEF l, n, Lists
  <2>2. n \in Onb /\ n.onboarded = o.onboarded /\ n.user = o.user /\ n.done = l
      BY <1>2, <2>1
  <2> QED
      BY <2>2 DEF l
<1>5. ASSUME NEW s \in StepNames
      PROVE  StepDone(n, s) <=> s = step \/ StepDone(o, s)
  <2>1. /\ DOMAIN n.done = 1..(Len(o.done) + 1) /\ DOMAIN o.done = 1..Len(o.done)
        /\ \A i \in 1..Len(o.done) : n.done[i] = o.done[i]
        /\ n.done[Len(o.done) + 1] = step /\ Len(o.done) \in Nat
      BY <1>1, <1>4
  <2> HIDE DEF n
  <2> QED
      BY <2>1, SMTT(30) DEF StepDone
<1> QED
    BY <1>4, <1>5

LEMMA HashedTyped ==
    ASSUME NEW cred \in Credentials
    PROVE  /\ Hashed(cred) \in StoredUser /\ Hashed(cred) # Nobody
           /\ Trim(cred) \in Credentials
<1>1. cred = [username |-> cred.username, password |-> cred.password]
      /\ cred.username \in Usernames /\ cred.password \in Passwords
    BY DEF Credentials
<1>2. Hashed(cred) \in StoredUser
    BY <1>1 DEF Hashed, StoredUser
<1>3. Trim(cred) \in Credentials
    BY <1>1, OnboardingConstants DEF Trim, Credentials
<1>4. Nobody \notin StoredUser
    BY OnboardingConstants
<1> QED
    BY <1>2, <1>3, <1>4

\* What every closure keeps of the file.
LEMMA UpdatedSound ==
    ASSUME NEW o \in Onb, NEW kind \in Updating, NEW cred \in Credentials
    PROVE  /\ Updated(kind, o, cred) \in Onb
           /\ StepsDone(o) => StepsDone(Updated(kind, o, cred))
           /\ StepsDone(o) /\ o.onboarded => Updated(kind, o, cred).onboarded
           /\ kind # "complete" /\ HasUser(o) => HasUser(Updated(kind, o, cred))
<1> DEFINE u == Updated(kind, o, cred)
<1> USE DEF StepsDone, HasUser
<1>1. CASE kind = "create_user"
  <2> DEFINE n == AddStep(o, "user")
  <2>1. u = [n EXCEPT !.user = Hashed(cred)]
      BY <1>1 DEF Updated, CreateUser
  <2>2. /\ n \in Onb /\ n.onboarded = o.onboarded
        /\ \A s \in StepNames : StepDone(n, s) <=> s = "user" \/ StepDone(o, s)
      BY AddStepLemma DEF StepNames
  <2> HIDE DEF n
  <2>3. u \in Onb /\ u.done = n.done /\ u.onboarded = o.onboarded /\ u.user = Hashed(cred)
      BY <2>1, <2>2, HashedTyped DEF Onb
  <2>4. \A s \in StepNames : StepDone(u, s) <=> StepDone(n, s)
      BY <2>3 DEF StepDone
  <2> HIDE DEF u
  <2> QED
      BY <2>2, <2>3, <2>4, HashedTyped DEF StepNames, u
<1>2. CASE kind = "core_config"
  <2> DEFINE n == AddStep(o, "core_config")
  <2>1. u = [n EXCEPT !.onboarded = StepDone(n, "user") /\ StepDone(n, "core_config")]
      BY <1>2 DEF Updated, CompleteCoreConfig
  <2>2. /\ n \in Onb /\ n.onboarded = o.onboarded /\ n.user = o.user
        /\ \A s \in StepNames : StepDone(n, s) <=> s = "core_config" \/ StepDone(o, s)
      BY AddStepLemma DEF StepNames
  <2> HIDE DEF n
  <2>3. (StepDone(n, "user") /\ StepDone(n, "core_config")) \in BOOLEAN
      BY DEF StepDone
  <2>4. /\ u \in Onb /\ u.done = n.done /\ u.user = o.user
        /\ u.onboarded = (StepDone(n, "user") /\ StepDone(n, "core_config"))
      BY <2>1, <2>2, <2>3 DEF Onb
  <2>5. \A s \in StepNames : StepDone(u, s) <=> StepDone(n, s)
      BY <2>4 DEF StepDone
  <2> HIDE DEF u
  <2> QED
      BY <2>2, <2>4, <2>5 DEF StepNames, u
<1>3. CASE kind \in {"analytics", "integration"}
  <2>1. u = AddStep(o, kind) /\ kind \in StepNames
      BY <1>3 DEF Updated, StepNames
  <2> HIDE DEF u
  <2> QED
      BY <1>3, <2>1, AddStepLemma DEF StepNames, u
<1>4. CASE kind \in {"complete", "authorize"}
  <2>1. /\ u \in Onb /\ u.onboarded /\ u.done = <<"user", "core_config">>
        /\ kind = "authorize" => u.user = Hashed(Trim(cred))
    <3> DEFINE Lists == Seq(StepNames)
               l == <<"user", "core_config">>
               c == [o EXCEPT !.onboarded = TRUE, !.done = l]
    <3>1. l \in Lists
        BY DEF StepNames
    <3>2. Onb = [onboarded : BOOLEAN, done : Lists, user : StoredUser \cup {Nobody}]
        BY DEF Onb
    <3>3. Hashed(Trim(cred)) \in StoredUser
        BY HashedTyped
    <3>4. CompleteOnboarding(o) = c
        BY DEF CompleteOnboarding
    <3>5. u = IF kind = "complete" THEN c ELSE [c EXCEPT !.user = Hashed(Trim(cred))]
        BY <1>4, <3>4 DEF Updated, BootstrapOwner
    <3> HIDE DEF Lists, l, u
    <3>6. /\ u \in Onb /\ u.onboarded /\ u.done = l
          /\ kind = "authorize" => u.user = Hashed(Trim(cred))
        BY <1>4, <3>1, <3>2, <3>3, <3>5
    <3> QED
        BY <3>6 DEF l
  <2>2. StepDone(u, "user") /\ StepDone(u, "core_config")
      BY <2>1 DEF StepDone
  <2>3. kind = "authorize" => u.user # Nobody
      BY <2>1, HashedTyped
  <2> HIDE DEF u
  <2> QED
      BY <1>4, <2>1, <2>2, <2>3 DEF u
<1> QED
    BY <1>1, <1>2, <1>3, <1>4 DEF Updating
-----------------------------------------------------------------------------
LEMMA FreshTyped == Fresh \in Onb /\ ~Fresh.onboarded
BY DEF Fresh, Onb

LEMMA LegacyTyped ==
    ASSUME NEW cred \in Credentials
    PROVE  /\ Legacy(cred) \in Onb
           /\ StepsDone(Legacy(cred)) /\ HasUser(Legacy(cred))
<1> DEFINE l == Legacy(cred)
           u == [Hashed(cred) EXCEPT !.hashed = FALSE]
           d == <<"user", "core_config">>
<1>1. d \in Seq(StepNames) /\ \A s \in {"user", "core_config"} : \E i \in DOMAIN d : d[i] = s
    BY DEF StepNames
<1>2. u \in StoredUser /\ u # Nobody
  <2>1. Hashed(cred) \in StoredUser /\ Nobody \notin StoredUser
      BY HashedTyped, OnboardingConstants
  <2> QED
      BY <2>1 DEF StoredUser
<1>3. l = [onboarded |-> TRUE, done |-> d, user |-> u]
    BY DEF Legacy
<1> HIDE DEF u, d
<1>4. l \in Onb /\ l.done = d /\ l.user = u
    BY <1>1, <1>2, <1>3 DEF Onb
<1> QED
    BY <1>1, <1>2, <1>4 DEF StepsDone, HasUser, StepDone

LEMMA SetupInit == Init => OwnerInv
<1> SUFFICES ASSUME Init PROVE OwnerInv
    OBVIOUS
<1>1. onboarding \in Onb /\ StepsDone(onboarding) /\ HasUser(onboarding)
  <2>1. CASE onboarding = Fresh
      BY <2>1, FreshTyped DEF StepsDone, HasUser, StepDone, Fresh
  <2>2. CASE \E cred \in Credentials : onboarding = Legacy(cred)
      BY <2>2, LegacyTyped
  <2> QED
      BY <2>1, <2>2 DEF Init
<1>2. believed \subseteq Credentials \cup {Nobody}
    BY DEF Init
<1>3. runtime_mode = ModeOf(onboarding.onboarded) /\ onboarding.onboarded \in BOOLEAN
    BY <1>1 DEF Init, Onb
<1>4. TypeOK
    BY <1>1, <1>2, <1>3 DEF Init, TypeOK, ModeOf
<1>5. \A p \in Requests : req[p].kind = "none" /\ req[p].pc = "idle"
    BY DEF Init, Idle
<1>6. Stages /\ NeverAhead
    BY <1>3, <1>5 DEF Stages, NeverAhead, ModeOf, Resuming
<1> QED
    BY <1>1, <1>4, <1>6 DEF OwnerInv, SetupInv
-----------------------------------------------------------------------------
(* Moving a handler on. *)

\* A request at a point of its handler has the state of one.
LEMMA AtWork ==
    ASSUME TypeOK, NEW p \in Requests, req[p].pc \in Resuming
    PROVE  /\ req[p] \in Handler
           /\ req[p].kind \in AllKinds /\ req[p].cred \in Credentials
           /\ req[p].target \in Credentials /\ req[p].seen \in Onb
           /\ req[p].user \in StoredUser \cup {Nobody}
BY DEF TypeOK, Idle, Handler, Ended, Resuming, Answers

\* Going on, or answering, keeps a handler's kind, and what it has seen while it
\* still goes on.
LEMMA AtTyped ==
    ASSUME TypeOK, NEW p \in Requests, req[p].pc \in Resuming,
           NEW pc \in Resuming \cup Answers
    PROVE  /\ At(p, pc) \in Handler \cup Ended
           /\ At(p, pc).kind = req[p].kind /\ At(p, pc).pc = pc
           /\ pc \in Resuming => /\ At(p, pc).seen = req[p].seen
                                /\ At(p, pc).user = req[p].user
<1>1. req[p] \in Handler
    BY AtWork
<1>2. CASE pc \in Answers
  <2>1. At(p, pc) = [kind |-> req[p].kind, pc |-> pc]
      BY <1>2 DEF At
  <2>2. pc \notin Resuming
      BY <1>2 DEF Answers, Resuming
  <2> QED
      BY <1>1, <1>2, <2>1, <2>2 DEF Handler, Ended
<1>3. CASE pc \in Resuming
  <2>1. At(p, pc) = [req[p] EXCEPT !.pc = pc]
      BY <1>3 DEF At, Answers, Resuming
  <2> QED
      BY <1>1, <1>3, <2>1 DEF Handler
<1> QED
    BY <1>2, <1>3

\* Where a handler with state h may be.
Placed(h) ==
    /\ h.kind \in Kinds \cup {"none"}
    /\ h.pc \in {"read", "check"} => h.kind \in SetupOnly
    /\ h.pc = "update" => h.kind \in Updating
    /\ h.pc = "sync" => h.kind \in Updating \ {"analytics", "integration"}
    /\ h.pc = "save_user" => h.kind \in {"create_user", "authorize"}
    /\ h.pc \in {"save_legacy", "migrate_auth"} => h.user # Nobody

FilesKept ==
    /\ onboarding' \in Onb /\ StepsDone(onboarding')
    /\ onboarding.onboarded => onboarding'.onboarded
    /\ StepByStep /\ HasUser(onboarding) => HasUser(onboarding')
    /\ auth_user' \in StoredUser \cup {Nobody}
    /\ believed' \subseteq Credentials \cup {Nobody}

ModeKept ==
    \/ UNCHANGED runtime_mode
    \/ \E b \in BOOLEAN : runtime_mode' = ModeOf(b) /\ (b => onboarding'.onboarded)

\* One handler moves on to h, and the files keep what they promise: so does the
\* whole.
LEMMA Advance ==
    ASSUME SetupInv, NEW p \in Requests, NEW h \in Handler \cup Ended,
           req' = [req EXCEPT ![p] = h], Placed(h),
           h.pc \in Resuming /\ h.seen.onboarded => onboarding'.onboarded,
           FilesKept, ModeKept, overlapped' \in BOOLEAN
    PROVE  SetupInv'
<1>1. TypeOK /\ Stages /\ NeverAhead
    BY DEF SetupInv
<1>2. runtime_mode' \in {"operational", "unprovisioned"}
    BY <1>1 DEF ModeKept, ModeOf, TypeOK
<1>3. TypeOK'
    BY <1>1, <1>2 DEF TypeOK, FilesKept
<1>4. \A q \in Requests : req'[q] = IF q = p THEN h ELSE req[q]
    BY <1>1 DEF TypeOK
<1>5. Stages'
    BY <1>1, <1>4 DEF Stages, Placed
<1>6. runtime_mode' = "operational" => onboarding'.onboarded
    BY <1>1 DEF ModeKept, ModeOf, NeverAhead, FilesKept
<1>7. NeverAhead'
    BY <1>1, <1>4, <1>6 DEF NeverAhead, FilesKept
<1> QED
    BY <1>3, <1>5, <1>7 DEF SetupInv, FilesKept

\* A handler that goes on where its kind may be, without touching onboarding.json.
LEMMA GoesOn ==
    ASSUME SetupInv, NEW p \in Requests, req[p].pc \in Resuming,
           NEW pc \in Resuming \cup Answers,
           Goto(p, pc),
           pc \in {"read", "check"} => req[p].kind \in SetupOnly,
           pc = "update" => req[p].kind \in Updating,
           pc = "sync" => req[p].kind \in Updating \ {"analytics", "integration"},
           pc = "save_user" => req[p].kind \in {"create_user", "authorize"},
           pc \in {"save_legacy", "migrate_auth"} => req[p].user # Nobody,
           FilesKept, ModeKept, overlapped' \in BOOLEAN
    PROVE  SetupInv'
<1>1. TypeOK /\ Stages /\ NeverAhead
    BY DEF SetupInv
<1> DEFINE h == At(p, pc)
<1>2. /\ h \in Handler \cup Ended /\ h.kind = req[p].kind /\ h.pc = pc
      /\ pc \in Resuming => h.seen = req[p].seen /\ h.user = req[p].user
    BY <1>1, AtTyped
<1>3. req' = [req EXCEPT ![p] = h]
    BY DEF Goto
<1> HIDE DEF h
<1>4. Placed(h)
    BY <1>1, <1>2 DEF Placed, Stages, Resuming
<1>5. h.pc \in Resuming /\ h.seen.onboarded => onboarding'.onboarded
    BY <1>1, <1>2 DEF NeverAhead, FilesKept
<1> QED
    BY <1>2, <1>3, <1>4, <1>5, Advance

LEMMA SameFiles ==
    ASSUME SetupInv, UNCHANGED onboarding,
           auth_user' \in StoredUser \cup {Nobody},
           believed' \subseteq Credentials \cup {Nobody}
    PROVE  FilesKept
BY DEF SetupInv, TypeOK, FilesKept
-----------------------------------------------------------------------------
(* The steps, one lemma per part of the handlers. *)

LEMMA ArriveStep ==
    ASSUME SetupInv, NEW p \in Requests, NEW kind \in Kinds, NEW cred \in Credentials,
           NEW target \in Credentials, Arrive(p, kind, cred, target),
           overlapped' \in BOOLEAN
    PROVE  SetupInv' /\ FilesKept
<1> DEFINE pc == CASE kind = "complete" -> "update"
                   [] kind = "login" -> "login_read"
                   [] kind = "change_password" -> "load_user"
                   [] OTHER -> "read"
           h == [kind |-> kind, pc |-> pc, cred |-> cred, target |-> target,
                 seen |-> Fresh, user |-> Nobody]
<1>1. req' = [req EXCEPT ![p] = h]
    BY DEF Arrive
<1>2. kind \in AllKinds
    BY OnboardingConstants
<1>3. pc \in Resuming
    BY DEF Resuming
<1>4. h \in Handler
    BY <1>2, <1>3, FreshTyped DEF Handler
<1>5. Placed(h)
    BY <1>2 DEF Placed, SetupOnly, Updating, AllKinds
<1>6. FilesKept /\ ModeKept
    BY SameFiles DEF Arrive, SetupInv, TypeOK, ModeKept
<1>7. ~h.seen.onboarded
    BY FreshTyped
<1> HIDE DEF h
<1> QED
    BY <1>1, <1>4, <1>5, <1>6, <1>7, Advance

LEMMA ReadStep ==
    ASSUME SetupInv, NEW p \in Requests, Read(p),
           overlapped' \in BOOLEAN
    PROVE  SetupInv' /\ FilesKept
<1> DEFINE h == [req[p] EXCEPT !.seen = onboarding,
                               !.pc = IF req[p].pc = "read" THEN "check" ELSE "login_check"]
<1>1. TypeOK /\ Stages /\ req[p].pc \in {"read", "login_read"}
    BY DEF SetupInv, Read
<1>2. req[p] \in Handler
    BY <1>1, AtWork DEF Resuming
<1>3. /\ h \in Handler /\ h.kind = req[p].kind /\ h.seen = onboarding
      /\ h.pc = IF req[p].pc = "read" THEN "check" ELSE "login_check"
    BY <1>1, <1>2 DEF Handler, TypeOK, Resuming
<1>4. req' = [req EXCEPT ![p] = h] /\ UNCHANGED <<onboarding, auth_user, runtime_mode, believed>>
    BY DEF Read
<1> HIDE DEF h
<1>5. Placed(h)
    BY <1>1, <1>3 DEF Placed, Stages
<1>6. FilesKept /\ ModeKept
    BY <1>4, SameFiles DEF SetupInv, TypeOK, ModeKept
<1> QED
    BY <1>3, <1>4, <1>5, <1>6, Advance

LEMMA CheckStep ==
    ASSUME SetupInv, NEW p \in Requests, Check(p),
           overlapped' \in BOOLEAN
    PROVE  SetupInv' /\ FilesKept
<1>1. /\ TypeOK /\ Stages /\ NeverAhead /\ req[p].pc = "check" /\ req[p].pc \in Resuming
      /\ req[p].kind \in SetupOnly
    BY DEF SetupInv, Check, Resuming, Stages
<1>2. /\ req[p].cred \in Credentials /\ Trim(req[p].cred) \in Credentials
      /\ req[p].seen \in Onb
    BY <1>1, AtWork, HashedTyped
<1>3. ModeKept
  <2>1. runtime_mode' = ModeOf(req[p].seen.onboarded) /\ UNCHANGED onboarding
      BY DEF Check, SyncMode
  <2>2. req[p].seen.onboarded \in BOOLEAN
      BY <1>2 DEF Onb
  <2> QED
      BY <1>1, <2>1, <2>2 DEF ModeKept, NeverAhead
<1>4. believed' \subseteq Credentials \cup {Nobody}
    BY <1>1, <1>2 DEF Check, Attempt, TypeOK
<1>5. FilesKept
    BY <1>1, <1>4, SameFiles DEF Check, TypeOK
<1>6. \E pc \in {"refused", "ok", "login_read", "update"} :
          Goto(p, pc) /\ (pc = "update" => req[p].kind \in Updating)
  <2>1. req[p].kind = "status" \/ req[p].kind \in Updating
      BY <1>1 DEF SetupOnly, Updating
  <2> QED
      BY <2>1 DEF Check, Attempt
<1>7. PICK pc \in {"refused", "ok", "login_read", "update"} :
          Goto(p, pc) /\ (pc = "update" => req[p].kind \in Updating)
    BY <1>6
<1>8. pc \in Resuming \cup Answers
    BY DEF Resuming, Answers
<1> QED
    BY <1>1, <1>3, <1>5, <1>7, <1>8, GoesOn

LEMMA UpdateStep ==
    ASSUME SetupInv, NEW p \in Requests, Update(p),
           overlapped' \in BOOLEAN
    PROVE  SetupInv' /\ FilesKept
<1> DEFINE kind == req[p].kind
           next == Updated(kind, onboarding, req[p].cred)
<1>1. /\ TypeOK /\ Stages /\ StepsDone(onboarding) /\ onboarding \in Onb
      /\ req[p].pc = "update" /\ req[p].pc \in Resuming
      /\ kind \in Updating /\ kind \in Kinds \cup {"none"}
    BY DEF SetupInv, Update, Resuming, Stages, TypeOK
<1>2. req[p] \in Handler /\ req[p].cred \in Credentials
    BY <1>1, AtWork
<1>3. /\ next \in Onb /\ StepsDone(next) /\ (onboarding.onboarded => next.onboarded)
      /\ kind # "complete" /\ HasUser(onboarding) => HasUser(next)
    BY <1>1, <1>2, UpdatedSound
<1>4. onboarding' = next /\ UNCHANGED <<auth_user, runtime_mode, believed>>
    BY DEF Update
<1>5. FilesKept
    BY <1>1, <1>3, <1>4 DEF FilesKept, StepByStep, TypeOK
<1>6. ModeKept
    BY <1>4 DEF ModeKept
<1>7. CASE kind \in {"analytics", "integration"}
  <2>1. Goto(p, "ok") /\ "ok" \in Resuming \cup Answers
      BY <1>7 DEF Update, Answers
  <2> QED
      BY <1>1, <1>5, <1>6, <2>1, GoesOn
<1>8. CASE kind \notin {"analytics", "integration"}
  <2> DEFINE h == [req[p] EXCEPT !.seen = next,
                                 !.pc = IF kind = "authorize" THEN "save_user" ELSE "sync"]
  <2>1. req' = [req EXCEPT ![p] = h]
      BY <1>8 DEF Update
  <2> HIDE DEF next
  <2>2. /\ h \in Handler /\ h.kind = kind /\ h.seen = next
        /\ h.pc = IF kind = "authorize" THEN "save_user" ELSE "sync"
      BY <1>2, <1>3 DEF Handler, Resuming
  <2> HIDE DEF h
  <2>3. Placed(h)
      BY <1>1, <1>8, <2>2 DEF Placed
  <2>4. h.seen.onboarded => onboarding'.onboarded
      BY <1>4, <2>2
  <2> QED
      BY <2>1, <2>2, <2>3, <2>4, <1>5, <1>6, Advance
<1> QED
    BY <1>7, <1>8

\* The steps that set the mode from what the handler holds.
LEMMA SyncStep ==
    ASSUME SetupInv, NEW p \in Requests, Sync(p) \/ LoginCheck(p),
           overlapped' \in BOOLEAN
    PROVE  SetupInv' /\ FilesKept
<1>1. TypeOK /\ Stages /\ NeverAhead /\ req[p].pc \in {"sync", "login_check"}
    BY DEF SetupInv, Sync, LoginCheck
<1>2. req[p].pc \in Resuming /\ req[p].seen \in Onb
    BY <1>1, AtWork DEF Resuming
<1>3. /\ runtime_mode' = ModeOf(req[p].seen.onboarded)
      /\ UNCHANGED <<onboarding, auth_user, believed>>
    BY DEF Sync, LoginCheck, SyncMode
<1>4. ModeKept
    BY <1>1, <1>2, <1>3 DEF ModeKept, NeverAhead, Onb
<1>5. FilesKept
    BY <1>1, <1>3, SameFiles DEF TypeOK
<1>6. PICK pc \in {"save_user", "login_read", "ok", "load_user"} :
          Goto(p, pc) /\ (pc = "save_user" => req[p].kind \in {"create_user", "authorize"})
    BY DEF Sync, LoginCheck
<1>7. pc \in Resuming \cup Answers
    BY DEF Resuming, Answers
<1> QED
    BY <1>2, <1>4, <1>5, <1>6, <1>7, GoesOn

\* The steps that replace auth_user.json, or leave it.
LEMMA StoredTyped ==
    ASSUME SetupInv, NEW p \in Requests,
           \/ req[p].pc \in {"save_user", "store_new"}
           \/ req[p].pc = "save_legacy"
    PROVE  Stored(p) \in StoredUser \cup {Nobody}
<1>1. /\ TypeOK /\ req[p].pc \in Resuming
      /\ req[p].pc = "save_user" => req[p].kind \in {"create_user", "authorize"}
    BY DEF SetupInv, Stages, Resuming
<1>2. /\ req[p].cred \in Credentials /\ req[p].target \in Credentials
      /\ req[p].user \in StoredUser \cup {Nobody}
    BY <1>1, AtWork
<1>3. /\ Hashed(req[p].cred) \in StoredUser /\ Hashed(req[p].target) \in StoredUser
      /\ Hashed(Trim(req[p].cred)) \in StoredUser
    BY <1>2, HashedTyped
<1> QED
    BY <1>1, <1>2, <1>3 DEF Stored

LEMMA AccountStep ==
    ASSUME SetupInv, NEW p \in Requests,
           SaveUser(p) \/ SaveLegacy(p) \/ StoreNewPassword(p) \/ MigrateAuth(p),
           overlapped' \in BOOLEAN
    PROVE  SetupInv' /\ FilesKept
<1>1. /\ TypeOK /\ Stages
      /\ req[p].pc \in {"save_user", "save_legacy", "store_new", "migrate_auth"}
      /\ UNCHANGED <<onboarding, runtime_mode>>
    BY DEF SetupInv, SaveUser, SaveLegacy, StoreNewPassword, MigrateAuth
<1>2. /\ req[p].pc \in Resuming /\ req[p].target \in Credentials
      /\ req[p].user \in StoredUser \cup {Nobody}
    BY <1>1, AtWork DEF Resuming
<1>3. auth_user' \in StoredUser \cup {Nobody}
  <2>1. CASE MigrateAuth(p)
    <3>1. CASE auth_user' = auth_user
        BY <1>1, <3>1 DEF TypeOK
    <3>2. CASE auth_user' = [req[p].user EXCEPT !.hashed = TRUE]
      <4>1. req[p].user \in StoredUser
          BY <1>1, <1>2, <2>1 DEF Stages, MigrateAuth
      <4> QED
          BY <3>2, <4>1 DEF StoredUser
    <3> QED
        BY <2>1, <3>1, <3>2 DEF MigrateAuth
  <2> QED
      BY <1>1, <2>1, StoredTyped DEF SaveUser, SaveLegacy, StoreNewPassword
<1>4. believed' \subseteq Credentials \cup {Nobody}
    BY <1>1, <1>2 DEF SaveUser, SaveLegacy, StoreNewPassword, MigrateAuth, Confirm, TypeOK
<1>5. FilesKept /\ ModeKept
    BY <1>1, <1>3, <1>4, SameFiles DEF ModeKept
<1>6. PICK pc \in {"ok", "sync", "verify", "migrate_onboarding"} :
          Goto(p, pc) /\ (pc = "sync" => req[p].kind = "authorize")
    BY DEF SaveUser, SaveLegacy, StoreNewPassword, MigrateAuth, Confirm
<1>7. pc \in Resuming \cup Answers
    BY DEF Resuming, Answers
<1> QED
    BY <1>2, <1>5, <1>6, <1>7, GoesOn DEF Updating

LEMMA LoadStep ==
    ASSUME SetupInv, NEW p \in Requests, LoadUser(p) \/ LoadLegacy(p),
           overlapped' \in BOOLEAN
    PROVE  SetupInv' /\ FilesKept
<1>1. /\ TypeOK /\ Stages /\ NeverAhead /\ req[p].pc \in {"load_user", "load_legacy"}
      /\ UNCHANGED <<onboarding, auth_user, runtime_mode, believed>>
    BY DEF SetupInv, LoadUser, LoadLegacy
<1>2. req[p] \in Handler /\ req[p].pc \in Resuming
    BY <1>1, AtWork DEF Resuming
<1>3. onboarding.user \in StoredUser \cup {Nobody}
    BY <1>1 DEF TypeOK, Onb
<1>4. \E u \in StoredUser \cup {Nobody}, pc \in {"load_legacy", "verify", "save_legacy"} :
          /\ req' = [req EXCEPT ![p].user = u, ![p].pc = pc]
          /\ pc = "save_legacy" => u # Nobody
    BY <1>1, <1>3 DEF LoadUser, LoadLegacy, TypeOK
<1>5. PICK u \in StoredUser \cup {Nobody}, pc \in {"load_legacy", "verify", "save_legacy"} :
          /\ req' = [req EXCEPT ![p].user = u, ![p].pc = pc]
          /\ pc = "save_legacy" => u # Nobody
    BY <1>4
<1> DEFINE h == [req[p] EXCEPT !.user = u, !.pc = pc]
<1>6. req' = [req EXCEPT ![p] = h]
    BY <1>5
<1>7. h \in Handler /\ h.kind = req[p].kind /\ h.pc = pc /\ h.user = u /\ h.seen = req[p].seen
    BY <1>2 DEF Handler, Resuming
<1> HIDE DEF h
<1>8. Placed(h)
    BY <1>1, <1>5, <1>7 DEF Placed, Stages
<1>9. FilesKept /\ ModeKept
    BY <1>1, SameFiles DEF TypeOK, ModeKept
<1>10. h.seen.onboarded => onboarding'.onboarded
    BY <1>1, <1>2, <1>7 DEF NeverAhead
<1> QED
    BY <1>6, <1>7, <1>8, <1>9, <1>10, Advance

LEMMA VerifyStep ==
    ASSUME SetupInv, NEW p \in Requests, Verify(p),
           overlapped' \in BOOLEAN
    PROVE  SetupInv' /\ FilesKept
<1>1. /\ TypeOK /\ Stages /\ req[p].pc = "verify" /\ req[p].pc \in Resuming
      /\ UNCHANGED <<onboarding, auth_user, runtime_mode>>
    BY DEF SetupInv, Verify, Resuming
<1>2. req[p].target \in Credentials
    BY <1>1, AtWork
<1>3. believed' \subseteq Credentials \cup {Nobody}
    BY <1>1, <1>2 DEF Verify, Attempt, Confirm, TypeOK
<1>4. FilesKept /\ ModeKept
    BY <1>1, <1>3, SameFiles DEF TypeOK, ModeKept
<1>5. PICK pc \in {"refused", "store_new", "ok", "migrate_auth"} :
          Goto(p, pc) /\ (pc = "migrate_auth" => req[p].user # Nobody)
    BY DEF Verify, Attempt, Confirm
<1>6. pc \in Resuming \cup Answers
    BY DEF Resuming, Answers
<1> QED
    BY <1>1, <1>4, <1>5, <1>6, GoesOn

\* The password field of the copy in onboarding.json is all that changes there.
LEMMA MigrateOnboardingStep ==
    ASSUME SetupInv, NEW p \in Requests, MigrateOnboarding(p),
           overlapped' \in BOOLEAN
    PROVE  SetupInv' /\ FilesKept
<1> DEFINE n == [onboarding EXCEPT !.user.password = req[p].cred.password, !.user.hashed = TRUE]
<1>1. /\ TypeOK /\ StepsDone(onboarding) /\ onboarding \in Onb
      /\ req[p].pc = "migrate_onboarding" /\ req[p].pc \in Resuming
      /\ UNCHANGED <<auth_user, runtime_mode>>
    BY DEF SetupInv, TypeOK, MigrateOnboarding, Resuming
<1>2. req[p].cred \in Credentials /\ req[p].target \in Credentials
    BY <1>1, AtWork
<1>3. onboarding' = onboarding \/ (onboarding' = n /\ onboarding.user # Nobody)
    BY DEF MigrateOnboarding
<1>4. /\ onboarding' \in Onb /\ onboarding'.onboarded = onboarding.onboarded
      /\ onboarding'.done = onboarding.done
      /\ onboarding.user # Nobody => onboarding'.user # Nobody
  <2>1. CASE onboarding' = n /\ onboarding.user # Nobody
    <3>1. onboarding.user \in StoredUser /\ Nobody \notin StoredUser
        BY <1>1, <2>1, OnboardingConstants DEF Onb
    <3> DEFINE w == [onboarding.user EXCEPT !.password = req[p].cred.password, !.hashed = TRUE]
    <3>2. w \in StoredUser
        BY <1>2, <3>1 DEF StoredUser, Credentials
    <3>3. n = [onboarding EXCEPT !.user = w]
        BY <1>1, <3>1 DEF Onb, StoredUser
    <3> HIDE DEF n, w
    <3> QED
        BY <1>1, <2>1, <3>1, <3>2, <3>3 DEF Onb
  <2> QED
      BY <1>1, <1>3, <2>1
<1>5. FilesKept
  <2>1. believed' \subseteq Credentials \cup {Nobody}
      BY <1>2 DEF MigrateOnboarding, Confirm
  <2> QED
      BY <1>1, <1>4, <2>1 DEF FilesKept, StepsDone, HasUser, StepDone, TypeOK
<1>6. ModeKept
    BY <1>1 DEF ModeKept
<1>7. Goto(p, "ok") /\ "ok" \in Resuming \cup Answers
    BY DEF MigrateOnboarding, Confirm, Answers
<1> QED
    BY <1>1, <1>5, <1>6, <1>7, GoesOn

LEMMA FailStep ==
    ASSUME SetupInv, NEW p \in Requests, Fail(p),
           overlapped' \in BOOLEAN
    PROVE  SetupInv' /\ FilesKept
<1>1. /\ TypeOK /\ Stages /\ StepsDone(onboarding) /\ onboarding \in Onb
      /\ req[p].pc \in {"update", "save_user", "save_legacy", "store_new"}
      /\ req[p].pc \in Resuming /\ UNCHANGED <<runtime_mode, believed>>
    BY DEF SetupInv, TypeOK, Fail, Resuming
<1>2. FilesKept
  <2>1. CASE UNCHANGED <<onboarding, auth_user>>
      BY <1>1, <2>1, SameFiles DEF TypeOK
  <2>2. CASE /\ req[p].pc = "update" /\ UNCHANGED auth_user
             /\ onboarding' = Updated(req[p].kind, onboarding, req[p].cred)
    <3> DEFINE kind == req[p].kind
               next == Updated(kind, onboarding, req[p].cred)
    <3>1. kind \in Updating /\ kind \in Kinds \cup {"none"} /\ req[p].cred \in Credentials
        BY <1>1, <2>2, AtWork DEF Stages
    <3>2. /\ next \in Onb /\ StepsDone(next) /\ (onboarding.onboarded => next.onboarded)
          /\ kind # "complete" /\ HasUser(onboarding) => HasUser(next)
        BY <1>1, <3>1, UpdatedSound
    <3> QED
        BY <1>1, <2>2, <3>1, <3>2 DEF FilesKept, StepByStep, TypeOK
  <2>3. CASE req[p].pc # "update" /\ auth_user' = Stored(p) /\ UNCHANGED onboarding
      BY <1>1, <2>3, SameFiles, StoredTyped DEF TypeOK
  <2> QED
      BY <2>1, <2>2, <2>3 DEF Fail
<1>3. ModeKept
    BY <1>1 DEF ModeKept
<1>4. Goto(p, "error") /\ "error" \in Resuming \cup Answers
    BY DEF Fail, Answers
<1> QED
    BY <1>1, <1>2, <1>3, <1>4, GoesOn

LEMMA RestartStep ==
    ASSUME SetupInv, Restart,
           overlapped' \in BOOLEAN
    PROVE  SetupInv' /\ FilesKept
<1>1. TypeOK /\ Stages /\ StepsDone(onboarding) /\ NeverAhead
    BY DEF SetupInv
<1>2. FilesKept
    BY <1>1, SameFiles DEF Restart, TypeOK
<1>3. \A q \in Requests : req'[q] = IF Quiet(q) THEN req[q] ELSE At(q, "lost")
    BY DEF Restart
<1>4. \A q \in Requests : ~Quiet(q) => req[q].pc \in Resuming
    BY <1>1 DEF Quiet, TypeOK, Idle, Handler, Ended
<1>5. \A q \in Requests :
          /\ req'[q] \in {Idle} \cup Handler \cup Ended
          /\ req'[q].kind = req[q].kind /\ req'[q].pc \in {"idle"} \cup Answers
  <2> SUFFICES ASSUME NEW q \in Requests
               PROVE  /\ req'[q] \in {Idle} \cup Handler \cup Ended
                      /\ req'[q].kind = req[q].kind /\ req'[q].pc \in {"idle"} \cup Answers
      OBVIOUS
  <2>1. CASE Quiet(q)
      BY <1>1, <1>3, <2>1 DEF TypeOK, Quiet
  <2>2. CASE ~Quiet(q)
      BY <1>1, <1>3, <1>4, <2>2, AtTyped DEF Answers
  <2> QED
      BY <2>1, <2>2
<1>6. onboarding.onboarded \in BOOLEAN /\ runtime_mode' = ModeOf(onboarding.onboarded)
      /\ UNCHANGED <<onboarding, auth_user, believed>>
    BY <1>1 DEF TypeOK, Onb, Restart, SyncMode
<1>7. TypeOK'
  <2>1. req' \in [Requests -> {Idle} \cup Handler \cup Ended]
      BY <1>5 DEF Restart
  <2> QED
      BY <1>1, <1>6, <2>1 DEF TypeOK, ModeOf
<1>8. Stages'
    BY <1>1, <1>5 DEF Stages, Answers
<1>9. NeverAhead'
    BY <1>5, <1>6 DEF NeverAhead, ModeOf, Answers, Resuming
<1> QED
    BY <1>2, <1>7, <1>8, <1>9 DEF SetupInv, FilesKept
-----------------------------------------------------------------------------
LEMMA OverlapTyped == TypeOK /\ Next => overlapped' \in BOOLEAN
BY DEF TypeOK, Next, Arrive

LEMMA SetupStep ==
    ASSUME SetupInv, Next
    PROVE  SetupInv' /\ FilesKept
<1>1. overlapped' \in BOOLEAN
    BY OverlapTyped DEF SetupInv
<1>2. CASE Restart
    BY <1>1, <1>2, RestartStep
<1>3. ASSUME NEW p \in Requests, NEW kind \in Kinds, NEW cred \in Credentials,
             NEW target \in Credentials, Arrive(p, kind, cred, target)
      PROVE  SetupInv' /\ FilesKept
    BY <1>1, <1>3, ArriveStep
<1>4. ASSUME NEW p \in Requests, Handle(p)
      PROVE  SetupInv' /\ FilesKept
  <2>1. CASE Read(p) \/ Check(p) \/ Update(p) \/ Sync(p) \/ LoginCheck(p)
      BY <1>1, <2>1, ReadStep, CheckStep, UpdateStep, SyncStep
  <2>2. CASE SaveUser(p) \/ SaveLegacy(p) \/ StoreNewPassword(p) \/ MigrateAuth(p)
      BY <1>1, <2>2, AccountStep
  <2>3. CASE LoadUser(p) \/ LoadLegacy(p) \/ Verify(p) \/ MigrateOnboarding(p) \/ Fail(p)
      BY <1>1, <2>3, LoadStep, VerifyStep, MigrateOnboardingStep, FailStep
  <2> QED
      BY <1>4, <2>1, <2>2, <2>3 DEF Handle
<1> QED
    BY <1>2, <1>3, <1>4 DEF Next

LEMMA SetupStutter ==
    ASSUME SetupInv, UNCHANGED vars
    PROVE  SetupInv' /\ FilesKept
BY DEF vars, SetupInv, TypeOK, Stages, StepsDone, StepDone, NeverAhead, FilesKept, HasUser

LEMMA SetupSafe == Spec => []SetupInv
<1>1. Init => SetupInv
    BY SetupInit DEF OwnerInv
<1>2. SetupInv /\ [Next]_vars => SetupInv'
    BY SetupStep, SetupStutter
<1> QED
    BY <1>1, <1>2, PTL DEF Spec

\* The types hold of every state, for any number of requests at once.
THEOREM TypeCorrect == Spec => []TypeOK
<1>1. SetupInv => TypeOK
    BY DEF SetupInv
<1> QED
    BY <1>1, SetupSafe, PTL

\* No handler, however stale what it read and whatever write of it fails, takes
\* an onboarded hub back to setup.
THEOREM OnboardedStays == Spec => OnboardedForGood
<1>1. SetupInv /\ [Next]_vars => [onboarding.onboarded => onboarding'.onboarded]_vars
    BY SetupStep DEF FilesKept
<1> QED
    BY <1>1, SetupSafe, PTL DEF Spec, OnboardedForGood

\* The mode never says that setup is finished before the file does.
THEOREM ModeNeverAhead == Spec => []OperationalImpliesOnboarded
<1>1. SetupInv => OperationalImpliesOnboarded
    BY DEF SetupInv, NeverAhead, OperationalImpliesOnboarded
<1> QED
    BY <1>1, SetupSafe, PTL
-----------------------------------------------------------------------------
(* A request stays of its kind. *)

LEMMA SameKind ==
    ASSUME TypeOK, NEW p \in Requests, req[p].kind = "complete", NEW pc
    PROVE  At(p, pc).kind = "complete" /\ [req[p] EXCEPT !.pc = pc].kind = "complete"
<1>1. req[p] \in Handler \cup Ended
    BY DEF TypeOK, Idle
<1> QED
    BY <1>1 DEF At, Handler, Ended

LEMMA KindStays ==
    ASSUME TypeOK, Next, NEW q \in Requests, req[q].kind = "complete"
    PROVE  req'[q].kind = "complete"
<1>1. req[q] \in Handler \cup Ended /\ req[q].pc # "idle"
    BY DEF TypeOK, Idle, Handler, Ended, Resuming, Answers
<1>2. ASSUME NEW p \in Requests, NEW pc, Goto(p, pc)
      PROVE  req'[q].kind = "complete"
    BY <1>2, SameKind DEF Goto, TypeOK
<1>3. CASE Restart
    BY <1>3, SameKind DEF Restart
<1>4. ASSUME NEW p \in Requests, NEW kind \in Kinds, NEW cred \in Credentials,
             NEW target \in Credentials, Arrive(p, kind, cred, target)
      PROVE  req'[q].kind = "complete"
    BY <1>1, <1>4 DEF Arrive, TypeOK
<1>5. ASSUME NEW p \in Requests, Read(p) \/ Update(p) \/ LoadUser(p) \/ LoadLegacy(p)
      PROVE  req'[q].kind = "complete"
  <2>1. req[p].pc \in Resuming
      BY <1>5 DEF Read, Update, LoadUser, LoadLegacy, Resuming
  <2>2. req[p] \in Handler
      BY <2>1, AtWork
  <2>3. CASE Read(p)
      BY <2>2, <2>3 DEF Read, TypeOK, Handler
  <2>4. CASE Update(p)
    <3>1. CASE Goto(p, "ok")
        BY <1>2, <3>1
    <3>2. CASE ~Goto(p, "ok")
        BY <2>2, <2>4, <3>2 DEF Update, TypeOK, Handler
    <3> QED
        BY <3>1, <3>2
  <2>5. CASE LoadUser(p) \/ LoadLegacy(p)
      BY <2>2, <2>5 DEF LoadUser, LoadLegacy, TypeOK, Handler
  <2> QED
      BY <1>5, <2>3, <2>4, <2>5
<1>6. ASSUME NEW p \in Requests,
             \/ Check(p) \/ Sync(p) \/ SaveUser(p) \/ LoginCheck(p) \/ SaveLegacy(p)
             \/ Verify(p) \/ MigrateAuth(p) \/ MigrateOnboarding(p)
             \/ StoreNewPassword(p) \/ Fail(p)
      PROVE  \E pc : Goto(p, pc)
    BY <1>6
    DEF Check, Sync, SaveUser, LoginCheck, SaveLegacy, Verify, MigrateAuth,
        MigrateOnboarding, StoreNewPassword, Fail, Attempt, Confirm
<1> QED
    BY <1>2, <1>3, <1>4, <1>5, <1>6 DEF Next, Handle

\* A hub onboarded step by step has an owner, however its handlers overlap.
THEOREM OnboardedHubHasOwner == Spec => []OnboardedHasOwner
<1>1. Init => OwnerInv
    BY SetupInit DEF OwnerInv
<1>2. OwnerInv /\ [Next]_vars => OwnerInv'
  <2>1. ASSUME OwnerInv, Next PROVE OwnerInv'
    <3>1. SetupInv' /\ FilesKept
        BY <2>1, SetupStep DEF OwnerInv
    <3>2. StepByStep' => StepByStep
        BY <2>1, KindStays DEF OwnerInv, SetupInv, StepByStep
    <3> QED
        BY <2>1, <3>1, <3>2 DEF OwnerInv, FilesKept
  <2>2. ASSUME OwnerInv, UNCHANGED vars PROVE OwnerInv'
      BY <2>2, SetupStutter DEF OwnerInv, FilesKept, StepByStep, vars
  <2> QED
      BY <2>1, <2>2
<1>3. OwnerInv => OnboardedHasOwner
    BY DEF OwnerInv, SetupInv, StepsDone, HasUser, StepByStep, OnboardedHasOwner
<1> QED
    BY <1>1, <1>2, <1>3, PTL DEF Spec
-----------------------------------------------------------------------------
(* Requests handled one after the other. *)

OneAtATime == \A p, q \in Requests : ~Quiet(p) /\ ~Quiet(q) => p = q

AccountPoints == {"login_read", "login_check", "load_user", "load_legacy", "save_legacy",
                  "verify", "migrate_auth", "migrate_onboarding", "store_new"}
StepPoints == {"update", "sync", "save_user"}

(* What handler p knows of the files when no other handler runs: what it read *)
(* is what is there, and what it may put in force was attempted.              *)
Knows(p) ==
    LET h == req[p] IN
    /\ h.pc \in Resuming /\ h.kind # "change_password" => h.target = h.cred
    /\ h.pc \in AccountPoints => h.kind # "create_user"
    /\ h.pc \in {"check", "login_check", "sync"} => h.seen = onboarding
    /\ h.pc = "save_user" /\ h.kind = "authorize" => h.seen = onboarding
    /\ h.pc \in StepPoints /\ h.kind = "create_user" => h.cred \in believed
    /\ h.pc \in {"sync", "save_user"} /\ h.kind = "create_user" => onboarding.user # Nobody
    /\ h.pc \in {"update", "save_user"} /\ h.kind = "authorize" => Trim(h.cred) \in believed
    /\ h.pc = "store_new" => h.target \in believed
    /\ h.pc \in {"load_legacy", "save_legacy"} => auth_user = Nobody
    /\ h.pc = "save_legacy" => h.user = onboarding.user
    /\ h.pc \in {"verify", "migrate_auth"} => h.user = auth_user
    /\ h.pc \in {"migrate_auth", "migrate_onboarding"} =>
          auth_user # Nobody /\ Login(auth_user) = h.target

Made(p) == req[p].kind = "create_user" /\ req[p].pc = "ok"

(* The owner was made by one request at most, and while one may make the owner *)
(* none has.                                                                   *)
MadeOnce ==
    /\ \A p, q \in Requests : Made(p) /\ Made(q) => p = q
    /\ \A p \in Requests : Made(p) => onboarding.user # Nobody
    /\ \A p, q \in Requests :
          req[p].kind = "create_user" /\ req[p].pc \in StepPoints => ~Made(q)

\* Handler p has changed the file and not yet set the mode.
Behind(p) == req[p].pc = "sync" \/ (req[p].pc = "save_user" /\ req[p].kind = "authorize")

ModeSettles ==
    (\A p \in Requests : req[p].pc # "error") =>
        runtime_mode = ModeOf(onboarding.onboarded) \/ \E p \in Requests : Behind(p)

InTurn ==
    /\ OneAtATime
    /\ AccountInForce \in believed
    /\ \A p \in Requests : Knows(p)
    /\ MadeOnce
    /\ ModeSettles

TurnInv == SetupInv /\ (~overlapped => InTurn)

\* A handler is at one of its points exactly when its request is not at rest.
LEMMA AtRest ==
    ASSUME TypeOK, NEW p \in Requests
    PROVE  Quiet(p) <=> req[p].pc \notin Resuming
BY DEF TypeOK, Idle, Handler, Ended, Resuming, Answers, Quiet

\* What a handler that goes on keeps, and what the others do meanwhile.
Moves(p, pc) ==
    /\ req'[p].pc = pc /\ req'[p].kind = req[p].kind
    /\ pc \in Resuming => req'[p].cred = req[p].cred /\ req'[p].target = req[p].target
    /\ \A q \in Requests : q # p => req'[q] = req[q]

\* Goto moves a handler on with all it holds.
LEMMA GotoMoves ==
    ASSUME TypeOK, NEW p \in Requests, req[p].pc \in Resuming,
           NEW pc \in Resuming \cup Answers, Goto(p, pc)
    PROVE  /\ Moves(p, pc)
           /\ pc \in Resuming => req'[p].seen = req[p].seen /\ req'[p].user = req[p].user
<1> DEFINE h == At(p, pc)
<1>1. req[p] \in Handler
    BY AtWork
<1>2. /\ h.kind = req[p].kind /\ h.pc = pc
      /\ pc \in Resuming => h.seen = req[p].seen /\ h.user = req[p].user
    BY AtTyped
<1>3. pc \in Resuming => h.cred = req[p].cred /\ h.target = req[p].target
    BY <1>1 DEF At, Answers, Resuming, Handler
<1>4. req' = [req EXCEPT ![p] = h]
    BY DEF Goto
<1> HIDE DEF h
<1>5. req'[p] = h /\ \A q \in Requests : q # p => req'[q] = req[q]
    BY <1>4 DEF TypeOK
<1> QED
    BY <1>2, <1>3, <1>5 DEF Moves

\* What a step of handler p changes of the files, and its point, agree.
Orderly(p, pc) ==
    /\ AccountInForce' \in believed'
    /\ Knows(p)'
    /\ onboarding.user # Nobody => onboarding'.user # Nobody
    /\ req[p].kind = "create_user" =>
          /\ pc = "ok" => req[p].pc = "save_user"
          /\ pc \in StepPoints => req[p].pc \in StepPoints \/ onboarding.user = Nobody
    /\ \/ pc = "error"
       \/ runtime_mode' = ModeOf(onboarding'.onboarded)
       \/ pc = "sync" \/ (pc = "save_user" /\ req[p].kind = "authorize")
       \/ /\ UNCHANGED runtime_mode /\ onboarding'.onboarded = onboarding.onboarded
          /\ ~Behind(p)

\* The only handler at work takes an orderly step: requests are still handled in
\* turn.
LEMMA TakesTurn ==
    ASSUME SetupInv, SetupInv', InTurn, NEW p \in Requests, req[p].pc \in Resuming,
           NEW pc, Moves(p, pc), Orderly(p, pc)
    PROVE  InTurn'
<1>1. TypeOK /\ TypeOK'
    BY DEF SetupInv
<1>2. ~Quiet(p)
    BY <1>1, AtRest
<1>3. \A q \in Requests : q # p => Quiet(q) /\ Quiet(q)'
    BY <1>2 DEF InTurn, OneAtATime, Moves, Quiet
<1>4. OneAtATime'
    BY <1>3 DEF OneAtATime
<1>5. \A q \in Requests : Knows(q)'
  <2>1. ASSUME NEW q \in Requests, q # p PROVE Knows(q)'
    <3>1. Quiet(q)'
        BY <1>3, <2>1
    <3> QED
        BY <3>1 DEF Quiet, Knows, Resuming, Answers, AccountPoints, StepPoints
  <2> QED
      BY <2>1 DEF Orderly
<1>6. MadeOnce'
  <2>1. \A q \in Requests : q # p => (Made(q)' <=> Made(q))
      BY DEF Made, Moves
  <2>2. Made(p)' => req[p].kind = "create_user" /\ req[p].pc = "save_user"
      BY DEF Made, Moves, Orderly
  <2>3. ~Made(p)
      BY DEF Made, Resuming
  <2>4. Made(p)' => onboarding'.user # Nobody /\ \A q \in Requests : ~Made(q)
      BY <2>2 DEF InTurn, Knows, Orderly, MadeOnce, StepPoints
  <2>5. \A q \in Requests : Made(q)' => onboarding'.user # Nobody
      BY <2>1, <2>4 DEF InTurn, MadeOnce, Orderly
  <2>6. \A q, r \in Requests : Made(q)' /\ Made(r)' => q = r
      BY <2>1, <2>4 DEF InTurn, MadeOnce
  <2>7. ASSUME NEW q \in Requests, NEW r \in Requests,
               req'[q].kind = "create_user", req'[q].pc \in StepPoints
        PROVE  ~Made(r)'
    <3>1. q = p
        BY <1>3, <2>7 DEF StepPoints, Quiet, Answers
    <3>2. ~Made(p)'
        BY <2>7, <3>1 DEF Made, StepPoints
    <3>3. \A s \in Requests : ~Made(s)
        BY <2>7, <3>1 DEF InTurn, MadeOnce, Orderly, Moves
    <3> QED
        BY <2>1, <3>2, <3>3
  <2> QED
      BY <2>5, <2>6, <2>7 DEF MadeOnce
<1>7. ModeSettles'
  <2> SUFFICES ASSUME \A q \in Requests : req'[q].pc # "error"
               PROVE  \/ runtime_mode' = ModeOf(onboarding'.onboarded)
                      \/ \E q \in Requests : Behind(q)'
      BY DEF ModeSettles
  <2>1. pc # "error" /\ \A q \in Requests : q # p => req[q].pc # "error"
      BY DEF Moves
  <2>2. CASE pc = "sync" \/ (pc = "save_user" /\ req[p].kind = "authorize")
      BY <2>2 DEF Behind, Moves
  <2>3. CASE /\ UNCHANGED runtime_mode /\ onboarding'.onboarded = onboarding.onboarded
             /\ ~Behind(p)
    <3>1. \A q \in Requests : ~Behind(q)
        BY <1>3, <2>3 DEF Behind, Quiet, Answers
    <3>2. \A q \in Requests : req[q].pc # "error"
        BY <2>1 DEF Resuming
    <3>3. runtime_mode = ModeOf(onboarding.onboarded)
        BY <3>1, <3>2 DEF InTurn, ModeSettles
    <3> QED
        BY <2>3, <3>3
  <2> QED
      BY <2>1, <2>2, <2>3 DEF Orderly
<1> QED
    BY <1>4, <1>5, <1>6, <1>7 DEF InTurn, Orderly

\* Credentials are those of the account stored for them.
LEMMA LoginHashed ==
    ASSUME NEW cred \in Credentials
    PROVE  Login(Hashed(cred)) = cred /\ Hashed(cred) # Nobody /\ Hashed(cred).hashed
BY HashedTyped DEF Credentials, Login, Hashed

\* Marking a stored password as hashed leaves the credentials.
LEMMA LoginRehashed ==
    ASSUME NEW u \in StoredUser
    PROVE  LET v == [u EXCEPT !.hashed = TRUE]
           IN  Login(v) = Login(u) /\ v # Nobody /\ v.hashed
BY OnboardingConstants DEF StoredUser, Login

\* No closure takes the owner out of the file.
LEMMA UpdatedUser ==
    ASSUME NEW o \in Onb, NEW kind \in Updating, NEW cred \in Credentials
    PROVE  /\ kind = "create_user" => Updated(kind, o, cred).user = Hashed(cred)
           /\ kind = "authorize" => Updated(kind, o, cred).user = Hashed(Trim(cred))
           /\ kind \notin {"create_user", "authorize"} => Updated(kind, o, cred).user = o.user
           /\ kind \in {"analytics", "integration"} =>
                 Updated(kind, o, cred).onboarded = o.onboarded
<1>1. CASE kind = "create_user"
  <2>1. AddStep(o, "user") \in Onb
      BY AddStepLemma DEF StepNames
  <2> QED
      BY <1>1, <2>1 DEF Updated, CreateUser, Onb
<1>2. CASE kind = "core_config"
  <2>1. AddStep(o, "core_config") \in Onb /\ AddStep(o, "core_config").user = o.user
      BY AddStepLemma DEF StepNames
  <2> QED
      BY <1>2, <2>1 DEF Updated, CompleteCoreConfig, Onb
<1>3. CASE kind \in {"analytics", "integration"}
    BY <1>3, AddStepLemma DEF Updated, StepNames
<1>4. CASE kind \in {"complete", "authorize"}
  <2> DEFINE c == CompleteOnboarding(o)
  <2>1. c.user = o.user /\ [c EXCEPT !.user = Hashed(Trim(cred))].user = Hashed(Trim(cred))
      BY DEF CompleteOnboarding, Onb
  <2>2. Updated(kind, o, cred) =
            IF kind = "complete" THEN c ELSE [c EXCEPT !.user = Hashed(Trim(cred))]
      BY <1>4 DEF Updated, BootstrapOwner
  <2> HIDE DEF c
  <2> QED
      BY <1>4, <2>1, <2>2
<1> QED
    BY <1>1, <1>2, <1>3, <1>4 DEF Updating

\* The file has an owner already, or the one a closure puts there was attempted.
LEMMA InForceAfterUpdate ==
    ASSUME SetupInv, InTurn, NEW p \in Requests, req[p].pc = "update",
           onboarding' = Updated(req[p].kind, onboarding, req[p].cred),
           UNCHANGED <<auth_user, believed>>
    PROVE  /\ AccountInForce' \in believed'
           /\ onboarding.user # Nobody => onboarding'.user # Nobody
           /\ req[p].kind = "create_user" => onboarding'.user # Nobody
<1>1. /\ onboarding \in Onb /\ req[p].kind \in Updating /\ req[p].cred \in Credentials
      /\ Knows(p) /\ AccountInForce \in believed
    BY AtWork DEF SetupInv, TypeOK, Stages, Resuming, InTurn
<1>2. req[p].kind = "create_user" =>
          Login(onboarding'.user) \in believed /\ onboarding'.user # Nobody
    BY <1>1, UpdatedUser, LoginHashed DEF Knows, StepPoints
<1>3. req[p].kind = "authorize" =>
          Login(onboarding'.user) \in believed /\ onboarding'.user # Nobody
    BY <1>1, UpdatedUser, LoginHashed, HashedTyped DEF Knows
<1>4. req[p].kind \notin {"create_user", "authorize"} => onboarding'.user = onboarding.user
    BY <1>1, UpdatedUser
<1> QED
    BY <1>1, <1>2, <1>3, <1>4 DEF AccountInForce

\* A request arrives while none is handled.
LEMMA ArriveInTurn ==
    ASSUME SetupInv, InTurn, NEW p \in Requests, NEW kind \in Kinds, NEW cred \in Credentials,
           NEW target \in Credentials, Arrive(p, kind, cred, target), ~overlapped'
    PROVE  InTurn'
<1> DEFINE pc == CASE kind = "complete" -> "update"
                   [] kind = "login" -> "login_read"
                   [] kind = "change_password" -> "load_user"
                   [] OTHER -> "read"
           h == [kind |-> kind, pc |-> pc, cred |-> cred, target |-> target,
                 seen |-> Fresh, user |-> Nobody]
<1>1. /\ TypeOK /\ \A q \in Requests : Quiet(q)
      /\ UNCHANGED <<onboarding, auth_user, runtime_mode, believed>>
      /\ req' = [req EXCEPT ![p] = h] /\ req[p].pc = "idle"
      /\ kind # "change_password" => target = cred
    BY DEF SetupInv, Arrive, Active
<1>2. /\ pc \in {"update", "login_read", "load_user", "read"}
      /\ pc = "update" => kind = "complete"
      /\ pc = "login_read" => kind = "login"
      /\ pc = "load_user" => kind = "change_password"
    OBVIOUS
<1>3. h.kind = kind /\ h.pc = pc /\ h.cred = cred /\ h.target = target
    OBVIOUS
<1> HIDE DEF h, pc
<1>4. req'[p] = h /\ \A q \in Requests : q # p => req'[q] = req[q] /\ Quiet(q)'
    BY <1>1 DEF TypeOK, Quiet
<1>5. OneAtATime'
    BY <1>4 DEF OneAtATime
<1>6. \A q \in Requests : Knows(q)'
  <2>1. Knows(p)'
      BY <1>1, <1>2, <1>3, <1>4 DEF Knows, AccountPoints, StepPoints
  <2>2. ASSUME NEW q \in Requests, q # p PROVE Knows(q)'
      BY <1>4, <2>2 DEF Quiet, Knows, Resuming, Answers, AccountPoints, StepPoints
  <2> QED
      BY <2>1, <2>2
<1>7. \A q \in Requests : Made(q)' <=> Made(q)
    BY <1>1, <1>2, <1>3, <1>4 DEF Made
<1>8. MadeOnce'
  <2>1. \A q \in Requests : req'[q].kind = "create_user" => req'[q].pc \notin StepPoints
      BY <1>2, <1>3, <1>4 DEF Quiet, Answers, StepPoints
  <2> QED
      BY <1>1, <1>7, <2>1 DEF InTurn, MadeOnce
<1>9. ModeSettles'
  <2>1. \A q \in Requests : ~Behind(q)
      BY <1>1 DEF Behind, Quiet, Answers
  <2>2. (\A q \in Requests : req'[q].pc # "error") => \A q \in Requests : req[q].pc # "error"
      BY <1>1, <1>4
  <2> QED
      BY <1>1, <2>1, <2>2 DEF InTurn, ModeSettles
<1>10. AccountInForce' \in believed'
    BY <1>1 DEF InTurn, AccountInForce
<1> QED
    BY <1>5, <1>6, <1>8, <1>9, <1>10 DEF InTurn

\* The process stops: no handler is left, and the mode is the file's.
LEMMA RestartInTurn ==
    ASSUME SetupInv, InTurn, Restart
    PROVE  InTurn'
<1>1. /\ TypeOK /\ UNCHANGED <<onboarding, auth_user, believed>>
      /\ runtime_mode' = ModeOf(onboarding.onboarded)
    BY DEF SetupInv, Restart, SyncMode
<1>2. \A q \in Requests :
          /\ Quiet(q) => req'[q] = req[q]
          /\ ~Quiet(q) => req'[q].pc = "lost"
    BY DEF Restart, At, Answers
<1>3. \A q \in Requests : Quiet(q)'
    BY <1>2 DEF Quiet, Answers
<1>4. OneAtATime' /\ \A q \in Requests : Knows(q)'
    BY <1>3 DEF OneAtATime, Quiet, Knows, Resuming, Answers, AccountPoints, StepPoints
<1>5. \A q \in Requests : Made(q)' => Made(q)
    BY <1>2 DEF Made
<1>6. \A q \in Requests : req'[q].pc \notin StepPoints
    BY <1>3 DEF Quiet, Answers, StepPoints
<1>7. MadeOnce'
    BY <1>1, <1>5, <1>6 DEF InTurn, MadeOnce
<1>8. ModeSettles' /\ AccountInForce' \in believed'
    BY <1>1 DEF InTurn, ModeSettles, AccountInForce
<1> QED
    BY <1>4, <1>7, <1>8 DEF InTurn

\* What a handler reads is the file.
LEMMA ReadInTurn ==
    ASSUME SetupInv, SetupInv', InTurn, NEW p \in Requests, Read(p)
    PROVE  InTurn'
<1> DEFINE pc == IF req[p].pc = "read" THEN "check" ELSE "login_check"
           h == [req[p] EXCEPT !.seen = onboarding, !.pc = pc]
<1>1. /\ TypeOK /\ Knows(p) /\ req[p].pc \in {"read", "login_read"} /\ req[p].pc \in Resuming
      /\ UNCHANGED <<onboarding, auth_user, runtime_mode, believed>>
    BY DEF SetupInv, InTurn, Read, Resuming
<1>2. req[p] \in Handler
    BY <1>1, AtWork
<1>3. req' = [req EXCEPT ![p] = h]
    BY DEF Read
<1>4. /\ h.pc = pc /\ h.kind = req[p].kind /\ h.seen = onboarding
      /\ h.cred = req[p].cred /\ h.target = req[p].target
    BY <1>2 DEF Handler
<1>5. /\ pc = "check" => req[p].pc = "read"
      /\ pc = "login_check" => req[p].pc = "login_read"
      /\ pc \in {"check", "login_check"}
    BY <1>1
<1> HIDE DEF h, pc
<1>6. req'[p] = h /\ \A q \in Requests : q # p => req'[q] = req[q]
    BY <1>1, <1>3 DEF TypeOK
<1>7. Moves(p, pc)
    BY <1>4, <1>6 DEF Moves
<1>8. Knows(p)'
    BY <1>1, <1>4, <1>5, <1>6 DEF Knows, Resuming, AccountPoints, StepPoints
<1>9. AccountInForce' \in believed'
    BY <1>1 DEF InTurn, AccountInForce
<1>10. Orderly(p, pc)
    BY <1>1, <1>5, <1>8, <1>9 DEF Orderly, Behind, StepPoints
<1> QED
    BY <1>1, <1>7, <1>10, TakesTurn

\* Nothing changed since the read: the mode set is the file's, and the account is
\* made only where there is none.
LEMMA CheckInTurn ==
    ASSUME SetupInv, SetupInv', InTurn, NEW p \in Requests, Check(p)
    PROVE  InTurn'
<1>1. /\ TypeOK /\ Knows(p) /\ req[p].pc = "check" /\ req[p].pc \in Resuming
      /\ req[p].kind \in SetupOnly
      /\ UNCHANGED <<onboarding, auth_user>> /\ AccountInForce \in believed
    BY DEF SetupInv, InTurn, Check, Resuming, Stages
<1>2. req[p].seen = onboarding /\ req[p].target = req[p].cred
    BY <1>1 DEF Knows, SetupOnly
<1>3. runtime_mode' = ModeOf(onboarding'.onboarded)
    BY <1>1, <1>2 DEF Check, SyncMode
<1>4. believed \subseteq believed'
    BY DEF Check, Attempt
<1>5. PICK pc \in {"refused", "ok", "login_read", "update"} :
          /\ Goto(p, pc)
          /\ req[p].kind = "create_user" => pc \in {"refused", "update"}
          /\ pc = "login_read" => req[p].kind = "authorize"
          /\ pc = "update" /\ req[p].kind = "create_user" =>
                req[p].cred \in believed' /\ ~Refuses(req[p].kind, req[p].seen)
          /\ pc = "update" /\ req[p].kind = "authorize" => Trim(req[p].cred) \in believed'
  <2>1. CASE Refuses(req[p].kind, req[p].seen)
      BY <2>1 DEF Check
  <2>2. CASE ~Refuses(req[p].kind, req[p].seen) /\ req[p].kind = "status"
      BY <2>2 DEF Check
  <2>3. CASE ~Refuses(req[p].kind, req[p].seen) /\ req[p].kind = "authorize"
             /\ req[p].seen.onboarded
      BY <2>3 DEF Check
  <2>4. CASE ~Refuses(req[p].kind, req[p].seen) /\ req[p].kind = "authorize"
             /\ ~req[p].seen.onboarded
      BY <2>4 DEF Check, Attempt
  <2>5. CASE ~Refuses(req[p].kind, req[p].seen) /\ req[p].kind = "create_user"
      BY <2>5 DEF Check, Attempt
  <2>6. CASE ~Refuses(req[p].kind, req[p].seen)
             /\ req[p].kind \in {"core_config", "analytics", "integration"}
      BY <2>6 DEF Check
  <2> QED
      BY <1>1, <2>1, <2>2, <2>3, <2>4, <2>5, <2>6 DEF SetupOnly
<1>6. pc \in Resuming \cup Answers
    BY DEF Resuming, Answers
<1>7. Moves(p, pc)
    BY <1>1, <1>5, <1>6, GotoMoves
<1>8. req[p].kind = "create_user" /\ pc = "update" => onboarding.user = Nobody
    BY <1>2, <1>5 DEF Refuses
<1>9. Knows(p)'
    BY <1>1, <1>2, <1>5, <1>7 DEF Knows, Moves, Resuming, AccountPoints, StepPoints, SetupOnly
<1>10. AccountInForce' \in believed'
    BY <1>1, <1>4 DEF AccountInForce
<1>11. Orderly(p, pc)
    BY <1>1, <1>3, <1>5, <1>8, <1>9, <1>10 DEF Orderly, StepPoints
<1> QED
    BY <1>1, <1>7, <1>11, TakesTurn

\* The closure is applied to the file the handler checked.
LEMMA UpdateInTurn ==
    ASSUME SetupInv, SetupInv', InTurn, NEW p \in Requests, Update(p)
    PROVE  InTurn'
<1> DEFINE kind == req[p].kind
           next == Updated(kind, onboarding, req[p].cred)
<1>1. /\ TypeOK /\ Knows(p) /\ req[p].pc = "update" /\ req[p].pc \in Resuming
      /\ kind \in Updating /\ onboarding' = next
      /\ UNCHANGED <<auth_user, runtime_mode, believed>>
    BY DEF SetupInv, InTurn, Update, Resuming, Stages
<1>2. req[p] \in Handler /\ onboarding \in Onb /\ req[p].cred \in Credentials
    BY <1>1, AtWork DEF TypeOK
<1>3. /\ AccountInForce' \in believed'
      /\ onboarding.user # Nobody => onboarding'.user # Nobody
      /\ kind = "create_user" => onboarding'.user # Nobody
    BY <1>1, InForceAfterUpdate
<1>4. CASE kind \in {"analytics", "integration"}
  <2>1. Goto(p, "ok") /\ onboarding'.onboarded = onboarding.onboarded
      BY <1>1, <1>2, <1>4, UpdatedUser DEF Update
  <2>2. "ok" \in Resuming \cup Answers /\ "ok" \notin Resuming
      BY DEF Answers, Resuming
  <2>3. Moves(p, "ok")
      BY <1>1, <2>1, <2>2, GotoMoves
  <2>4. Knows(p)'
      BY <2>3 DEF Knows, Moves, Resuming, AccountPoints, StepPoints
  <2>5. Orderly(p, "ok")
      BY <1>1, <1>3, <1>4, <2>1, <2>4 DEF Orderly, Behind
  <2> QED
      BY <1>1, <2>3, <2>5, TakesTurn
<1>5. CASE kind \notin {"analytics", "integration"}
  <2> DEFINE pc == IF kind = "authorize" THEN "save_user" ELSE "sync"
             h == [req[p] EXCEPT !.seen = next, !.pc = pc]
  <2>1. req' = [req EXCEPT ![p] = h]
      BY <1>1, <1>5 DEF Update
  <2>2. /\ h.pc = pc /\ h.kind = kind /\ h.seen = onboarding'
        /\ h.cred = req[p].cred /\ h.target = req[p].target
      BY <1>1, <1>2 DEF Handler
  <2>3. /\ kind = "authorize" => pc = "save_user"
        /\ kind # "authorize" => pc = "sync"
        /\ kind # "change_password"
      BY <1>1 DEF Updating
  <2> HIDE DEF h, pc, next, kind
  <2>4. req'[p] = h /\ \A q \in Requests : q # p => req'[q] = req[q]
      BY <1>1, <2>1 DEF TypeOK
  <2>5. Moves(p, pc)
      BY <2>2, <2>4 DEF Moves, kind
  <2>6. Knows(p)'
      BY <1>1, <1>3, <2>2, <2>3, <2>4
      DEF Knows, Resuming, AccountPoints, StepPoints, kind
  <2>7. Orderly(p, pc)
      BY <1>1, <1>3, <2>3, <2>6 DEF Orderly, StepPoints, kind
  <2> QED
      BY <1>1, <2>5, <2>7, TakesTurn
<1> QED
    BY <1>4, <1>5

\* The mode is set to what was just saved.
LEMMA SyncInTurn ==
    ASSUME SetupInv, SetupInv', InTurn, NEW p \in Requests, Sync(p) \/ LoginCheck(p)
    PROVE  InTurn'
<1>1. /\ TypeOK /\ Knows(p) /\ req[p].pc \in {"sync", "login_check"} /\ req[p].pc \in Resuming
      /\ UNCHANGED <<onboarding, auth_user, believed>>
      /\ runtime_mode' = ModeOf(req[p].seen.onboarded)
    BY DEF SetupInv, InTurn, Sync, LoginCheck, Resuming, SyncMode
<1>2. runtime_mode' = ModeOf(onboarding'.onboarded)
    BY <1>1 DEF Knows
<1>3. PICK pc \in {"save_user", "login_read", "load_user", "ok"} :
          /\ Goto(p, pc)
          /\ pc = "save_user" => req[p].kind = "create_user" /\ req[p].pc = "sync"
          /\ pc \in {"login_read", "load_user"} => req[p].kind # "create_user"
          /\ pc = "ok" => req[p].kind # "create_user"
  <2>1. CASE Sync(p)
    <3>1. CASE req[p].kind = "create_user"
        BY <1>1, <2>1, <3>1 DEF Sync
    <3>2. CASE req[p].kind = "authorize"
        BY <2>1, <3>2 DEF Sync
    <3>3. CASE req[p].kind \notin {"create_user", "authorize"}
        BY <2>1, <3>3 DEF Sync
    <3> QED
        BY <3>1, <3>2, <3>3
  <2>2. CASE LoginCheck(p)
      BY <1>1, <2>2 DEF LoginCheck, Knows, AccountPoints
  <2> QED
      BY <2>1, <2>2
<1>4. pc \in Resuming \cup Answers
    BY DEF Resuming, Answers
<1>5. Moves(p, pc)
    BY <1>1, <1>3, <1>4, GotoMoves
<1>6. Knows(p)'
    BY <1>1, <1>3, <1>5 DEF Knows, Moves, Resuming, AccountPoints, StepPoints
<1>7. AccountInForce' \in believed'
    BY <1>1 DEF InTurn, AccountInForce
<1>8. Orderly(p, pc)
    BY <1>1, <1>2, <1>3, <1>6, <1>7 DEF Orderly, StepPoints
<1> QED
    BY <1>1, <1>5, <1>8, TakesTurn

\* What a handler is about to write to auth_user.json is an account that may come
\* into force: that of an attempt, or the one in force.
LEMMA StoredInTurn ==
    ASSUME SetupInv, InTurn, NEW p \in Requests,
           req[p].pc \in {"save_user", "save_legacy", "store_new"}
    PROVE  /\ Stored(p) # Nobody /\ Login(Stored(p)) \in believed
           /\ req[p].pc # "save_legacy" => Stored(p).hashed
           /\ req[p].pc = "save_user" /\ req[p].kind = "create_user" =>
                 Login(Stored(p)) = req[p].target
           /\ req[p].pc = "store_new" => Login(Stored(p)) = req[p].target
           /\ req[p].pc = "save_legacy" => Stored(p) = req[p].user /\ auth_user = Nobody
<1>1. /\ req[p].pc \in Resuming /\ Knows(p) /\ AccountInForce \in believed
      /\ req[p].pc = "save_user" => req[p].kind \in {"create_user", "authorize"}
      /\ req[p].pc = "save_legacy" => req[p].user # Nobody
    BY DEF SetupInv, Stages, InTurn, Resuming
<1>2. req[p].cred \in Credentials /\ req[p].target \in Credentials
    BY <1>1, AtWork DEF SetupInv
<1>3. CASE req[p].pc = "save_user" /\ req[p].kind = "create_user"
  <2>1. Stored(p) = Hashed(req[p].cred)
      BY <1>3 DEF Stored
  <2>2. req[p].cred \in believed /\ req[p].target = req[p].cred
      BY <1>1, <1>3 DEF Knows, StepPoints
  <2> QED
      BY <1>2, <1>3, <2>1, <2>2, LoginHashed
<1>4. CASE req[p].pc = "save_user" /\ req[p].kind = "authorize"
  <2>1. Stored(p) = Hashed(Trim(req[p].cred))
      BY <1>4 DEF Stored
  <2>2. Trim(req[p].cred) \in believed /\ Trim(req[p].cred) \in Credentials
      BY <1>1, <1>2, <1>4, HashedTyped DEF Knows
  <2> QED
      BY <1>4, <2>1, <2>2, LoginHashed
<1>5. CASE req[p].pc = "store_new"
  <2>1. Stored(p) = Hashed(req[p].target)
      BY <1>5 DEF Stored
  <2>2. req[p].target \in believed
      BY <1>1, <1>5 DEF Knows
  <2> QED
      BY <1>2, <1>5, <2>1, <2>2, LoginHashed
<1>6. CASE req[p].pc = "save_legacy"
  <2>1. Stored(p) = req[p].user
      BY <1>6 DEF Stored
  <2>2. auth_user = Nobody /\ req[p].user = onboarding.user
      BY <1>1, <1>6 DEF Knows
  <2>3. Login(Stored(p)) \in believed
      BY <1>1, <1>6, <2>1, <2>2 DEF AccountInForce
  <2> QED
      BY <1>1, <1>6, <2>1, <2>2, <2>3
<1> QED
    BY <1>1, <1>3, <1>4, <1>5, <1>6

\* An account is written: it is in force, and confirmed when the answer says so.
LEMMA AccountInTurn ==
    ASSUME SetupInv, SetupInv', InTurn, NEW p \in Requests,
           SaveUser(p) \/ SaveLegacy(p) \/ StoreNewPassword(p)
    PROVE  InTurn'
<1>1. /\ TypeOK /\ Knows(p) /\ req[p].pc \in {"save_user", "save_legacy", "store_new"}
      /\ req[p].pc \in Resuming /\ UNCHANGED <<onboarding, runtime_mode>>
      /\ auth_user' = Stored(p)
    BY DEF SetupInv, InTurn, SaveUser, SaveLegacy, StoreNewPassword, Resuming
<1>2. PICK pc \in {"ok", "sync", "verify"} :
          /\ Goto(p, pc)
          /\ pc = "ok" => /\ believed' = {req[p].target}
                          /\ \/ req[p].pc = "save_user" /\ req[p].kind = "create_user"
                             \/ req[p].pc = "store_new"
          /\ pc # "ok" => believed' = believed
          /\ pc = "sync" => req[p].pc = "save_user" /\ req[p].kind = "authorize"
          /\ pc = "verify" => req[p].pc = "save_legacy"
          /\ req[p].pc = "save_user" /\ req[p].kind = "authorize" => pc = "sync"
    BY DEF SaveUser, SaveLegacy, StoreNewPassword, Confirm
<1>3. pc \in Resuming \cup Answers
    BY DEF Resuming, Answers
<1>4. Moves(p, pc) /\ (pc \in Resuming => req'[p].seen = req[p].seen /\ req'[p].user = req[p].user)
    BY <1>1, <1>2, <1>3, GotoMoves
<1>5. AccountInForce' \in believed'
    BY <1>1, <1>2, StoredInTurn DEF AccountInForce
<1>6. Knows(p)'
    BY <1>1, <1>2, <1>4, StoredInTurn DEF Knows, Moves, Resuming, AccountPoints, StepPoints
<1>7. pc = "ok" /\ req[p].kind = "create_user" => req[p].pc = "save_user"
    BY <1>1, <1>2 DEF Knows, AccountPoints
<1>8. Orderly(p, pc)
    BY <1>1, <1>2, <1>5, <1>6, <1>7 DEF Orderly, StepPoints, Behind
<1> QED
    BY <1>1, <1>4, <1>8, TakesTurn

\* A password is marked as hashed: the credentials in force stay.
LEMMA MigrateAuthInTurn ==
    ASSUME SetupInv, SetupInv', InTurn, NEW p \in Requests, MigrateAuth(p)
    PROVE  InTurn' /\ (Migrated => auth_user'.hashed)
<1>1. /\ TypeOK /\ Knows(p) /\ req[p].pc = "migrate_auth"
      /\ req[p].pc \in Resuming /\ UNCHANGED <<onboarding, runtime_mode, believed>>
      /\ Goto(p, "migrate_onboarding") /\ AccountInForce \in believed
    BY DEF SetupInv, InTurn, MigrateAuth, Resuming
<1>2. auth_user \in StoredUser /\ req[p].user = auth_user /\ Login(auth_user) = req[p].target
    BY <1>1 DEF Knows, TypeOK
<1>3. auth_user' = [auth_user EXCEPT !.hashed = TRUE] \/ auth_user' = auth_user
    BY <1>2 DEF MigrateAuth
<1>4. Login(auth_user') = Login(auth_user) /\ auth_user' # Nobody /\ auth_user # Nobody
    BY <1>2, <1>3, LoginRehashed, OnboardingConstants
<1>5. "migrate_onboarding" \in Resuming \cup Answers
    BY DEF Resuming
<1>6. Moves(p, "migrate_onboarding")
    BY <1>1, <1>5, GotoMoves
<1>7. AccountInForce' \in believed'
    BY <1>1, <1>4 DEF AccountInForce
<1>8. Knows(p)'
    BY <1>1, <1>2, <1>4, <1>6 DEF Knows, Moves, Resuming, AccountPoints, StepPoints
<1>9. Orderly(p, "migrate_onboarding")
    BY <1>1, <1>7, <1>8 DEF Orderly, StepPoints, Behind
<1>10. Migrated => auth_user'.hashed
    BY <1>2, <1>3, LoginRehashed DEF Migrated
<1> QED
    BY <1>1, <1>6, <1>9, <1>10, TakesTurn

\* What a login finds is the account in force.
LEMMA LoadInTurn ==
    ASSUME SetupInv, SetupInv', InTurn, NEW p \in Requests, LoadUser(p) \/ LoadLegacy(p)
    PROVE  InTurn'
<1>1. /\ TypeOK /\ Knows(p) /\ req[p].pc \in {"load_user", "load_legacy"}
      /\ req[p].pc \in Resuming
      /\ UNCHANGED <<onboarding, auth_user, runtime_mode, believed>>
    BY DEF SetupInv, InTurn, LoadUser, LoadLegacy, Resuming
<1>2. req[p] \in Handler
    BY <1>1, AtWork
<1>3. \E pc \in {"load_legacy", "verify", "save_legacy"} :
          \E u :
             /\ req' = [req EXCEPT ![p].user = u, ![p].pc = pc]
             /\ pc = "verify" => u = auth_user
             /\ pc # "verify" => auth_user = Nobody
             /\ pc = "save_legacy" => u = onboarding.user
  <2>1. CASE LoadUser(p)
    <3>1. CASE auth_user = Nobody
        BY <2>1, <3>1 DEF LoadUser
    <3>2. CASE auth_user # Nobody
        BY <2>1, <3>2 DEF LoadUser
    <3> QED
        BY <3>1, <3>2
  <2>2. CASE LoadLegacy(p)
    <3>1. auth_user = Nobody
        BY <1>1, <2>2 DEF Knows, LoadLegacy
    <3>2. CASE onboarding.user = Nobody
        BY <2>2, <3>1, <3>2 DEF LoadLegacy
    <3>3. CASE onboarding.user # Nobody
        BY <2>2, <3>1, <3>3 DEF LoadLegacy
    <3> QED
        BY <3>2, <3>3
  <2> QED
      BY <2>1, <2>2
<1>4. PICK pc \in {"load_legacy", "verify", "save_legacy"} :
          \E u :
             /\ req' = [req EXCEPT ![p].user = u, ![p].pc = pc]
             /\ pc = "verify" => u = auth_user
             /\ pc # "verify" => auth_user = Nobody
             /\ pc = "save_legacy" => u = onboarding.user
    BY <1>3
<1>5. PICK u :
          /\ req' = [req EXCEPT ![p].user = u, ![p].pc = pc]
          /\ pc = "verify" => u = auth_user
          /\ pc # "verify" => auth_user = Nobody
          /\ pc = "save_legacy" => u = onboarding.user
    BY <1>4
<1> DEFINE h == [req[p] EXCEPT !.user = u, !.pc = pc]
<1>6. req' = [req EXCEPT ![p] = h]
    BY <1>5
<1>7. /\ h.pc = pc /\ h.kind = req[p].kind /\ h.user = u
      /\ h.cred = req[p].cred /\ h.target = req[p].target
    BY <1>2 DEF Handler
<1> HIDE DEF h
<1>8. req'[p] = h /\ \A q \in Requests : q # p => req'[q] = req[q]
    BY <1>1, <1>6 DEF TypeOK
<1>9. Moves(p, pc)
    BY <1>7, <1>8 DEF Moves
<1>10. Knows(p)'
    BY <1>1, <1>5, <1>7, <1>8 DEF Knows, Resuming, AccountPoints, StepPoints
<1>11. AccountInForce' \in believed'
    BY <1>1 DEF InTurn, AccountInForce
<1>12. Orderly(p, pc)
    BY <1>1, <1>10, <1>11 DEF Orderly, Behind, StepPoints
<1> QED
    BY <1>1, <1>9, <1>12, TakesTurn

\* A login is confirmed for the account in force only.
LEMMA VerifyInTurn ==
    ASSUME SetupInv, SetupInv', InTurn, NEW p \in Requests, Verify(p)
    PROVE  InTurn'
<1>1. /\ TypeOK /\ Knows(p) /\ req[p].pc = "verify" /\ req[p].pc \in Resuming
      /\ UNCHANGED <<onboarding, auth_user, runtime_mode>> /\ AccountInForce \in believed
      /\ req[p].user = auth_user
    BY DEF SetupInv, InTurn, Verify, Resuming, Knows
<1>2. PICK pc \in {"refused", "store_new", "ok", "migrate_auth"} :
          /\ Goto(p, pc)
          /\ pc \in {"ok", "migrate_auth"} =>
                auth_user # Nobody /\ Login(auth_user) = req[p].cred
                /\ req[p].kind # "change_password"
          /\ pc = "ok" => believed' = {req[p].target}
          /\ pc = "store_new" => believed' = believed \cup {req[p].target}
          /\ pc \in {"refused", "migrate_auth"} => believed' = believed
    BY <1>1 DEF Verify, Attempt, Confirm
<1>3. pc \in Resuming \cup Answers
    BY DEF Resuming, Answers
<1>4. Moves(p, pc) /\ (pc \in Resuming => req'[p].seen = req[p].seen /\ req'[p].user = req[p].user)
    BY <1>1, <1>2, <1>3, GotoMoves
<1>5. pc \in {"ok", "migrate_auth"} => Login(auth_user) = req[p].target
    BY <1>1, <1>2 DEF Knows
<1>6. AccountInForce' \in believed'
    BY <1>1, <1>2, <1>5 DEF AccountInForce
<1>7. req[p].kind # "create_user"
    BY <1>1 DEF Knows, AccountPoints
<1>8. Knows(p)'
    BY <1>1, <1>2, <1>4, <1>5, <1>7 DEF Knows, Moves, Resuming, AccountPoints, StepPoints
<1>9. Orderly(p, pc)
    BY <1>1, <1>6, <1>7, <1>8 DEF Orderly, Behind
<1> QED
    BY <1>1, <1>4, <1>9, TakesTurn

\* The second copy of the password follows; the account in force is the first.
LEMMA MigrateOnboardingInTurn ==
    ASSUME SetupInv, SetupInv', InTurn, NEW p \in Requests, MigrateOnboarding(p)
    PROVE  InTurn'
<1> DEFINE n == [onboarding EXCEPT !.user.password = req[p].cred.password, !.user.hashed = TRUE]
<1>1. /\ TypeOK /\ Knows(p) /\ req[p].pc = "migrate_onboarding" /\ req[p].pc \in Resuming
      /\ UNCHANGED <<auth_user, runtime_mode>> /\ onboarding \in Onb
      /\ Goto(p, "ok") /\ believed' = {req[p].target}
    BY DEF SetupInv, TypeOK, InTurn, MigrateOnboarding, Resuming, Confirm
<1>2. onboarding' = onboarding \/ (onboarding' = n /\ onboarding.user # Nobody)
    BY DEF MigrateOnboarding
<1>3. onboarding'.onboarded = onboarding.onboarded
  <2>1. n.onboarded = onboarding.onboarded
      BY <1>1 DEF Onb
  <2> HIDE DEF n
  <2> QED
      BY <1>2, <2>1
<1>4. onboarding.user # Nobody => onboarding'.user # Nobody
  <2>1. ASSUME onboarding' = n, onboarding.user # Nobody PROVE onboarding'.user # Nobody
    <3>1. onboarding.user \in StoredUser /\ req[p].cred \in Credentials
        BY <1>1, <2>1, AtWork DEF Onb
    <3> DEFINE w == [onboarding.user EXCEPT !.password = req[p].cred.password, !.hashed = TRUE]
    <3>2. w \in StoredUser
        BY <3>1 DEF StoredUser, Credentials
    <3>3. n = [onboarding EXCEPT !.user = w]
        BY <1>1, <3>1 DEF Onb, StoredUser
    <3> HIDE DEF w, n
    <3>4. n.user = w
        BY <1>1, <3>3 DEF Onb
    <3> QED
        BY <2>1, <3>2, <3>4, OnboardingConstants
  <2> HIDE DEF n
  <2> QED
      BY <1>2, <2>1
<1>5. "ok" \in Resuming \cup Answers /\ "ok" \notin Resuming
    BY DEF Resuming, Answers
<1>6. Moves(p, "ok")
    BY <1>1, <1>5, GotoMoves
<1>7. AccountInForce' \in believed'
    BY <1>1 DEF AccountInForce, Knows
<1>8. Knows(p)'
    BY <1>5, <1>6 DEF Knows, Moves, Resuming, AccountPoints, StepPoints
<1>9. req[p].kind # "create_user"
    BY <1>1 DEF Knows, AccountPoints
<1>10. Orderly(p, "ok")
    BY <1>1, <1>3, <1>4, <1>7, <1>8, <1>9 DEF Orderly, Behind
<1> QED
    BY <1>1, <1>6, <1>10, TakesTurn

\* A write fails, before or after the rename: what it may leave behind was
\* attempted.
LEMMA FailInTurn ==
    ASSUME SetupInv, SetupInv', InTurn, NEW p \in Requests, Fail(p)
    PROVE  InTurn'
<1>1. /\ TypeOK /\ req[p].pc \in {"update", "save_user", "save_legacy", "store_new"}
      /\ req[p].pc \in Resuming /\ UNCHANGED <<runtime_mode, believed>>
      /\ Goto(p, "error") /\ AccountInForce \in believed
    BY DEF SetupInv, InTurn, Fail, Resuming
<1>2. AccountInForce' \in believed' /\ (onboarding.user # Nobody => onboarding'.user # Nobody)
  <2>1. CASE UNCHANGED <<onboarding, auth_user>>
      BY <1>1, <2>1 DEF AccountInForce
  <2>2. CASE /\ req[p].pc = "update" /\ UNCHANGED auth_user
             /\ onboarding' = Updated(req[p].kind, onboarding, req[p].cred)
      BY <1>1, <2>2, InForceAfterUpdate
  <2>3. CASE req[p].pc # "update" /\ auth_user' = Stored(p) /\ UNCHANGED onboarding
    <3>1. Stored(p) # Nobody /\ Login(Stored(p)) \in believed
        BY <1>1, <2>3, StoredInTurn
    <3> QED
        BY <1>1, <2>3, <3>1 DEF AccountInForce
  <2> QED
      BY <2>1, <2>2, <2>3 DEF Fail
<1>3. "error" \in Resuming \cup Answers /\ "error" \notin Resuming
    BY DEF Resuming, Answers
<1>4. Moves(p, "error")
    BY <1>1, <1>3, GotoMoves
<1>5. Knows(p)'
    BY <1>3, <1>4 DEF Knows, Moves, Resuming, AccountPoints, StepPoints
<1>6. Orderly(p, "error")
    BY <1>2, <1>5 DEF Orderly, StepPoints
<1> QED
    BY <1>1, <1>4, <1>6, TakesTurn

LEMMA TurnInit == Init => TurnInv
<1> SUFFICES ASSUME Init PROVE TurnInv
    OBVIOUS
<1>1. SetupInv
    BY SetupInit DEF OwnerInv
<1>2. \A p \in Requests : req[p] = Idle
    BY DEF Init
<1>3. OneAtATime /\ (\A p \in Requests : Knows(p)) /\ MadeOnce
    BY <1>2
    DEF OneAtATime, Quiet, Idle, Knows, Resuming, AccountPoints, StepPoints, MadeOnce, Made
<1>4. ModeSettles
    BY DEF Init, ModeSettles
<1>5. AccountInForce \in believed
  <2>1. CASE onboarding = Fresh /\ believed = {Nobody}
      BY <2>1 DEF Init, AccountInForce, Fresh
  <2>2. ASSUME NEW cred \in Credentials, onboarding = Legacy(cred), believed = {cred}
        PROVE  AccountInForce \in believed
    <3> DEFINE u == [Hashed(cred) EXCEPT !.hashed = FALSE]
    <3>1. onboarding.user = u /\ Hashed(cred) \in StoredUser /\ cred \in Credentials
        BY <2>2, HashedTyped DEF Legacy
    <3>2. u \in StoredUser /\ Login(u) = cred
        BY <3>1 DEF StoredUser, Hashed, Credentials, Login
    <3> HIDE DEF u
    <3> QED
        BY <2>2, <3>1, <3>2, OnboardingConstants DEF Init, AccountInForce
  <2> QED
      BY <2>1, <2>2 DEF Init
<1> QED
    BY <1>1, <1>3, <1>4, <1>5 DEF TurnInv, InTurn

\* Handlers taken in turn leave things in turn, and no hash turns back to plaintext.
LEMMA TurnStep ==
    ASSUME TurnInv, Next
    PROVE  TurnInv' /\ (~overlapped /\ Migrated => auth_user'.hashed)
<1>1. SetupInv /\ SetupInv'
    BY SetupStep DEF TurnInv
<1>2. CASE Restart /\ UNCHANGED overlapped
    BY <1>1, <1>2, RestartInTurn DEF TurnInv, Restart, Migrated
<1>3. ASSUME NEW p \in Requests, NEW kind \in Kinds, NEW cred \in Credentials,
             NEW target \in Credentials, Arrive(p, kind, cred, target)
      PROVE  TurnInv' /\ (~overlapped /\ Migrated => auth_user'.hashed)
  <2>1. (~overlapped' => ~overlapped) /\ UNCHANGED auth_user
      BY <1>3 DEF Arrive
  <2> QED
      BY <1>1, <1>3, <2>1, ArriveInTurn DEF TurnInv, Migrated
<1>4. ASSUME NEW p \in Requests, Handle(p), UNCHANGED overlapped
      PROVE  TurnInv' /\ (~overlapped /\ Migrated => auth_user'.hashed)
  <2> SUFFICES ASSUME ~overlapped
               PROVE  InTurn' /\ (Migrated => auth_user'.hashed)
      BY <1>1, <1>4 DEF TurnInv
  <2>1. InTurn
      BY DEF TurnInv
  <2>2. CASE Read(p) \/ Check(p) \/ Update(p) \/ Sync(p) \/ LoginCheck(p)
    <3>1. UNCHANGED auth_user
        BY <2>2 DEF Read, Check, Update, Sync, LoginCheck
    <3> QED
        BY <1>1, <2>1, <2>2, <3>1, ReadInTurn, CheckInTurn, UpdateInTurn, SyncInTurn DEF Migrated
  <2>3. CASE SaveUser(p) \/ SaveLegacy(p) \/ StoreNewPassword(p)
    <3>1. /\ req[p].pc \in {"save_user", "save_legacy", "store_new"} /\ auth_user' = Stored(p)
        BY <2>3 DEF SaveUser, SaveLegacy, StoreNewPassword
    <3>2. Migrated => auth_user'.hashed
        BY <1>1, <2>1, <3>1, StoredInTurn DEF Migrated
    <3> QED
        BY <1>1, <2>1, <2>3, <3>2, AccountInTurn
  <2>4. CASE MigrateAuth(p)
      BY <1>1, <2>1, <2>4, MigrateAuthInTurn
  <2>5. CASE LoadUser(p) \/ LoadLegacy(p) \/ Verify(p) \/ MigrateOnboarding(p)
    <3>1. UNCHANGED auth_user
        BY <2>5 DEF LoadUser, LoadLegacy, Verify, MigrateOnboarding
    <3> QED
        BY <1>1, <2>1, <2>5, <3>1, LoadInTurn, VerifyInTurn, MigrateOnboardingInTurn DEF Migrated
  <2>6. CASE Fail(p)
    <3>1. \/ UNCHANGED auth_user
          \/ /\ req[p].pc \in {"save_user", "save_legacy", "store_new"} /\ auth_user' = Stored(p)
        BY <2>6 DEF Fail
    <3>2. Migrated => auth_user'.hashed
        BY <1>1, <2>1, <3>1, StoredInTurn DEF Migrated
    <3> QED
        BY <1>1, <2>1, <2>6, <3>2, FailInTurn
  <2> QED
      BY <1>4, <2>2, <2>3, <2>4, <2>5, <2>6 DEF Handle
<1> QED
    BY <1>2, <1>3, <1>4 DEF Next

LEMMA TurnStutter ==
    ASSUME TurnInv, UNCHANGED vars
    PROVE  TurnInv'
<1>1. SetupInv'
    BY SetupStutter DEF TurnInv
<1>2. InTurn => InTurn'
    BY DEF vars, InTurn, OneAtATime, Quiet, AccountInForce, Knows, MadeOnce, Made,
           ModeSettles, Behind
<1> QED
    BY <1>1, <1>2 DEF TurnInv, vars

LEMMA TurnSafe == Spec => []TurnInv
<1>1. TurnInv /\ [Next]_vars => TurnInv'
    BY TurnStep, TurnStutter
<1> QED
    BY <1>1, TurnInit, PTL DEF Spec

\* Once a login has replaced the plaintext password of auth_user.json by a hash,
\* no handler writes plaintext there again, requests being handled in turn.
THEOREM MigratedForGood == Spec => HashedForGoodInTurn
<1>1. TurnInv /\ [Next]_vars => [~overlapped /\ Migrated => auth_user'.hashed]_vars
    BY TurnStep
<1> QED
    BY <1>1, TurnSafe, PTL DEF Spec, HashedForGoodInTurn

\* What the answers of create_onboarding_user, login, change_password and the
\* others say is so while requests are handled in turn: one request made the
\* owner, the account in force is the one last confirmed or attempted since, and
\* the mode is the file's.
THEOREM AnswersAreTrueInTurn == Spec => []AnswersHoldInTurn
<1>1. TurnInv => AnswersHoldInTurn
  <2> SUFFICES ASSUME TurnInv PROVE AnswersHoldInTurn
      OBVIOUS
  <2>1. UserStepRunsOnceInTurn
    <3> DEFINE M == {p \in Requests : req[p].kind = "create_user" /\ req[p].pc = "ok"}
    <3> SUFFICES ASSUME ~overlapped PROVE Cardinality(M) <= 1
        BY DEF UserStepRunsOnceInTurn, UserStepRunsOnce
    <3>1. \A p, q \in M : p = q
        BY DEF TurnInv, InTurn, MadeOnce, Made
    <3>2. M = {} \/ \E p \in M : M = {p}
        BY <3>1
    <3> HIDE DEF M
    <3>3. Cardinality(M) = 0 \/ Cardinality(M) = 1
        BY <3>2, FS_EmptySet, FS_Singleton
    <3> QED
        BY <3>3
  <2>2. AccountIsAsAnswered
      BY DEF TurnInv, InTurn, AccountIsAsAnswered
  <2>3. ModeFollowsFile
    <3> SUFFICES ASSUME ~overlapped, Active = {},
                        \A p \in Requests : req[p].pc # "error"
                 PROVE  runtime_mode = ModeOf(onboarding.onboarded)
        BY DEF ModeFollowsFile
    <3>1. \A p \in Requests : Quiet(p)
        BY DEF Active
    <3>2. \A p \in Requests : ~Behind(p)
        BY <3>1 DEF Behind, Quiet, Answers
    <3> QED
        BY <3>2 DEF TurnInv, InTurn, ModeSettles
  <2> QED
      BY <2>1, <2>2, <2>3 DEF AnswersHoldInTurn
<1> QED
    BY <1>1, TurnSafe, PTL
=============================================================================
