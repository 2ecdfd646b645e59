-------------------------- MODULE LabelStoreProofs --------------------------
(***************************************************************************)
(* What LabelStores promises for any number of requests and labels.        *)
(*                                                                         *)
(* First where requests may be and who holds which mutex (Structure), then *)
(* what files, caches and the data of a save under way say of each label   *)
(* (Kept): within its critical section a request changes data it got from  *)
(* the cache while nobody else could change file or cache.  Last, where    *)
(* labels come from (Exist): a label on an item is in the registry, or a   *)
(* deletion that has taken it out is still to visit that item.             *)
(***************************************************************************)
EXTENDS LabelStores, TLAPS

(* A request that holds the mutex of the store it is at. *)
Inside(h) ==
    \/ h.pc \in {"apply", "save"}
    \/ h.pc \in {"load", "install"} /\ ~(h.kind = "list" /\ h.at \in Eager)

(* At which stage of which store a request may be. *)
Placed(h) ==
    /\ h.pc = "enter" => h.kind = "list"
    /\ h.pc \in {"wait", "apply"} /\ h.kind = "list" => h.at \notin Eager
    /\ h.pc = "install" => h.at \in Eager
    /\ h.pc = "save" => h.kind # "list"

Mutexes ==
    /\ \A p \in Requests : Inside(req[p]) => holder[req[p].at] = p
    /\ \A s \in Stores : holder[s] # Nobody =>
          Inside(req[holder[s]]) /\ req[holder[s]].at = s

Structure ==
    /\ TypeOK
    /\ Mutexes
    /\ \A p \in Requests : Placed(req[p])
    /\ \A p \in Requests : req[p].pc \in {"apply", "save"} => Loaded(req[p].at)
-----------------------------------------------------------------------------
(* Typing of what the operations compute. *)

\* A request that is being handled has the state of a handler.
LEMMA AtWork ==
    ASSUME TypeOK, NEW p \in Requests, req[p].pc \in Stages
    PROVE  /\ req[p] \in Handler
           /\ req[p].kind \in AllKinds /\ req[p].at \in Stores
           /\ req[p].arg \in Data /\ req[p].data \in Data
BY DEF TypeOK, Idle, Ended, Handler, Stages

LEMMA OnTheWay ==
    ASSUME NEW kind \in AllKinds, NEW s \in Stores
    PROVE  /\ After(kind, s) \in Stores \cup {"end"}
           /\ First(kind, s) \in Stores
           /\ kind = "list" => After(kind, s) = "end"
BY DEF After, First, Deletes, Stores, AllKinds

\* Idle and answered requests hold nothing and have no place.
LEMMA AtRest ==
    /\ Placed(Idle) /\ ~Inside(Idle) /\ Idle.pc = "idle"
    /\ Placed(Ended) /\ ~Inside(Ended) /\ Ended.pc = "ended"
BY DEF Placed, Inside, Idle, Ended

\* A request holds no mutex but that of the store it is in.
LEMMA OnlyHere ==
    ASSUME Mutexes, NEW p \in Requests, NEW s \in Stores, holder[s] = p
    PROVE  Inside(req[p]) /\ req[p].at = s
<1>1. Nobody \notin Requests
    BY LabelConstants
<1> QED
    BY <1>1 DEF Mutexes

\* What an operation makes of its data is data, and labels it does not touch stay
\* as they were.
LEMMA EditsTyped ==
    ASSUME NEW kind \in AllKinds, NEW s \in Stores, NEW arg \in Data, NEW data \in Data,
           NEW new \in Edits(kind, s, arg, data)
    PROVE  /\ new \in Data
           /\ Touched(kind, arg, data, new) \in Data
           /\ \A l \in Labels : l \notin Touched(kind, arg, data, new) =>
                 (l \in new <=> l \in data)
<1>1. CASE kind = "create"
  <2>1. Touched(kind, arg, data, new) = new \ data
      BY <1>1 DEF Touched, Deletes
  <2>2. new = data \cup arg \/ \E l \in Suffixed : new = data \cup {l}
    <3>1. Edits(kind, s, arg, data) =
             IF arg \cap data = {} THEN {data \cup arg}
             ELSE {data \cup {l} : l \in Suffixed \ minted}
        BY <1>1 DEF Edits, Deletes
    <3> QED
        BY <3>1
  <2>3. \E x \in Data : new = data \cup x
    <3>1. \A l \in Suffixed : {l} \in Data
        BY DEF Data, Labels
    <3> QED
        BY <2>2, <3>1
  <2> QED
      BY <2>1, <2>3 DEF Data
<1>2. CASE kind \in Deletes
  <2>1. Touched(kind, arg, data, new) = arg /\ new = data \ arg
      BY <1>2 DEF Touched, Edits, Deletes
  <2> QED
      BY <2>1 DEF Data
<1>3. CASE kind = "renew"
  <2>1. Touched(kind, arg, data, new) = data \ new
      BY <1>3 DEF Touched, Deletes
  <2>2. new = data \/ new = {}
      BY <1>3 DEF Edits, Deletes, Renewed
  <2> QED
      BY <2>1, <2>2 DEF Data
<1>4. CASE kind \notin {"create", "renew"} /\ kind \notin Deletes
  <2>1. Touched(kind, arg, data, new) = Labels /\ new = arg
      BY <1>4 DEF Touched, Edits
  <2> QED
      BY <2>1 DEF Data
<1> QED
    BY <1>1, <1>2, <1>3, <1>4
-----------------------------------------------------------------------------
(* Where requests are, and who holds which mutex. *)

HistoryTyped ==
    /\ minted' \in SUBSET Suffixed
    /\ promised' \in [Stores -> [Labels -> SUBSET BOOLEAN]]
    /\ dangling' \in SUBSET Labels
    /\ raced' \in BOOLEAN /\ mixed' \in BOOLEAN
    /\ paged' \in BOOLEAN /\ failed' \in BOOLEAN

\* One request moves on to h and takes or drops its guard accordingly.
LEMMA Advance ==
    ASSUME Structure, NEW p \in Requests, NEW h \in Handler \cup {Ended},
           req' = [req EXCEPT ![p] = h], Placed(h),
           holder' = [s \in Stores |->
              IF Inside(h) /\ h.at = s THEN p
              ELSE IF holder[s] = p THEN Nobody ELSE holder[s]],
           Inside(h) => holder[h.at] \in {p, Nobody},
           h.pc \in {"apply", "save"} => cache'[h.at] # NotLoaded,
           file' \in [Stores -> Data],
           cache' \in [Stores -> {NotLoaded} \cup Data],
           \A s \in Stores : Loaded(s) => Loaded(s)',
           HistoryTyped
    PROVE  Structure'
<1>1. TypeOK /\ Mutexes /\ Nobody \notin Requests
    BY LabelConstants DEF Structure
<1>2. \A q \in Requests : req'[q] = IF q = p THEN h ELSE req[q]
    BY <1>1 DEF TypeOK
<1>3. TypeOK'
    BY <1>1 DEF TypeOK, HistoryTyped
<1>4. ASSUME NEW q \in Requests, Inside(req'[q]) PROVE holder'[req'[q].at] = q
  <2>1. CASE q = p
    <3>1. h \in Handler
        BY <1>2, <1>4, <2>1, AtRest
    <3>2. h.at \in Stores
        BY <3>1 DEF Handler
    <3> QED
        BY <1>2, <1>4, <2>1, <3>2
  <2>2. CASE q # p
    <3>1. Inside(req[q]) /\ holder[req[q].at] = q
        BY <1>1, <1>2, <1>4, <2>2 DEF Mutexes
    <3>2. req[q].at \in Stores
        BY <1>1, <3>1, AtWork DEF Inside, Stages
    <3> QED
        BY <1>1, <1>2, <2>2, <3>1, <3>2
  <2> QED
      BY <2>1, <2>2
<1>5. ASSUME NEW s \in Stores, holder'[s] # Nobody
      PROVE  Inside(req'[holder'[s]]) /\ req'[holder'[s]].at = s
  <2>1. CASE Inside(h) /\ h.at = s
      BY <1>2, <2>1
  <2>2. CASE ~(Inside(h) /\ h.at = s)
    <3>1. holder'[s] = holder[s] /\ holder[s] # p /\ holder[s] # Nobody
        BY <1>5, <2>2
    <3>2. holder[s] \in Requests
        BY <1>1, <3>1 DEF TypeOK
    <3> QED
        BY <1>1, <1>2, <3>1, <3>2 DEF Mutexes
  <2> QED
      BY <2>1, <2>2
<1>6. Mutexes'
    BY <1>4, <1>5 DEF Mutexes, Inside
<1>7. \A q \in Requests : Placed(req[q])'
    BY <1>2 DEF Structure, Placed
<1>8. ASSUME NEW q \in Requests, req'[q].pc \in {"apply", "save"} 
      PROVE  cache'[req'[q].at] # NotLoaded
  <2>1. CASE q = p
      BY <1>2, <1>8, <2>1 DEF Loaded
  <2>2. CASE q # p
    <3>1. Loaded(req[q].at) /\ req'[q] = req[q]
        BY <1>2, <1>8, <2>2 DEF Structure
    <3>2. req[q].at \in Stores
        BY <1>1, <1>8, <3>1, AtWork DEF Stages
    <3> QED
        BY <3>1, <3>2 DEF Loaded
  <2> QED
      BY <2>1, <2>2
<1> QED
    BY <1>3, <1>6, <1>7, <1>8 DEF Structure, Loaded
-----------------------------------------------------------------------------
(* One lemma per action. *)

\* What a request that moves without its mutex keeps.
LEMMA Outside ==
    ASSUME Mutexes, NEW p \in Requests, ~Inside(req[p]), NEW s \in Stores
    PROVE  holder[s] # p
BY OnlyHere

\* What a set of labels says of one of them is an answer.
LEMMA Verdict ==
    ASSUME NEW l, NEW data
    PROVE  {(l \in data)} \in SUBSET BOOLEAN
<1>1. (l \in data) \in BOOLEAN
    OBVIOUS
<1> QED
    BY <1>1

LEMMA StructureInit == Init => Structure
<1> SUFFICES ASSUME Init PROVE Structure
    OBVIOUS
<1>1. file \in [Stores -> Data]
    BY DEF Init, Data, Labels
<1>2. TypeOK
  <2>1. promised \in [Stores -> [Labels -> SUBSET BOOLEAN]]
      BY Verdict DEF Init
  <2> QED
      BY <1>1, <2>1 DEF Init, TypeOK
<1>3. \A p \in Requests : req[p] = Idle
    BY DEF Init
<1>4. \A s \in Stores : holder[s] = Nobody
    BY DEF Init
<1> QED
    BY <1>2, <1>3, <1>4, AtRest DEF Structure, Mutexes

LEMMA ArriveTyped ==
    ASSUME Structure,
           NEW p \in Requests, NEW kind \in Kinds, NEW s \in Stores, NEW arg \in Data,
           Arrive(p, kind, s, arg)
    PROVE  Structure'
<1> DEFINE h == [kind |-> kind,
                 pc   |-> IF kind = "list" THEN "enter" ELSE "wait",
                 at   |-> First(kind, s),
                 arg  |-> arg,
                 data |-> {}]
<1>1. kind \in AllKinds /\ TypeOK /\ Mutexes
    BY LabelConstants DEF Structure
<1>2. h \in Handler
    BY <1>1, OnTheWay DEF Handler, Stages, Data
<1>3. Placed(h) /\ ~Inside(h)
    BY DEF Placed, Inside
<1>4. ~Inside(req[p])
    BY DEF Arrive, Inside
<1>5. holder = [t \in Stores |->
                  IF Inside(h) /\ h.at = t THEN p
                  ELSE IF holder[t] = p THEN Nobody ELSE holder[t]]
    BY <1>1, <1>3, <1>4, Outside DEF TypeOK
<1>6. /\ req' = [req EXCEPT ![p] = h] /\ UNCHANGED <<file, cache, holder>>
      /\ HistoryTyped
  <2>1. mixed' \in BOOLEAN /\ paged' \in BOOLEAN
      BY DEF Arrive
  <2>2. dangling' \in SUBSET Labels
      BY <1>1 DEF Arrive, TypeOK, Data
  <2> QED
      BY <1>1, <2>1, <2>2 DEF Arrive, HistoryTyped, TypeOK
<1>7. /\ file' \in [Stores -> Data] /\ cache' \in [Stores -> {NotLoaded} \cup Data]
      /\ \A t \in Stores : Loaded(t) => Loaded(t)'
    BY <1>1, <1>6 DEF TypeOK, Loaded
<1>8. h.pc \notin {"apply", "save"} /\ holder' = holder
    BY <1>6
<1> HIDE DEF h
<1> QED
    BY <1>2, <1>3, <1>5, <1>6, <1>7, <1>8, Advance

\* A request goes on where it is, keeping the guard it has, if any.
LEMMA GoesOn ==
    ASSUME Structure, NEW p \in Requests, req[p].pc \in Stages,
           NEW pc \in Stages, NEW data \in Data,
           req' = [req EXCEPT ![p] = [req[p] EXCEPT !.pc = pc, !.data = data]],
           Placed([req[p] EXCEPT !.pc = pc, !.data = data]),
           Inside([req[p] EXCEPT !.pc = pc, !.data = data]) <=> Inside(req[p]),
           UNCHANGED holder,
           pc \in {"apply", "save"} => cache'[req[p].at] # NotLoaded,
           file' \in [Stores -> Data],
           cache' \in [Stores -> {NotLoaded} \cup Data],
           \A s \in Stores : Loaded(s) => Loaded(s)',
           HistoryTyped
    PROVE  Structure'
<1> DEFINE h == [req[p] EXCEPT !.pc = pc, !.data = data]
<1>1. TypeOK /\ Mutexes
    BY DEF Structure
<1>2. h \in Handler /\ h.at = req[p].at /\ h.pc = pc
    BY <1>1, AtWork DEF Handler
<1>3. req[p].at \in Stores
    BY <1>1, AtWork
<1>4. Inside(h) => holder[h.at] = p
    BY <1>1, <1>2 DEF Mutexes
<1>5. holder' = [s \in Stores |->
          IF Inside(h) /\ h.at = s THEN p
          ELSE IF holder[s] = p THEN Nobody ELSE holder[s]]
  <2>1. \A s \in Stores : holder[s] = p => Inside(h) /\ h.at = s
      BY <1>1, <1>2, OnlyHere
  <2>2. holder = [s \in Stores |-> holder[s]]
      BY <1>1 DEF TypeOK
  <2> QED
      BY <1>4, <2>1, <2>2
<1> HIDE DEF h
<1>6. h.pc \in {"apply", "save"} => cache'[h.at] # NotLoaded
    BY <1>2
<1> QED
    BY <1>2, <1>4, <1>5, <1>6, Advance DEF h

\* A request drops its guard and is answered, or waits for the next store.
LEMMA Leaves ==
    ASSUME Structure, NEW p \in Requests, req[p].pc \in Stages, req[p].kind # "list",
           Release(p), Answer(p) \/ GoOn(p),
           file' \in [Stores -> Data],
           cache' \in [Stores -> {NotLoaded} \cup Data],
           \A s \in Stores : Loaded(s) => Loaded(s)',
           HistoryTyped
    PROVE  Structure'
<1>1. TypeOK /\ Mutexes
    BY DEF Structure
<1>2. ASSUME NEW h \in Handler \cup {Ended}, Placed(h), ~Inside(h),
             req' = [req EXCEPT ![p] = h], h.pc \notin {"apply", "save"}
      PROVE  Structure'
  <2>1. holder' = [s \in Stores |->
            IF Inside(h) /\ h.at = s THEN p
            ELSE IF holder[s] = p THEN Nobody ELSE holder[s]]
      BY <1>2 DEF Release
  <2> QED
      BY <1>2, <2>1, Advance
<1>3. CASE Answer(p)
    BY <1>2, <1>3, AtRest DEF Answer
<1>4. CASE GoOn(p)
  <2> DEFINE next == After(req[p].kind, req[p].at)
             h == [req[p] EXCEPT !.at = next, !.pc = "wait", !.data = {}]
  <2>1. next \in Stores \cup {"end"} /\ req[p] \in Handler
      BY <1>1, AtWork, OnTheWay
  <2>2. CASE next = "end"
      BY <1>3, <1>4, <2>2 DEF GoOn
  <2>3. CASE next # "end"
    <3>1. req' = [req EXCEPT ![p] = h]
        BY <1>4, <2>3 DEF GoOn
    <3>2. h \in Handler /\ h.pc = "wait" /\ h.kind = req[p].kind
        BY <2>1, <2>3 DEF Handler, Stages, Data
    <3>3. Placed(h) /\ ~Inside(h)
        BY <3>2 DEF Placed, Inside
    <3> HIDE DEF h
    <3> QED
        BY <1>2, <3>1, <3>2, <3>3
  <2> QED
      BY <2>2, <2>3
<1> QED
    BY <1>3, <1>4

LEMMA EnterTyped ==
    ASSUME Structure, NEW p \in Requests, Enter(p)
    PROVE  Structure'
<1>1. TypeOK /\ Mutexes /\ Placed(req[p]) /\ req[p].pc = "enter"
    BY DEF Structure, Enter
<1>2. req[p].pc \in Stages /\ req[p] \in Handler /\ req[p].kind = "list"
    BY <1>1, AtWork DEF Stages, Placed
<1>3. ~Inside(req[p])
    BY <1>1 DEF Inside
<1>4. /\ UNCHANGED <<file, cache, holder>> /\ HistoryTyped
      /\ file' \in [Stores -> Data] /\ cache' \in [Stores -> {NotLoaded} \cup Data]
      /\ \A t \in Stores : Loaded(t) => Loaded(t)'
    BY <1>1 DEF Enter, history, HistoryTyped, TypeOK, Loaded
<1>5. CASE Loaded(req[p].at)
  <2>1. req' = [req EXCEPT ![p] = Ended]
      BY <1>5 DEF Enter, Answer
  <2>2. holder' = [s \in Stores |->
            IF Inside(Ended) /\ Ended.at = s THEN p
            ELSE IF holder[s] = p THEN Nobody ELSE holder[s]]
      BY <1>1, <1>3, <1>4, Outside, AtRest DEF TypeOK
  <2> QED
      BY <1>4, <2>1, <2>2, AtRest, Advance
<1>6. CASE ~Loaded(req[p].at)
  <2> DEFINE pc == IF req[p].at \in Eager THEN "load" ELSE "wait"
             h  == [req[p] EXCEPT !.pc = pc, !.data = req[p].data]
  <2>1. h = [req[p] EXCEPT !.pc = pc]
      BY <1>2 DEF Handler
  <2>2. req' = [req EXCEPT ![p] = h]
      BY <1>6, <2>1 DEF Enter, Goto
  <2>3. h.kind = "list" /\ h.at = req[p].at /\ h.pc = pc
      BY <1>2, <2>1 DEF Handler
  <2>4. Placed(h) /\ ~Inside(h)
      BY <2>3 DEF Placed, Inside
  <2>5. pc \in Stages /\ pc \notin {"apply", "save"} /\ req[p].data \in Data
      BY <1>2 DEF Stages, Handler
  <2> HIDE DEF pc
  <2> QED
      BY <1>2, <1>3, <1>4, <2>2, <2>4, <2>5, GoesOn
<1> QED
    BY <1>5, <1>6

LEMMA AcquireTyped ==
    ASSUME Structure, NEW p \in Requests, Acquire(p)
    PROVE  Structure'
<1>1. TypeOK /\ Mutexes /\ Placed(req[p]) /\ req[p].pc = "wait"
    BY DEF Structure, Acquire
<1>2. req[p].pc \in Stages /\ req[p] \in Handler /\ req[p].at \in Stores
    BY <1>1, AtWork DEF Stages
<1> DEFINE pc == IF Loaded(req[p].at) THEN "apply" ELSE "load"
           h  == [req[p] EXCEPT !.pc = pc]
<1>3. h \in Handler /\ h.kind = req[p].kind /\ h.at = req[p].at /\ h.pc = pc
    BY <1>2 DEF Handler, Stages
<1>4. Placed(h) /\ Inside(h)
    BY <1>1, <1>3 DEF Placed, Inside
<1>5. req' = [req EXCEPT ![p] = h]
    BY DEF Acquire, Goto
<1>6. ~Inside(req[p]) /\ holder[h.at] = Nobody
    BY <1>1, <1>3 DEF Inside, Acquire
<1>7. holder' = [s \in Stores |->
          IF Inside(h) /\ h.at = s THEN p
          ELSE IF holder[s] = p THEN Nobody ELSE holder[s]]
  <2>1. holder' = [holder EXCEPT ![h.at] = p]
      BY <1>3 DEF Acquire
  <2>2. \A s \in Stores : holder[s] # p
      BY <1>1, <1>6, Outside
  <2> QED
      BY <1>1, <1>4, <2>1, <2>2 DEF TypeOK
<1>8. /\ UNCHANGED <<file, cache>> /\ HistoryTyped
      /\ file' \in [Stores -> Data] /\ cache' \in [Stores -> {NotLoaded} \cup Data]
      /\ \A t \in Stores : Loaded(t) => Loaded(t)'
    BY <1>1 DEF Acquire, history, HistoryTyped, TypeOK, Loaded
<1>9. h.pc \in {"apply", "save"} => cache'[h.at] # NotLoaded
    BY <1>3, <1>8 DEF Loaded
<1> HIDE DEF h
<1> QED
    BY <1>3, <1>4, <1>5, <1>6, <1>7, <1>8, <1>9, Advance

LEMMA LoadTyped ==
    ASSUME Structure, NEW p \in Requests, Load(p)
    PROVE  Structure'
<1>1. TypeOK /\ Mutexes /\ Placed(req[p]) /\ req[p].pc = "load"
    BY DEF Structure, Load
<1>2. req[p].pc \in Stages /\ req[p] \in Handler /\ req[p].at \in Stores \ Eager
    BY <1>1, AtWork DEF Stages, Load
<1> DEFINE h == [req[p] EXCEPT !.pc = "apply", !.data = req[p].data]
<1>3. h = [req[p] EXCEPT !.pc = "apply"] /\ req[p].data \in Data
    BY <1>2 DEF Handler
<1>4. h.kind = req[p].kind /\ h.at = req[p].at /\ h.pc = "apply"
    BY <1>2 DEF Handler
<1>5. Placed(h) /\ Inside(h) /\ Inside(req[p])
    BY <1>1, <1>2, <1>4 DEF Placed, Inside
<1>6. req' = [req EXCEPT ![p] = h] /\ UNCHANGED holder
    BY <1>3 DEF Load, Goto
<1>7. /\ HistoryTyped /\ file' \in [Stores -> Data]
      /\ cache' = [cache EXCEPT ![req[p].at] = file[req[p].at]]
      /\ file[req[p].at] \in Data
    BY <1>1, <1>2 DEF Load, history, HistoryTyped, TypeOK
<1>8. /\ cache' \in [Stores -> {NotLoaded} \cup Data]
      /\ cache'[req[p].at] # NotLoaded
      /\ \A t \in Stores : Loaded(t) => Loaded(t)'
    BY <1>1, <1>2, <1>7, LabelConstants DEF TypeOK, Loaded
<1>9. "apply" \in Stages
    BY DEF Stages
<1> QED
    BY <1>2, <1>3, <1>5, <1>6, <1>7, <1>8, <1>9, GoesOn

LEMMA LoadEagerTyped ==
    ASSUME Structure, NEW p \in Requests, LoadEager(p)
    PROVE  Structure'
<1>1. TypeOK /\ Mutexes /\ Placed(req[p]) /\ req[p].pc = "load"
    BY DEF Structure, LoadEager
<1>2. req[p].pc \in Stages /\ req[p] \in Handler /\ req[p].at \in Eager
    BY <1>1, AtWork DEF Stages, LoadEager
<1> DEFINE data == file[req[p].at]
           h == [req[p] EXCEPT !.pc = "install", !.data = data]
<1>3. data \in Data
    BY <1>1, <1>2 DEF TypeOK, Eager, Stores
<1>4. h.kind = req[p].kind /\ h.at = req[p].at /\ h.pc = "install"
    BY <1>2 DEF Handler
<1>5. Placed(h) /\ (Inside(h) <=> Inside(req[p]))
    BY <1>1, <1>2, <1>4 DEF Placed, Inside
<1>6. req' = [req EXCEPT ![p] = h] /\ UNCHANGED holder
  <2>1. req' = [req EXCEPT ![p].data = data, ![p].pc = "install"]
      BY DEF LoadEager
  <2> QED
      BY <1>1, <1>2, <2>1 DEF LoadEager, TypeOK, Handler
<1>7. /\ HistoryTyped /\ file' \in [Stores -> Data]
      /\ cache' \in [Stores -> {NotLoaded} \cup Data]
      /\ \A t \in Stores : Loaded(t) => Loaded(t)'
    BY <1>1 DEF LoadEager, history, HistoryTyped, TypeOK, Loaded
<1>8. "install" \in Stages
    BY DEF Stages
<1> HIDE DEF data
<1> QED
    BY <1>2, <1>3, <1>5, <1>6, <1>7, <1>8, GoesOn

LEMMA InstallTyped ==
    ASSUME Structure, NEW p \in Requests, Install(p)
    PROVE  Structure'
<1>1. TypeOK /\ Mutexes /\ Placed(req[p]) /\ req[p].pc = "install"
    BY DEF Structure, Install
<1>2. /\ req[p].pc \in Stages /\ req[p] \in Handler
      /\ req[p].at \in Eager /\ req[p].at \in Stores /\ req[p].data \in Data
    BY <1>1, AtWork DEF Stages, Placed
<1>3. /\ HistoryTyped /\ file' \in [Stores -> Data] /\ holder' = holder
      /\ cache' = [cache EXCEPT ![req[p].at] = req[p].data]
    BY <1>1 DEF Install, HistoryTyped, TypeOK
<1>4. /\ cache' \in [Stores -> {NotLoaded} \cup Data]
      /\ cache'[req[p].at] # NotLoaded
      /\ \A t \in Stores : Loaded(t) => Loaded(t)'
    BY <1>1, <1>2, <1>3, LabelConstants DEF TypeOK, Loaded
<1>5. CASE req[p].kind = "list"
  <2>1. ~Inside(req[p])
      BY <1>1, <1>2, <1>5 DEF Inside
  <2>2. req' = [req EXCEPT ![p] = Ended]
      BY <1>5 DEF Install, Answer
  <2>3. holder' = [s \in Stores |->
            IF Inside(Ended) /\ Ended.at = s THEN p
            ELSE IF holder[s] = p THEN Nobody ELSE holder[s]]
      BY <1>1, <1>3, <2>1, Outside, AtRest DEF TypeOK
  <2> QED
      BY <1>3, <1>4, <2>2, <2>3, AtRest, Advance
<1>6. CASE req[p].kind # "list"
  <2> DEFINE h == [req[p] EXCEPT !.pc = "apply", !.data = req[p].data]
  <2>1. h = [req[p] EXCEPT !.pc = "apply"]
      BY <1>2 DEF Handler
  <2>2. h.kind = req[p].kind /\ h.at = req[p].at /\ h.pc = "apply"
      BY <1>2 DEF Handler
  <2>3. Placed(h) /\ Inside(h) /\ Inside(req[p])
      BY <1>1, <1>6, <2>2 DEF Placed, Inside
  <2>4. req' = [req EXCEPT ![p] = h]
      BY <1>6, <2>1 DEF Install, Goto
  <2>5. "apply" \in Stages
      BY DEF Stages
  <2> QED
      BY <1>2, <1>3, <1>4, <2>3, <2>4, <2>5, GoesOn
<1> QED
    BY <1>5, <1>6

LEMMA ListTyped ==
    ASSUME Structure, NEW p \in Requests, List(p)
    PROVE  Structure'
<1>1. TypeOK
    BY DEF Structure
<1>2. req' = [req EXCEPT ![p] = Ended]
    BY DEF List, Answer
<1>3. holder' = [s \in Stores |->
          IF Inside(Ended) /\ Ended.at = s THEN p
          ELSE IF holder[s] = p THEN Nobody ELSE holder[s]]
    BY AtRest DEF List, Release
<1>4. /\ HistoryTyped /\ file' \in [Stores -> Data]
      /\ cache' \in [Stores -> {NotLoaded} \cup Data]
      /\ \A t \in Stores : Loaded(t) => Loaded(t)'
    BY <1>1 DEF List, history, HistoryTyped, TypeOK, Loaded
<1> QED
    BY <1>2, <1>3, <1>4, AtRest, Advance

LEMMA ChangeNothingTyped ==
    ASSUME Structure, NEW p \in Requests, ChangeNothing(p)
    PROVE  Structure'
<1>1. TypeOK /\ req[p].pc \in Stages /\ req[p].kind # "list"
    BY DEF Structure, ChangeNothing, Deletes, Stages
<1>2. Release(p) /\ (Answer(p) \/ GoOn(p))
    BY DEF ChangeNothing
<1>3. /\ HistoryTyped /\ file' \in [Stores -> Data]
      /\ cache' \in [Stores -> {NotLoaded} \cup Data]
      /\ \A t \in Stores : Loaded(t) => Loaded(t)'
    BY <1>1 DEF ChangeNothing, history, HistoryTyped, TypeOK, Loaded
<1> QED
    BY <1>1, <1>2, <1>3, Leaves

\* Before a save: the data is loaded, and what it is changed into is data again.
LEMMA BeforeSave ==
    ASSUME Structure, NEW p \in Requests, req[p].pc = "apply",
           NEW new \in Edits(req[p].kind, req[p].at, req[p].arg, cache[req[p].at])
    PROVE  LET s       == req[p].at
               touched == Touched(req[p].kind, req[p].arg, cache[s], new)
           IN  /\ req[p] \in Handler /\ s \in Stores /\ holder[s] = p
               /\ cache[s] \in Data
               /\ new \in Data /\ touched \in Data
               /\ \A l \in Labels : l \notin touched => (l \in new <=> l \in cache[s])
<1>1. TypeOK /\ Mutexes /\ Inside(req[p]) /\ req[p].pc \in Stages
    BY DEF Structure, Inside, Stages
<1>2. /\ req[p] \in Handler /\ req[p].at \in Stores
      /\ req[p].kind \in AllKinds /\ req[p].arg \in Data
    BY <1>1, AtWork
<1>3. holder[req[p].at] = p /\ cache[req[p].at] \in Data
    BY <1>1, <1>2 DEF Mutexes, Structure, Loaded, TypeOK
<1> QED
    BY <1>2, <1>3, EditsTyped

LEMMA StartSaveTyped ==
    ASSUME Structure, NEW p \in Requests, StartSave(p)
    PROVE  Structure'
<1> DEFINE s == req[p].at
<1>1. TypeOK /\ req[p].pc = "apply" /\ req[p].kind # "list"
    BY DEF Structure, StartSave
<1>2. PICK new \in Edits(req[p].kind, s, req[p].arg, cache[s]) :
        LET touched == Touched(req[p].kind, req[p].arg, cache[s], new) IN
        /\ req' = [req EXCEPT ![p].pc = "save", ![p].data = new, ![p].arg = touched]
        /\ cache' = IF s \in Eager THEN [cache EXCEPT ![s] = new] ELSE cache
        /\ minted' = minted \cup (new \cap Suffixed)
        /\ promised' = [promised EXCEPT ![s] = [l \in Labels |->
              IF l \in touched THEN @[l] \cup {(l \in new)} ELSE @[l]]]
    BY DEF StartSave
<1> DEFINE touched == Touched(req[p].kind, req[p].arg, cache[s], new)
           h == [req[p] EXCEPT !.pc = "save", !.data = new, !.arg = touched]
<1>3. /\ req[p] \in Handler /\ s \in Stores /\ holder[s] = p
      /\ cache[s] \in Data /\ new \in Data /\ touched \in Data
    BY <1>1, BeforeSave
<1>4. h \in Handler /\ h.kind = req[p].kind /\ h.at = s /\ h.pc = "save"
    BY <1>3 DEF Handler, Stages
<1>5. Placed(h) /\ Inside(h)
    BY <1>1, <1>4 DEF Placed, Inside
<1>6. req' = [req EXCEPT ![p] = h]
    BY <1>1, <1>2, <1>3 DEF TypeOK, Handler
<1>7. holder' = [t \in Stores |->
          IF Inside(h) /\ h.at = t THEN p
          ELSE IF holder[t] = p THEN Nobody ELSE holder[t]]
  <2>1. \A t \in Stores : holder[t] = p => t = s
      BY OnlyHere DEF Structure
  <2>2. holder' = holder
      BY DEF StartSave
  <2> QED
      BY <1>1, <1>3, <1>4, <1>5, <2>1, <2>2 DEF TypeOK
<1>8. promised' \in [Stores -> [Labels -> SUBSET BOOLEAN]]
  <2> HIDE DEF touched
  <2>1. promised[s] \in [Labels -> SUBSET BOOLEAN]
      BY <1>1, <1>3 DEF TypeOK
  <2> DEFINE row == [l \in Labels |->
                 IF l \in touched THEN promised[s][l] \cup {(l \in new)} ELSE promised[s][l]]
  <2>2. row \in [Labels -> SUBSET BOOLEAN]
      BY <2>1, Verdict
  <2>3. promised' = [promised EXCEPT ![s] = row]
      BY <1>2 DEF touched
  <2> HIDE DEF row
  <2> QED
      BY <1>1, <1>3, <2>2, <2>3 DEF TypeOK
<1>9. HistoryTyped
  <2>1. UNCHANGED <<dangling, raced, mixed, paged, failed>>
      BY DEF StartSave
  <2> QED
      BY <1>1, <1>2, <1>8, <2>1 DEF HistoryTyped, TypeOK
<1>10. /\ file' \in [Stores -> Data]
       /\ cache' \in [Stores -> {NotLoaded} \cup Data]
       /\ \A t \in Stores : Loaded(t) => Loaded(t)'
  <2>1. UNCHANGED file /\ new # NotLoaded
      BY <1>3, LabelConstants DEF StartSave
  <2> QED
      BY <1>1, <1>2, <1>3, <2>1 DEF TypeOK, Loaded
<1>11. cache'[h.at] # NotLoaded /\ holder[h.at] = p
  <2>1. cache[s] # NotLoaded
      BY <1>3, LabelConstants
  <2> QED
      BY <1>3, <1>4, <1>10, <2>1 DEF Loaded
<1> HIDE DEF h
<1> QED
    BY <1>4, <1>5, <1>6, <1>7, <1>9, <1>10, <1>11, Advance

\* The answers a successful operation leaves: its own, for the labels it touched.
LEMMA PromisedTyped ==
    ASSUME TypeOK, NEW s \in Stores, NEW arg \in Data, NEW data \in Data,
           promised' = [promised EXCEPT ![s] = [l \in Labels |->
              IF l \in arg THEN {(l \in data)} ELSE @[l]]]
    PROVE  promised' \in [Stores -> [Labels -> SUBSET BOOLEAN]]
<1>1. promised[s] \in [Labels -> SUBSET BOOLEAN]
    BY DEF TypeOK
<1> DEFINE row == [l \in Labels |-> IF l \in arg THEN {(l \in data)} ELSE promised[s][l]]
<1>2. row \in [Labels -> SUBSET BOOLEAN]
    BY <1>1, Verdict
<1>3. promised' = [promised EXCEPT ![s] = row]
    OBVIOUS
<1> HIDE DEF row
<1> QED
    BY <1>2, <1>3 DEF TypeOK

LEMMA SaveEndsTyped ==
    ASSUME Structure, NEW p \in Requests, SaveEnds(p)
    PROVE  Structure'
<1> DEFINE s == req[p].at
<1>1. TypeOK /\ Placed(req[p]) /\ req[p].pc = "save"
    BY DEF Structure, SaveEnds
<1>2. req[p].pc \in Stages /\ req[p].kind # "list"
    BY <1>1 DEF Stages, Placed
<1>3. s \in Stores /\ req[p].arg \in Data /\ req[p].data \in Data
    BY <1>1, <1>2, AtWork
<1>4. /\ file' = [file EXCEPT ![s] = req[p].data]
      /\ cache' = [cache EXCEPT ![s] = req[p].data]
      /\ Release(p) /\ GoOn(p)
      /\ UNCHANGED <<minted, dangling, raced, mixed, paged, failed>>
    BY DEF SaveEnds
<1>5. promised' \in [Stores -> [Labels -> SUBSET BOOLEAN]]
    BY <1>1, <1>3, PromisedTyped DEF SaveEnds
<1>6. HistoryTyped
    BY <1>1, <1>4, <1>5 DEF HistoryTyped, TypeOK
<1>7. /\ file' \in [Stores -> Data] /\ cache' \in [Stores -> {NotLoaded} \cup Data]
      /\ \A t \in Stores : Loaded(t) => Loaded(t)'
    BY <1>1, <1>3, <1>4, LabelConstants DEF TypeOK, Loaded
<1> HIDE DEF s
<1> QED
    BY <1>2, <1>4, <1>6, <1>7, Leaves

\* After an error a request that is not a list is answered or goes on elsewhere.
LEMMA ErrorLeaves ==
    ASSUME Structure, NEW p \in Requests, req[p].pc \in Stages, AfterError(p),
           file' \in [Stores -> Data], failed' = TRUE,
           UNCHANGED <<cache, minted, promised, dangling, raced, mixed, paged>>
    PROVE  Structure'
<1>1. TypeOK
    BY DEF Structure
<1>2. /\ HistoryTyped /\ cache' \in [Stores -> {NotLoaded} \cup Data]
      /\ \A t \in Stores : Loaded(t) => Loaded(t)'
    BY <1>1 DEF HistoryTyped, TypeOK, Loaded
<1>3. CASE req[p].kind # "list"
  <2>1. Release(p) /\ (Answer(p) \/ GoOn(p))
      BY DEF AfterError
  <2> QED
      BY <1>2, <1>3, <2>1, Leaves
<1>4. CASE req[p].kind = "list"
  <2>1. req' = [req EXCEPT ![p] = Ended]
      BY <1>4 DEF AfterError, Answer, Deletes
  <2>2. holder' = [s \in Stores |->
            IF Inside(Ended) /\ Ended.at = s THEN p
            ELSE IF holder[s] = p THEN Nobody ELSE holder[s]]
      BY AtRest DEF AfterError, Release
  <2> QED
      BY <1>2, <2>1, <2>2, AtRest, Advance
<1> QED
    BY <1>3, <1>4

LEMMA LoadFailsTyped ==
    ASSUME Structure, NEW p \in Requests, LoadFails(p)
    PROVE  Structure'
<1>1. /\ req[p].pc \in Stages /\ AfterError(p) /\ failed' = TRUE /\ UNCHANGED file
      /\ UNCHANGED <<cache, minted, promised, dangling, raced, mixed, paged>>
    BY DEF LoadFails, Stages
<1>2. file' \in [Stores -> Data]
    BY <1>1 DEF Structure, TypeOK
<1> QED
    BY <1>1, <1>2, ErrorLeaves

LEMMA SaveFailsTyped ==
    ASSUME Structure, NEW p \in Requests, SaveFails(p)
    PROVE  Structure'
<1>1. /\ req[p].pc \in Stages /\ AfterError(p) /\ failed' = TRUE
      /\ UNCHANGED <<cache, minted, promised, dangling, raced, mixed, paged>>
    BY DEF SaveFails, Stages
<1>2. file' \in [Stores -> Data]
  <2>1. TypeOK
      BY DEF Structure
  <2>2. req[p].at \in Stores /\ req[p].data \in Data
      BY <1>1, <2>1, AtWork
  <2> QED
      BY <2>1, <2>2 DEF SaveFails, TypeOK
<1> QED
    BY <1>1, <1>2, ErrorLeaves

\* What a restart finds in a file is what was there or what a save under way wrote.
LEMMA RestartFiles ==
    ASSUME TypeOK, Restart, NEW s \in Stores
    PROVE  \/ file'[s] = file[s]
           \/ \E p \in Requests :
                 req[p].pc = "save" /\ req[p].at = s /\ file'[s] = req[p].data
<1>1. PICK done \in SUBSET {p \in Requests : req[p].pc = "save"} :
        file' = [t \in Stores |->
           IF \E p \in done : req[p].at = t
           THEN req[CHOOSE p \in done : req[p].at = t].data
           ELSE file[t]]
    BY DEF Restart
<1>2. CASE \E p \in done : req[p].at = s
  <2> DEFINE w == CHOOSE p \in done : req[p].at = s
  <2>1. w \in done /\ req[w].at = s
      BY <1>2
  <2>2. file'[s] = req[w].data
      BY <1>1, <1>2
  <2> HIDE DEF w
  <2> QED
      BY <2>1, <2>2
<1>3. CASE ~\E p \in done : req[p].at = s
    BY <1>1, <1>3
<1> QED
    BY <1>2, <1>3

LEMMA RestartTyped ==
    ASSUME Structure, Restart
    PROVE  Structure'
<1>1. TypeOK
    BY DEF Structure
<1>2. \A p \in Requests : req'[p] \in {Idle, Ended}
  <2> SUFFICES ASSUME NEW p \in Requests PROVE req'[p] \in {Idle, Ended}
      OBVIOUS
  <2>1. req'[p] = IF req[p].pc \in Stages THEN Ended ELSE req[p]
      BY DEF Restart, Active
  <2>2. req[p] \in Handler => req[p].pc \in Stages
      BY DEF Handler
  <2> QED
      BY <1>1, <2>1, <2>2 DEF TypeOK
<1>3. file' \in [Stores -> Data]
  <2>1. \A s \in Stores : file'[s] \in Data
    <3> TAKE s \in Stores
    <3>1. CASE file'[s] = file[s]
        BY <1>1, <3>1 DEF TypeOK
    <3>2. ASSUME NEW p \in Requests, req[p].pc = "save", file'[s] = req[p].data
          PROVE  file'[s] \in Data
        BY <1>1, <3>2, AtWork DEF Stages
    <3> QED
        BY <1>1, <3>1, <3>2, RestartFiles
  <2>2. PICK f : file' = [s \in Stores |-> f[s]]
    <3>1. PICK done \in SUBSET {p \in Requests : req[p].pc = "save"} :
            file' = [s \in Stores |->
               IF \E p \in done : req[p].at = s
               THEN req[CHOOSE p \in done : req[p].at = s].data
               ELSE file[s]]
        BY DEF Restart
    <3>2. file' = [s \in Stores |-> file'[s]]
        BY <3>1
    <3> QED
        BY <3>2
  <2> QED
      BY <2>1, <2>2
<1>4. TypeOK'
  <2>1. req' \in [Requests -> {Idle, Ended} \cup Handler]
      BY <1>2 DEF Restart
  <2>2. failed' \in BOOLEAN
      BY <1>1 DEF Restart, TypeOK
  <2>3. UNCHANGED <<minted, promised, dangling, raced, mixed, paged>>
      BY DEF Restart
  <2> QED
      BY <1>1, <1>3, <2>1, <2>2, <2>3 DEF Restart, TypeOK
<1>5. \A p \in Requests :
        Placed(req'[p]) /\ ~Inside(req'[p]) /\ req'[p].pc \notin {"apply", "save"}
    BY <1>2, AtRest
<1>6. \A s \in Stores : holder'[s] = Nobody
    BY DEF Restart
<1> QED
    BY <1>4, <1>5, <1>6 DEF Structure, Mutexes, Placed, Inside
-----------------------------------------------------------------------------
(* Type correctness and the mutexes. *)

LEMMA StructureStep == Structure /\ [Next]_vars => Structure'
<1> SUFFICES ASSUME Structure, [Next]_vars PROVE Structure'
    OBVIOUS
<1>1. ASSUME NEW p \in Requests, Step(p) \/ LoadFails(p) \/ SaveFails(p)
      PROVE  Structure'
    BY <1>1, EnterTyped, AcquireTyped, LoadTyped, LoadEagerTyped, InstallTyped,
       ListTyped, ChangeNothingTyped, StartSaveTyped, SaveEndsTyped, LoadFailsTyped,
       SaveFailsTyped DEF Step
<1>2. CASE UNCHANGED vars
    BY <1>2 DEF vars, history, Structure, TypeOK, Mutexes, Inside, Placed, Loaded
<1> QED
    BY <1>1, <1>2, ArriveTyped, RestartTyped DEF Next

\* Every variable keeps its type, for any number of requests and labels: handlers
\* (ha_ws.rs, http.rs) stay within the stores they visit.
THEOREM TypeCorrect == Spec => []TypeOK
<1>1. Structure => TypeOK
    BY DEF Structure
<1> QED
    BY <1>1, StructureInit, StructureStep, PTL DEF Spec

\* A mutex of a store is only ever held by a request at work in that store, never by
\* one that waits for another mutex.
THEOREM LocksInUse == Spec => []LocksAreInUse
<1>1. Structure => LocksAreInUse
  <2> SUFFICES ASSUME Structure, NEW s \in Stores, holder[s] # Nobody
               PROVE  /\ req[holder[s]].pc \in {"load", "install", "apply", "save"}
                      /\ req[holder[s]].at = s
      BY DEF LocksAreInUse
  <2> QED
      BY DEF Structure, Mutexes, Inside
<1> QED
    BY <1>1, StructureInit, StructureStep, PTL DEF Spec
-----------------------------------------------------------------------------
(* What files and caches say of each label. *)

\* Every label is on the data or not as the row of answers allows.
Allows(row, data) == \A l \in Labels : (l \in data) \in row[l]

FilesKept ==
    \A s \in Stores : ~(s \in Eager /\ raced) =>
        /\ Allows(promised[s], file[s])
        /\ cache[s] # NotLoaded => Allows(promised[s], cache[s])

\* A save under way writes what the answers allow.
SavesKept ==
    \A p \in Requests : req[p].pc = "save" /\ ~(req[p].at \in Eager /\ raced) =>
        Allows(promised[req[p].at], req[p].data)

\* What a reader of the Zigbee file is about to cache is what the file holds, if it
\* is the first.
ReadsFresh ==
    \A p \in Requests : req[p].pc = "install" /\ cache[req[p].at] = NotLoaded =>
        req[p].data = file[req[p].at]

Kept == Structure /\ FilesKept /\ SavesKept /\ ReadsFresh

\* Requests that save are in different stores.
LEMMA OneSaver ==
    ASSUME Structure, NEW p \in Requests, NEW q \in Requests,
           req[p].pc \in {"apply", "save"}, req[q].pc \in {"apply", "save"},
           req[p].at = req[q].at
    PROVE  p = q
BY DEF Structure, Mutexes, Inside

\* A step that changes neither files nor caches and starts no save.
LEMMA QuietKept ==
    ASSUME Kept, Structure', UNCHANGED <<file, cache, promised, raced>>,
           NEW p \in Requests, \A q \in Requests \ {p} : req'[q] = req[q],
           req'[p].pc \notin {"save", "install"}
    PROVE  Kept'
<1>1. FilesKept'
    BY DEF Kept, FilesKept, Allows
<1>2. SavesKept'
  <2> SUFFICES ASSUME NEW q \in Requests, req'[q].pc = "save",
                      ~(req'[q].at \in Eager /\ raced')
               PROVE  Allows(promised'[req'[q].at], req'[q].data)
      BY DEF SavesKept, Allows
  <2>1. req'[q] = req[q]
      OBVIOUS
  <2> QED
      BY <2>1 DEF Kept, SavesKept
<1>3. ReadsFresh'
    BY DEF Kept, ReadsFresh
<1> QED
    BY <1>1, <1>2, <1>3 DEF Kept

\* Answering, waiting for a store and being in one without saving.
LEMMA QuietSteps ==
    ASSUME Kept, Structure', NEW p \in Requests,
           \/ \E kind \in Kinds, s \in Stores, arg \in Data : Arrive(p, kind, s, arg)
           \/ Enter(p) \/ Acquire(p) \/ List(p) \/ ChangeNothing(p) \/ LoadFails(p)
    PROVE  Kept'
<1>1. TypeOK
    BY DEF Kept, Structure
<1>2. \A h : req' = [req EXCEPT ![p] = h] =>
          req'[p] = h /\ \A q \in Requests \ {p} : req'[q] = req[q]
    BY <1>1 DEF TypeOK
<1>3. ASSUME UNCHANGED <<file, cache, promised, raced>>,
             NEW h, req' = [req EXCEPT ![p] = h], h.pc \notin {"save", "install"}
      PROVE  Kept'
    BY <1>2, <1>3, QuietKept
<1>4. CASE \E kind \in Kinds, s \in Stores, arg \in Data : Arrive(p, kind, s, arg)
  <2>1. PICK kind \in Kinds, s \in Stores, arg \in Data : Arrive(p, kind, s, arg)
      BY <1>4
  <2> DEFINE h == [kind |-> kind,
                   pc   |-> IF kind = "list" THEN "enter" ELSE "wait",
                   at   |-> First(kind, s),
                   arg  |-> arg,
                   data |-> {}]
  <2>2. UNCHANGED <<file, cache, promised, raced>> /\ req' = [req EXCEPT ![p] = h]
      BY <2>1 DEF Arrive
  <2>3. h.pc \notin {"save", "install"}
      OBVIOUS
  <2> HIDE DEF h
  <2> QED
      BY <1>3, <2>2, <2>3
<1>5. ASSUME req[p] \in Handler, Answer(p) \/ GoOn(p),
             UNCHANGED <<file, cache, promised, raced>>
      PROVE  Kept'
  <2>1. CASE Answer(p)
      BY <1>3, <1>5, <2>1, AtRest DEF Answer
  <2>2. CASE GoOn(p)
    <3> DEFINE next == After(req[p].kind, req[p].at)
               h == [req[p] EXCEPT !.at = next, !.pc = "wait", !.data = {}]
    <3>1. CASE next = "end"
        BY <2>1, <2>2, <3>1 DEF GoOn
    <3>2. CASE next # "end"
      <4>1. req' = [req EXCEPT ![p] = h]
          BY <2>2, <3>2 DEF GoOn
      <4>2. h.pc = "wait"
          BY <1>5 DEF Handler
      <4> HIDE DEF h
      <4> QED
          BY <1>3, <1>5, <4>1, <4>2
    <3> QED
        BY <3>1, <3>2
  <2> QED
      BY <1>5, <2>1, <2>2
<1>6. CASE Enter(p)
  <2>1. req[p] \in Handler /\ UNCHANGED <<file, cache, promised, raced>>
      BY <1>1, <1>6, AtWork DEF Enter, Stages, history
  <2>2. CASE Answer(p)
      BY <1>5, <2>1, <2>2
  <2>3. ASSUME NEW pc \in {"load", "wait"}, Goto(p, pc) PROVE Kept'
    <3> DEFINE h == [req[p] EXCEPT !.pc = pc]
    <3>1. h.pc = pc
        BY <2>1 DEF Handler
    <3>2. req' = [req EXCEPT ![p] = h]
        BY <2>3 DEF Goto
    <3> HIDE DEF h
    <3> QED
        BY <1>3, <2>1, <3>1, <3>2
  <2>4. Answer(p) \/ Goto(p, "load") \/ Goto(p, "wait")
      BY <1>6 DEF Enter
  <2> QED
      BY <2>2, <2>3, <2>4
<1>7. CASE Acquire(p)
  <2> DEFINE h == [req[p] EXCEPT !.pc = IF Loaded(req[p].at) THEN "apply" ELSE "load"]
  <2>1. req[p] \in Handler /\ UNCHANGED <<file, cache, promised, raced>>
      BY <1>1, <1>7, AtWork DEF Acquire, Stages, history
  <2>2. h.pc \notin {"save", "install"}
      BY <2>1 DEF Handler
  <2>3. req' = [req EXCEPT ![p] = h]
      BY <1>7 DEF Acquire, Goto
  <2> HIDE DEF h
  <2> QED
      BY <1>3, <2>1, <2>2, <2>3
<1>8. CASE List(p)
  <2>1. req[p] \in Handler /\ Answer(p) /\ UNCHANGED <<file, cache, promised, raced>>
      BY <1>1, <1>8, AtWork DEF List, Stages, history
  <2> QED
      BY <1>5, <2>1
<1>9. CASE ChangeNothing(p)
  <2>1. req[p] \in Handler /\ (Answer(p) \/ GoOn(p))
      BY <1>1, <1>9, AtWork DEF ChangeNothing, Stages
  <2>2. UNCHANGED <<file, cache, promised, raced>>
      BY <1>9 DEF ChangeNothing, history
  <2> QED
      BY <1>5, <2>1, <2>2
<1>10. CASE LoadFails(p)
  <2>1. req[p] \in Handler /\ UNCHANGED <<file, cache, promised, raced>>
      BY <1>1, <1>10, AtWork DEF LoadFails, Stages
  <2>2. Answer(p) \/ GoOn(p)
      BY <1>10 DEF LoadFails, AfterError
  <2> QED
      BY <1>5, <2>1, <2>2
<1> QED
    BY <1>4, <1>6, <1>7, <1>8, <1>9, <1>10

\* A first reader of a file caches what the file holds; whoever reads a Zigbee file
\* later than another one changed the cache is a late reader.
LEMMA ReadsKept ==
    ASSUME Kept, Structure', NEW p \in Requests,
           Load(p) \/ LoadEager(p) \/ Install(p)
    PROVE  Kept'
<1> DEFINE s == req[p].at
<1>1. TypeOK /\ Placed(req[p]) /\ req[p] \in Handler /\ s \in Stores
  <2>1. TypeOK /\ Placed(req[p])
      BY DEF Kept, Structure
  <2>2. req[p].pc \in Stages
      BY DEF Load, LoadEager, Install, Stages
  <2> QED
      BY <2>1, <2>2, AtWork
<1>2. UNCHANGED <<file, promised>>
    BY DEF Load, LoadEager, Install, history
<1>3. \A q \in Requests \ {p} : req'[q] = req[q]
    BY <1>1 DEF Load, LoadEager, Install, Goto, Answer, TypeOK
<1>4. req'[p].pc # "save"
  <2>1. CASE Load(p)
      BY <1>1, <2>1 DEF Load, Goto, TypeOK, Handler
  <2>2. CASE LoadEager(p)
      BY <1>1, <2>2 DEF LoadEager, TypeOK, Handler
  <2>3. CASE Install(p)
      BY <1>1, <2>3, AtRest DEF Install, Goto, Answer, TypeOK, Handler
  <2> QED
      BY <2>1, <2>2, <2>3
<1>5. raced => raced'
    BY DEF Load, LoadEager, Install, history
<1>6. SavesKept'
  <2> SUFFICES ASSUME NEW q \in Requests, req'[q].pc = "save",
                      ~(req'[q].at \in Eager /\ raced')
               PROVE  Allows(promised'[req'[q].at], req'[q].data)
      BY DEF SavesKept, Allows
  <2>1. req'[q] = req[q]
      BY <1>3, <1>4
  <2> QED
      BY <1>2, <1>5, <2>1 DEF Kept, SavesKept
<1>7. FilesKept' /\ ReadsFresh'
  <2>1. CASE Load(p)
    <3>1. cache' = [cache EXCEPT ![s] = file[s]] /\ UNCHANGED raced /\ s \notin Eager
        BY <2>1 DEF Load, history
    <3>2. \A t \in Stores : cache'[t] = IF t = s THEN file[t] ELSE cache[t]
        BY <1>1, <3>1 DEF TypeOK
    <3>3. FilesKept'
        BY <1>2, <3>1, <3>2 DEF Kept, FilesKept, Allows
    <3>4. req'[p].pc # "install"
        BY <1>1, <2>1 DEF Load, Goto, TypeOK, Handler
    <3>5. ReadsFresh'
      <4> SUFFICES ASSUME NEW q \in Requests, req'[q].pc = "install",
                          cache'[req'[q].at] = NotLoaded
                   PROVE  req'[q].data = file'[req'[q].at]
          BY DEF ReadsFresh
      <4>1. req'[q] = req[q] /\ Placed(req[q])
          BY <1>3, <3>4 DEF Kept, Structure
      <4>2. req[q].at \in Eager
          BY <4>1 DEF Placed
      <4>3. cache[req[q].at] = NotLoaded
          BY <3>1, <3>2, <4>1, <4>2 DEF Eager, Stores
      <4> QED
          BY <1>2, <4>1, <4>3 DEF Kept, ReadsFresh
    <3> QED
        BY <3>3, <3>5
  <2>2. CASE LoadEager(p)
    <3>1. UNCHANGED <<cache, raced>>
        BY <2>2 DEF LoadEager, history
    <3>2. req'[p].data = file[s] /\ req'[p].at = s
        BY <1>1, <2>2 DEF LoadEager, TypeOK, Handler
    <3> QED
        BY <1>2, <1>3, <3>1, <3>2 DEF Kept, FilesKept, ReadsFresh, Allows
  <2>3. CASE Install(p)
    <3>1. /\ cache' = [cache EXCEPT ![s] = req[p].data]
          /\ raced' = (raced \/ (cache[s] # NotLoaded /\ cache[s] # req[p].data))
          /\ req[p].pc = "install" /\ s \in Eager
        BY <1>1, <2>3 DEF Install, Loaded, Placed
    <3>2. \A t \in Stores : cache'[t] = IF t = s THEN req[p].data ELSE cache[t]
        BY <1>1, <3>1 DEF TypeOK
    <3>3. ~raced' => req[p].data = IF cache[s] = NotLoaded THEN file[s] ELSE cache[s]
        BY <3>1 DEF Kept, ReadsFresh
    <3>4. FilesKept'
      <4> SUFFICES ASSUME NEW t \in Stores, ~(t \in Eager /\ raced')
                   PROVE  /\ Allows(promised[t], file[t])
                          /\ cache'[t] # NotLoaded => Allows(promised[t], cache'[t])
          BY <1>2 DEF FilesKept, Allows
      <4>1. /\ Allows(promised[t], file[t])
            /\ cache[t] # NotLoaded => Allows(promised[t], cache[t])
          BY <1>5 DEF Kept, FilesKept
      <4> QED
          BY <3>1, <3>2, <3>3, <4>1
    <3>5. ReadsFresh'
      <4>1. req'[p].pc # "install"
          BY <1>1, <2>3, AtRest DEF Install, Goto, Answer, TypeOK, Handler
      <4>2. req[p].data # NotLoaded
          BY <1>1, LabelConstants DEF Handler
      <4>3. \A t \in Stores : cache'[t] = NotLoaded => cache[t] = NotLoaded
          BY <3>2, <4>2
      <4>4. \A q \in Requests : req[q].pc = "install" => req[q].at \in Stores
          BY DEF Kept, Structure, Placed, Eager, Stores
      <4> QED
          BY <1>2, <1>3, <4>1, <4>3, <4>4 DEF Kept, ReadsFresh
    <3> QED
        BY <3>4, <3>5
  <2> QED
      BY <2>1, <2>2, <2>3
<1> QED
    BY <1>6, <1>7 DEF Kept

\* The change is made of the cached data, which the answers so far allow.
LEMMA StartSaveKept ==
    ASSUME Kept, Structure', NEW p \in Requests, StartSave(p)
    PROVE  Kept'
<1> DEFINE s == req[p].at
<1>1. TypeOK /\ Structure /\ req[p].pc = "apply"
    BY DEF Kept, Structure, StartSave
<1>2. PICK new \in Edits(req[p].kind, s, req[p].arg, cache[s]) :
        LET touched == Touched(req[p].kind, req[p].arg, cache[s], new) IN
        /\ req' = [req EXCEPT ![p].pc = "save", ![p].data = new, ![p].arg = touched]
        /\ cache' = IF s \in Eager THEN [cache EXCEPT ![s] = new] ELSE cache
        /\ promised' = [promised EXCEPT ![s] = [l \in Labels |->
              IF l \in touched THEN @[l] \cup {(l \in new)} ELSE @[l]]]
    BY DEF StartSave
<1> DEFINE touched == Touched(req[p].kind, req[p].arg, cache[s], new)
           row == [l \in Labels |->
              IF l \in touched THEN promised[s][l] \cup {(l \in new)} ELSE promised[s][l]]
<1>3. /\ req[p] \in Handler /\ s \in Stores /\ cache[s] \in Data /\ new \in Data
      /\ \A l \in Labels : l \notin touched => (l \in new <=> l \in cache[s])
    BY <1>1, BeforeSave
<1>4. cache[s] # NotLoaded
    BY <1>3, LabelConstants
<1>5. /\ \A q \in Requests \ {p} : req'[q] = req[q]
      /\ req'[p].pc = "save" /\ req'[p].data = new /\ req'[p].at = s
    BY <1>1, <1>2, <1>3 DEF TypeOK, Handler
<1>6. /\ \A t \in Stores : promised'[t] = IF t = s THEN row ELSE promised[t]
      /\ UNCHANGED <<file, raced>>
      /\ \A t \in Stores :
            cache'[t] = IF t = s /\ s \in Eager THEN new ELSE cache[t]
    BY <1>1, <1>2, <1>3 DEF StartSave, TypeOK
<1>7. ~(s \in Eager /\ raced) =>
        /\ Allows(row, new) /\ Allows(row, cache[s]) /\ Allows(row, file[s])
  <2> HIDE DEF touched
  <2> SUFFICES ASSUME ~(s \in Eager /\ raced)
               PROVE  Allows(row, new) /\ Allows(row, cache[s]) /\ Allows(row, file[s])
      OBVIOUS
  <2>1. Allows(promised[s], cache[s]) /\ Allows(promised[s], file[s])
      BY <1>3, <1>4 DEF Kept, FilesKept
  <2>2. \A l \in Labels :
          row[l] = IF l \in touched THEN promised[s][l] \cup {(l \in new)} ELSE promised[s][l]
      OBVIOUS
  <2> HIDE DEF s, row
  <2>3. Allows(row, new)
    <3> SUFFICES ASSUME NEW l \in Labels PROVE (l \in new) \in row[l]
        BY DEF Allows
    <3>1. CASE l \in touched
        BY <2>2, <3>1
    <3>2. CASE l \notin touched
      <4>1. (l \in new) = (l \in cache[s])
          BY <1>3, <3>2 DEF s
      <4>2. (l \in cache[s]) \in row[l]
          BY <2>1, <2>2, <3>2 DEF Allows
      <4> QED
          BY <4>1, <4>2
    <3> QED
        BY <3>1, <3>2
  <2>4. Allows(row, cache[s]) /\ Allows(row, file[s])
    <3>1. \A l \in Labels : \A b : b \in promised[s][l] => b \in row[l]
        BY <2>2
    <3> QED
        BY <2>1, <3>1 DEF Allows
  <2> QED
      BY <2>3, <2>4
<1> HIDE DEF row, touched
<1>8. FilesKept'
  <2> SUFFICES ASSUME NEW t \in Stores, ~(t \in Eager /\ raced)
               PROVE  /\ Allows(promised'[t], file[t])
                      /\ cache'[t] # NotLoaded => Allows(promised'[t], cache'[t])
      BY <1>6 DEF FilesKept, Allows
  <2>1. CASE t = s
      BY <1>6, <1>7, <2>1
  <2>2. CASE t # s
      BY <1>6, <2>2 DEF Kept, FilesKept
  <2> QED
      BY <2>1, <2>2
<1>9. SavesKept'
  <2> SUFFICES ASSUME NEW q \in Requests, req'[q].pc = "save",
                      ~(req'[q].at \in Eager /\ raced)
               PROVE  Allows(promised'[req'[q].at], req'[q].data)
      BY <1>6 DEF SavesKept, Allows
  <2>1. CASE q = p
      BY <1>3, <1>5, <1>6, <1>7, <2>1
  <2>2. CASE q # p
    <3>1. req'[q] = req[q] /\ req[q].pc = "save"
        BY <1>5, <2>2
    <3>2. req[q].at # s
        BY <1>1, <2>2, <3>1, OneSaver
    <3>3. req[q].at \in Stores
        BY <1>1, <3>1, AtWork DEF Stages
    <3> QED
        BY <1>6, <3>1, <3>2, <3>3 DEF Kept, SavesKept
  <2> QED
      BY <2>1, <2>2
<1>10. ReadsFresh'
  <2>1. \A t \in Stores : cache'[t] = NotLoaded => cache[t] = NotLoaded
      BY <1>3, <1>4, <1>6, LabelConstants
  <2>2. \A q \in Requests : req[q].pc = "install" => req[q].at \in Stores
      BY DEF Kept, Structure, Placed, Eager, Stores
  <2> QED
      BY <1>5, <1>6, <2>1, <2>2 DEF Kept, ReadsFresh
<1> QED
    BY <1>8, <1>9, <1>10 DEF Kept

\* A request that has left a save is not in another one.
LEMMA AfterSave ==
    ASSUME TypeOK, NEW p \in Requests, req[p].pc = "save", Answer(p) \/ GoOn(p)
    PROVE  /\ req'[p].pc \notin {"save", "install"}
           /\ \A q \in Requests \ {p} : req'[q] = req[q]
<1>1. req[p] \in Handler
    BY AtWork DEF Stages
<1>2. CASE Answer(p)
    BY <1>2, AtRest DEF Answer, TypeOK
<1>3. CASE GoOn(p) /\ ~Answer(p)
  <2>1. req' = [req EXCEPT ![p].at = After(req[p].kind, req[p].at),
                           ![p].pc = "wait", ![p].data = {}]
      BY <1>3 DEF GoOn
  <2> QED
      BY <1>1, <2>1 DEF TypeOK, Handler
<1> QED
    BY <1>2, <1>3

LEMMA SaveEndsKept ==
    ASSUME Kept, Structure', NEW p \in Requests, SaveEnds(p)
    PROVE  Kept'
<1> DEFINE s == req[p].at
           row == [l \in Labels |->
              IF l \in req[p].arg THEN {(l \in req[p].data)} ELSE promised[s][l]]
<1>1. TypeOK /\ Structure /\ req[p].pc = "save"
    BY DEF Kept, Structure, SaveEnds
<1>2. req[p] \in Handler /\ s \in Stores /\ req[p].data \in Data
    BY <1>1, AtWork DEF Stages
<1>3. /\ \A t \in Stores : promised'[t] = IF t = s THEN row ELSE promised[t]
      /\ \A t \in Stores : file'[t] = IF t = s THEN req[p].data ELSE file[t]
      /\ \A t \in Stores : cache'[t] = IF t = s THEN req[p].data ELSE cache[t]
      /\ UNCHANGED raced
    BY <1>1, <1>2 DEF SaveEnds, TypeOK
<1>4. /\ req'[p].pc \notin {"save", "install"}
      /\ \A q \in Requests \ {p} : req'[q] = req[q]
    BY <1>1, AfterSave DEF SaveEnds
<1>5. ~(s \in Eager /\ raced) => Allows(row, req[p].data)
  <2> SUFFICES ASSUME ~(s \in Eager /\ raced) PROVE Allows(row, req[p].data)
      OBVIOUS
  <2>1. Allows(promised[s], req[p].data)
      BY <1>1 DEF Kept, SavesKept
  <2> SUFFICES ASSUME NEW l \in Labels PROVE (l \in req[p].data) \in row[l]
      BY DEF Allows
  <2>2. CASE l \in req[p].arg
      BY <2>2
  <2>3. CASE l \notin req[p].arg
      BY <2>1, <2>3 DEF Allows
  <2> QED
      BY <2>2, <2>3
<1> HIDE DEF row
<1>6. FilesKept'
  <2> SUFFICES ASSUME NEW t \in Stores, ~(t \in Eager /\ raced)
               PROVE  /\ Allows(promised'[t], file'[t])
                      /\ cache'[t] # NotLoaded => Allows(promised'[t], cache'[t])
      BY <1>3 DEF FilesKept, Allows
  <2>1. CASE t = s
      BY <1>3, <1>5, <2>1
  <2>2. CASE t # s
      BY <1>3, <2>2 DEF Kept, FilesKept
  <2> QED
      BY <2>1, <2>2
<1>7. SavesKept'
  <2> SUFFICES ASSUME NEW q \in Requests, req'[q].pc = "save",
                      ~(req'[q].at \in Eager /\ raced)
               PROVE  Allows(promised'[req'[q].at], req'[q].data)
      BY <1>3 DEF SavesKept, Allows
  <2>1. q # p /\ req'[q] = req[q] /\ req[q].pc = "save"
      BY <1>4
  <2>2. req[q].at # s
      BY <1>1, <2>1, OneSaver
  <2>3. req[q].at \in Stores
      BY <1>1, <2>1, AtWork DEF Stages
  <2> QED
      BY <1>3, <2>1, <2>2, <2>3 DEF Kept, SavesKept
<1>8. ReadsFresh'
  <2> SUFFICES ASSUME NEW q \in Requests, req'[q].pc = "install",
                      cache'[req'[q].at] = NotLoaded
               PROVE  req'[q].data = file'[req'[q].at]
      BY DEF ReadsFresh
  <2>1. req'[q] = req[q] /\ req[q].pc = "install"
      BY <1>4
  <2>2. req[q].at \in Stores
      BY <1>1, <2>1, AtWork DEF Stages
  <2>3. req[q].at # s /\ cache[req[q].at] = NotLoaded
      BY <1>2, <1>3, <2>1, <2>2, LabelConstants
  <2> QED
      BY <1>3, <2>1, <2>2, <2>3 DEF Kept, ReadsFresh
<1> QED
    BY <1>6, <1>7, <1>8 DEF Kept

\* The file may hold the new data after all: its answer is still open.
LEMMA SaveFailsKept ==
    ASSUME Kept, Structure', NEW p \in Requests, SaveFails(p)
    PROVE  Kept'
<1> DEFINE s == req[p].at
<1>1. TypeOK /\ Structure /\ req[p].pc = "save"
    BY DEF Kept, Structure, SaveFails
<1>2. s \in Stores
    BY <1>1, AtWork DEF Stages
<1>3. /\ \A t \in Stores : file'[t] = file[t] \/ (t = s /\ file'[t] = req[p].data)
      /\ UNCHANGED <<cache, promised, raced>>
    BY <1>1, <1>2 DEF SaveFails, TypeOK
<1>4. /\ req'[p].pc \notin {"save", "install"}
      /\ \A q \in Requests \ {p} : req'[q] = req[q]
    BY <1>1, AfterSave DEF SaveFails, AfterError
<1>5. FilesKept'
  <2> SUFFICES ASSUME NEW t \in Stores, ~(t \in Eager /\ raced)
               PROVE  /\ Allows(promised[t], file'[t])
                      /\ cache[t] # NotLoaded => Allows(promised[t], cache[t])
      BY <1>3 DEF FilesKept, Allows
  <2>1. t = s => Allows(promised[s], req[p].data)
      BY <1>1 DEF Kept, SavesKept
  <2> QED
      BY <1>3, <2>1 DEF Kept, FilesKept
<1>6. SavesKept'
  <2> SUFFICES ASSUME NEW q \in Requests, req'[q].pc = "save",
                      ~(req'[q].at \in Eager /\ raced)
               PROVE  Allows(promised[req'[q].at], req'[q].data)
      BY <1>3 DEF SavesKept, Allows
  <2> QED
      BY <1>4 DEF Kept, SavesKept
<1>7. ReadsFresh'
  <2> SUFFICES ASSUME NEW q \in Requests, req'[q].pc = "install",
                      cache'[req'[q].at] = NotLoaded
               PROVE  req'[q].data = file'[req'[q].at]
      BY DEF ReadsFresh
  <2>1. req'[q] = req[q] /\ req[q].pc = "install" /\ cache[req[q].at] = NotLoaded
      BY <1>3, <1>4
  <2>2. req[q].at \in Stores
      BY <1>1, <2>1, AtWork DEF Stages
  <2>3. cache[s] # NotLoaded
      BY <1>1 DEF Structure, Loaded
  <2> QED
      BY <1>3, <2>1, <2>2, <2>3 DEF Kept, ReadsFresh
<1> QED
    BY <1>5, <1>6, <1>7 DEF Kept

LEMMA RestartKept ==
    ASSUME Kept, Structure', Restart
    PROVE  Kept'
<1>1. TypeOK
    BY DEF Kept, Structure
<1>2. UNCHANGED <<promised, raced>> /\ \A t \in Stores : cache'[t] = NotLoaded
    BY DEF Restart
<1>3. \A p \in Requests : req'[p].pc \notin {"save", "install"}
  <2> SUFFICES ASSUME NEW p \in Requests PROVE req'[p].pc \notin {"save", "install"}
      OBVIOUS
  <2>1. req'[p] = IF req[p].pc \in Stages THEN Ended ELSE req[p]
      BY DEF Restart, Active
  <2> QED
      BY <2>1, AtRest DEF Stages
<1>4. FilesKept'
  <2> SUFFICES ASSUME NEW t \in Stores, ~(t \in Eager /\ raced)
               PROVE  Allows(promised[t], file'[t])
      BY <1>2 DEF FilesKept, Allows
  <2> QED
      BY <1>1, RestartFiles DEF Kept, FilesKept, SavesKept
<1> QED
    BY <1>3, <1>4 DEF Kept, SavesKept, ReadsFresh

LEMMA KeptInit == Init => Kept
<1> SUFFICES ASSUME Init PROVE Kept
    OBVIOUS
<1>1. FilesKept
  <2> SUFFICES ASSUME NEW s \in Stores
               PROVE  Allows(promised[s], file[s]) /\ cache[s] = NotLoaded
      BY DEF FilesKept
  <2>1. promised[s] = [l \in Labels |-> {(l \in file[s])}]
      BY DEF Init
  <2> QED
      BY <2>1 DEF Init, Allows
<1>2. SavesKept /\ ReadsFresh
    BY AtRest DEF Init, SavesKept, ReadsFresh
<1> QED
    BY <1>1, <1>2, StructureInit DEF Kept

LEMMA KeptStep == Kept /\ [Next]_vars => Kept'
<1> SUFFICES ASSUME Kept, [Next]_vars PROVE Kept'
    OBVIOUS
<1>1. Structure'
    BY StructureStep DEF Kept
<1>2. CASE UNCHANGED vars
    BY <1>1, <1>2 DEF vars, history, Kept, FilesKept, SavesKept, ReadsFresh, Allows
<1>3. CASE Restart
    BY <1>1, <1>3, RestartKept
<1>4. ASSUME NEW p \in Requests,
             \/ \E kind \in Kinds, s \in Stores, arg \in Data : Arrive(p, kind, s, arg)
             \/ Step(p) \/ LoadFails(p) \/ SaveFails(p)
      PROVE  Kept'
    BY <1>1, <1>4, QuietSteps, ReadsKept, StartSaveKept, SaveEndsKept, SaveFailsKept
       DEF Step
<1> QED
    BY <1>2, <1>3, <1>4 DEF Next

\* What a label handler answered with success stays in the file and in the cache,
\* whatever fails and whenever the process stops, until another speaks of the same
\* label or the item is registered anew or removed; in the Zigbee store, as long as
\* no late reader has replaced the cache.
THEOREM AnswersKept == Spec => []AnswersHold
<1>1. Kept => AnswersHold
    BY DEF Kept, FilesKept, AnswersHold, Allows, Loaded
<1> QED
    BY <1>1, KeptInit, KeptStep, PTL DEF Spec
-----------------------------------------------------------------------------
(* The labels on items exist. *)

\* Nothing the property sets apart has happened.
Calm == ~(mixed \/ paged \/ failed \/ raced)

(* The labels that exist, or were put on an item without existing. *)
Known == View("labels") \cup dangling

(* The stores a deletion that is at store s has still to visit, or is visiting. *)
Ahead(s) ==
    CASE s = "entities" -> {"entities", "devices", "zigbee"}
      [] s = "devices" -> {"devices", "zigbee"}
      [] s = "zigbee" -> {"zigbee"}
      [] OTHER -> {}

\* Request q is about to take label l off the items of store s.
Pending(q, s, l) ==
    /\ req[q].pc \in Stages
    /\ req[q].kind = "delete_ws"
    /\ s \in Ahead(req[q].at)
    /\ l \in req[q].arg

(* What a request at work is about to write goes with what is there. *)
Fits(q) ==
    LET h == req[q] IN
    /\ h.kind # "delete_page"
    /\ h.kind = "create" => h.at = "labels"
    /\ h.kind = "assign" => h.at \in Holders
    /\ h.kind = "assign" /\ h.pc # "save" => h.arg \subseteq Known
    /\ h.kind = "assign" /\ h.pc = "save" => h.data \subseteq Known
    /\ h.kind = "create" /\ h.pc = "save" => View(h.at) \subseteq h.data
    /\ h.kind = "renew" /\ h.pc = "save" => h.data \subseteq View(h.at)
    /\ h.kind = "renew" /\ h.pc = "save" /\ h.at = "labels" => h.data = View(h.at)
    /\ h.kind = "delete_ws" /\ h.pc = "save" =>
          /\ h.data \cap h.arg = {}
          /\ h.data \subseteq View(h.at)
          /\ View(h.at) \subseteq h.data \cup h.arg

Synced(s) == Loaded(s) /\ ~(s \in Eager /\ CacheLocked(s)) => cache[s] = file[s]

Apart == \A p, q \in Active : ~(req[p].kind = "assign" /\ req[q].kind = "delete_ws")

(* A label on an item exists, or its deletion is on the way to that item. *)
Explained ==
    \A s \in Holders : \A l \in View(s) :
        l \in Known \/ \E q \in Requests : Pending(q, s, l)

Exist ==
    /\ \A s \in Stores : Synced(s)
    /\ Apart
    /\ \A q \in Active : Fits(q)
    /\ Explained

ExistInv == Kept /\ (Calm => Exist)

\* Request p takes a step; the others stay where they are.
Alone(p) == \A q \in Requests : q # p => req'[q] = req[q]

\* What a step of request p must show for labels to exist after it.
Careful(p) ==
    /\ Alone(p)
    /\ \A s \in Stores : Synced(s)'
    /\ Apart'
    /\ req'[p].pc \in Stages => Fits(p)'
    /\ \A q \in Active : q # p => Fits(q)'
    /\ \A s \in Holders : \A l \in View(s)' :
          \/ l \in Known'
          \/ Pending(p, s, l)'
          \/ /\ l \in View(s) /\ l \notin Known
             /\ Pending(p, s, l) => Pending(p, s, l)'

LEMMA CarefulExist ==
    ASSUME Exist, NEW p \in Requests, Careful(p)
    PROVE  Exist'
<1>1. \A q \in Active' : Fits(q)'
  <2> SUFFICES ASSUME NEW q \in Requests, req'[q].pc \in Stages PROVE Fits(q)'
      BY DEF Active
  <2>1. CASE q = p
      BY <2>1 DEF Careful
  <2>2. CASE q # p
      BY <2>2 DEF Careful, Alone, Active
  <2> QED
      BY <2>1, <2>2
<1>2. Explained'
  <2> SUFFICES ASSUME NEW s \in Holders, NEW l \in View(s)', l \notin Known',
                      ~Pending(p, s, l)'
               PROVE  \E q \in Requests : Pending(q, s, l)'
      BY DEF Explained
  <2>1. l \in View(s) /\ l \notin Known /\ ~Pending(p, s, l)
      BY DEF Careful
  <2>2. PICK q \in Requests : Pending(q, s, l)
      BY <2>1 DEF Exist, Explained
  <2>3. q # p /\ req'[q] = req[q]
      BY <2>1, <2>2 DEF Careful, Alone
  <2> QED
      BY <2>2, <2>3 DEF Pending
<1> QED
    BY <1>1, <1>2 DEF Exist, Careful

\* Another request still fits while the store it saves to looks the same and, for
\* an assignment, no label disappears.
LEMMA OtherFits ==
    ASSUME NEW q \in Active, Fits(q), req'[q] = req[q],
           req[q].kind = "assign" => Known \subseteq Known',
           req[q].pc = "save" => View(req[q].at)' = View(req[q].at)
    PROVE  Fits(q)'
BY DEF Fits

\* The kinds of the requests at work do not change but by an arrival.
LEMMA ApartStays ==
    ASSUME Apart, NEW p \in Requests, Alone(p),
           req'[p].pc \in Stages => req[p].pc \in Stages /\ req'[p].kind = req[p].kind
    PROVE  Apart'
<1>1. \A q \in Requests : req'[q].pc \in Stages =>
          req[q].pc \in Stages /\ req'[q].kind = req[q].kind
    BY DEF Alone
<1> QED
    BY <1>1 DEF Apart, Active

\* What a request that goes on keeps, and one that turns to the next store.
LEMMA GoneOn ==
    ASSUME TypeOK, NEW p \in Requests, req[p] \in Handler, Answer(p) \/ GoOn(p)
    PROVE  /\ Alone(p)
           /\ \/ req'[p].pc \notin Stages
              \/ /\ GoOn(p) /\ After(req[p].kind, req[p].at) # "end"
                 /\ req'[p].pc = "wait" /\ req'[p].kind = req[p].kind
                 /\ req'[p].arg = req[p].arg
                 /\ req'[p].at = After(req[p].kind, req[p].at)
<1>1. CASE Answer(p)
  <2>1. req'[p] = Ended /\ Alone(p)
      BY <1>1 DEF Answer, TypeOK, Alone
  <2> QED
      BY <2>1, AtRest DEF Stages
<1>2. CASE GoOn(p) /\ After(req[p].kind, req[p].at) # "end"
  <2> DEFINE h == [req[p] EXCEPT !.at = After(req[p].kind, req[p].at), !.pc = "wait", !.data = {}]
  <2>1. req' = [req EXCEPT ![p] = h]
      BY <1>2 DEF GoOn
  <2>2. /\ h.pc = "wait" /\ h.kind = req[p].kind /\ h.arg = req[p].arg
        /\ h.at = After(req[p].kind, req[p].at)
      BY DEF Handler
  <2> HIDE DEF h
  <2>3. req'[p] = h /\ Alone(p)
      BY <2>1 DEF TypeOK, Alone
  <2> QED
      BY <1>2, <2>2, <2>3
<1>3. CASE GoOn(p) /\ After(req[p].kind, req[p].at) = "end"
    BY <1>1, <1>3 DEF GoOn
<1> QED
    BY <1>1, <1>2, <1>3

\* A deletion that goes on past a store has that store behind it and all the others
\* it had ahead of it still ahead.
LEMMA OnlyThisBehind ==
    ASSUME NEW s \in Holders
    PROVE  /\ After("delete_ws", s) # "end" =>
                 \A t \in Ahead(s) : t # s => t \in Ahead(After("delete_ws", s))
           /\ After("delete_ws", s) = "end" => Ahead(s) = {s}
           /\ After("delete_ws", "labels") = "entities"
           /\ Ahead("entities") = Holders /\ Ahead("labels") = {}
           /\ \A t \in Stores : \A k \in {"create", "assign", "renew"} : After(k, t) = "end"
<1>1. CASE s = "entities"
    BY <1>1 DEF After, Deletes, Ahead, Holders, Stores
<1>2. CASE s = "devices"
    BY <1>2 DEF After, Deletes, Ahead, Holders, Stores
<1>3. CASE s = "zigbee"
    BY <1>3 DEF After, Deletes, Ahead, Holders, Stores
<1> QED
    BY <1>1, <1>2, <1>3 DEF Holders, Stores

\* A request goes on in its store, or is answered, and every store looks the same.
LEMMA StaysExist ==
    ASSUME Kept, Exist, NEW p \in Requests, Alone(p),
           req[p].pc \in Stages, req[p].pc # "save",
           \A s \in Stores : View(s)' = View(s) /\ Synced(s)', UNCHANGED dangling,
           \/ req'[p].pc \notin Stages /\ req[p].kind # "delete_ws"
           \/ /\ req'[p].pc \in Stages /\ req'[p].pc # "save"
              /\ req'[p].kind = req[p].kind /\ req'[p].arg = req[p].arg
              /\ req'[p].at = req[p].at
    PROVE  Exist'
<1>1. TypeOK
    BY DEF Kept, Structure
<1>2. Fits(p)
    BY DEF Exist, Active
<1>3. Known' = Known
    BY DEF Stores, Known
<1>4. Apart'
    BY ApartStays DEF Exist
<1>5. req'[p].pc \in Stages => Fits(p)'
  <2> SUFFICES ASSUME req'[p].pc \in Stages PROVE Fits(p)'
      OBVIOUS
  <2>1. /\ req'[p].pc # "save" /\ req'[p].kind = req[p].kind
        /\ req'[p].arg = req[p].arg /\ req'[p].at = req[p].at
      OBVIOUS
  <2> QED
      BY <1>2, <1>3, <2>1 DEF Fits
<1>6. \A q \in Active : q # p => Fits(q)'
  <2> SUFFICES ASSUME NEW q \in Active, q # p PROVE Fits(q)'
      OBVIOUS
  <2>1. req'[q] = req[q] /\ Fits(q)
      BY DEF Alone, Exist, Active
  <2>2. req[q].at \in Stores
      BY <1>1, AtWork DEF Active
  <2>3. View(req[q].at)' = View(req[q].at)
      BY <2>1, <2>2 DEF View
  <2> QED
      BY <1>3, <2>1, <2>3, OtherFits
<1>7. \A s \in Holders : \A l : Pending(p, s, l) => Pending(p, s, l)'
    BY DEF Pending
<1>8. \A s \in Holders : View(s)' = View(s)
    BY DEF Holders, Stores
<1>9. Careful(p)
    BY <1>3, <1>4, <1>5, <1>6, <1>7, <1>8 DEF Careful
<1> QED
    BY <1>9, CarefulExist

\* Files and caches as they were: every store looks the same.
LEMMA Untouched ==
    ASSUME Exist, UNCHANGED <<file, cache>>, NEW p \in Requests, Alone(p),
           req[p].pc # "save", req'[p].pc # "save"
    PROVE  \A s \in Stores : View(s)' = View(s) /\ Synced(s)'
BY DEF Exist, View, Synced, Loaded, CacheLocked, Alone

\* Goto and Answer leave the other requests alone.
LEMMA GotoAlone ==
    ASSUME TypeOK, NEW p \in Requests, req[p] \in Handler, NEW pc \in Stages, Goto(p, pc)
    PROVE  /\ Alone(p) /\ req'[p].pc = pc /\ req'[p].kind = req[p].kind
           /\ req'[p].arg = req[p].arg /\ req'[p].at = req[p].at
<1> DEFINE h == [req[p] EXCEPT !.pc = pc]
<1>1. h.pc = pc /\ h.kind = req[p].kind /\ h.arg = req[p].arg /\ h.at = req[p].at
    BY DEF Handler
<1>2. req' = [req EXCEPT ![p] = h]
    BY DEF Goto
<1> HIDE DEF h
<1> QED
    BY <1>1, <1>2 DEF TypeOK, Alone

\* Looking a store up, waiting for it, and listing it.
LEMMA LookExist ==
    ASSUME Kept, Exist, NEW p \in Requests, Enter(p) \/ Acquire(p) \/ List(p) \/ LoadEager(p)
    PROVE  Exist'
<1>1. TypeOK /\ Placed(req[p]) /\ req[p].pc \in Stages /\ req[p].pc # "save"
      /\ UNCHANGED <<file, cache, dangling>>
    BY DEF Kept, Structure, Enter, Acquire, List, LoadEager, Stages, history
<1>2. req[p] \in Handler
    BY <1>1, AtWork
<1>3. ASSUME NEW pc \in Stages, pc # "save", Goto(p, pc) PROVE Exist'
    BY <1>1, <1>2, <1>3, GotoAlone, Untouched, StaysExist
<1>4. ASSUME Answer(p), req[p].kind # "delete_ws" PROVE Exist'
  <2>1. Alone(p) /\ req'[p].pc \notin Stages
      BY <1>1, <1>2, <1>4, AtRest DEF Answer, TypeOK, Alone, Stages
  <2>2. req'[p].pc # "save"
      BY <2>1 DEF Stages
  <2> QED
      BY <1>1, <1>4, <2>1, <2>2, Untouched, StaysExist
<1>5. CASE Enter(p)
  <2>1. req[p].kind # "delete_ws"
      BY <1>1, <1>5 DEF Enter, Placed
  <2>2. Answer(p) \/ Goto(p, "load") \/ Goto(p, "wait")
      BY <1>5 DEF Enter
  <2> QED
      BY <1>3, <1>4, <2>1, <2>2 DEF Stages
<1>6. CASE Acquire(p)
  <2>1. Goto(p, "apply") \/ Goto(p, "load")
      BY <1>6 DEF Acquire
  <2> QED
      BY <1>3, <2>1 DEF Stages
<1>7. CASE List(p)
    BY <1>4, <1>7 DEF List
<1>8. CASE LoadEager(p)
  <2> DEFINE h == [req[p] EXCEPT !.data = file[req[p].at], !.pc = "install"]
  <2>1. req' = [req EXCEPT ![p] = h]
      BY <1>1, <1>2, <1>8 DEF LoadEager, TypeOK, Handler
  <2>2. h.pc = "install" /\ h.kind = req[p].kind /\ h.arg = req[p].arg /\ h.at = req[p].at
      BY <1>2 DEF Handler
  <2> HIDE DEF h
  <2>3. Alone(p) /\ req'[p] = h
      BY <1>1, <2>1 DEF TypeOK, Alone
  <2>4. "install" \in Stages /\ "install" # "save"
      BY DEF Stages
  <2> QED
      BY <1>1, <2>2, <2>3, <2>4, Untouched, StaysExist
<1> QED
    BY <1>5, <1>6, <1>7, <1>8

\* A cache is filled with what the file holds, or with what it holds itself.
LEMMA FillExist ==
    ASSUME Kept, Exist, NEW p \in Requests, Load(p) \/ Install(p), ~raced'
    PROVE  Exist'
<1> DEFINE s == req[p].at
<1>1. TypeOK /\ Placed(req[p]) /\ req[p].pc \in Stages /\ req[p].pc # "save" /\ UNCHANGED <<file, dangling>>
    BY DEF Kept, Structure, Load, Install, Stages, history
<1>2. req[p] \in Handler /\ s \in Stores
    BY <1>1, AtWork
<1>3. /\ Alone(p)
      /\ \/ req'[p].pc \notin Stages /\ req[p].kind # "delete_ws"
         \/ /\ req'[p].pc = "apply" /\ req'[p].kind = req[p].kind
            /\ req'[p].arg = req[p].arg /\ req'[p].at = req[p].at
  <2>1. CASE Goto(p, "apply")
    <3>1. "apply" \in Stages
        BY DEF Stages
    <3> QED
        BY <1>1, <1>2, <2>1, <3>1, GotoAlone
  <2>2. CASE Answer(p) /\ req[p].kind = "list"
      BY <1>1, <1>2, <2>2, AtRest DEF Answer, TypeOK, Alone, Stages
  <2> QED
      BY <2>1, <2>2 DEF Load, Install
<1>4. \A t \in Stores : t # s => cache'[t] = cache[t]
    BY <1>1, <1>2 DEF Load, Install, TypeOK
<1>5. cache'[s] = file[s] \/ (Loaded(s) /\ cache'[s] = cache[s] /\ ~CacheLocked(s))
  <2>1. CASE Load(p)
      BY <1>1, <1>2, <2>1 DEF Load, TypeOK
  <2>2. CASE Install(p)
    <3>1. /\ cache'[s] = req[p].data /\ ~CacheLocked(s)
          /\ Loaded(s) => cache[s] = req[p].data
        BY <1>1, <1>2, <2>2 DEF Install, TypeOK
    <3>2. ~Loaded(s) => req[p].data = file[s]
        BY <2>2 DEF Install, Loaded, Kept, ReadsFresh
    <3> QED
        BY <3>1, <3>2
  <2> QED
      BY <2>1, <2>2
<1>6. file[s] = View(s) /\ cache'[s] = file[s]
  <2>1. s \notin Eager \/ ~CacheLocked(s)
      BY DEF Load, Install
  <2>2. Loaded(s) => cache[s] = file[s]
      BY <1>2, <2>1 DEF Exist, Synced
  <2> QED
      BY <1>5, <2>2 DEF View, Loaded
<1>7. \A t \in Stores : View(t)' = View(t) /\ Synced(t)'
  <2> SUFFICES ASSUME NEW t \in Stores PROVE View(t)' = View(t) /\ Synced(t)'
      OBVIOUS
  <2>1. CASE t = s
      BY <1>1, <1>6, <2>1 DEF View, Synced
  <2>2. CASE t # s
    <3>1. cache'[t] = cache[t] /\ file'[t] = file[t]
        BY <1>1, <1>4, <2>2
    <3>2. req'[p].pc # "save"
        BY <1>3 DEF Stages
    <3>3. CacheLocked(t) => CacheLocked(t)'
        BY <1>1, <1>3 DEF CacheLocked, Alone
    <3> QED
        BY <3>1, <3>3 DEF Exist, View, Synced, Loaded
  <2> QED
      BY <2>1, <2>2
<1>8. "apply" \in Stages
    BY DEF Stages
<1> HIDE DEF s
<1> QED
    BY <1>1, <1>3, <1>7, <1>8, StaysExist

\* What a deletion still has ahead after it has left a store: all but that store.
LEMMA LeftBehind ==
    ASSUME Kept, Exist, NEW p \in Requests, req[p].pc \in Stages,
           req[p].kind = "delete_ws", Answer(p) \/ GoOn(p),
           Answer(p) => req[p].at = "labels" \/ After(req[p].kind, req[p].at) = "end",
           NEW s \in Holders, NEW l, Pending(p, s, l), s # req[p].at
    PROVE  Pending(p, s, l)'
<1>1. TypeOK /\ req[p] \in Handler
    BY AtWork DEF Kept, Structure
<1>2. req[p].at \in Holders
  <2>1. req[p].at \in Stores /\ req[p].at # "labels"
      BY <1>1, OnlyThisBehind DEF Handler, Pending
  <2> QED
      BY <2>1 DEF Holders
<1>3. After("delete_ws", req[p].at) # "end"
    BY <1>2, OnlyThisBehind DEF Pending
<1>4. GoOn(p) /\ ~Answer(p)
    BY <1>2, <1>3 DEF Holders
<1>5. /\ req'[p].pc = "wait" /\ req'[p].kind = "delete_ws" /\ req'[p].arg = req[p].arg
      /\ req'[p].at = After("delete_ws", req[p].at)
  <2> DEFINE h == [req[p] EXCEPT !.at = After(req[p].kind, req[p].at), !.pc = "wait", !.data = {}]
  <2>1. req' = [req EXCEPT ![p] = h]
      BY <1>3, <1>4 DEF GoOn
  <2>2. /\ h.pc = "wait" /\ h.kind = req[p].kind /\ h.arg = req[p].arg
        /\ h.at = After(req[p].kind, req[p].at)
      BY <1>1 DEF Handler
  <2> HIDE DEF h
  <2> QED
      BY <1>1, <2>1, <2>2 DEF TypeOK
<1>6. s \in Ahead(After("delete_ws", req[p].at))
    BY <1>2, <1>3, OnlyThisBehind DEF Pending
<1> QED
    BY <1>5, <1>6 DEF Pending, Stages

\* There is nothing to delete in the store that the request leaves.
LEMMA ChangeNothingExist ==
    ASSUME Kept, Exist, NEW p \in Requests, ChangeNothing(p)
    PROVE  Exist'
<1>1. TypeOK /\ req[p].pc \in Stages /\ req[p].pc = "apply" /\ UNCHANGED <<file, cache, dangling>>
    BY DEF Kept, Structure, ChangeNothing, Stages, history
<1>2. req[p] \in Handler /\ p \in Active /\ Fits(p) /\ Loaded(req[p].at)
    BY <1>1, AtWork DEF Active, Exist, Kept, Structure
<1>3. /\ req[p].kind \in {"delete_ws", "assign", "renew"} /\ req[p].at \in Stores
      /\ req[p].kind = "delete_ws" => req[p].arg \cap cache[req[p].at] = {}
    BY <1>2 DEF ChangeNothing, Deletes, Fits, Handler
<1>4. Answer(p) \/ GoOn(p)
    BY DEF ChangeNothing
<1>5. /\ Alone(p)
      /\ \/ req'[p].pc \notin Stages
         \/ req'[p].pc = "wait" /\ req'[p].kind = "delete_ws" /\ req[p].kind = "delete_ws"
  <2>1. req[p].kind \in {"assign", "renew"} => After(req[p].kind, req[p].at) = "end"
      BY <1>3 DEF After, Deletes
  <2> QED
      BY <1>1, <1>2, <1>3, <1>4, <2>1, GoneOn
<1>6. req'[p].pc # "save"
    BY <1>5 DEF Stages
<1>7. \A s \in Stores : View(s)' = View(s) /\ Synced(s)'
    BY <1>1, <1>5, <1>6, Untouched
<1>8. Known' = Known
    BY <1>1, <1>7 DEF Stores, Known
<1>9. Apart'
    BY <1>1, <1>3, <1>5, ApartStays DEF Exist
<1>10. req'[p].pc \in Stages => Fits(p)'
    BY <1>5 DEF Fits
<1>11. \A q \in Active : q # p => Fits(q)'
  <2> SUFFICES ASSUME NEW q \in Active, q # p PROVE Fits(q)'
      OBVIOUS
  <2>1. req'[q] = req[q] /\ Fits(q) /\ req[q].at \in Stores
      BY <1>1, <1>5, AtWork DEF Alone, Exist, Active
  <2>2. View(req[q].at)' = View(req[q].at)
      BY <1>7, <2>1 DEF View
  <2> QED
      BY <1>8, <2>1, <2>2, OtherFits
<1>12. ASSUME NEW s \in Holders, NEW l \in View(s)', l \notin Known', Pending(p, s, l)
       PROVE  Pending(p, s, l)'
  <2>1. l \in View(s) /\ s \in Stores
      BY <1>7, <1>12 DEF Holders
  <2>2. s # req[p].at
      BY <1>2, <1>3, <1>12, <2>1 DEF View, Loaded, Pending
  <2>3. Answer(p) => req[p].at = "labels" \/ After(req[p].kind, req[p].at) = "end"
    <3>1. CASE req[p].at # "labels"
      <4>1. GoOn(p)
          BY <3>1 DEF ChangeNothing
      <4>2. After(req[p].kind, req[p].at) # "end" => ~Answer(p)
        <5> SUFFICES ASSUME After(req[p].kind, req[p].at) # "end", Answer(p) PROVE FALSE
            OBVIOUS
        <5>1. req'[p] = Ended
            BY <1>1 DEF Answer, TypeOK
        <5>2. req'[p] = [req[p] EXCEPT !.at = After(req[p].kind, req[p].at),
                                       !.pc = "wait", !.data = {}]
            BY <1>1, <1>2, <4>1 DEF GoOn, TypeOK, Handler
        <5> QED
            BY <1>2, <5>1, <5>2 DEF Ended, Handler
      <4> QED
          BY <4>2
    <3> QED
        BY <3>1
  <2> QED
      BY <1>1, <1>4, <1>12, <2>2, <2>3, LeftBehind DEF Pending
<1>13. \A s \in Holders : View(s)' = View(s)
    BY <1>7 DEF Holders
<1>14. Careful(p)
    BY <1>5, <1>7, <1>8, <1>9, <1>10, <1>11, <1>12, <1>13 DEF Careful
<1> QED
    BY <1>14, CarefulExist

\* A request arrives; an assignment carries labels that exist, or dangle from now
\* on, and meets no deletion.
LEMMA ArriveExist ==
    ASSUME Kept, Exist, NEW p \in Requests, NEW kind \in Kinds, NEW s \in Stores,
           NEW arg \in Data, Arrive(p, kind, s, arg), Calm'
    PROVE  Exist'
<1> DEFINE h == [kind |-> kind,
                 pc   |-> IF kind = "list" THEN "enter" ELSE "wait",
                 at   |-> First(kind, s),
                 arg  |-> arg,
                 data |-> {}]
<1>1. /\ TypeOK /\ UNCHANGED <<file, cache>> /\ req[p].pc = "idle" /\ kind # "delete_page"
      /\ req' = [req EXCEPT ![p] = h]
      /\ \A q \in Active : ~(kind = "assign" /\ req[q].kind \in Deletes)
      /\ \A q \in Active : ~(kind \in Deletes /\ req[q].kind = "assign")
      /\ kind = "assign" => s \in Holders /\ arg \subseteq View("labels") \cup dangling'
      /\ dangling \subseteq dangling'
  <2>1. TypeOK
      BY DEF Kept, Structure
  <2>2. UNCHANGED <<file, cache>> /\ req[p].pc = "idle" /\ req' = [req EXCEPT ![p] = h]
      BY DEF Arrive
  <2>3. /\ kind # "delete_page"
        /\ \A q \in Active : ~(kind = "assign" /\ req[q].kind \in Deletes)
        /\ \A q \in Active : ~(kind \in Deletes /\ req[q].kind = "assign")
    <3>1. ~mixed' /\ ~paged'
        BY DEF Calm
    <3>2. /\ paged' = (paged \/ kind = "delete_page")
          /\ mixed' = (mixed \/ \E q \in Active :
                         \/ kind = "assign" /\ req[q].kind \in Deletes
                         \/ kind \in Deletes /\ req[q].kind = "assign")
        BY DEF Arrive
    <3> QED
        BY <3>1, <3>2
  <2>4. dangling' = IF kind = "assign" THEN dangling \cup (arg \ View("labels")) ELSE dangling
      BY DEF Arrive
  <2>5. ASSUME kind = "assign" PROVE s \in Holders
      BY <2>5 DEF Arrive, Deletes
  <2> QED
      BY <2>1, <2>2, <2>3, <2>4, <2>5
<1>2. /\ h.kind = kind /\ h.arg = arg /\ h.pc \in {"enter", "wait"}
      /\ kind = "create" => h.at = "labels"
      /\ kind = "assign" => h.at = s
    BY DEF First, Deletes
<1> HIDE DEF h
<1>3. Alone(p) /\ req'[p] = h
    BY <1>1 DEF TypeOK, Alone
<1>4. \A t \in Stores : View(t)' = View(t) /\ Synced(t)'
    BY <1>1, <1>2, <1>3, Untouched
<1>5. /\ Known \subseteq Known'
      /\ kind = "assign" => arg \subseteq Known'
    BY <1>1, <1>4 DEF Stores, Known
<1>6. Apart'
  <2>1. \A q \in Requests : q # p => req'[q] = req[q]
      BY <1>3 DEF Alone
  <2> QED
      BY <1>1, <1>2, <1>3, <2>1 DEF Exist, Apart, Active, Deletes
<1>7. Fits(p)'
    BY <1>1, <1>2, <1>3, <1>5 DEF Fits
<1>8. \A q \in Active : q # p => Fits(q)'
  <2> SUFFICES ASSUME NEW q \in Active, q # p PROVE Fits(q)'
      OBVIOUS
  <2>1. req'[q] = req[q] /\ Fits(q) /\ req[q].at \in Stores
      BY <1>1, <1>3, AtWork DEF Alone, Exist, Active
  <2>2. View(req[q].at)' = View(req[q].at)
      BY <1>4, <2>1 DEF View
  <2> QED
      BY <1>5, <2>1, <2>2, OtherFits
<1>9. \A t \in Holders : View(t)' = View(t) /\ \A l : ~Pending(p, t, l)
    BY <1>1, <1>4 DEF Holders, Pending, Stages
<1>10. Careful(p)
    BY <1>3, <1>4, <1>5, <1>6, <1>7, <1>8, <1>9 DEF Careful
<1> QED
    BY <1>10, CarefulExist

\* A restart that cut no request off finds the files the caches were taken from.
LEMMA RestartExist ==
    ASSUME Kept, Exist, Restart, ~failed'
    PROVE  Exist'
<1>1. TypeOK /\ Active = {} /\ \A s \in Stores : cache'[s] = NotLoaded
    BY DEF Kept, Structure, Restart
<1>2. \A p \in Requests : req[p].pc \notin Stages
    BY <1>1 DEF Active
<1>3. \A p \in Requests : req'[p] = req[p]
    BY <1>1 DEF Restart
<1>4. \A s \in Stores : file'[s] = file[s]
    BY <1>1, <1>2, RestartFiles DEF Stages
<1>5. \A s \in Stores : View(s)' = View(s) /\ Synced(s)'
  <2> SUFFICES ASSUME NEW s \in Stores PROVE View(s)' = View(s) /\ Synced(s)'
      OBVIOUS
  <2>1. ~CacheLocked(s)
      BY <1>2 DEF CacheLocked, Stages
  <2>2. Loaded(s) => cache[s] = file[s]
      BY <2>1 DEF Exist, Synced
  <2> QED
      BY <1>1, <1>4, <2>2 DEF View, Synced, Loaded
<1>6. Active' = {}
    BY <1>2, <1>3 DEF Active
<1>7. Explained'
  <2> SUFFICES ASSUME NEW s \in Holders, NEW l \in View(s)' PROVE l \in Known'
      BY DEF Explained
  <2>1. l \in View(s) /\ Known' = Known
      BY <1>5 DEF Stores, Holders, Known, Restart
  <2>2. \A q \in Requests : ~Pending(q, s, l)
      BY <1>2 DEF Pending
  <2> QED
      BY <2>1, <2>2 DEF Exist, Explained
<1> QED
    BY <1>5, <1>6, <1>7 DEF Exist, Apart

\* The data of a save is what the caches and files give: the save will leave every
\* label that is to stay, and drop the one that is to go.
LEMMA StartSaveExist ==
    ASSUME Kept, Exist, NEW p \in Requests, StartSave(p)
    PROVE  Exist'
<1> DEFINE s == req[p].at
           kind == req[p].kind
<1>1. TypeOK /\ Structure /\ req[p].pc = "apply" /\ req[p].pc \in Stages /\ kind # "list"
    BY DEF Kept, Structure, StartSave, Stages
<1>2. PICK new \in Edits(kind, s, req[p].arg, cache[s]) :
        LET touched == Touched(kind, req[p].arg, cache[s], new) IN
        /\ req' = [req EXCEPT ![p].pc = "save", ![p].data = new, ![p].arg = touched]
        /\ cache' = IF s \in Eager THEN [cache EXCEPT ![s] = new] ELSE cache
    BY DEF StartSave
<1> DEFINE touched == Touched(kind, req[p].arg, cache[s], new)
           h == [req[p] EXCEPT !.pc = "save", !.data = new, !.arg = touched]
<1>3. req[p] \in Handler /\ s \in Stores /\ Loaded(s) /\ Fits(p) /\ p \in Active
    BY <1>1, AtWork DEF Exist, Active, Structure
<1>4. /\ h.pc = "save" /\ h.kind = kind /\ h.at = s /\ h.data = new /\ h.arg = touched
    BY <1>3 DEF Handler
<1>5. View(s) = cache[s] /\ UNCHANGED <<file, dangling>>
    BY <1>3 DEF View, Loaded, StartSave
<1>6. /\ kind \in {"create", "delete_ws", "assign", "renew"}
      /\ kind = "create" => cache[s] \subseteq new /\ s = "labels"
      /\ kind = "delete_ws" => new = cache[s] \ req[p].arg /\ touched = req[p].arg
      /\ kind = "assign" => new = req[p].arg /\ s \in Holders
      /\ kind = "renew" => new \subseteq cache[s] /\ (s = "labels" => new = cache[s])
  <2>1. kind \in AllKinds /\ kind # "delete_page"
      BY <1>3 DEF Handler, Fits
  <2>2. kind = "create" => cache[s] \subseteq new /\ s = "labels"
    <3> SUFFICES ASSUME kind = "create" PROVE cache[s] \subseteq new /\ s = "labels"
        OBVIOUS
    <3>1. s = "labels"
        BY <1>3 DEF Fits
    <3>2. Edits(kind, s, req[p].arg, cache[s]) =
             IF req[p].arg \cap cache[s] = {} THEN {cache[s] \cup req[p].arg}
             ELSE {cache[s] \cup {l} : l \in Suffixed \ minted}
        BY DEF Edits, Deletes
    <3>3. \E x : new = cache[s] \cup x
        BY <3>2
    <3> QED
        BY <3>1, <3>3
  <2>3. kind = "delete_ws" => new = cache[s] \ req[p].arg /\ touched = req[p].arg
      BY <1>2 DEF Edits, Touched, Deletes
  <2>4. kind = "assign" => new = req[p].arg /\ s \in Holders
      BY <1>2, <1>3 DEF Edits, Deletes, Fits
  <2>5. kind = "renew" => new \subseteq cache[s] /\ (s = "labels" => new = cache[s])
      BY <1>2 DEF Edits, Deletes, Renewed
  <2> QED
      BY <1>1, <2>1, <2>2, <2>3, <2>4, <2>5 DEF AllKinds
<1>7. req' = [req EXCEPT ![p] = h]
    BY <1>1, <1>2, <1>3 DEF TypeOK, Handler
<1>8. \A t \in Stores : cache'[t] = IF t = s /\ s \in Eager THEN new ELSE cache[t]
    BY <1>1, <1>2, <1>3 DEF TypeOK
<1>9. new \in Data /\ new # NotLoaded
    BY <1>1, <1>2, BeforeSave, LabelConstants
<1> HIDE DEF h, touched, s, kind
<1>10. Alone(p) /\ req'[p] = h
    BY <1>1, <1>7 DEF TypeOK, Alone
<1>11. \A t \in Stores : View(t)' = IF t = s /\ s \in Eager THEN new ELSE View(t)
    BY <1>3, <1>5, <1>8, <1>9 DEF View, Loaded
<1>12. Known' = Known /\ "labels" \notin Eager /\ "labels" \in Stores
    BY <1>5, <1>11 DEF Stores, Eager, Known
<1>13. \A t \in Stores : Synced(t)'
  <2> SUFFICES ASSUME NEW t \in Stores PROVE Synced(t)'
      OBVIOUS
  <2>1. CASE t = s /\ s \in Eager
    <3>1. CacheLocked(t)'
        BY <1>4, <1>10, <2>1 DEF CacheLocked
    <3> QED
        BY <2>1, <3>1 DEF Synced
  <2>2. CASE ~(t = s /\ s \in Eager)
    <3>1. CacheLocked(t) => CacheLocked(t)'
        BY <1>1, <1>10 DEF CacheLocked, Alone
    <3> QED
        BY <1>5, <1>8, <2>2, <3>1 DEF Exist, Synced, Loaded
  <2> QED
      BY <2>1, <2>2
<1>14. Apart'
    BY <1>1, <1>4, <1>10, ApartStays DEF Exist, kind
<1>15. Fits(p)'
  <2>1. s' = s /\ View(s)' = IF s \in Eager THEN new ELSE cache[s]
    <3>1. s' = s
        BY <1>4, <1>10 DEF s
    <3> QED
        BY <1>3, <1>5, <1>11, <3>1
  <2>2. kind = "assign" => new \subseteq Known'
      BY <1>1, <1>3, <1>6, <1>12 DEF Fits, kind, s
  <2>3. kind = "create" => View(s)' \subseteq new
      BY <1>6, <2>1
  <2>4. kind = "delete_ws" =>
          new \cap touched = {} /\ new \subseteq View(s)' /\ View(s)' \subseteq new \cup touched
      BY <1>6, <2>1
  <2>5. View(s)' = View(req[p].at)'
      BY <1>4, <1>10 DEF View, s
  <2>6. kind = "renew" => new \subseteq View(s)' /\ (s = "labels" => new = View(s)')
      BY <1>6, <2>1
  <2> QED
      BY <1>4, <1>6, <1>10, <2>2, <2>3, <2>4, <2>5, <2>6 DEF Fits, s
<1>16. \A q \in Active : q # p => Fits(q)'
  <2> SUFFICES ASSUME NEW q \in Active, q # p PROVE Fits(q)'
      OBVIOUS
  <2>1. req'[q] = req[q] /\ Fits(q) /\ req[q].at \in Stores
      BY <1>1, <1>10, AtWork DEF Alone, Exist, Active
  <2>2. req[q].pc = "save" => req[q].at # s
      BY <1>1, OneSaver DEF Active, s
  <2>3. req[q].pc = "save" => View(req[q].at)' = View(req[q].at)
      BY <1>11, <2>1, <2>2 DEF View
  <2> QED
      BY <1>12, <2>1, <2>3, OtherFits
<1>17. ASSUME NEW t \in Holders, NEW l \in View(t)', l \notin Known'
       PROVE  l \in View(t) /\ (Pending(p, t, l) => Pending(p, t, l)')
  <2>1. t \in Stores
      BY DEF Holders
  <2>2. kind = "assign" => Known = Known' /\ new \subseteq Known
      BY <1>1, <1>3, <1>6, <1>12 DEF Fits, kind, s
  <2>3. l \in View(t)
    <3>1. CASE t = s /\ s \in Eager
      <4>1. l \in new /\ kind # "assign" /\ kind # "create"
          BY <1>6, <1>11, <1>17, <2>1, <2>2, <3>1 DEF Holders
      <4> QED
          BY <1>5, <1>6, <3>1, <4>1
    <3>2. CASE ~(t = s /\ s \in Eager)
        BY <1>11, <1>17, <2>1, <3>2
    <3> QED
        BY <3>1, <3>2
  <2>4. Pending(p, t, l) => Pending(p, t, l)'
      BY <1>4, <1>6, <1>10 DEF Pending, Stages, kind, s
  <2> QED
      BY <2>3, <2>4
<1>18. Careful(p)
    BY <1>10, <1>12, <1>13, <1>14, <1>15, <1>16, <1>17 DEF Careful
<1> QED
    BY <1>18, CarefulExist

\* A save has taken effect: a label that is gone from the registry is one whose
\* deletion goes on to the items, and the items left behind do not carry it.
LEMMA SaveEndsExist ==
    ASSUME Kept, Exist, NEW p \in Requests, SaveEnds(p)
    PROVE  Exist'
<1>1. TypeOK /\ Structure /\ req[p].pc = "save" /\ req[p].pc \in Stages
    BY DEF Kept, Structure, SaveEnds, Stages
<1>2. /\ req[p] \in Handler /\ req[p].at \in Stores /\ req[p].data \in Data
      /\ Fits(p) /\ p \in Active /\ req[p].kind # "list"
    BY <1>1, AtWork DEF Exist, Active, Structure, Placed
<1>3. PICK s \in Stores : s = req[p].at
    BY <1>2
<1> DEFINE kind == req[p].kind
           data == req[p].data
           arg  == req[p].arg
<1>4. kind \in {"create", "delete_ws", "assign", "renew"}
    BY <1>2 DEF Handler, AllKinds, Fits
<1>5. /\ \A t \in Stores : file'[t] = IF t = s THEN data ELSE file[t]
      /\ \A t \in Stores : cache'[t] = IF t = s THEN data ELSE cache[t]
      /\ GoOn(p) /\ data # NotLoaded /\ UNCHANGED dangling
    BY <1>1, <1>2, <1>3, LabelConstants DEF SaveEnds, TypeOK
<1>6. /\ Alone(p)
      /\ \/ req'[p].pc \notin Stages
         \/ /\ After(kind, s) # "end" /\ req'[p].pc = "wait" /\ req'[p].kind = kind
            /\ req'[p].arg = arg /\ req'[p].at = After(kind, s)
    BY <1>1, <1>2, <1>3, <1>5, GoneOn
<1>7. \A t \in Stores : View(t)' = IF t = s THEN data ELSE View(t)
    BY <1>5 DEF View
<1>8. /\ kind = "create" => s = "labels" /\ View(s) \subseteq data
      /\ kind = "assign" => s \in Holders /\ data \subseteq Known
      /\ kind = "delete_ws" => data \cap arg = {} /\ data \subseteq View(s)
                               /\ View(s) \subseteq data \cup arg
      /\ kind = "renew" => data \subseteq View(s) /\ (s = "labels" => data = View(s))
    BY <1>1, <1>2, <1>3 DEF Fits
<1>9. "labels" \in Stores /\ "labels" \notin Holders /\ Holders \subseteq Stores
    BY DEF Stores, Holders
<1> HIDE DEF data, arg, kind
<1>10. /\ kind # "delete_ws" => Known \subseteq Known'
       /\ s \in Holders => Known' = Known
    BY <1>4, <1>5, <1>7, <1>8, <1>9 DEF Known, Holders
<1>11. \A t \in Stores : Synced(t)'
  <2> SUFFICES ASSUME NEW t \in Stores PROVE Synced(t)'
      OBVIOUS
  <2>1. CASE t = s
      BY <1>5, <2>1 DEF Synced
  <2>2. CASE t # s
    <3>1. CacheLocked(t) => CacheLocked(t)'
        BY <1>3, <1>6, <2>2 DEF CacheLocked, Alone
    <3> QED
        BY <1>5, <2>2, <3>1 DEF Exist, Synced, Loaded
  <2> QED
      BY <2>1, <2>2
<1>12. Apart'
    BY <1>1, <1>6, ApartStays DEF Exist, kind
<1>13. req'[p].pc \in Stages => kind = "delete_ws" /\ Fits(p)'
  <2> SUFFICES ASSUME req'[p].pc \in Stages PROVE kind = "delete_ws" /\ Fits(p)'
      OBVIOUS
  <2>1. kind = "delete_ws"
      BY <1>4, <1>6, <1>8, OnlyThisBehind DEF Holders, Stores
  <2> QED
      BY <1>6, <2>1 DEF Fits
<1>14. \A q \in Active : q # p => Fits(q)'
  <2> SUFFICES ASSUME NEW q \in Active, q # p PROVE Fits(q)'
      OBVIOUS
  <2>1. req'[q] = req[q] /\ Fits(q) /\ req[q].at \in Stores
      BY <1>1, <1>6, AtWork DEF Alone, Exist, Active
  <2>2. req[q].pc = "save" => req[q].at # s
      BY <1>1, <1>3, OneSaver DEF Active
  <2>3. req[q].pc = "save" => View(req[q].at)' = View(req[q].at)
      BY <1>7, <2>1, <2>2 DEF View
  <2>4. req[q].kind = "assign" => kind # "delete_ws"
      BY <1>2 DEF Exist, Apart, kind
  <2> QED
      BY <1>10, <2>1, <2>3, <2>4, OtherFits
<1>15. ASSUME NEW t \in Holders, NEW l \in View(t)', l \notin Known'
       PROVE  \/ Pending(p, t, l)'
              \/ /\ l \in View(t) /\ l \notin Known
                 /\ Pending(p, t, l) => Pending(p, t, l)'
  <2>1. CASE kind = "create"
    <3>1. l \in View(t)
        BY <1>7, <1>8, <1>9, <1>15, <2>1
    <3>2. l \notin Known
        BY <1>10, <1>15, <2>1
    <3>3. ~Pending(p, t, l)
        BY <2>1 DEF Pending, kind
    <3> QED
        BY <3>1, <3>2, <3>3
  <2>2. CASE kind = "assign"
    <3>1. t # s
        BY <1>8, <1>10, <1>7, <1>15, <2>2
    <3>2. l \in View(t) /\ l \notin Known /\ ~Pending(p, t, l)
        BY <1>7, <1>8, <1>9, <1>10, <1>15, <2>2, <3>1 DEF Pending, kind
    <3> QED
        BY <3>2
  <2>5. CASE kind = "renew"
    <3>1. l \in View(t) /\ l \notin Known /\ ~Pending(p, t, l)
        BY <1>7, <1>8, <1>9, <1>10, <1>15, <2>5 DEF Pending, kind
    <3> QED
        BY <3>1
  <2>3. CASE kind = "delete_ws" /\ s = "labels"
    <3>1. req'[p].at = "entities" /\ req'[p].pc = "wait" /\ req'[p].kind = "delete_ws"
          /\ req'[p].arg = arg
      <4>1. After("delete_ws", "labels") = "entities"
          BY <1>15, OnlyThisBehind
      <4> DEFINE h == [req[p] EXCEPT !.at = "entities", !.pc = "wait", !.data = {}]
      <4>2. req' = [req EXCEPT ![p] = h]
          BY <1>3, <1>5, <2>3, <4>1, ZenonT(30) DEF GoOn, kind
      <4>3. h.at = "entities" /\ h.pc = "wait" /\ h.kind = req[p].kind /\ h.arg = req[p].arg
          BY <1>2 DEF Handler
      <4> HIDE DEF h
      <4> QED
          BY <1>1, <2>3, <4>2, <4>3 DEF TypeOK, kind, arg
    <3>2. \A m : m \in arg => Pending(p, t, m)'
        BY <3>1, OnlyThisBehind DEF Pending, Stages
    <3>3. l \in View(t)
        BY <1>7, <1>9, <1>15, <2>3
    <3>4. l \in Known => l \in arg
        BY <1>5, <1>7, <1>8, <1>9, <1>15, <2>3 DEF Known
    <3>5. ~Pending(p, t, l)
        BY <1>3, <2>3, OnlyThisBehind DEF Pending
    <3> QED
        BY <3>2, <3>3, <3>4, <3>5
  <2>4. CASE kind = "delete_ws" /\ s # "labels"
    <3>1. s \in Holders
        BY <2>4 DEF Holders
    <3>2. l \in View(t) /\ l \notin Known
        BY <1>7, <1>8, <1>9, <1>10, <1>15, <2>4, <3>1
    <3>3. ASSUME Pending(p, t, l) PROVE Pending(p, t, l)'
      <4>1. l \in arg
          BY <3>3 DEF Pending, arg
      <4>2. t # s
          BY <1>7, <1>8, <1>15, <2>4, <4>1
      <4>3. Answer(p) => After(req[p].kind, req[p].at) = "end"
        <5> SUFFICES ASSUME Answer(p), After(req[p].kind, req[p].at) # "end" PROVE FALSE
            OBVIOUS
        <5>1. req'[p] = Ended
            BY <1>1 DEF Answer, TypeOK
        <5>2. req'[p] = [req[p] EXCEPT !.at = After(req[p].kind, req[p].at),
                                       !.pc = "wait", !.data = {}]
            BY <1>1, <1>2, <1>5 DEF GoOn, TypeOK, Handler
        <5> QED
            BY <1>2, <5>1, <5>2 DEF Ended, Handler
      <4> QED
          BY <1>1, <1>3, <1>5, <2>4, <3>3, <4>2, <4>3, LeftBehind DEF kind
    <3> QED
        BY <3>2, <3>3
  <2> QED
      BY <1>4, <2>1, <2>2, <2>3, <2>4, <2>5
<1>16. Careful(p)
    BY <1>6, <1>11, <1>12, <1>13, <1>14, <1>15 DEF Careful
<1> QED
    BY <1>16, CarefulExist

LEMMA ExistInit == Init => ExistInv
<1> SUFFICES ASSUME Init PROVE ExistInv
    OBVIOUS
<1>1. Kept
    BY KeptInit
<1>2. \A q \in Requests : req[q].pc = "idle"
    BY DEF Init, Idle
<1>3. Active = {}
    BY <1>2 DEF Active, Stages
<1>4. \A s \in Stores : cache[s] = NotLoaded /\ View(s) = file[s]
    BY DEF Init, View
<1>5. Explained
  <2> SUFFICES ASSUME NEW s \in Holders, NEW l \in View(s) PROVE l \in Known
      BY DEF Explained
  <2>1. s \in Stores /\ "labels" \in Stores /\ s # "labels"
      BY DEF Holders, Stores
  <2> QED
      BY <1>4, <2>1 DEF Init, Known
<1>6. Exist
    BY <1>3, <1>4, <1>5 DEF Exist, Synced, Loaded, Apart
<1> QED
    BY <1>1, <1>6 DEF ExistInv

LEMMA ExistStep == ExistInv /\ [Next]_vars => ExistInv'
<1> SUFFICES ASSUME ExistInv, [Next]_vars PROVE ExistInv'
    OBVIOUS
<1>1. Kept /\ Kept'
    BY KeptStep DEF ExistInv
<1> SUFFICES ASSUME Calm' PROVE Exist'
    BY <1>1 DEF ExistInv
<1>2. CASE UNCHANGED vars
  <2>1. Calm
      BY <1>2 DEF Calm, vars, history
  <2>2. Exist
      BY <2>1 DEF ExistInv
  <2> QED
      BY <1>2, <2>2 DEF vars, history, Exist, Synced, Loaded, CacheLocked, Apart, Active,
                        Fits, View, Known, Explained, Pending
<1>3. CASE Restart
  <2>1. Calm /\ ~failed'
      BY <1>3 DEF Calm, Restart
  <2> QED
      BY <1>1, <1>3, <2>1, RestartExist DEF ExistInv
<1>4. ASSUME NEW p \in Requests, NEW kind \in Kinds, NEW s \in Stores, NEW arg \in Data,
             Arrive(p, kind, s, arg)
      PROVE  Exist'
  <2>1. Calm
      BY <1>4 DEF Calm, Arrive
  <2> QED
      BY <1>1, <1>4, <2>1, ArriveExist DEF ExistInv
<1>5. ASSUME NEW p \in Requests, Step(p)
      PROVE  Exist'
  <2>1. (raced => raced') /\ UNCHANGED <<mixed, paged, failed>>
    <3>1. CASE Install(p)
        BY <3>1 DEF Install
    <3>2. CASE StartSave(p) \/ SaveEnds(p)
      <4>1. UNCHANGED <<dangling, raced, mixed, paged, failed>>
        <5>1. CASE StartSave(p)
            BY <5>1 DEF StartSave
        <5>2. CASE SaveEnds(p)
            BY <5>2 DEF SaveEnds
        <5> QED
            BY <3>2, <5>1, <5>2
      <4> QED
          BY <4>1
    <3>3. CASE Enter(p) \/ Acquire(p) \/ Load(p) \/ LoadEager(p) \/ List(p) \/ ChangeNothing(p)
        BY <3>3 DEF Enter, Acquire, Load, LoadEager, List, ChangeNothing, history
    <3> QED
        BY <1>5, <3>1, <3>2, <3>3 DEF Step
  <2>2. Calm /\ ~raced'
      BY <2>1 DEF Calm
  <2>3. Exist
      BY <2>2 DEF ExistInv
  <2> QED
      BY <1>1, <1>5, <2>2, <2>3, LookExist, FillExist, ChangeNothingExist, StartSaveExist,
         SaveEndsExist DEF Step
<1>6. ASSUME NEW p \in Requests, LoadFails(p) \/ SaveFails(p)
      PROVE  FALSE
    BY <1>6 DEF Calm, LoadFails, SaveFails
<1> QED
    BY <1>2, <1>3, <1>4, <1>5, <1>6 DEF Next

\* Between requests every label on an item of any store exists, or was put there by a
\* client when it did not, if labels are deleted by the WebSocket command only
\* ("config/label_registry/delete", ha_ws.rs), no assignment met a deletion and
\* nothing failed: the command takes the label off the items store by store, and
\* nobody puts it back.
THEOREM LabelsOnItemsExist == Spec => []LabelsExist
<1>1. ExistInv => LabelsExist
  <2> SUFFICES ASSUME ExistInv, Active = {}, ~(mixed \/ paged \/ failed \/ raced),
                      NEW s \in Holders, NEW l \in View(s)
               PROVE  l \in Known
      BY DEF LabelsExist, Known
  <2>1. Exist
      BY DEF ExistInv, Calm
  <2>2. \A q \in Requests : ~Pending(q, s, l)
      BY DEF Pending, Active
  <2> QED
      BY <2>1, <2>2 DEF Exist, Explained
<1> QED
    BY <1>1, ExistInit, ExistStep, PTL DEF Spec
=============================================================================
