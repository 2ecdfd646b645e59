---------------------------- MODULE LabelStores ----------------------------
(***************************************************************************)
(* The label registry and the three stores whose items carry labels:       *)
(* mobile entities, mobile devices and Zigbee entities.  Deleting a label  *)
(* visits them one after the other, each with a mutex, a file and a cache  *)
(* of its own.                                                             *)
(*                                                                         *)
(* Three of the stores load under the mutex and change the file before the *)
(* cache.  The Zigbee store (Eager) loads without the mutex and changes    *)
(* the cache before the file, holding the cache's write lock.              *)
(*                                                                         *)
(* What a store holds is abstracted to a set of labels: those that exist,  *)
(* for the registry, those on one item, for the others.  A save is the     *)
(* atomic replacement AtomicSave provides when its caller is not dropped.  *)
(***************************************************************************)
EXTENDS Naturals, FiniteSets

CONSTANTS
    Requests,   \* bound: the requests that are ever made
    MaxActive,  \* bound: how many of them are handled at the same time
    Kinds,      \* the kinds of request made
    Subjects,   \* bound: the stores that assignments, lists and renewals are about
    Names,      \* label ids that are the slug of a name
    Suffixed,   \* label ids made of a slug and eight digits of a UUID
    NotLoaded,  \* a cache that is empty
    Nobody      \* a mutex that is free

Stores  == {"labels", "entities", "devices", "zigbee"}
Holders == Stores \ {"labels"}
Eager   == {"zigbee"}
Labels  == Names \cup Suffixed
Data    == SUBSET Labels

\* A "renew" is every other writer of a store: registering an item, or a device's
\* items, anew; removing items; changing anything but the labels.
AllKinds == {"create", "delete_ws", "delete_page", "assign", "list", "renew"}
Deletes  == {"delete_ws", "delete_page"}

ASSUME LabelConstants ==
    /\ MaxActive \in Nat \ {0}
    /\ Kinds \subseteq AllKinds
    /\ Subjects \subseteq Stores
    /\ Names \cap Suffixed = {}
    /\ \A d \in Data : NotLoaded # d
    /\ Nobody \notin Requests

VARIABLES
    file,    \* store -> what its file holds
    cache,   \* store -> what its cache holds, or NotLoaded
    holder,  \* store -> the request that holds its mutex, or Nobody
    req      \* request -> state of its handler

\* History, read by the properties only (minted also keeps UUIDs from repeating).
VARIABLES
    minted,     \* the suffixed ids given out
    promised,   \* store -> label -> the answers to "is it there?" that the requests
                \* answered so far, and those not answered with success, allow
    dangling,   \* labels a client assigned while they did not exist
    raced,      \* a late reader of an Eager store replaced a newer cache
    mixed,      \* an assignment and a deletion were handled at the same time
    paged,      \* a label was deleted by the page
    failed      \* a file access failed, or a request was cut off by a restart

history == <<minted, promised, dangling, raced, mixed, paged, failed>>
vars    == <<file, cache, holder, req, history>>

Stages  == {"enter", "wait", "load", "install", "apply", "save"}
Handler == [kind : AllKinds, pc : Stages, at : Stores, arg : Data, data : Data]
Idle    == [pc |-> "idle"]
Ended   == [pc |-> "ended"]   \* answered, or lost in a restart
Active  == {p \in Requests : req[p].pc \in Stages}

TypeOK ==
    /\ file \in [Stores -> Data]
    /\ cache \in [Stores -> {NotLoaded} \cup Data]
    /\ holder \in [Stores -> Requests \cup {Nobody}]
    /\ req \in [Requests -> {Idle, Ended} \cup Handler]
    /\ minted \in SUBSET Suffixed
    /\ promised \in [Stores -> [Labels -> SUBSET BOOLEAN]]
    /\ dangling \in SUBSET Labels
    /\ raced \in BOOLEAN /\ mixed \in BOOLEAN /\ paged \in BOOLEAN /\ failed \in BOOLEAN

\* The directory found at start: labels on items are labels that exist.
Init ==
    /\ \E known \in SUBSET Names : \E used \in SUBSET known :
          file = [s \in Stores |-> IF s = "labels" THEN known ELSE used]
    /\ cache = [s \in Stores |-> NotLoaded]
    /\ holder = [s \in Stores |-> Nobody]
    /\ req = [p \in Requests |-> Idle]
    /\ minted = {} /\ dangling = {}
    /\ promised = [s \in Stores |-> [l \in Labels |-> {(l \in file[s])}]]
    /\ raced = FALSE /\ mixed = FALSE /\ paged = FALSE /\ failed = FALSE
-----------------------------------------------------------------------------
(* The order in which a request visits the stores. *)

First(kind, s) ==
    CASE kind \in {"create", "delete_ws"} -> "labels"
      [] kind = "delete_page" -> "entities"
      [] OTHER -> s

\* Mutant: the WebSocket command forgets the Zigbee entities, as the page does.
AfterNoZigbee(kind, s) ==
    CASE kind = "delete_ws" /\ s = "labels" -> "entities"
      [] kind \in Deletes /\ s = "entities" -> "devices"
      [] kind = "delete_page" /\ s = "devices" -> "labels"
      [] OTHER -> "end"

\* The WebSocket command deletes the label first and then visits every item; the
\* page visits the items first, and not the Zigbee entities.
After(kind, s) ==
    CASE kind = "delete_ws" /\ s = "labels" -> "entities"
      [] kind \in Deletes /\ s = "entities" -> "devices"
      [] kind = "delete_ws" /\ s = "devices" -> "zigbee"
      [] kind = "delete_page" /\ s = "devices" -> "labels"
      [] OTHER -> "end"

View(s) == IF cache[s] = NotLoaded THEN file[s] ELSE cache[s]

\* `s` is the store that a request of another kind is about; `arg` the name of a new
\* label, the label to delete, or all the labels the item is to carry.  Nothing
\* checks that these exist: a client may have read the list before a deletion.
\* (Bound: nobody guesses the digits of a UUID before they are given out.)
Arrive(p, kind, s, arg) ==
    /\ req[p].pc = "idle"
    /\ Cardinality(Active) < MaxActive
    /\ IF kind \in {"assign", "list", "renew"} THEN s \in Subjects ELSE s = "labels"
    /\ CASE kind = "create" -> \E n \in Names : arg = {n}
         [] kind \in Deletes -> \E l \in Labels : arg = {l}
         [] kind = "assign" -> s \in Holders /\ arg \subseteq Names \cup minted
         [] OTHER -> arg = {}
    /\ req' = [req EXCEPT ![p] =
          [kind |-> kind,
           pc   |-> IF kind = "list" THEN "enter" ELSE "wait",
           at   |-> First(kind, s),
           arg  |-> arg,
           data |-> {}]]
    /\ dangling' = IF kind = "assign" THEN dangling \cup (arg \ View("labels"))
                   ELSE dangling
    /\ mixed' = (mixed \/ \E q \in Active :
                    \/ kind = "assign" /\ req[q].kind \in Deletes
                    \/ kind \in Deletes /\ req[q].kind = "assign")
    /\ paged' = (paged \/ kind = "delete_page")
    /\ UNCHANGED <<file, cache, holder, minted, promised, raced, failed>>
-----------------------------------------------------------------------------
(* Inside a store. *)

Loaded(s) == cache[s] # NotLoaded

\* The request goes on at stage pc of the store it is at.
Goto(p, pc) == req' = [req EXCEPT ![p].pc = pc]

Answer(p) == req' = [req EXCEPT ![p] = Ended]

\* Mutant: the guard lives as long as the handler, not as long as the operation.
ReleaseAtEnd(p) ==
    holder' = [s \in Stores |->
        IF holder[s] = p /\ After(req[p].kind, req[p].at) = "end" THEN Nobody ELSE holder[s]]

\* Whatever guard the request holds is dropped when the operation returns.
Release(p) == holder' = [s \in Stores |-> IF holder[s] = p THEN Nobody ELSE holder[s]]

\* The request turns to the next store, or is answered.
GoOn(p) ==
    LET next == After(req[p].kind, req[p].at) IN
    IF next = "end" THEN Answer(p)
    ELSE req' = [req EXCEPT ![p].at = next, ![p].pc = "wait", ![p].data = {}]

\* load_data, and the readers of the Zigbee store: a loaded cache answers at once.
Enter(p) ==
    LET s == req[p].at IN
    /\ req[p].pc = "enter"
    /\ IF Loaded(s) THEN Answer(p) ELSE Goto(p, IF s \in Eager THEN "load" ELSE "wait")
    /\ UNCHANGED <<file, cache, holder, history>>

Acquire(p) ==
    LET s == req[p].at IN
    /\ req[p].pc = "wait"
    /\ holder[s] = Nobody
    /\ holder' = [holder EXCEPT ![s] = p]
    /\ Goto(p, IF Loaded(s) THEN "apply" ELSE "load")
    /\ UNCHANGED <<file, cache, history>>

\* load_locked: the file is read and cached before anyone else gets the mutex.
Load(p) ==
    LET s == req[p].at IN
    /\ req[p].pc = "load"
    /\ s \notin Eager
    /\ cache' = [cache EXCEPT ![s] = file[s]]
    /\ Goto(p, "apply")
    /\ UNCHANGED <<file, holder, history>>

\* ensure_loaded of the Zigbee store: the file is read ...
LoadEager(p) ==
    LET s == req[p].at IN
    /\ req[p].pc = "load"
    /\ s \in Eager
    /\ req' = [req EXCEPT ![p].data = file[s], ![p].pc = "install"]
    /\ UNCHANGED <<file, cache, holder, history>>

CacheLocked(s) == \E q \in Requests : req[q].pc = "save" /\ req[q].at = s

\* ... and put into the cache, whatever is there by now, when nobody holds the
\* cache's write lock.
Install(p) ==
    LET s == req[p].at IN
    /\ req[p].pc = "install"
    /\ ~CacheLocked(s)
    /\ cache' = [cache EXCEPT ![s] = req[p].data]
    /\ raced' = (raced \/ (Loaded(s) /\ cache[s] # req[p].data))
    /\ IF req[p].kind = "list" THEN Answer(p) ELSE Goto(p, "apply")
    /\ UNCHANGED <<file, holder, minted, promised, dangling, mixed, paged, failed>>

\* Registering an item anew leaves it without labels, and so does removing it; the
\* records of devices and labels keep what they have.
Renewed(s, data) == IF s \in {"entities", "zigbee"} THEN {data, {}} ELSE {data}

\* What the operation may make of the data of its store.  A name that is taken
\* gets a suffix no label ever had (bound: as many as there are).
Edits(kind, s, arg, data) ==
    CASE kind = "create" -> IF arg \cap data = {} THEN {data \cup arg}
                            ELSE {data \cup {l} : l \in Suffixed \ minted}
      [] kind \in Deletes -> {data \ arg}
      [] kind = "renew" -> Renewed(s, data)
      [] OTHER -> {arg}

\* An assignment says of every label whether it is on the item, a renewal takes off
\* what it drops; the others speak of one label.
Touched(kind, arg, data, new) ==
    CASE kind = "create" -> new \ data
      [] kind \in Deletes -> arg
      [] kind = "renew" -> data \ new
      [] OTHER -> Labels

List(p) ==
    /\ req[p].pc = "apply"
    /\ req[p].kind = "list"
    /\ Release(p)
    /\ Answer(p)
    /\ UNCHANGED <<file, cache, history>>

\* Nothing is saved when the label to delete is not there, the item to change is not
\* there (or carries no label, to which this comes down here), or nothing is new.
\* Without a label in the registry the WebSocket command visits no item.
ChangeNothing(p) ==
    LET kind == req[p].kind
        s    == req[p].at
    IN
    /\ req[p].pc = "apply"
    /\ \/ kind \in Deletes /\ req[p].arg \cap cache[s] = {}
       \/ kind = "assign" /\ cache[s] = {}
       \/ kind = "renew"
    /\ Release(p)
    /\ IF kind = "delete_ws" /\ s = "labels" THEN Answer(p) ELSE GoOn(p)
    /\ UNCHANGED <<file, cache, history>>

\* The data is changed and its save begins.
StartSave(p) ==
    LET kind == req[p].kind
        s    == req[p].at
        arg  == req[p].arg
    IN
    /\ req[p].pc = "apply"
    /\ kind # "list"
    /\ kind \in Deletes => arg \cap cache[s] # {}
    /\ \E new \in Edits(kind, s, arg, cache[s]) :
          LET touched == Touched(kind, arg, cache[s], new) IN
          /\ req' = [req EXCEPT ![p].pc = "save", ![p].data = new, ![p].arg = touched]
          /\ cache' = IF s \in Eager THEN [cache EXCEPT ![s] = new] ELSE cache
          /\ minted' = minted \cup (new \cap Suffixed)
          /\ promised' = [promised EXCEPT ![s] = [l \in Labels |->
                IF l \in touched THEN @[l] \cup {(l \in new)} ELSE @[l]]]
    /\ UNCHANGED <<file, holder, dangling, raced, mixed, paged, failed>>

\* Mutant: the cache is not updated.
SaveEndsUncached(p) ==
    LET s == req[p].at IN
    /\ req[p].pc = "save"
    /\ file' = [file EXCEPT ![s] = req[p].data]
    /\ promised' = [promised EXCEPT ![s] = [l \in Labels |->
          IF l \in req[p].arg THEN {(l \in req[p].data)} ELSE @[l]]]
    /\ Release(p)
    /\ GoOn(p)
    /\ UNCHANGED <<cache, minted, dangling, raced, mixed, paged, failed>>

\* The save succeeds, the cache follows, the operation returns.
SaveEnds(p) ==
    LET s == req[p].at IN
    /\ req[p].pc = "save"
    /\ file' = [file EXCEPT ![s] = req[p].data]
    /\ cache' = [cache EXCEPT ![s] = req[p].data]
    /\ promised' = [promised EXCEPT ![s] = [l \in Labels |->
          IF l \in req[p].arg THEN {(l \in req[p].data)} ELSE @[l]]]
    /\ Release(p)
    /\ GoOn(p)
    /\ UNCHANGED <<minted, dangling, raced, mixed, paged, failed>>

\* An error in the registry or in an assignment is answered; one met while visiting
\* items is ignored.
AfterError(p) ==
    /\ Release(p)
    /\ IF req[p].kind \in Deletes /\ req[p].at \in Holders THEN GoOn(p) ELSE Answer(p)

LoadFails(p) ==
    /\ req[p].pc = "load"
    /\ AfterError(p)
    /\ failed' = TRUE
    /\ UNCHANGED <<file, cache, minted, promised, dangling, raced, mixed, paged>>

\* A save may fail after the rename: then the file has changed all the same.
SaveFails(p) ==
    /\ req[p].pc = "save"
    /\ file' \in {file, [file EXCEPT ![req[p].at] = req[p].data]}
    /\ AfterError(p)
    /\ failed' = TRUE
    /\ UNCHANGED <<cache, minted, promised, dangling, raced, mixed, paged>>

\* The process stops, saves under way having taken effect or not, and starts.
Restart ==
    /\ \E done \in SUBSET {p \in Requests : req[p].pc = "save"} :
          file' = [s \in Stores |->
             IF \E p \in done : req[p].at = s
             THEN req[CHOOSE p \in done : req[p].at = s].data
             ELSE file[s]]
    /\ cache' = [s \in Stores |-> NotLoaded]
    /\ holder' = [s \in Stores |-> Nobody]
    /\ req' = [p \in Requests |-> IF p \in Active THEN Ended ELSE req[p]]
    /\ failed' = (failed \/ Active # {})
    /\ UNCHANGED <<minted, promised, dangling, raced, mixed, paged>>

Step(p) ==
    \/ Enter(p) \/ Acquire(p) \/ Load(p) \/ LoadEager(p) \/ Install(p)
    \/ List(p) \/ ChangeNothing(p) \/ StartSave(p) \/ SaveEnds(p)

Next ==
    \/ \E p \in Requests :
          \/ \E kind \in Kinds, s \in Stores, arg \in Data : Arrive(p, kind, s, arg)
          \/ Step(p) \/ LoadFails(p) \/ SaveFails(p)
    \/ Restart

Spec == Init /\ [][Next]_vars
-----------------------------------------------------------------------------
(* Properties. *)

\* What a store's file and its cache say of a label is always what the answers
\* allow, also when a save fails, or fails after the rename, and across restarts:
\* what one request was answered with success no other undoes, except one that
\* speaks of the same label, or registers the item anew or removes it, which takes
\* its labels off.  The Zigbee store is only as good while no late reader has
\* replaced its cache.
AnswersHold ==
    \A s \in Stores, l \in Labels :
        ~(s \in Eager /\ raced) =>
            /\ (l \in file[s]) \in promised[s][l]
            /\ Loaded(s) => (l \in cache[s]) \in promised[s][l]

\* A held mutex is held by a request that is past waiting, so that it will be
\* released: no two requests ever wait for each other.
LocksAreInUse ==
    \A s \in Stores : holder[s] # Nobody =>
        /\ req[holder[s]].pc \in {"load", "install", "apply", "save"}
        /\ req[holder[s]].at = s

\* Between requests no item carries a label that does not exist, unless a client
\* put it there without its existing, if labels were deleted by the WebSocket
\* command only, no assignment ran into a deletion and nothing failed ("removes
\* the label from all entities/devices").
LabelsExist ==
    Active = {} /\ ~(mixed \/ paged \/ failed \/ raced) =>
        \A s \in Holders : View(s) \ dangling \subseteq View("labels")
=============================================================================
