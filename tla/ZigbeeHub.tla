------------------------------- MODULE ZigbeeHub -------------------------------
(***************************************************************************)
(* The Zigbee side of the hub: the event loop of zigbee_integration.rs, the *)
(* device and entity stores it fills, the states and readings it writes,   *)
(* the restoration of states at startup and the pages and requests that    *)
(* edit and delete devices (http.rs).                                      *)
(*                                                                         *)
(* The bridge is outside: its events arrive in any order.  An operation of *)
(* a store holds the store's mutex and its cache until the file is written *)
(* and is one step; a handler is a step per operation, with what it does   *)
(* up to its next await.  A step changes the cache first and may then fail *)
(* to save.  A device is named by its address, as the bridge names it.     *)
(***************************************************************************)
EXTENDS HistoryStore

CONSTANTS
    DEVICE,        \* ieee addresses
    CLUSTERS,      \* what an interview may find: sets of clusters
    REPORT,        \* raw states that devices report: attribute |-> reading
    CACHED,        \* raw states the bridge may hold of a device it interviewed
    EDIT,          \* user's name, area and disabled flag: one value
    Disabled,      \* the member of EDIT that disables
    Fresh,         \* the member of EDIT a new record has
    LOOK,          \* unit, icon, hidden_by and labels: one value
    Plain,         \* the member of LOOK a new record has
    On, Off, Yes, No, Text,   \* readings that are not numbers: strings, booleans
    Unavailable,
    MaxEvents,     \* bound: events of the bridge
    MaxEdits,      \* bound: edits and deletions
    MaxTime,       \* bound: seconds
    MaxFaults      \* bound: failed saves, failed jobs and restarts

ASSUME ZigbeeHubAssumption ==
    /\ {Disabled, Fresh} \subseteq EDIT /\ Plain \in LOOK
    /\ {MaxEvents, MaxEdits, MaxTime, MaxFaults} \subseteq Nat

VARIABLES
    devs,          \* ZigbeeDeviceStore: [cache, file, loading]
    ents,          \* ZigbeeEntityStore: [cache, file, loading]
    shown,         \* StateStore: entity |-> [value, from], or None
    loop,          \* run_event_loop: what it does, for which device
    restoring,     \* restore_states_from_history
    deleting,      \* one api_zigbee_device_delete at a time
    past,          \* what happened, for the properties: history
    spent          \* what the bounds count

stores == <<devs, ents>>
tasks == <<loop, restoring, deleting>>
vars == <<stores, shown, tasks, past, spent, historyVars>>

(***************************************************************************)
(* Entities of a device: entities_for_device.                              *)
(***************************************************************************)
\* cluster, domain and attribute of each sensor and binary sensor.
ClusterSensors == {
    <<"temperature", "sensor", "temperature">>, <<"humidity", "sensor", "humidity">>,
    <<"pressure", "sensor", "pressure">>, <<"illuminance", "sensor", "illuminance_lux">>,
    <<"power", "sensor", "battery">>, <<"power", "sensor", "battery_voltage">>,
    <<"power", "binary_sensor", "battery_low">>,
    <<"occupancy", "binary_sensor", "occupancy">>,
    <<"ias", "binary_sensor", "contact">>, <<"ias", "binary_sensor", "tamper">>,
    <<"metering", "sensor", "energy">>, <<"electrical", "sensor", "power">>,
    <<"electrical", "sensor", "voltage">>, <<"electrical", "sensor", "current">> }

EntitiesFor(d, clusters) ==
    {<<s[2], d, s[3]>> : s \in {t \in ClusterSensors : (t[1] \in clusters)}}
    \cup (IF "on_off" \notin clusters THEN {}
          ELSE {<<IF clusters \cap {"level", "color"} # {} THEN "light" ELSE "switch",
                  d, "state">>})

ENTITY == UNION {EntitiesFor(d, c) : d \in DEVICE, c \in CLUSTERS}
ASSUME EntitiesAssumption == ENTITY = SENSOR /\ ENTITY \cap DEVICE = {}

Domain(e) == e[1]
DeviceOf(e) == e[2]
IsSwitched(e) == Domain(e) \in {"light", "switch"}

\* push_state: the value an entity shows for a reading, None for none.
Value(e, raw) ==
    IF e[3] \notin DOMAIN raw THEN None
    ELSE LET r == raw[e[3]]
         IN  IF IsSwitched(e) THEN (IF r \in {On, Off, Text} THEN r ELSE None)
             ELSE CASE r = Yes -> On [] r = No -> Off [] OTHER -> r

\* record_sensor_history: the number kept for a reading, None for none.
Sample(e, raw) ==
    IF e[3] \notin DOMAIN raw THEN None
    ELSE LET r == raw[e[3]]
         IN  IF Domain(e) = "sensor" THEN (IF r \in Nat THEN r ELSE None)
             ELSE IF r = On \/ (r = Yes /\ ~IsSwitched(e)) THEN 1000
             ELSE IF r = Off \/ (r = No /\ ~IsSwitched(e)) THEN 0
             ELSE None

\* restore_states_from_history: two decimals of a sensor's reading.
Restored(e, v) ==
    IF IsSwitched(e) THEN (IF v >= 500 THEN On ELSE Off)
    ELSE IF v % 1000 = 0 THEN v ELSE ((v + 5) \div 10) * 10

Restorable(e) == Domain(e) # "binary_sensor"

(***************************************************************************)
(* The two stores.                                                         *)
(***************************************************************************)
Empty(K) == [k \in K |-> None]
Data(store) == IF store.cache = None THEN store.file ELSE store.cache
Known(store) == {k \in DOMAIN Data(store) : Data(store)[k] # None}

\* The cache has the change whether or not the file could be written.
Saved(store, data, ok) ==
    [store EXCEPT !.cache = data, !.file = IF ok THEN data ELSE @]

DeviceRecord == [interviewed : BOOLEAN, seen : BOOLEAN, edit : EDIT]
EntityRecord == [edit : EDIT, look : LOOK]
Devices == [DEVICE -> DeviceRecord \cup {None}]
Entities == [ENTITY -> EntityRecord \cup {None}]
ASSUME NoneAssumption == None \notin DeviceRecord \cup EntityRecord \cup Devices \cup Entities

NewDevice == [interviewed |-> FALSE, seen |-> FALSE, edit |-> Fresh]
NewEntity == [edit |-> Fresh, look |-> Plain]

\* Mutant: only a record that exists is replaced.
UpsertReplaces(d, rec, ok) ==
    devs' = Saved(devs,
        [Data(devs) EXCEPT ![d] =
            IF @ = None THEN None ELSE [rec EXCEPT !.edit = Data(devs)[d].edit]], ok)

\* ZigbeeDeviceStore.upsert keeps the user's fields only.
Upsert(d, rec, ok) ==
    devs' = Saved(devs,
        [Data(devs) EXCEPT ![d] =
            IF @ = None THEN rec ELSE [rec EXCEPT !.edit = Data(devs)[d].edit]], ok)

\* Mutant: an entity's record is made anew.
RegisterBulkAnew(es, ok) ==
    ents' = Saved(ents, [e \in ENTITY |-> IF e \in es THEN NewEntity ELSE Data(ents)[e]], ok)

\* register_bulk keeps name, area and disabled, nothing else.  An entity that
\* is not among the records stays.
RegisterBulk(es, ok) ==
    ents' = Saved(ents,
        [e \in ENTITY |->
            IF e \notin es THEN Data(ents)[e]
            ELSE IF Data(ents)[e] = None THEN NewEntity
            ELSE [NewEntity EXCEPT !.edit = Data(ents)[e].edit]], ok)

OfDevice(d) == {e \in Known(ents) : DeviceOf(e) = d}

Init ==
    /\ HistoryInit
    /\ devs = [cache |-> None, file |-> Empty(DEVICE), loading |-> None]
    /\ ents = [cache |-> None, file |-> Empty(ENTITY), loading |-> None]
    /\ shown = Empty(ENTITY)
    /\ loop = [at |-> "idle"]
    /\ restoring = [at |-> "start"]
    /\ deleting = [at |-> "idle"]
    /\ past = [pushed |-> {}, sampled |-> {}, raced |-> {}, torn |-> {},
               edits |-> Empty(ENTITY \cup DEVICE)]
    /\ spent = [events |-> 0, edits |-> 0, faults |-> 0]

\* The bounds' bookkeeping, for a step that is an event or an edit or neither.
Spend(what, ok) ==
    /\ what = "events" => spent.events < MaxEvents
    /\ what = "edits" => spent.edits < MaxEdits
    /\ ~ok => spent.faults < MaxFaults
    /\ spent' = [spent EXCEPT !.events = IF what = "events" THEN @ + 1 ELSE @,
                              !.edits = IF what = "edits" THEN @ + 1 ELSE @,
                              !.faults = IF ok THEN @ ELSE @ + 1]

(***************************************************************************)
(* ensure_loaded of a reader: outside the mutex, the read and the fill of   *)
(* the cache are two steps, and the fill does not look again.              *)
(***************************************************************************)
BeginLoad(store) == store.cache = None /\ store.loading = None
Loading(store) == [store EXCEPT !.loading = store.file]
Filled(store) == [store EXCEPT !.cache = store.loading, !.loading = None]

\* Requests are served when the restoration is done.
Serving == restoring.at = "done"

\* Devices are listed by pages, entities by the loop and the restoration too.
LoadDevices ==
    /\ \/ Serving /\ BeginLoad(devs) /\ devs' = Loading(devs) /\ past' = past
       \/ /\ devs.loading # None /\ devs' = Filled(devs)
          /\ past' = IF devs.cache \in {None, devs.loading} THEN past
                     ELSE [past EXCEPT !.torn = DEVICE]
    /\ UNCHANGED <<ents, shown, tasks, spent, historyVars>>

LoadEntities ==
    /\ \/ BeginLoad(ents) /\ ents' = Loading(ents) /\ past' = past
       \/ /\ ents.loading # None /\ ents' = Filled(ents)
          /\ past' = IF ents.cache \in {None, ents.loading} THEN past
                     ELSE [past EXCEPT !.torn = DEVICE]
    /\ UNCHANGED <<devs, shown, tasks, spent, historyVars>>

(***************************************************************************)
(* run_event_loop.                                                         *)
(***************************************************************************)
Torn(d, ok) == IF ok THEN past.torn ELSE past.torn \cup {d}

DeviceJoined(d, ok) ==
    /\ loop.at = "idle" /\ Spend("events", ok)
    /\ Upsert(d, NewDevice, ok)
    /\ past' = [past EXCEPT !.torn = Torn(d, ok)]
    /\ UNCHANGED <<ents, shown, tasks, historyVars>>

InterviewComplete(d, clusters, raw, ok) ==
    /\ loop.at = "idle" /\ Spend("events", ok)
    /\ Upsert(d, [NewDevice EXCEPT !.interviewed = TRUE], ok)
    /\ loop' = [at |-> "registering", device |-> d, found |-> clusters, raw |-> raw]
    /\ past' = [past EXCEPT !.torn = Torn(d, ok /\ deleting.at = "idle")]
    /\ UNCHANGED <<ents, shown, restoring, deleting, historyVars>>

\* Mutant: the disabled entities are not skipped.
PushedAll(es, off, raw) == {e \in es : Value(e, raw) # None}

\* push_state for the entities es, of which the disabled ones are skipped.
Pushed(es, off, raw) == {e \in es \ off : Value(e, raw) # None}
Push(es, off, raw) ==
    shown' = [e \in ENTITY |->
        IF e \in Pushed(es, off, raw) THEN [value |-> Value(e, raw), from |-> "live"]
        ELSE shown[e]]

\* record_sensor_history does not ask whether an entity is disabled.
Samples(es, raw) == {e \in es : Sample(e, raw) # None}
RecordAll(es, raw) == Record([e \in Samples(es, raw) |-> Sample(e, raw)])

Heard(es, off, raw, torn) ==
    past' = [past EXCEPT !.pushed = @ \cup Pushed(es, off, raw),
                         !.sampled = @ \cup Samples(es, raw), !.torn = torn]

\* The rest of an interview works on the records just made, which are enabled.
Register(ok) ==
    LET d == loop.device
        es == EntitiesFor(d, loop.found)
    IN  /\ loop.at = "registering" /\ Spend("nothing", ok)
        /\ RegisterBulk(es, ok)
        /\ Push(es, {}, loop.raw)
        /\ RecordAll(es, loop.raw)
        /\ Heard(es, {}, loop.raw, Torn(d, ok /\ deleting.at = "idle"))
        /\ loop' = [at |-> "idle"]
        /\ UNCHANGED <<devs, restoring, deleting>>

IsDisabled(e) == Data(ents)[e] # None /\ Data(ents)[e].edit = Disabled

StateChanged(d, raw) ==
    LET es == OfDevice(d)
        off == {e \in es : IsDisabled(e)}
    IN  /\ loop.at = "idle" /\ ents.cache # None /\ Spend("events", TRUE)
        /\ Push(es, off, raw)
        /\ RecordAll(es, raw)
        /\ Heard(es, off, raw, past.torn)
        /\ loop' = [at |-> "touching", device |-> d]
        /\ UNCHANGED <<stores, restoring, deleting>>

\* touch_last_seen; a device nobody knows is not saved.
Touch(ok) ==
    LET d == loop.device
    IN  /\ loop.at = "touching" /\ Spend("nothing", ok)
        /\ IF d \in Known(devs)
           THEN devs' = Saved(devs, [Data(devs) EXCEPT ![d].seen = TRUE], ok)
           ELSE ok /\ devs' = [devs EXCEPT !.cache = Data(devs)]
        /\ loop' = [at |-> "idle"]
        /\ UNCHANGED <<ents, shown, restoring, deleting, past, historyVars>>

\* Every entity of the device gets a state, the ones without one too.
DeviceLeft(d) ==
    /\ loop.at = "idle" /\ ents.cache # None /\ Spend("events", TRUE)
    /\ shown' = [e \in ENTITY |->
          IF e \in OfDevice(d) THEN [value |-> Unavailable, from |-> "gone"]
          ELSE shown[e]]
    /\ UNCHANGED <<stores, tasks, past, historyVars>>

\* The channel closes: the task that start spawned marks what has a state.
Disconnect ==
    /\ loop.at = "idle" /\ ents.cache # None
    /\ loop' = [at |-> "ended"]
    /\ shown' = [e \in ENTITY |->
          IF e \in Known(ents) /\ shown[e] # None
          THEN [value |-> Unavailable, from |-> "gone"] ELSE shown[e]]
    /\ UNCHANGED <<stores, restoring, deleting, past, spent, historyVars>>

(***************************************************************************)
(* restore_states_from_history, next to the loop; requests come after it.  *)
(***************************************************************************)
RestoreLists ==
    /\ restoring.at = "start" /\ ents.cache # None
    /\ restoring' = [at |-> "listed", entities |-> Known(ents)]
    /\ UNCHANGED <<stores, shown, loop, deleting, past, spent, historyVars>>

Latest == {f \in [SENSOR -> {None} \cup UNION {LatestValues(e) : e \in {s \in SENSOR : rows[s] # << >>}}] :
              \A e \in SENSOR : IF rows[e] = << >> THEN f[e] = None
                                ELSE f[e] \in LatestValues(e)}
RestoreQueries ==
    /\ restoring.at = "listed"
    /\ \E f \in Latest :
          restoring' = [at |-> "queried", entities |-> restoring.entities, latest |-> f]
    /\ UNCHANGED <<stores, shown, loop, deleting, past, spent, historyVars>>

\* The values are set without a look at what is shown by now.
RestoreWrites ==
    LET back == {e \in restoring.entities :
                    Restorable(e) /\ restoring.latest[e] # None}
    IN  /\ restoring.at = "queried"
        /\ shown' = [e \in ENTITY |->
              IF e \in back
              THEN [value |-> Restored(e, restoring.latest[e]), from |-> "restored"]
              ELSE shown[e]]
        /\ past' = [past EXCEPT !.raced = back \cap past.pushed]
        /\ restoring' = [at |-> "done"]
        /\ UNCHANGED <<stores, loop, deleting, spent, historyVars>>

(***************************************************************************)
(* Requests: api_zigbee_device_delete, _rename, api_zigbee_entity_update.  *)
(***************************************************************************)
DeleteLists(d) ==
    /\ Serving /\ deleting.at = "idle" /\ ents.cache # None
    /\ Spend("edits", TRUE)
    /\ deleting' = [at |-> "listed", device |-> d, entities |-> OfDevice(d)]
    /\ past' = [past EXCEPT !.torn = IF loop.at = "registering" THEN DEVICE ELSE @]
    /\ UNCHANGED <<stores, shown, loop, restoring, historyVars>>

\* After a failed save the answer is 500 and the rest is not done.
DeleteEntities(ok) ==
    LET d == deleting.device
    IN  /\ deleting.at = "listed" /\ Spend("nothing", ok)
        /\ IF OfDevice(d) = {} THEN ok /\ UNCHANGED ents
           ELSE ents' = Saved(ents, [e \in ENTITY |->
                    IF DeviceOf(e) = d THEN None ELSE Data(ents)[e]], ok)
        /\ shown' = [e \in ENTITY |->
              IF ok /\ e \in deleting.entities THEN None ELSE shown[e]]
        /\ deleting' = IF ok THEN [at |-> "cleared", device |-> d] ELSE [at |-> "idle"]
        /\ past' = [past EXCEPT !.torn = Torn(d, ok), !.edits =
              [k \in DOMAIN @ |->
                  IF k \in ENTITY /\ DeviceOf(k) = d THEN None ELSE @[k]]]
        /\ UNCHANGED <<devs, loop, restoring, historyVars>>

DeleteDevice(ok) ==
    LET d == deleting.device
    IN  /\ deleting.at = "cleared" /\ Spend("nothing", ok)
        /\ IF d \in Known(devs)
           THEN devs' = Saved(devs, [Data(devs) EXCEPT ![d] = None], ok)
           ELSE ok /\ devs' = [devs EXCEPT !.cache = Data(devs)]
        /\ deleting' = [at |-> "idle"]
        /\ past' = [past EXCEPT !.torn = Torn(d, ok), !.edits[d] = None]
        /\ UNCHANGED <<ents, shown, loop, restoring, historyVars>>

EditDevice(d, edit, ok) ==
    /\ Serving /\ d \in Known(devs) /\ Spend("edits", ok)
    /\ devs' = Saved(devs, [Data(devs) EXCEPT ![d].edit = edit], ok)
    /\ past' = [past EXCEPT !.torn = Torn(d, ok), !.edits[d] = edit]
    /\ UNCHANGED <<ents, shown, tasks, historyVars>>

\* ZigbeeEntityStore::update_meta.
StoreEditEntity(e, edit, look, ok) ==
    /\ Serving /\ e \in Known(ents) /\ Spend("edits", ok)
    /\ ents' = Saved(ents, [Data(ents) EXCEPT ![e].edit = edit, ![e].look = look], ok)
    /\ past' = [past EXCEPT !.torn = Torn(DeviceOf(e), ok), !.edits[e] = edit]
    /\ UNCHANGED <<devs, shown, tasks, historyVars>>

\* The table of a device leaves the icon and the labels alone, the page of an
\* entity sets them too.
EditEntity(e, edit, ok) == StoreEditEntity(e, edit, Data(ents)[e].look, ok)
EditEntityByForm(e, edit, look, ok) == StoreEditEntity(e, edit, look, ok)

Restart ==
    /\ Spend("nothing", FALSE)
    /\ Reopen
    /\ devs' = [devs EXCEPT !.cache = None, !.loading = None]
    /\ ents' = [ents EXCEPT !.cache = None, !.loading = None]
    /\ shown' = Empty(ENTITY)
    /\ loop' = [at |-> "idle"]
    /\ restoring' = [at |-> "start"]
    /\ deleting' = [at |-> "idle"]
    /\ past' = [past EXCEPT !.pushed = {}, !.sampled = {}, !.raced = {}]

Bridge ==
    \E d \in DEVICE :
        \/ \E raw \in REPORT : StateChanged(d, raw)
        \/ DeviceLeft(d)
        \/ \E ok \in BOOLEAN :
              \/ DeviceJoined(d, ok)
              \/ \E c \in CLUSTERS, raw \in CACHED : InterviewComplete(d, c, raw, ok)

Requests ==
    \/ \E d \in DEVICE : DeleteLists(d) \/ \E x \in EDIT, ok \in BOOLEAN : EditDevice(d, x, ok)
    \/ \E e \in ENTITY, x \in EDIT, ok \in BOOLEAN :
          \/ e \in Known(ents) /\ EditEntity(e, x, ok)
          \/ \E y \in LOOK : EditEntityByForm(e, x, y, ok)
    \/ \E ok \in BOOLEAN : DeleteEntities(ok) \/ DeleteDevice(ok)

Database ==
    /\ \/ \E i \in DOMAIN jobs, ok \in BOOLEAN : RunJob(i, ok) /\ Spend("nothing", ok)
       \/ Tick /\ now < MaxTime /\ UNCHANGED spent
    /\ UNCHANGED <<stores, shown, tasks, past>>

Next ==
    \/ LoadDevices \/ LoadEntities
    \/ Bridge \/ \E ok \in BOOLEAN : Register(ok) \/ Touch(ok)
    \/ Disconnect
    \/ RestoreLists \/ RestoreQueries \/ RestoreWrites
    \/ Requests \/ Database \/ Restart

Spec == Init /\ [][Next]_vars

(***************************************************************************)
(* Properties.  A device is torn when something happened to its records    *)
(* that the code does not order: a save that failed, a first load that was *)
(* overtaken by a change, a deletion next to an interview.                 *)
(***************************************************************************)
\* Every task is somewhere, buffers keep their capacity, states and records
\* are of entities a device can have.
TypeOK ==
    /\ loop.at \in {"idle", "registering", "touching", "ended"}
    /\ restoring.at \in {"start", "listed", "queried", "done"}
    /\ deleting.at \in {"idle", "listed", "cleared"}
    /\ DOMAIN shown = ENTITY /\ DOMAIN Data(ents) = ENTITY /\ DOMAIN Data(devs) = DEVICE
    /\ \A e \in SENSOR : Len(ring[e]) <= CAPACITY \/ (CAPACITY = 0 /\ Len(ring[e]) = 1)

\* An entity's device is known, across interviews, deletions and restarts:
\* an interview saves the device before its entities, a deletion removes the
\* entities first, and a crash in between leaves a device without entities.
EntityHasDevice ==
    \A e \in Known(ents) : DeviceOf(e) \in Known(devs) \cup past.torn

\* What is shown belongs to an entity that is registered: a report that arrives
\* during a deletion does not bring a state back.
StateHasEntity ==
    \A e \in ENTITY : shown[e] # None => e \in Known(ents) \/ DeviceOf(e) \in past.torn

\* The name, area and disabled flag a user gave a device or an entity stay
\* through rejoins, interviews, reports and restarts until the user changes them again.
EditsSurvive ==
    /\ \A e \in Known(ents) : \/ past.edits[e] \in {None, Data(ents)[e].edit}
                             \/ DeviceOf(e) \in past.torn
    /\ \A d \in Known(devs) : \/ past.edits[d] \in {None, Data(devs)[d].edit}
                             \/ d \in past.torn

\* A restored state is the last reading that reached the table, and gives way
\* to the first report; only a report that comes while the restoration is
\* under way is overwritten by it.
RestoredUntilHeard ==
    \A e \in ENTITY : (shown[e] # None /\ shown[e].from = "restored") =>
        IF e \in past.pushed THEN e \in past.raced
        ELSE \/ e \in past.sampled
             \/ \E r \in ToSet(rows[e]) :
                   /\ \A q \in ToSet(rows[e]) : q.ts <= r.ts
                   /\ shown[e].value = Restored(e, r.value)

\* While an entity is disabled, no report changes what it shows; the interview
\* of a device that joins again does.
DisabledIsQuiet ==
    [][\A e \in ENTITY :
          (IsDisabled(e) /\ shown'[e] # shown[e] /\ shown'[e] # None) =>
              shown'[e].from # "live" \/ loop.at = "registering"]_vars

\* States, entities and devices belong together through joins, interviews,
\* deletions and restarts (zigbee_integration.rs, http.rs).
RecordsBelong == TypeOK /\ EntityHasDevice /\ StateHasEntity
===============================================================================
