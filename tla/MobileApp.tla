------------------------------- MODULE MobileApp -------------------------------
(***************************************************************************)
(* What the companion apps do to the hub: registering a device             *)
(* (ha_mobile.rs, mobile_device_store.rs), registering and updating its    *)
(* sensors and reporting its location through the webhook (ha_webhook.rs,  *)
(* mobile_entity_store.rs), with the persons a location moves              *)
(* (person_store.rs), and the edits users make to all of them (ha_ws.rs,   *)
(* http.rs).  Zones and areas are those of Places.                         *)
(*                                                                         *)
(* Each store changes under its mutex, writes its file before its cache    *)
(* and may fail to write: a request is one step, which happens or fails.   *)
(* What is inside such a step is LabelStores' and AtomicSave's matter.     *)
(* Persons, states and samples live in memory only.                        *)
(***************************************************************************)
EXTENDS Places

CONSTANTS
    APP,           \* application ids
    DEVID,         \* device ids that apps send
    ENTITYTYPE,    \* the entity types a sensor may have
    Unsupported,   \* any other type a payload may name
    UID,           \* unique ids of sensors: numbers, for the order of the keys
    Slug(_),       \* UID -> what sanitize_object_id makes of it
    EDIT,          \* values of a user's edit: name, area, labels, .. as one
    MADEUP,        \* person ids that users choose
    Shows(_),      \* whether "person.<id>" is an entity id
    BATCH,         \* payloads of update_sensor_states
    Text, Refused, \* a payload's state that is no number; that is a list or object
    MaxDevices     \* bound

VARIABLES
    devices,       \* sequence of records; a webhook id is a position in it
    entities,      \* <<webhook, sensor>> |-> record, or None
    persons,       \* person id |-> its device trackers, or None
    located,       \* PersonStore.states: person id |-> [zone, source] or None
    shown,         \* StateStore, for persons and sensors: id |-> value or None
    recorded,      \* history: entity id |-> the newest sample, or None
    past           \* what users did, for the properties: history

stores == <<devices, entities>>
memory == <<persons, located, shown, recorded>>
mobileVars == <<stores, memory, past>>
vars == <<mobileVars, places>>

WEBHOOK == 1..MaxDevices

\* Unique ids have an order; an app has no webhook id to send as its device's.
ASSUME MobileAssumption ==
    /\ UID \subseteq Nat /\ MaxDevices \in Nat
    /\ Unsupported \notin ENTITYTYPE
    /\ BATCH \subseteq Seq([type : ENTITYTYPE \cup {Unsupported}, uid : UID,
                            value : Nat \cup {Text, Refused}])
    /\ None \notin EDIT /\ \A t \in SUBSET WEBHOOK : t # None
    /\ WEBHOOK \cap (DEVID \cup {None}) = {}

PERSON == MADEUP \cup WEBHOOK
\* A sensor is known by its type and its unique id together.
SENSOR == [type : ENTITYTYPE, uid : UID]
KEY == WEBHOOK \X SENSOR

\* derive_entity_id: two unique ids with one slug get one entity id, two types
\* never.
EntityId(key) == <<key[2].type, key[1], Slug(key[2].uid)>>
PersonEntity(p) == <<"person", p>>
ENTITYID == {EntityId(k) : k \in KEY} \cup {PersonEntity(p) : p \in PERSON}

Nobody == [p \in PERSON |-> None]

MobileInit ==
    /\ devices = << >>
    /\ entities = [k \in KEY |-> None]
    /\ persons = Nobody /\ located = Nobody
    /\ shown = [e \in ENTITYID |-> None]
    /\ recorded = [e \in ENTITYID |-> None]
    /\ past = [fresh |-> {}, left |-> {}, moved |-> {}]

(***************************************************************************)
(* Registration of a device.                                               *)
(***************************************************************************)
\* Mutant: only a record as it was first made is found again.
MatchingUnedited(app, id) ==
    {w \in DOMAIN devices : /\ id # None /\ devices[w].edit = None
                            /\ devices[w].app = app /\ devices[w].id = id}

\* A registration renews the record with its app and device id, if any, and
\* keeps what the user set and the webhook id; otherwise it adds a record.
Matching(app, id) ==
    {w \in DOMAIN devices : id # None /\ devices[w].app = app /\ devices[w].id = id}

\* Mutant: every registration that wants a secret gets another one.
SecretAnew(old, wanted) == IF wanted THEN (old % 2) + 1 ELSE old

\* A device's secret: 0, or the number of the one it holds.  One that has a
\* secret keeps it; the first registration that wants one gets one.
Secret(old, wanted) == IF old = 0 /\ wanted THEN 1 ELSE old

Registered(app, id, wanted) ==
    IF Matching(app, id) # {}
    THEN LET w == CHOOSE v \in Matching(app, id) :
                    \A u \in Matching(app, id) : v <= u
         IN  [at |-> w, list |-> [devices EXCEPT ![w].secret = Secret(@, wanted)]]
    ELSE [at |-> Len(devices) + 1,
          list |-> Append(devices,
                     [app |-> app, id |-> id, edit |-> None,
                      secret |-> Secret(0, wanted)])]

Tracks(p, w) == persons[p] # None /\ w \in persons[p]
Followed(p) == {v \in WEBHOOK : Tracks(p, v)}

\* Mutant: only a device that is new is given a person.
RegisterDeviceOnce(app, id, wanted) ==
    LET done == Registered(app, id, wanted)
        w == done.at
        alone == w > Len(devices) /\ \A p \in PERSON : ~Tracks(p, w)
    IN  /\ w <= MaxDevices
        /\ devices' = done.list
        /\ persons' = IF alone THEN [persons EXCEPT ![w] = {w}] ELSE persons
        /\ past' = [past EXCEPT !.fresh = @ \cup {w},
                                !.left = (@ \ {w}) \cup IF alone THEN Followed(w) ELSE {},
                                !.moved = IF alone THEN @ \cup {w} ELSE @]
        /\ UNCHANGED <<entities, located, shown, recorded>>

\* mobile_app_register: the device, then a person for it if nobody has it.  The
\* person gets the device's own id, in the place of whoever has that id.
RegisterDevice(app, id, wanted) ==
    LET done == Registered(app, id, wanted)
        w == done.at
        alone == \A p \in PERSON : ~Tracks(p, w)
    IN  /\ w <= MaxDevices
        /\ devices' = done.list
        /\ persons' = IF alone THEN [persons EXCEPT ![w] = {w}] ELSE persons
        /\ past' = [past EXCEPT !.fresh = @ \cup {w},
                                !.left = (@ \ {w}) \cup IF alone THEN Followed(w) ELSE {},
                                !.moved = IF alone THEN @ \cup {w} ELSE @]
        /\ UNCHANGED <<entities, located, shown, recorded>>

\* The records an id may mean, that of the app or that of the webhook.
Known(id) == {w \in DOMAIN devices : w = id \/ (id # None /\ devices[w].id = id)}
FirstKnown(id) == CHOOSE v \in Known(id) : \A u \in Known(id) : v <= u

\* MobileDeviceStore::update_meta and rename.
StoreEdit(w, edit) ==
    /\ w \in DOMAIN devices
    /\ devices' = [devices EXCEPT ![w].edit = edit]
    /\ UNCHANGED <<entities, memory, past>>

\* config/device_registry/update goes by an id and changes the first record
\* known by it; the rename form goes by the webhook id.
EditDevice(id, edit) == Known(id) # {} /\ StoreEdit(FirstKnown(id), edit)
RenameDevice(w, edit) == StoreEdit(w, edit)

\* The id that the entity lists and the answers to edits give a device.
ListedId(w) == IF devices[w].id = None THEN w ELSE devices[w].id

(***************************************************************************)
(* Sensors.                                                                *)
(***************************************************************************)
\* apply_sensor_state turns a payload's state into a value; a list or an
\* object is refused.
Number(v) == v \in Nat
Applied(m, e, value) == [m EXCEPT ![e] = value]
Sampled(m, e, rec, value) ==
    IF rec.numeric /\ Number(value) THEN [m EXCEPT ![e] = value] ELSE m

\* MobileEntityStore::register: a sensor that is there keeps its entity id, and
\* loses its edits.
SensorRecord(key, numeric) ==
    [eid |-> IF entities[key] = None THEN EntityId(key) ELSE entities[key].eid,
     numeric |-> numeric, edit |-> None]

\* A payload reaches a device by its webhook id; any other id is answered the
\* same, and nothing changes.
Reaches(w) == w \in DOMAIN devices

\* register_sensor_command: the registry first, then the state, then the
\* sample.
RegisterSensor(w, sensor, numeric, value) ==
    LET key == <<w, sensor>>
        rec == SensorRecord(key, numeric)
    IN  /\ Reaches(w)
        /\ entities' = [entities EXCEPT ![key] = rec]
        /\ IF value = Refused THEN UNCHANGED <<shown, recorded>>
           ELSE /\ shown' = Applied(shown, rec.eid, value)
                /\ recorded' = Sampled(recorded, rec.eid, rec, value)
        /\ UNCHANGED <<devices, persons, located, past>>

\* The record an item is about, by its type and unique id.
Rec(w, item) ==
    IF item.type \in ENTITYTYPE
    THEN entities[<<w, [type |-> item.type, uid |-> item.uid]>>]
    ELSE None

\* Mutant: of two answers for one unique id the first stays.
ItemAnswersOnce(w, run, item) ==
    LET rec == Rec(w, item)
        answered(a) == [run EXCEPT !.answer[item.uid] = IF @ = None THEN a ELSE @]
    IN  IF rec = None THEN answered("not_registered")
        ELSE IF item.value = Refused THEN answered("invalid_format")
        ELSE [answered("success") EXCEPT
                 !.shown = Applied(@, rec.eid, item.value),
                 !.recorded = Sampled(@, rec.eid, rec, item.value)]

\* One item of update_sensor_states_command.  The answer has the unique id alone
\* for its key: items of one unique id and two types share it.
Item(w, run, item) ==
    LET rec == Rec(w, item)
        answered(a) == [run EXCEPT !.answer[item.uid] = a]
    IN  IF rec = None THEN answered("not_registered")
        ELSE IF item.value = Refused THEN answered("invalid_format")
        ELSE [answered("success") EXCEPT
                 !.shown = Applied(@, rec.eid, item.value),
                 !.recorded = Sampled(@, rec.eid, rec, item.value)]

\* The items one after the other, each on what the ones before it left.
Unanswered == [shown |-> shown, recorded |-> recorded, answer |-> [u \in UID |-> None]]
Batch(w, items) ==
    LET after[n \in 0..Len(items)] ==
            IF n = 0 THEN Unanswered ELSE Item(w, after[n - 1], items[n])
    IN  after[Len(items)]

UpdateSensors(w, items) ==
    /\ Reaches(w)
    /\ shown' = Batch(w, items).shown
    /\ recorded' = Batch(w, items).recorded
    /\ UNCHANGED <<stores, persons, located, past>>

\* Entities are edited by entity id: the first record with it, in key order
\* (find), is the one that changes.  An edit that gives it a unit makes it numeric.
Holding(e) == {k \in KEY : entities[k] # None /\ entities[k].eid = e}
FirstHolding(e) ==
    CHOOSE k \in Holding(e) : \A l \in Holding(e) : k[2].uid <= l[2].uid
StoreEditEntity(e, edit, unit) ==
    LET edited(rec) == [rec EXCEPT !.edit = edit, !.numeric = @ \/ unit]
    IN  /\ Holding(e) # {}
        /\ entities' = [entities EXCEPT ![FirstHolding(e)] = edited(@)]
        /\ UNCHANGED <<devices, memory, past>>

\* config/entity_registry/update changes what the message names and no unit, the
\* edit form all but an empty name and unit: here an edit is one value.
EditEntity(e, edit) == StoreEditEntity(e, edit, FALSE)
EditEntityByForm(e, edit, unit) == StoreEditEntity(e, edit, unit)

\* What config/entity_registry/list and list_for_display say of an entity.
EntityList ==
    {[entity |-> entities[k].eid, device |-> ListedId(k[1]), edit |-> entities[k].edit] :
        k \in {l \in KEY : entities[l] # None}}
DeviceList == {[id |-> w] : w \in DOMAIN devices}

\* config/entity_registry/remove takes every record with the id; its state stays.
RemoveEntity(e) ==
    /\ Holding(e) # {}
    /\ entities' = [k \in KEY |-> IF k \in Holding(e) THEN None ELSE entities[k]]
    /\ UNCHANGED <<devices, memory, past>>

(***************************************************************************)
(* Persons and zones.                                                      *)
(***************************************************************************)
\* handle_location_update: the persons who track the device move.
Moved(w, place) ==
    [p \in PERSON |-> IF Tracks(p, w) THEN [zone |-> ZoneAt(place), source |-> w]
                      ELSE located[p]]

\* update_location, which writes again the state of every person ever located.
ReportLocation(w, place) ==
    LET moved == Moved(w, place)
    IN  /\ Reaches(w)
        /\ located' = moved
        /\ shown' = [e \in ENTITYID |->
              IF \E p \in PERSON : /\ e = PersonEntity(p)
                                   /\ moved[p] # None /\ Shows(p)
              THEN moved[e[2]].zone ELSE shown[e]]
        /\ past' = [past EXCEPT !.moved = @ \ {p \in PERSON : Tracks(p, w)}]
        /\ UNCHANGED <<stores, persons, recorded>>

\* api_persons_create replaces the person with that id, if there is one.
SetPerson(p, trackers) ==
    /\ persons' = [persons EXCEPT ![p] = trackers]
    /\ past' = [past EXCEPT !.left = @ \cup WEBHOOK, !.moved = @ \cup {p}]
    /\ UNCHANGED <<stores, located, shown, recorded>>

\* api_persons_delete leaves what the store knows of the person's place.
RemovePerson(p) ==
    /\ persons[p] # None
    /\ persons' = [persons EXCEPT ![p] = None]
    /\ past' = [past EXCEPT !.left = @ \cup WEBHOOK]
    /\ UNCHANGED <<stores, located, shown, recorded>>

\* The process ends and starts again: the files stay.
MobileRestart ==
    /\ persons' = Nobody /\ located' = Nobody
    /\ shown' = [e \in ENTITYID |-> None]
    /\ recorded' = [e \in ENTITYID |-> None]
    /\ past' = [fresh |-> {}, left |-> {}, moved |-> {}]
    /\ UNCHANGED stores

Devices ==
    \/ \E a \in APP, d \in DEVID \cup {None}, s \in BOOLEAN : RegisterDevice(a, d, s)
    \/ \E x \in EDIT : \/ \E i \in DEVID \cup WEBHOOK : EditDevice(i, x)
                       \/ \E w \in WEBHOOK : RenameDevice(w, x)
Sensors ==
    \/ \E k \in KEY, n \in BOOLEAN, v \in {1, Refused} :
          RegisterSensor(k[1], k[2], n, v)
    \/ \E w \in WEBHOOK, items \in BATCH : UpdateSensors(w, items)
    \/ \E e \in ENTITYID : \/ \E x \in EDIT : EditEntity(e, x)
                           \/ \E x \in EDIT, u \in BOOLEAN : EditEntityByForm(e, x, u)
                           \/ RemoveEntity(e)
Persons ==
    \/ \E w \in WEBHOOK, p \in PLACE : ReportLocation(w, p)
    \/ \E p \in PERSON, t \in SUBSET DOMAIN devices : SetPerson(p, t)
    \/ \E p \in PERSON : RemovePerson(p)

Init == MobileInit /\ PlacesInit
\* A new process seeds the areas if there are none.
Restart == MobileRestart /\ areas' = Seeded(areas) /\ UNCHANGED zones

Next ==
    \/ (Devices \/ Sensors \/ Persons) /\ UNCHANGED places
    \/ (ZonesNext \/ AreasNext) /\ UNCHANGED mobileVars
    \/ Restart

Spec == Init /\ [][Next]_vars

(***************************************************************************)
(* Properties.                                                             *)
(***************************************************************************)
VALUE == Nat \cup {Text}

\* Every variable has its type; sensors belong to devices.
TypeOK ==
    /\ Len(devices) <= MaxDevices
    /\ \A w \in DOMAIN devices : /\ devices[w].app \in APP
                                  /\ devices[w].id \in DEVID \cup {None}
                                  /\ devices[w].edit \in EDIT \cup {None}
                                  /\ devices[w].secret \in 0..2
    /\ \A k \in KEY : entities[k] # None =>
          /\ k[1] \in DOMAIN devices
          /\ entities[k] \in [eid : ENTITYID, numeric : BOOLEAN, edit : EDIT \cup {None}]
    /\ \A p \in PERSON : persons[p] = None \/ persons[p] \subseteq WEBHOOK
    /\ \A p \in PERSON : \/ located[p] = None
                         \/ located[p].source \in DOMAIN devices
    /\ \A k \in KEY : LET e == EntityId(k)
                      IN  /\ shown[e] \in VALUE \cup {None}
                          /\ recorded[e] \in Nat \cup {None}
    /\ \A i \in DOMAIN zones : zones[i].at \in AROUND

\* However a device registers again, and whatever else happens: its webhook id
\* stays its own, a secret it was given stays valid, and what the user set of
\* it is not lost (mobile_device_store.rs, register).
DeviceKeepsWhatItWasGiven ==
    [][\A w \in DOMAIN devices :
          /\ w \in DOMAIN devices'
          /\ devices'[w].app = devices[w].app /\ devices'[w].id = devices[w].id
          /\ devices[w].secret # 0 => devices'[w].secret = devices[w].secret
          /\ devices[w].edit # None => devices'[w].edit # None]_vars

\* An app that sends its device id has one record, however often it registers.
OneRecordPerDevice ==
    \A v, w \in DOMAIN devices :
        /\ devices[v].id # None /\ devices[v].id = devices[w].id
        /\ devices[v].app = devices[w].app
        => v = w

\* An id that a list shows leads to what it was shown for: a device can be
\* edited by the id in the device list, and by the one its entities carry
\* unless another app sent the same device id (ha_ws.rs, dispatch_command).
ListedIdsLead ==
    /\ \A d \in DeviceList : Known(d.id) = {d.id}
    /\ \A k \in KEY : entities[k] # None =>
          \E e \in EntityList :
             /\ e.entity = entities[k].eid /\ k \in Holding(e.entity)
             /\ Known(e.device) # {}
             /\ \/ FirstKnown(e.device) = k[1]
                \/ \E v \in DOMAIN devices \ {k[1]} : devices[v].id = devices[k[1]].id

\* A device that registered since the process started moves somebody, unless a
\* user changed the persons since or another device took the place of the person
\* who had it: persons are lost at a restart, and a device that is known already
\* must get one again (ha_mobile.rs, mobile_app_register).
NewDevicesAreTracked ==
    \A w \in past.fresh \ past.left : \E p \in PERSON : Tracks(p, w)

\* The place known of a person comes from a device it tracks, unless the
\* person was set or made again since (person_store.rs, handle_location_update).
SourceTracks ==
    \A p \in PERSON :
        located[p] # None /\ persons[p] # None /\ p \notin past.moved
        => Tracks(p, located[p].source)

(* The value of the last of some of the items, or the one there was before. *)
Newest(S, items, old) ==
    IF S = {} THEN old ELSE items[CHOOSE i \in S : \A j \in S : j <= i].value

(* Whether the value of an item is shown, and is a sample. *)
Taken(w, item) == Rec(w, item) # None /\ item.value # Refused
Counted(w, item) == Taken(w, item) /\ Rec(w, item).numeric /\ Number(item.value)

(* What run says of the first n items is what they ask for. *)
Did(w, items, n, run) ==
    /\ \A e \in ENTITYID :
          /\ run.shown[e] =
               Newest({i \in 1..n : Taken(w, items[i]) /\ Rec(w, items[i]).eid = e},
                      items, shown[e])
          /\ run.recorded[e] =
               Newest({i \in 1..n : Counted(w, items[i]) /\ Rec(w, items[i]).eid = e},
                      items, recorded[e])
    /\ \A i \in 1..n : (\A j \in 1..n : j > i => items[j].uid # items[i].uid)
                       => (run.answer[items[i].uid] = "success" <=> Taken(w, items[i]))

\* What update_sensor_states answers is what it did, item by item: an entity
\* shows the value of the last item for it that was neither unknown nor
\* refused, the newest sample is its last number, and every other entity is
\* as before; success is answered for a unique id if its last item, of
\* whatever type, was taken, for a sensor of the type it names
\* (ha_webhook.rs, update_sensor_states_command).
BatchDoesAsAnswered ==
    \A w \in DOMAIN devices, items \in BATCH : Did(w, items, Len(items), Batch(w, items))

\* The registries of devices and sensors stay sound however apps register again:
\* one record per device, and the ids that are shown lead to it
\* (mobile_device_store.rs, mobile_entity_store.rs, ha_ws.rs).
RegistryIsSound == TypeOK /\ OneRecordPerDevice /\ ListedIdsLead

\* Devices and persons are linked both ways: a registered device moves somebody,
\* and who is somewhere was moved by a device of theirs (person_store.rs).
DevicesMovePersons == NewDevicesAreTracked /\ SourceTracks
===============================================================================
