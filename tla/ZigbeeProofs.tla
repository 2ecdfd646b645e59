----------------------------- MODULE ZigbeeProofs -----------------------------
(***************************************************************************)
(* What ZigbeeHub promises for any devices, entities, reports and bounds.  *)
(*                                                                         *)
(* A device is whole while nothing the code does not order has happened to *)
(* it.  For a whole device, cache and file agree on what a user set, the   *)
(* entities with a record or a state are those of a known device, and no   *)
(* task holds an entity that is gone.  The invariant says so record by     *)
(* record (WholeDevice, WholeEntity), next to the shape of the stores and  *)
(* of what the tasks carry (Shapes); of the history it says that rows are  *)
(* in order of time and that an entity with a pending row was sampled in   *)
(* this run of the process (HistoryInv).                                   *)
(*                                                                         *)
(* The history keeps its readings three times.  A reading is counted by a  *)
(* weight: how often one was read, how many were read from a time on, how  *)
(* many of a bucket and what they add up to.  As long as no job is missed  *)
(* (AccountsInv) the rows and the pending rows of an entity weigh what was *)
(* read of it, its buffer weighs as much as it may hold of that, and the   *)
(* statistics weigh what is no longer pending.  Weights do not depend on   *)
(* the order in which the jobs run.                                        *)
(***************************************************************************)
EXTENDS ZigbeeHub, FiniteSetTheorems, SequenceTheorems, ListLemmas

DevData == Data(devs)
EntData == Data(ents)

DevStore == [cache : Devices \cup {None}, file : Devices, loading : Devices \cup {None}]
EntStore == [cache : Entities \cup {None}, file : Entities, loading : Entities \cup {None}]

(* A load under way has read the file as it is, while there is no cache. *)
LoadIsFresh(store) == store.cache = None /\ store.loading # None => store.loading = store.file

(* The stores, what the tasks carry and what is remembered have their form. *)
Shapes ==
    /\ devs \in DevStore /\ LoadIsFresh(devs)
    /\ ents \in EntStore /\ LoadIsFresh(ents)
    /\ DOMAIN past = {"pushed", "sampled", "raced", "torn", "edits"}
    /\ past.torn \subseteq DEVICE
    /\ past.edits \in [ENTITY \cup DEVICE -> EDIT \cup {None}]
    /\ DOMAIN shown = ENTITY
    /\ loop.at \in {"idle", "registering", "touching", "ended"}
    /\ loop.at \in {"registering", "touching"} => loop.device \in DEVICE
    /\ loop.at = "registering" => loop.found \in CLUSTERS
    /\ restoring.at \in {"start", "listed", "queried", "done"}
    /\ restoring.at \in {"listed", "queried"} => restoring.entities \subseteq ENTITY
    /\ deleting.at \in {"idle", "listed", "cleared"}
    /\ deleting.at # "idle" => deleting.device \in DEVICE /\ Serving

(* Both are no record, or both are records that a user left alike. *)
SameEdit(a, b) == (a = None <=> b = None) /\ (a # None => a.edit = b.edit)

(* The record has the last edit; what has no record has no edit either. *)
Honest(rec, edit) == IF rec = None THEN edit = None ELSE edit \in {None, rec.edit}

WholeDevice(d) ==
    /\ SameEdit(DevData[d], devs.file[d])
    /\ Honest(DevData[d], past.edits[d])
    /\ loop.at = "registering" /\ loop.device = d =>
          DevData[d] # None /\ deleting.at = "idle"

WholeEntity(e) ==
    /\ SameEdit(EntData[e], ents.file[e])
    /\ Honest(EntData[e], past.edits[e])
    /\ EntData[e] # None => DevData[DeviceOf(e)] # None
    /\ shown[e] # None => EntData[e] # None
    /\ restoring.at \in {"listed", "queried"} /\ e \in restoring.entities => EntData[e] # None
    /\ deleting.at = "listed" /\ deleting.device = DeviceOf(e) /\ EntData[e] # None =>
          e \in deleting.entities
    /\ deleting.at = "cleared" /\ deleting.device = DeviceOf(e) => EntData[e] = None

Whole ==
    /\ \A d \in DEVICE \ past.torn : WholeDevice(d)
    /\ \A e \in ENTITY : DeviceOf(e) \notin past.torn => WholeEntity(e)

RecordsInv == Shapes /\ Whole
-----------------------------------------------------------------------------
(* Entities and stores. *)

\* entities_for_device: an entity is its device's.
LEMMA EntitiesAreOfDevices ==
    /\ \A d, c : \A e \in EntitiesFor(d, c) : DeviceOf(e) = d
    /\ \A d \in DEVICE, c \in CLUSTERS : EntitiesFor(d, c) \subseteq ENTITY
    /\ \A e \in ENTITY : DeviceOf(e) \in DEVICE
    /\ ENTITY = SENSOR
<1>1. \A d, c : \A e \in EntitiesFor(d, c) : DeviceOf(e) = d
  <2> TAKE d, c
  <2> TAKE e \in EntitiesFor(d, c)
  <2>1. CASE e \in {<<s[2], d, s[3]>> : s \in {t \in ClusterSensors : t[1] \in c}}
    <3>1. PICK s \in ClusterSensors : e = <<s[2], d, s[3]>>
        BY <2>1
    <3> QED
        BY <3>1 DEF DeviceOf
  <2>2. CASE "on_off" \in c
             /\ e = <<IF c \cap {"level", "color"} # {} THEN "light" ELSE "switch", d, "state">>
      BY <2>2 DEF DeviceOf
  <2> QED
      BY <2>1, <2>2 DEF EntitiesFor
<1>2. \A d \in DEVICE, c \in CLUSTERS : EntitiesFor(d, c) \subseteq ENTITY
    BY DEF ENTITY
<1>3. \A e \in ENTITY : DeviceOf(e) \in DEVICE
  <2> TAKE e \in ENTITY
  <2>1. PICK d \in DEVICE, c \in CLUSTERS : e \in EntitiesFor(d, c)
      BY DEF ENTITY
  <2> QED
      BY <1>1, <2>1
<1> QED
    BY <1>1, <1>2, <1>3, EntitiesAssumption

\* A record, a new one or one that was changed, is not None.
LEMMA RecordsAreSome ==
    /\ NewDevice \in DeviceRecord /\ NewEntity \in EntityRecord
    /\ NewDevice.edit = Fresh /\ NewEntity.edit = Fresh
    /\ None \notin DeviceRecord /\ None \notin EntityRecord
    /\ None \notin Devices /\ None \notin Entities
    /\ Empty(DEVICE) \in Devices /\ Empty(ENTITY) \in Entities
BY NoneAssumption, ZigbeeHubAssumption
   DEF NewDevice, NewEntity, DeviceRecord, EntityRecord, Empty, Devices, Entities

\* What a store holds is its cache, or its file while there is no cache.
LEMMA DataAreTyped ==
    ASSUME Shapes
    PROVE  /\ DevData \in Devices /\ EntData \in Entities
           /\ devs.file \in Devices /\ ents.file \in Entities
           /\ \A d : d \in Known(devs) <=> d \in DEVICE /\ DevData[d] # None
           /\ \A e : e \in Known(ents) <=> e \in ENTITY /\ EntData[e] # None
           /\ \A d, e : e \in OfDevice(d) <=>
                 e \in ENTITY /\ EntData[e] # None /\ DeviceOf(e) = d
           /\ \A e \in ENTITY : IsDisabled(e) <=>
                 EntData[e] # None /\ EntData[e].edit = Disabled
<1>1. DevData \in Devices /\ devs.file \in Devices
    BY DEF DevData, Data, Shapes, DevStore
<1>2. EntData \in Entities /\ ents.file \in Entities
    BY DEF EntData, Data, Shapes, EntStore
<1>3. \A d : d \in Known(devs) <=> d \in DEVICE /\ DevData[d] # None
    BY <1>1 DEF Known, DevData, Devices
<1>4. \A e : e \in Known(ents) <=> e \in ENTITY /\ EntData[e] # None
    BY <1>2 DEF Known, EntData, Entities
<1>5. \A d, e : e \in OfDevice(d) <=> e \in ENTITY /\ EntData[e] # None /\ DeviceOf(e) = d
    BY <1>4 DEF OfDevice
<1>6. \A e \in ENTITY : IsDisabled(e) <=> EntData[e] # None /\ EntData[e].edit = Disabled
    BY DEF IsDisabled, EntData
<1> QED
    BY <1>1, <1>2, <1>3, <1>4, <1>5, <1>6

\* After a save the store holds the data, and so does the file if it was written.
LEMMA DevicesSaved ==
    ASSUME devs \in DevStore, NEW data \in Devices, NEW ok \in BOOLEAN,
           devs' = Saved(devs, data, ok)
    PROVE  /\ devs' \in DevStore /\ LoadIsFresh(devs)' /\ DevData' = data
           /\ devs'.file = IF ok THEN data ELSE devs.file
<1>1. devs' = [cache |-> data, file |-> IF ok THEN data ELSE devs.file,
               loading |-> devs.loading]
    BY DEF Saved, DevStore
<1>2. data # None
    BY RecordsAreSome
<1>3. devs'.cache = data /\ devs'.file = IF ok THEN data ELSE devs.file
    BY <1>1
<1>4. devs' \in DevStore
    BY <1>1 DEF DevStore
<1> QED
    BY <1>2, <1>3, <1>4 DEF LoadIsFresh, DevData, Data

\* A save leaves the entities in the cache, and in the file if it succeeded.
LEMMA EntitiesSaved ==
    ASSUME ents \in EntStore, NEW data \in Entities, NEW ok \in BOOLEAN,
           ents' = Saved(ents, data, ok)
    PROVE  /\ ents' \in EntStore /\ LoadIsFresh(ents)' /\ EntData' = data
           /\ ents'.file = IF ok THEN data ELSE ents.file
<1>1. ents' = [cache |-> data, file |-> IF ok THEN data ELSE ents.file,
               loading |-> ents.loading]
    BY DEF Saved, EntStore
<1>2. data # None
    BY RecordsAreSome
<1>3. ents'.cache = data /\ ents'.file = IF ok THEN data ELSE ents.file
    BY <1>1
<1>4. ents' \in EntStore
    BY <1>1 DEF EntStore
<1> QED
    BY <1>2, <1>3, <1>4 DEF LoadIsFresh, EntData, Data
-----------------------------------------------------------------------------
(* No step of a task that only reads the stores harms a record. *)

\* A step that leaves the stores and the edits alone, and in which the tasks
\* take up nothing that is gone.
LEMMA ReadingIsSafe ==
    ASSUME RecordsInv, Shapes', UNCHANGED <<devs, ents>>,
           past'.torn = past.torn, past'.edits = past.edits,
           \A e \in ENTITY : shown'[e] # None =>
               shown[e] # None \/ EntData[e] # None \/ DeviceOf(e) \in past.torn,
           loop'.at = "registering" => loop' = loop,
           deleting' = deleting,
           restoring'.at \in {"listed", "queried"} =>
               \A e \in restoring'.entities :
                   \/ restoring.at \in {"listed", "queried"} /\ e \in restoring.entities
                   \/ EntData[e] # None
    PROVE  RecordsInv'
<1>1. DevData' = DevData /\ EntData' = EntData
    BY DEF DevData, EntData, Data
<1>2. ASSUME NEW d \in DEVICE \ past.torn
      PROVE  WholeDevice(d)'
    BY <1>1, <1>2 DEF RecordsInv, Whole, WholeDevice
<1>3. ASSUME NEW e \in ENTITY, DeviceOf(e) \notin past.torn
      PROVE  WholeEntity(e)'
    BY <1>1, <1>3 DEF RecordsInv, Whole, WholeEntity
<1> QED
    BY <1>2, <1>3 DEF RecordsInv, Whole

\* StateChanged, DeviceLeft and the end of the bridge.
LEMMA ReportsKeepRecords ==
    ASSUME RecordsInv,
           \/ \E d \in DEVICE : DeviceLeft(d) \/ \E raw \in REPORT : StateChanged(d, raw)
           \/ Disconnect
    PROVE  RecordsInv'
<1>1. /\ UNCHANGED <<devs, ents, deleting, restoring>>
      /\ past'.torn = past.torn /\ past'.edits = past.edits /\ DOMAIN past' = DOMAIN past
      /\ \/ loop' = loop \/ loop' = [at |-> "ended"]
         \/ \E d \in DEVICE : loop' = [at |-> "touching", device |-> d]
    BY DEF StateChanged, DeviceLeft, Disconnect, Heard, stores, tasks, RecordsInv, Shapes
<1>2. Shapes'
  <2>1. DOMAIN shown' = ENTITY
      BY DEF StateChanged, DeviceLeft, Disconnect, Push
  <2> QED
      BY <1>1, <2>1 DEF RecordsInv, Shapes, LoadIsFresh, Serving
<1>3. \A e \in ENTITY : shown'[e] # None => shown[e] # None \/ EntData[e] # None
  <2>1. Shapes
      BY DEF RecordsInv
  <2>2. ASSUME NEW d \in DEVICE, NEW raw \in REPORT, StateChanged(d, raw)
        PROVE  \A e \in ENTITY : shown'[e] # None => shown[e] # None \/ EntData[e] # None
      BY <2>1, <2>2, DataAreTyped DEF StateChanged, Push, Pushed
  <2>3. ASSUME NEW d \in DEVICE, DeviceLeft(d)
        PROVE  \A e \in ENTITY : shown'[e] # None => shown[e] # None \/ EntData[e] # None
      BY <2>1, <2>3, DataAreTyped DEF DeviceLeft
  <2>4. CASE Disconnect
      BY <2>1, <2>4, DataAreTyped DEF Disconnect
  <2> QED
      BY <2>2, <2>3, <2>4
<1>4. loop'.at = "registering" => loop' = loop
    BY <1>1
<1> QED
    BY <1>1, <1>2, <1>3, <1>4, ReadingIsSafe

\* restore_states_from_history: what it lists has a record.
LEMMA RestoringKeepsRecords ==
    ASSUME RecordsInv, RestoreLists \/ RestoreQueries \/ RestoreWrites
    PROVE  RecordsInv'
<1> USE DEF RecordsInv
<1>1. /\ UNCHANGED <<devs, ents, loop, deleting>>
      /\ past'.torn = past.torn /\ past'.edits = past.edits /\ DOMAIN past' = DOMAIN past
      /\ restoring.at # "done"
    BY DEF RestoreLists, RestoreQueries, RestoreWrites, stores, Shapes
<1>2. /\ restoring'.at \in {"listed", "queried", "done"}
      /\ restoring'.at \in {"listed", "queried"} =>
            /\ restoring'.entities \subseteq ENTITY
            /\ \A e \in restoring'.entities :
                   \/ restoring.at \in {"listed", "queried"} /\ e \in restoring.entities
                   \/ EntData[e] # None
  <2>1. CASE RestoreLists
      BY <2>1, DataAreTyped DEF RestoreLists
  <2>2. CASE RestoreQueries
      BY <2>2 DEF RestoreQueries, Shapes
  <2>3. CASE RestoreWrites
      BY <2>3 DEF RestoreWrites
  <2> QED
      BY <2>1, <2>2, <2>3
<1>3. deleting.at = "idle"
    BY <1>1 DEF Shapes, Serving
<1>4. DOMAIN shown' = ENTITY
    BY DEF RestoreLists, RestoreQueries, RestoreWrites, Shapes
<1>5. Shapes'
    BY <1>1, <1>2, <1>3, <1>4 DEF Shapes, LoadIsFresh, Serving
<1>6. \A e \in ENTITY : shown'[e] # None =>
          shown[e] # None \/ EntData[e] # None \/ DeviceOf(e) \in past.torn
  <2>1. CASE RestoreWrites
    <3> SUFFICES ASSUME NEW e \in ENTITY, shown'[e] # None, shown[e] = None,
                        DeviceOf(e) \notin past.torn
                 PROVE  EntData[e] # None
        OBVIOUS
    <3>1. e \in restoring.entities /\ restoring.at = "queried"
        BY <2>1 DEF RestoreWrites
    <3> QED
        BY <3>1 DEF Whole, WholeEntity
  <2> QED
      BY <2>1 DEF RestoreLists, RestoreQueries
<1> QED
    BY <1>1, <1>2, <1>5, <1>6, ReadingIsSafe
-----------------------------------------------------------------------------
(* A step that writes the records of one device. *)

(* What is written, remembered and shown of the devices other than d stays. *)
OnlyOf(d) ==
    /\ past.torn \subseteq past'.torn
    /\ \A k \in DEVICE \ {d} :
          /\ DevData'[k] = DevData[k] /\ past'.edits[k] = past.edits[k]
          /\ devs'.file[k] \in {DevData[k], devs.file[k]}
    /\ \A e \in ENTITY : DeviceOf(e) # d =>
          /\ EntData'[e] = EntData[e] /\ past'.edits[e] = past.edits[e]
          /\ ents'.file[e] \in {EntData[e], ents.file[e]}
          /\ shown'[e] \in {None, shown[e]}
    /\ restoring' = restoring
    /\ loop'.at = "registering" => loop' = loop \/ loop'.device = d
    /\ deleting'.at # "idle" => deleting.at # "idle" /\ (deleting' = deleting \/ deleting'.device = d)

\* The records of the other devices are as whole as before.
LEMMA OthersStayWhole ==
    ASSUME RecordsInv, NEW d \in DEVICE, OnlyOf(d), Shapes',
           d \notin past'.torn => WholeDevice(d)',
           \A e \in ENTITY : DeviceOf(e) = d /\ d \notin past'.torn => WholeEntity(e)'
    PROVE  RecordsInv'
<1>1. ASSUME NEW k \in DEVICE \ past'.torn, k # d
      PROVE  WholeDevice(k)'
  <2>1. WholeDevice(k)
      BY <1>1 DEF RecordsInv, Whole, OnlyOf
  <2> QED
      BY <1>1, <2>1 DEF OnlyOf, WholeDevice, SameEdit
<1>2. ASSUME NEW e \in ENTITY, DeviceOf(e) \notin past'.torn, DeviceOf(e) # d
      PROVE  WholeEntity(e)'
  <2>1. WholeEntity(e) /\ DeviceOf(e) \in DEVICE
      BY <1>2, EntitiesAreOfDevices DEF RecordsInv, Whole, OnlyOf
  <2> QED
      BY <1>2, <2>1 DEF OnlyOf, WholeEntity, SameEdit
<1> QED
    BY <1>1, <1>2 DEF RecordsInv, Whole

\* A save of one device's record, by the store of devices.
LEMMA OneDeviceSaved ==
    ASSUME Shapes, NEW d \in DEVICE, NEW rec \in DeviceRecord \cup {None}, NEW ok \in BOOLEAN,
           devs' = Saved(devs, [DevData EXCEPT ![d] = rec], ok)
    PROVE  /\ devs' \in DevStore /\ LoadIsFresh(devs)'
           /\ DevData'[d] = rec /\ \A k \in DEVICE \ {d} : DevData'[k] = DevData[k]
           /\ ok => devs'.file = DevData'
           /\ \A k \in DEVICE \ {d} : devs'.file[k] \in {DevData[k], devs.file[k]}
<1>1. [DevData EXCEPT ![d] = rec] \in Devices /\ devs \in DevStore
    BY DataAreTyped DEF Devices, Shapes
<1>2. /\ devs' \in DevStore /\ LoadIsFresh(devs)' /\ DevData' = [DevData EXCEPT ![d] = rec]
      /\ devs'.file = IF ok THEN [DevData EXCEPT ![d] = rec] ELSE devs.file
    BY <1>1, DevicesSaved
<1> QED
    BY <1>2, DataAreTyped DEF Devices

\* A save of records of entities of one device.
LEMMA EntitiesOfOneSaved ==
    ASSUME Shapes, NEW d \in DEVICE, NEW data \in Entities, NEW ok \in BOOLEAN,
           \A e \in ENTITY : DeviceOf(e) # d => data[e] = EntData[e],
           ents' = Saved(ents, data, ok)
    PROVE  /\ ents' \in EntStore /\ LoadIsFresh(ents)' /\ EntData' = data
           /\ ok => ents'.file = EntData'
           /\ \A e \in ENTITY : DeviceOf(e) # d =>
                 /\ EntData'[e] = EntData[e]
                 /\ ents'.file[e] \in {EntData[e], ents.file[e]}
<1>1. ents \in EntStore
    BY DEF Shapes
<1>2. /\ ents' \in EntStore /\ LoadIsFresh(ents)' /\ EntData' = data
      /\ ents'.file = IF ok THEN data ELSE ents.file
    BY <1>1, EntitiesSaved
<1> QED
    BY <1>2

\* DeviceJoined and InterviewComplete: the user's fields are carried over.
LEMMA InterviewsKeepRecords ==
    ASSUME RecordsInv, NEW d \in DEVICE, NEW ok \in BOOLEAN,
           \/ DeviceJoined(d, ok)
           \/ \E clusters \in CLUSTERS, raw \in CACHED : InterviewComplete(d, clusters, raw, ok)
    PROVE  RecordsInv'
<1>1. Shapes
    BY DEF RecordsInv
<1> DEFINE Kept(new) == IF DevData[d] = None THEN new ELSE [new EXCEPT !.edit = DevData[d].edit]
<1>2. PICK new \in DeviceRecord :
          /\ new.edit = Fresh
          /\ devs' = Saved(devs, [DevData EXCEPT ![d] = Kept(new)], ok)
  <2>1. [NewDevice EXCEPT !.interviewed = TRUE] \in DeviceRecord
        /\ [NewDevice EXCEPT !.interviewed = TRUE].edit = Fresh
      BY ZigbeeHubAssumption DEF NewDevice, DeviceRecord
  <2> QED
      BY <2>1, RecordsAreSome DEF DeviceJoined, InterviewComplete, Upsert, DevData
<1>3. DevData[d] \in DeviceRecord \cup {None}
    BY <1>1, DataAreTyped DEF Devices
<1>4. /\ Kept(new) \in DeviceRecord
      /\ Kept(new).edit = IF DevData[d] = None THEN Fresh ELSE DevData[d].edit
    BY <1>2, <1>3 DEF DeviceRecord
<1> DEFINE rec == Kept(new)
<1> HIDE DEF Kept
<1>5. /\ devs' \in DevStore /\ LoadIsFresh(devs)'
      /\ DevData'[d] = rec /\ \A k \in DEVICE \ {d} : DevData'[k] = DevData[k]
      /\ ok => devs'.file = DevData'
      /\ \A k \in DEVICE \ {d} : devs'.file[k] \in {DevData[k], devs.file[k]}
    BY <1>1, <1>2, <1>4, OneDeviceSaved
<1>6. /\ UNCHANGED <<ents, shown, restoring, deleting>>
      /\ past'.edits = past.edits /\ DOMAIN past' = DOMAIN past
      /\ past.torn \subseteq past'.torn /\ past'.torn \subseteq past.torn \cup {d}
      /\ ~ok => d \in past'.torn
      /\ loop' = loop \/ /\ loop'.at = "registering" /\ loop'.device = d
                         /\ loop'.found \in CLUSTERS
                         /\ deleting.at # "idle" => d \in past'.torn
  <2>1. CASE DeviceJoined(d, ok)
      BY <1>1, <2>1 DEF DeviceJoined, Torn, tasks, Shapes
  <2>2. CASE \E clusters \in CLUSTERS, raw \in CACHED :
                InterviewComplete(d, clusters, raw, ok)
      BY <1>1, <2>2 DEF InterviewComplete, Torn, Shapes
  <2> QED
      BY <2>1, <2>2
<1>7. EntData' = EntData /\ ents'.file = ents.file
    BY <1>6 DEF EntData, Data
<1>8. Shapes'
    BY <1>1, <1>5, <1>6 DEF Shapes, LoadIsFresh, Serving
<1>9. OnlyOf(d)
  <2>1. \A k \in DEVICE \ {d} : devs'.file[k] \in {DevData[k], devs.file[k]}
      BY <1>5
  <2> QED
      BY <1>5, <1>6, <1>7 DEF OnlyOf
<1>10. rec # None
    BY <1>4, RecordsAreSome
<1>11. ASSUME d \notin past'.torn
       PROVE  WholeDevice(d)' /\ \A e \in ENTITY : DeviceOf(e) = d => WholeEntity(e)'
  <2>1. d \notin past.torn /\ ok
      BY <1>6, <1>11
  <2>2. WholeDevice(d)
      BY <2>1 DEF RecordsInv, Whole
  <2>3. WholeDevice(d)'
      BY <1>4, <1>5, <1>6, <1>10, <1>11, <2>1, <2>2 DEF WholeDevice, SameEdit, Honest
  <2>4. ASSUME NEW e \in ENTITY, DeviceOf(e) = d
        PROVE  WholeEntity(e)'
    <3>1. WholeEntity(e)
        BY <2>1, <2>4 DEF RecordsInv, Whole
    <3> QED
        BY <1>5, <1>6, <1>7, <1>10, <2>4, <3>1 DEF WholeEntity
  <2> QED
      BY <2>3, <2>4
<1> QED
    BY <1>8, <1>9, <1>11, OthersStayWhole

\* The end of an interview, register_bulk: what a user set is carried over.
LEMMA RegisteringKeepsRecords ==
    ASSUME RecordsInv, NEW ok \in BOOLEAN, Register(ok)
    PROVE  RecordsInv'
<1>1. Shapes /\ loop.at = "registering" /\ loop.device \in DEVICE /\ loop.found \in CLUSTERS
    BY DEF RecordsInv, Register, Shapes
<1>2. PICK d \in DEVICE : d = loop.device
    BY <1>1
<1>3. PICK es \in SUBSET ENTITY : es = EntitiesFor(d, loop.found) /\ \A e \in es : DeviceOf(e) = d
    BY <1>1, <1>2, EntitiesAreOfDevices
<1> DEFINE data == [e \in ENTITY |->
               IF e \notin es THEN EntData[e]
               ELSE IF EntData[e] = None THEN NewEntity
               ELSE [NewEntity EXCEPT !.edit = EntData[e].edit]]
<1>4. ents' = Saved(ents, data, ok)
    BY <1>2, <1>3 DEF Register, RegisterBulk, EntData
<1>5. \A e \in es : EntData[e] # None =>
          /\ [NewEntity EXCEPT !.edit = EntData[e].edit] \in EntityRecord
          /\ [NewEntity EXCEPT !.edit = EntData[e].edit].edit = EntData[e].edit
    BY <1>1, <1>3, DataAreTyped, RecordsAreSome DEF Entities, EntityRecord
<1>6. /\ data \in Entities
      /\ \A e \in ENTITY : DeviceOf(e) # d => data[e] = EntData[e]
      /\ \A e \in ENTITY \ es : data[e] = EntData[e]
      /\ \A e \in es : /\ data[e] # None
                       /\ data[e].edit = IF EntData[e] = None THEN Fresh ELSE EntData[e].edit
    BY <1>1, <1>3, <1>5, DataAreTyped, RecordsAreSome DEF Entities
<1> HIDE DEF data
<1>7. /\ ents' \in EntStore /\ LoadIsFresh(ents)' /\ EntData' = data
      /\ ok => ents'.file = EntData'
      /\ \A e \in ENTITY : DeviceOf(e) # d =>
            /\ EntData'[e] = EntData[e]
            /\ ents'.file[e] \in {EntData[e], ents.file[e]}
    BY <1>1, <1>4, <1>6, EntitiesOfOneSaved
<1>8. /\ UNCHANGED <<devs, restoring, deleting>> /\ loop' = [at |-> "idle"]
      /\ past'.edits = past.edits /\ DOMAIN past' = DOMAIN past
      /\ past'.torn = Torn(d, ok /\ deleting.at = "idle")
    BY <1>1, <1>2 DEF Register, Heard, Shapes
<1>9. /\ DOMAIN shown' = ENTITY
      /\ \A e \in ENTITY : e \notin es => shown'[e] = shown[e]
    BY <1>2, <1>3 DEF Register, Push, Pushed
<1>10. /\ past.torn \subseteq past'.torn /\ past'.torn \subseteq past.torn \cup {d}
       /\ ~(ok /\ deleting.at = "idle") => d \in past'.torn
    BY <1>8 DEF Torn
<1>11. DevData' = DevData /\ devs'.file = devs.file
    BY <1>8 DEF DevData, Data
<1>12. Shapes'
    BY <1>1, <1>7, <1>8, <1>9, <1>10 DEF Shapes, LoadIsFresh, Serving
<1>13. OnlyOf(d)
    BY <1>3, <1>7, <1>8, <1>9, <1>10, <1>11 DEF OnlyOf
<1>14. ASSUME d \notin past'.torn
       PROVE  WholeDevice(d)' /\ \A e \in ENTITY : DeviceOf(e) = d => WholeEntity(e)'
  <2>1. d \notin past.torn /\ ok /\ deleting.at = "idle"
      BY <1>10, <1>14
  <2>2. WholeDevice(d) /\ DevData[d] # None
      BY <1>1, <1>2, <2>1 DEF RecordsInv, Whole, WholeDevice
  <2>3. WholeDevice(d)'
      BY <1>8, <1>11, <2>2 DEF WholeDevice
  <2>4. ASSUME NEW e \in ENTITY, DeviceOf(e) = d
        PROVE  WholeEntity(e)'
    <3>1. WholeEntity(e) /\ SameEdit(EntData'[e], ents'.file[e])
        BY <1>7, <2>1, <2>4 DEF RecordsInv, Whole, SameEdit
    <3>2. CASE e \in es
        BY <1>6, <1>7, <1>8, <1>11, <2>1, <2>2, <2>4, <3>1, <3>2 DEF WholeEntity, Honest
    <3>3. CASE e \notin es
        BY <1>6, <1>7, <1>8, <1>9, <1>11, <2>1, <2>2, <2>4, <3>1, <3>3 DEF WholeEntity
    <3> QED
        BY <3>2, <3>3
  <2> QED
      BY <2>3, <2>4
<1> QED
    BY <1>12, <1>13, <1>14, OthersStayWhole

\* touch_last_seen, of a device nobody knows too.
LEMMA TouchingKeepsRecords ==
    ASSUME RecordsInv, NEW ok \in BOOLEAN, Touch(ok)
    PROVE  RecordsInv'
<1>1. Shapes /\ loop.device \in DEVICE
    BY DEF RecordsInv, Touch, Shapes
<1>2. PICK d \in DEVICE : d = loop.device
    BY <1>1
<1>3. /\ UNCHANGED <<ents, shown, restoring, deleting, past>> /\ loop' = [at |-> "idle"]
    BY DEF Touch
<1>4. /\ devs' \in DevStore /\ LoadIsFresh(devs)'
      /\ \A k \in DEVICE :
            \/ DevData'[k] = DevData[k]
            \/ /\ DevData[k] # None /\ DevData'[k] # None
               /\ DevData'[k].edit = DevData[k].edit
      /\ \A k \in DEVICE \ {d} : DevData'[k] = DevData[k]
      /\ \A k \in DEVICE \ {d} : devs'.file[k] \in {DevData[k], devs.file[k]}
      /\ devs'.file[d] \in {DevData'[d], devs.file[d]}
  <2>1. CASE DevData[d] # None
    <3> DEFINE rec == [DevData[d] EXCEPT !.seen = TRUE]
    <3>1. rec \in DeviceRecord /\ rec.edit = DevData[d].edit /\ rec # None
        BY <1>1, <2>1, DataAreTyped, RecordsAreSome, ZenonT(30) DEF Devices, DeviceRecord
    <3>2. devs' = Saved(devs, [DevData EXCEPT ![d] = rec], ok)
        BY <1>1, <1>2, <2>1, DataAreTyped DEF Touch, DevData
    <3>5. devs'.file = IF ok THEN DevData' ELSE devs.file
      <4>1. [DevData EXCEPT ![d] = rec] \in Devices /\ devs \in DevStore
          BY <1>1, <3>1, DataAreTyped DEF Devices, Shapes
      <4> HIDE DEF rec
      <4> QED
          BY <3>2, <4>1, DevicesSaved
    <3> HIDE DEF rec
    <3>3. /\ devs' \in DevStore /\ LoadIsFresh(devs)'
          /\ DevData'[d] = rec /\ \A k \in DEVICE \ {d} : DevData'[k] = DevData[k]
          /\ \A k \in DEVICE \ {d} : devs'.file[k] \in {DevData[k], devs.file[k]}
        BY <1>1, <3>1, <3>2, OneDeviceSaved
    <3>4. DevData'[d] # None /\ DevData'[d].edit = DevData[d].edit
        BY <3>1, <3>3
    <3> QED
        BY <2>1, <3>3, <3>4, <3>5
  <2>2. CASE DevData[d] = None
    <3>1. devs' = [devs EXCEPT !.cache = DevData]
        BY <1>1, <1>2, <2>2, DataAreTyped DEF Touch, DevData
    <3>2. DevData \in Devices /\ DevData # None
        BY <1>1, DataAreTyped, RecordsAreSome
    <3>3. /\ devs' \in DevStore /\ devs'.cache = DevData /\ devs'.file = devs.file
        BY <1>1, <3>1, <3>2 DEF Shapes, DevStore
    <3>4. LoadIsFresh(devs)' /\ DevData' = DevData
        BY <3>2, <3>3 DEF LoadIsFresh, DevData, Data
    <3> QED
        BY <3>3, <3>4
  <2> QED
      BY <2>1, <2>2
<1>5. EntData' = EntData /\ ents'.file = ents.file
    BY <1>3 DEF EntData, Data
<1>6. Shapes'
    BY <1>1, <1>3, <1>4 DEF Shapes, LoadIsFresh, Serving
<1>7. OnlyOf(d)
    BY <1>3, <1>4, <1>5 DEF OnlyOf
<1>8. ASSUME d \notin past'.torn
      PROVE  WholeDevice(d)' /\ \A e \in ENTITY : DeviceOf(e) = d => WholeEntity(e)'
  <2>1. WholeDevice(d)
      BY <1>3, <1>8 DEF RecordsInv, Whole
  <2>2. WholeDevice(d)'
      BY <1>3, <1>4, <2>1 DEF WholeDevice, SameEdit, Honest
  <2>3. ASSUME NEW e \in ENTITY, DeviceOf(e) = d
        PROVE  WholeEntity(e)'
    <3>1. WholeEntity(e)
        BY <1>3, <1>8, <2>3 DEF RecordsInv, Whole
    <3> QED
        BY <1>3, <1>4, <1>5, <2>3, <3>1 DEF WholeEntity
  <2> QED
      BY <2>2, <2>3
<1> QED
    BY <1>6, <1>7, <1>8, OthersStayWhole
-----------------------------------------------------------------------------
(* Requests, loads and restarts. *)

\* api_zigbee_device_delete lists the entities: with an interview under way
\* every device is torn, else the loop registers nothing that is not known.
LEMMA ListingKeepsRecords ==
    ASSUME RecordsInv, NEW d \in DEVICE, DeleteLists(d)
    PROVE  RecordsInv'
<1>1. Shapes
    BY DEF RecordsInv
<1>2. /\ UNCHANGED <<devs, ents, shown, loop, restoring>> /\ Serving
      /\ deleting.at = "idle" /\ deleting'.at = "listed" /\ deleting'.device = d
      /\ deleting'.entities = OfDevice(d)
      /\ past'.edits = past.edits /\ DOMAIN past' = DOMAIN past
      /\ past'.torn = IF loop.at = "registering" THEN DEVICE ELSE past.torn
    BY <1>1 DEF DeleteLists, stores, Shapes
<1>3. DevData' = DevData /\ EntData' = EntData
    BY <1>2 DEF DevData, EntData, Data
<1>4. Shapes'
    BY <1>1, <1>2 DEF Shapes, LoadIsFresh, Serving
<1>5. past.torn \subseteq past'.torn
    BY <1>1, <1>2 DEF Shapes
<1>6. ASSUME NEW k \in DEVICE \ past'.torn
      PROVE  WholeDevice(k)'
  <2>1. WholeDevice(k) /\ loop.at # "registering"
      BY <1>2, <1>5, <1>6 DEF RecordsInv, Whole
  <2> QED
      BY <1>2, <1>3, <2>1 DEF WholeDevice
<1>7. ASSUME NEW e \in ENTITY, DeviceOf(e) \notin past'.torn
      PROVE  WholeEntity(e)'
  <2>1. WholeEntity(e)
      BY <1>5, <1>7 DEF RecordsInv, Whole
  <2>2. DeviceOf(e) = d /\ EntData[e] # None => e \in OfDevice(d)
      BY <1>1, DataAreTyped
  <2> QED
      BY <1>2, <1>3, <2>1, <2>2 DEF WholeEntity
<1> QED
    BY <1>4, <1>6, <1>7 DEF RecordsInv, Whole

\* The entities' records and states go: for a device that is not torn, all
\* that have a state were listed.
LEMMA ClearingKeepsRecords ==
    ASSUME RecordsInv, NEW ok \in BOOLEAN, DeleteEntities(ok)
    PROVE  RecordsInv'
<1>1. Shapes /\ deleting.at = "listed" /\ deleting.device \in DEVICE /\ Serving
    BY DEF RecordsInv, DeleteEntities, Shapes
<1>2. PICK d \in DEVICE : d = deleting.device
    BY <1>1
<1> DEFINE data == [e \in ENTITY |-> IF DeviceOf(e) = d THEN None ELSE EntData[e]]
           edits == [k \in DOMAIN past.edits |->
               IF k \in ENTITY /\ DeviceOf(k) = d THEN None ELSE past.edits[k]]
<1>3. /\ data \in Entities
      /\ \A e \in ENTITY : DeviceOf(e) # d => data[e] = EntData[e]
      /\ \A e \in ENTITY : DeviceOf(e) = d => data[e] = None
    BY <1>1, DataAreTyped DEF Entities
<1>4. /\ ents' \in EntStore /\ LoadIsFresh(ents)' /\ EntData' = data
      /\ ok => (ents'.file = EntData' \/ ents' = ents)
      /\ \A e \in ENTITY : DeviceOf(e) # d =>
            /\ EntData'[e] = EntData[e]
            /\ ents'.file[e] \in {EntData[e], ents.file[e]}
  <2>1. CASE OfDevice(d) = {}
    <3>1. ents' = ents
        BY <1>2, <2>1 DEF DeleteEntities
    <3>2. EntData' = EntData
        BY <3>1 DEF EntData, Data
    <3>3. \A e \in ENTITY : data[e] = EntData[e]
      <4>1. \A e \in ENTITY : DeviceOf(e) = d => EntData[e] = None
          BY <1>1, <2>1, DataAreTyped
      <4> QED
          BY <4>1
    <3>4. data = EntData
        BY <1>1, <1>3, <3>3, DataAreTyped DEF Entities
    <3> HIDE DEF data
    <3> QED
        BY <1>1, <3>1, <3>2, <3>4 DEF Shapes, LoadIsFresh
  <2>2. CASE OfDevice(d) # {}
    <3>1. ents' = Saved(ents, data, ok)
        BY <1>2, <2>2 DEF DeleteEntities, EntData
    <3> HIDE DEF data
    <3> QED
        BY <1>1, <1>3, <3>1, EntitiesOfOneSaved
  <2> QED
      BY <2>1, <2>2
<1>5. /\ UNCHANGED <<devs, loop, restoring>>
      /\ deleting' = IF ok THEN [at |-> "cleared", device |-> d] ELSE [at |-> "idle"]
      /\ shown' = [e \in ENTITY |->
             IF ok /\ e \in deleting.entities THEN None ELSE shown[e]]
      /\ past'.edits = edits /\ DOMAIN past' = DOMAIN past /\ past'.torn = Torn(d, ok)
    BY <1>1, <1>2 DEF DeleteEntities, Shapes
<1>6. /\ edits \in [ENTITY \cup DEVICE -> EDIT \cup {None}]
      /\ \A e \in ENTITY : edits[e] = IF DeviceOf(e) = d THEN None ELSE past.edits[e]
      /\ \A k \in DEVICE : edits[k] = past.edits[k]
  <2>1. \A k \in DEVICE : k \notin ENTITY
      BY EntitiesAssumption
  <2> QED
      BY <1>1, <2>1 DEF Shapes
<1> HIDE DEF data, edits
<1>7. past.torn \subseteq past'.torn /\ past'.torn \subseteq past.torn \cup {d}
      /\ (~ok => d \in past'.torn)
    BY <1>5 DEF Torn
<1>8. DevData' = DevData /\ devs'.file = devs.file
    BY <1>5 DEF DevData, Data
<1>9. Shapes'
    BY <1>1, <1>2, <1>4, <1>5, <1>6, <1>7 DEF Shapes, LoadIsFresh, Serving
<1>10. deleting'.at # "idle" => deleting'.device = d
    BY <1>5
<1>11. OnlyOf(d)
    BY <1>1, <1>4, <1>5, <1>6, <1>7, <1>8, <1>10 DEF OnlyOf
<1>12. ASSUME d \notin past'.torn
       PROVE  WholeDevice(d)' /\ \A e \in ENTITY : DeviceOf(e) = d => WholeEntity(e)'
  <2>1. d \notin past.torn /\ ok
      BY <1>7, <1>12
  <2>2. WholeDevice(d)
      BY <2>1 DEF RecordsInv, Whole
  <2>3. WholeDevice(d)'
      BY <1>1, <1>5, <1>6, <1>8, <2>2 DEF WholeDevice
  <2>4. ASSUME NEW e \in ENTITY, DeviceOf(e) = d
        PROVE  WholeEntity(e)'
    <3>1. WholeEntity(e)
        BY <2>1, <2>4 DEF RecordsInv, Whole
    <3>2. EntData'[e] = None /\ edits[e] = None
        BY <1>3, <1>4, <1>6, <2>4
    <3>3. SameEdit(EntData'[e], ents'.file[e])
        BY <1>4, <2>1, <3>1, <3>2 DEF SameEdit, WholeEntity, EntData, Data
    <3>4. shown'[e] = None
        BY <1>1, <1>2, <1>5, <2>1, <2>4, <3>1 DEF WholeEntity
    <3> QED
        BY <1>1, <1>5, <2>1, <2>4, <3>2, <3>3, <3>4 DEF WholeEntity, Honest, Serving
  <2> QED
      BY <2>3, <2>4
<1> QED
    BY <1>9, <1>11, <1>12, OthersStayWhole

\* The device goes last: it has no entities left, unless it is torn.
LEMMA DeletingKeepsRecords ==
    ASSUME RecordsInv, NEW ok \in BOOLEAN, DeleteDevice(ok)
    PROVE  RecordsInv'
<1>1. Shapes /\ deleting.at = "cleared" /\ deleting.device \in DEVICE /\ Serving
    BY DEF RecordsInv, DeleteDevice, Shapes
<1>2. PICK d \in DEVICE : d = deleting.device
    BY <1>1
<1>3. /\ UNCHANGED <<ents, shown, loop, restoring>> /\ deleting' = [at |-> "idle"]
      /\ past'.edits = [past.edits EXCEPT ![d] = None]
      /\ DOMAIN past' = DOMAIN past /\ past'.torn = Torn(d, ok)
    BY <1>1, <1>2 DEF DeleteDevice, Shapes
<1>4. /\ devs' \in DevStore /\ LoadIsFresh(devs)'
      /\ DevData'[d] = None /\ \A k \in DEVICE \ {d} : DevData'[k] = DevData[k]
      /\ ok => \/ devs'.file = DevData'
               \/ devs'.file = devs.file /\ DevData' = DevData
      /\ \A k \in DEVICE \ {d} : devs'.file[k] \in {DevData[k], devs.file[k]}
  <2>1. CASE DevData[d] # None
    <3>1. devs' = Saved(devs, [DevData EXCEPT ![d] = None], ok)
        BY <1>1, <1>2, <2>1, DataAreTyped DEF DeleteDevice, DevData
    <3> QED
        BY <1>1, <3>1, OneDeviceSaved
  <2>2. CASE DevData[d] = None
    <3>1. devs' = [devs EXCEPT !.cache = DevData]
        BY <1>1, <1>2, <2>2, DataAreTyped DEF DeleteDevice, DevData
    <3>2. DevData \in Devices /\ DevData # None
        BY <1>1, DataAreTyped, RecordsAreSome
    <3>3. /\ devs' \in DevStore /\ devs'.cache = DevData /\ devs'.file = devs.file
        BY <1>1, <3>1, <3>2 DEF Shapes, DevStore
    <3>4. LoadIsFresh(devs)' /\ DevData' = DevData
        BY <3>2, <3>3 DEF LoadIsFresh, DevData, Data
    <3> QED
        BY <2>2, <3>3, <3>4
  <2> QED
      BY <2>1, <2>2
<1>5. EntData' = EntData /\ ents'.file = ents.file
    BY <1>3 DEF EntData, Data
<1>6. /\ past'.edits \in [ENTITY \cup DEVICE -> EDIT \cup {None}]
      /\ past'.edits[d] = None
      /\ \A k \in DEVICE \ {d} : past'.edits[k] = past.edits[k]
      /\ \A e \in ENTITY : past'.edits[e] = past.edits[e]
  <2>1. d \notin ENTITY
      BY EntitiesAssumption
  <2> QED
      BY <1>1, <1>3, <2>1 DEF Shapes
<1>7. past.torn \subseteq past'.torn /\ past'.torn \subseteq past.torn \cup {d}
      /\ (~ok => d \in past'.torn)
    BY <1>3 DEF Torn
<1>8. Shapes'
    BY <1>1, <1>3, <1>4, <1>6, <1>7 DEF Shapes, LoadIsFresh, Serving
<1>9. OnlyOf(d)
    BY <1>3, <1>4, <1>5, <1>6, <1>7 DEF OnlyOf
<1>10. ASSUME d \notin past'.torn
       PROVE  WholeDevice(d)' /\ \A e \in ENTITY : DeviceOf(e) = d => WholeEntity(e)'
  <2>1. d \notin past.torn /\ ok
      BY <1>7, <1>10
  <2>2. WholeDevice(d)
      BY <2>1 DEF RecordsInv, Whole
  <2>3. WholeDevice(d)'
      BY <1>1, <1>3, <1>4, <1>6, <2>1, <2>2 DEF WholeDevice, SameEdit, Honest
  <2>4. ASSUME NEW e \in ENTITY, DeviceOf(e) = d
        PROVE  WholeEntity(e)'
    <3>1. WholeEntity(e)
        BY <2>1, <2>4 DEF RecordsInv, Whole
    <3>2. EntData[e] = None
        BY <1>1, <1>2, <2>4, <3>1 DEF WholeEntity
    <3> QED
        BY <1>3, <1>5, <1>6, <2>4, <3>1, <3>2 DEF WholeEntity
  <2> QED
      BY <2>3, <2>4
<1> QED
    BY <1>8, <1>9, <1>10, OthersStayWhole

\* api_zigbee_device_rename and the user's fields of a device.
LEMMA EditingDevicesKeepsRecords ==
    ASSUME RecordsInv, NEW d \in DEVICE, NEW edit \in EDIT, NEW ok \in BOOLEAN,
           EditDevice(d, edit, ok)
    PROVE  RecordsInv'
<1>1. Shapes /\ DevData[d] # None
    BY DataAreTyped DEF RecordsInv, EditDevice
<1>2. /\ UNCHANGED <<ents, shown, loop, restoring, deleting>>
      /\ past'.edits = [past.edits EXCEPT ![d] = edit]
      /\ DOMAIN past' = DOMAIN past /\ past'.torn = Torn(d, ok)
    BY <1>1 DEF EditDevice, Shapes, tasks
<1> DEFINE rec == [DevData[d] EXCEPT !.edit = edit]
<1>3. rec \in DeviceRecord /\ rec.edit = edit /\ rec # None
    BY <1>1, DataAreTyped, RecordsAreSome DEF Devices, DeviceRecord
<1>4. devs' = Saved(devs, [DevData EXCEPT ![d] = rec], ok)
    BY <1>1 DEF EditDevice, DevData
<1> HIDE DEF rec
<1>5. /\ devs' \in DevStore /\ LoadIsFresh(devs)'
      /\ DevData'[d] = rec /\ \A k \in DEVICE \ {d} : DevData'[k] = DevData[k]
      /\ ok => devs'.file = DevData'
      /\ \A k \in DEVICE \ {d} : devs'.file[k] \in {DevData[k], devs.file[k]}
    BY <1>1, <1>3, <1>4, OneDeviceSaved
<1>6. EntData' = EntData /\ ents'.file = ents.file
    BY <1>2 DEF EntData, Data
<1>7. /\ past'.edits \in [ENTITY \cup DEVICE -> EDIT \cup {None}]
      /\ past'.edits[d] = edit
      /\ \A k \in DEVICE \ {d} : past'.edits[k] = past.edits[k]
      /\ \A e \in ENTITY : past'.edits[e] = past.edits[e]
  <2>1. d \notin ENTITY
      BY EntitiesAssumption
  <2> QED
      BY <1>1, <1>2, <2>1 DEF Shapes
<1>8. past.torn \subseteq past'.torn /\ past'.torn \subseteq past.torn \cup {d}
      /\ (~ok => d \in past'.torn)
    BY <1>2 DEF Torn
<1>9. Shapes'
    BY <1>1, <1>2, <1>5, <1>7, <1>8 DEF Shapes, LoadIsFresh, Serving
<1>10. OnlyOf(d)
    BY <1>2, <1>5, <1>6, <1>7, <1>8 DEF OnlyOf
<1>11. ASSUME d \notin past'.torn
       PROVE  WholeDevice(d)' /\ \A e \in ENTITY : DeviceOf(e) = d => WholeEntity(e)'
  <2>1. d \notin past.torn /\ ok
      BY <1>8, <1>11
  <2>2. WholeDevice(d)
      BY <2>1 DEF RecordsInv, Whole
  <2>3. WholeDevice(d)'
      BY <1>2, <1>3, <1>5, <1>7, <2>1, <2>2 DEF WholeDevice, SameEdit, Honest
  <2>4. ASSUME NEW e \in ENTITY, DeviceOf(e) = d
        PROVE  WholeEntity(e)'
    <3>1. WholeEntity(e)
        BY <2>1, <2>4 DEF RecordsInv, Whole
    <3> QED
        BY <1>2, <1>3, <1>5, <1>6, <1>7, <2>4, <3>1 DEF WholeEntity
  <2> QED
      BY <2>3, <2>4
<1> QED
    BY <1>9, <1>10, <1>11, OthersStayWhole

\* api_zigbee_entity_update, from the table of a device or the entity's page.
LEMMA EditingEntitiesKeepsRecords ==
    ASSUME RecordsInv, NEW x \in ENTITY, NEW edit \in EDIT, NEW ok \in BOOLEAN,
           \/ x \in Known(ents) /\ EditEntity(x, edit, ok)
           \/ \E look \in LOOK : EditEntityByForm(x, edit, look, ok)
    PROVE  RecordsInv'
<1>1. Shapes /\ EntData[x] # None /\ EntData[x] \in EntityRecord
    BY DataAreTyped DEF RecordsInv, EditEntity, EditEntityByForm, StoreEditEntity, Entities
<1>2. PICK look \in LOOK : StoreEditEntity(x, edit, look, ok)
    BY <1>1 DEF EditEntity, EditEntityByForm, EntityRecord, EntData
<1>3. PICK d \in DEVICE : d = DeviceOf(x)
    BY EntitiesAreOfDevices
<1>4. /\ UNCHANGED <<devs, shown, loop, restoring, deleting>>
      /\ past'.edits = [past.edits EXCEPT ![x] = edit]
      /\ DOMAIN past' = DOMAIN past /\ past'.torn = Torn(d, ok)
    BY <1>1, <1>2, <1>3 DEF StoreEditEntity, Shapes, tasks
<1> DEFINE data == [EntData EXCEPT ![x].edit = edit, ![x].look = look]
<1>5. /\ data \in Entities /\ data[x] # None /\ data[x].edit = edit
      /\ \A e \in ENTITY \ {x} : data[e] = EntData[e]
  <2>1. [[EntData[x] EXCEPT !.edit = edit] EXCEPT !.look = look] \in EntityRecord
        /\ [[EntData[x] EXCEPT !.edit = edit] EXCEPT !.look = look].edit = edit
      BY <1>1 DEF EntityRecord
  <2>2. EntData \in [ENTITY -> EntityRecord \cup {None}]
      BY <1>1, DataAreTyped DEF Entities
  <2> QED
      BY <2>1, <2>2, RecordsAreSome DEF Entities
<1>6. ents' = Saved(ents, data, ok)
    BY <1>2 DEF StoreEditEntity, EntData
<1> HIDE DEF data
<1>7. /\ ents' \in EntStore /\ LoadIsFresh(ents)' /\ EntData' = data
      /\ ents'.file = IF ok THEN data ELSE ents.file
    BY <1>1, <1>5, <1>6, EntitiesSaved DEF Shapes
<1>8. DevData' = DevData /\ devs'.file = devs.file
    BY <1>4 DEF DevData, Data
<1>9. /\ past'.edits \in [ENTITY \cup DEVICE -> EDIT \cup {None}]
      /\ past'.edits[x] = edit
      /\ \A k \in DEVICE : past'.edits[k] = past.edits[k]
      /\ \A e \in ENTITY \ {x} : past'.edits[e] = past.edits[e]
  <2>1. \A k \in DEVICE : k # x
      BY EntitiesAssumption
  <2> QED
      BY <1>1, <1>4, <2>1 DEF Shapes
<1>10. past.torn \subseteq past'.torn /\ past'.torn \subseteq past.torn \cup {d}
       /\ (~ok => d \in past'.torn)
    BY <1>4 DEF Torn
<1>11. Shapes'
    BY <1>1, <1>4, <1>7, <1>9, <1>10 DEF Shapes, LoadIsFresh, Serving
<1>12. OnlyOf(d)
    BY <1>3, <1>4, <1>5, <1>7, <1>8, <1>9, <1>10 DEF OnlyOf
<1>13. ASSUME d \notin past'.torn
       PROVE  WholeDevice(d)' /\ \A e \in ENTITY : DeviceOf(e) = d => WholeEntity(e)'
  <2>1. d \notin past.torn /\ ok
      BY <1>10, <1>13
  <2>2. WholeDevice(d)
      BY <2>1 DEF RecordsInv, Whole
  <2>3. WholeDevice(d)'
      BY <1>4, <1>8, <1>9, <2>2 DEF WholeDevice
  <2>4. ASSUME NEW e \in ENTITY, DeviceOf(e) = d
        PROVE  WholeEntity(e)'
    <3>1. WholeEntity(e) /\ SameEdit(EntData'[e], ents'.file[e])
        BY <1>7, <2>1, <2>4 DEF RecordsInv, Whole, SameEdit
    <3>2. CASE e = x
        BY <1>1, <1>4, <1>5, <1>7, <1>8, <1>9, <2>4, <3>1, <3>2 DEF WholeEntity, Honest
    <3>3. CASE e # x
        BY <1>4, <1>5, <1>7, <1>8, <1>9, <2>4, <3>1, <3>3 DEF WholeEntity
    <3> QED
        BY <3>2, <3>3
  <2> QED
      BY <2>3, <2>4
<1> QED
    BY <1>11, <1>12, <1>13, OthersStayWhole

\* Every device is torn when a first load overtakes a change.
LEMMA AllTornIsWhole ==
    ASSUME Shapes', past'.torn = DEVICE
    PROVE  RecordsInv'
BY EntitiesAreOfDevices DEF RecordsInv, Whole

\* ensure_loaded reads the file and fills the cache in two steps.
LEMMA LoadingKeepsRecords ==
    ASSUME RecordsInv, LoadDevices \/ LoadEntities
    PROVE  RecordsInv'
<1>1. Shapes
    BY DEF RecordsInv
<1>2. /\ UNCHANGED <<shown, loop, restoring, deleting>>
      /\ past'.edits = past.edits /\ DOMAIN past' = DOMAIN past
      /\ past' = past \/ past'.torn = DEVICE
    BY <1>1 DEF LoadDevices, LoadEntities, tasks, Shapes
<1>3. CASE LoadDevices
  <2>1. devs.file \in Devices /\ devs.file # None
      BY <1>1, DataAreTyped, RecordsAreSome
  <2>2. ents' = ents /\ EntData' = EntData
      BY <1>3 DEF LoadDevices, EntData, Data
  <2>3. /\ devs' \in DevStore /\ LoadIsFresh(devs)' /\ devs'.file = devs.file
        /\ DevData' = DevData \/ past'.torn = DEVICE
    <3>1. CASE BeginLoad(devs) /\ devs' = Loading(devs)
      <4>1. devs' \in DevStore /\ devs'.file = devs.file /\ devs'.cache = None
            /\ devs'.loading = devs.file /\ devs.cache = None
          BY <1>1, <2>1, <3>1 DEF Shapes, DevStore, BeginLoad, Loading
      <4> QED
          BY <4>1 DEF LoadIsFresh, DevData, Data
    <3>2. CASE devs.loading # None /\ devs' = Filled(devs)
      <4>1. devs' \in DevStore /\ devs'.file = devs.file /\ devs'.cache = devs.loading
            /\ devs'.loading = None
          BY <1>1, <2>1, <3>2 DEF Shapes, DevStore, Filled
      <4>2. devs.cache \notin {None, devs.loading} => past'.torn = DEVICE
          BY <1>1, <1>3, <3>2 DEF LoadDevices, Shapes, BeginLoad
      <4> QED
          BY <1>1, <3>2, <4>1, <4>2 DEF LoadIsFresh, DevData, Data, Shapes
    <3> QED
        BY <1>3, <3>1, <3>2 DEF LoadDevices
  <2>4. Shapes'
      BY <1>1, <1>2, <2>2, <2>3 DEF Shapes, LoadIsFresh, Serving
  <2>5. CASE past'.torn = DEVICE
      BY <2>4, <2>5, AllTornIsWhole
  <2>6. CASE past' = past /\ DevData' = DevData
    <3>1. \A k \in DEVICE : WholeDevice(k) => WholeDevice(k)'
        BY <1>2, <2>3, <2>6 DEF WholeDevice
    <3>2. \A e \in ENTITY : WholeEntity(e) => WholeEntity(e)'
        BY <1>2, <2>2, <2>6 DEF WholeEntity
    <3> QED
        BY <2>4, <2>6, <3>1, <3>2 DEF RecordsInv, Whole
  <2> QED
      BY <1>2, <2>3, <2>5, <2>6
<1>4. CASE LoadEntities
  <2>1. ents.file \in Entities /\ ents.file # None
      BY <1>1, DataAreTyped, RecordsAreSome
  <2>2. devs' = devs /\ DevData' = DevData
      BY <1>4 DEF LoadEntities, DevData, Data
  <2>3. /\ ents' \in EntStore /\ LoadIsFresh(ents)' /\ ents'.file = ents.file
        /\ EntData' = EntData \/ past'.torn = DEVICE
    <3>1. CASE BeginLoad(ents) /\ ents' = Loading(ents)
      <4>1. ents' \in EntStore /\ ents'.file = ents.file /\ ents'.cache = None
            /\ ents'.loading = ents.file /\ ents.cache = None
          BY <1>1, <2>1, <3>1 DEF Shapes, EntStore, BeginLoad, Loading
      <4> QED
          BY <4>1 DEF LoadIsFresh, EntData, Data
    <3>2. CASE ents.loading # None /\ ents' = Filled(ents)
      <4>1. ents' \in EntStore /\ ents'.file = ents.file /\ ents'.cache = ents.loading
            /\ ents'.loading = None
          BY <1>1, <2>1, <3>2 DEF Shapes, EntStore, Filled
      <4>2. ents.cache \notin {None, ents.loading} => past'.torn = DEVICE
          BY <1>1, <1>4, <3>2 DEF LoadEntities, Shapes, BeginLoad
      <4> QED
          BY <1>1, <3>2, <4>1, <4>2 DEF LoadIsFresh, EntData, Data, Shapes
    <3> QED
        BY <1>4, <3>1, <3>2 DEF LoadEntities
  <2>4. Shapes'
      BY <1>1, <1>2, <2>2, <2>3 DEF Shapes, LoadIsFresh, Serving
  <2>5. CASE past'.torn = DEVICE
      BY <2>4, <2>5, AllTornIsWhole
  <2>6. CASE past' = past /\ EntData' = EntData
    <3>1. \A k \in DEVICE : WholeDevice(k) => WholeDevice(k)'
        BY <1>2, <2>2, <2>6 DEF WholeDevice
    <3>2. \A e \in ENTITY : WholeEntity(e) => WholeEntity(e)'
        BY <1>2, <2>2, <2>3, <2>6 DEF WholeEntity
    <3> QED
        BY <2>4, <2>6, <3>1, <3>2 DEF RecordsInv, Whole
  <2> QED
      BY <1>2, <2>3, <2>5, <2>6
<1> QED
    BY <1>3, <1>4

\* After a restart the stores hold what their files do.
LEMMA RestartingKeepsRecords ==
    ASSUME RecordsInv, Restart
    PROVE  RecordsInv'
<1>1. Shapes
    BY DEF RecordsInv
<1>2. /\ loop' = [at |-> "idle"] /\ restoring' = [at |-> "start"] /\ deleting' = [at |-> "idle"]
      /\ shown' = Empty(ENTITY)
      /\ past'.edits = past.edits /\ past'.torn = past.torn /\ DOMAIN past' = DOMAIN past
    BY <1>1 DEF Restart, Shapes
<1>3. /\ devs' \in DevStore /\ devs'.cache = None /\ devs'.loading = None
      /\ devs'.file = devs.file
      /\ ents' \in EntStore /\ ents'.cache = None /\ ents'.loading = None
      /\ ents'.file = ents.file
    BY <1>1 DEF Restart, Shapes, DevStore, EntStore
<1>4. /\ LoadIsFresh(devs)' /\ DevData' = devs.file
      /\ LoadIsFresh(ents)' /\ EntData' = ents.file
    BY <1>3 DEF LoadIsFresh, DevData, EntData, Data
<1>5. \A e \in ENTITY : shown'[e] = None
    BY <1>2 DEF Empty
<1>6. Shapes'
    BY <1>1, <1>2, <1>3, <1>4 DEF Shapes, Empty, Serving
<1>7. ASSUME NEW k \in DEVICE \ past'.torn
      PROVE  WholeDevice(k)'
  <2>1. WholeDevice(k)
      BY <1>2, <1>7 DEF RecordsInv, Whole
  <2> QED
      BY <1>2, <1>3, <1>4, <2>1 DEF WholeDevice, SameEdit, Honest
<1>8. ASSUME NEW e \in ENTITY, DeviceOf(e) \notin past'.torn
      PROVE  WholeEntity(e)'
  <2>1. WholeEntity(e) /\ WholeDevice(DeviceOf(e))
      BY <1>2, <1>8, EntitiesAreOfDevices DEF RecordsInv, Whole
  <2> QED
      BY <1>2, <1>3, <1>4, <1>5, <2>1 DEF WholeEntity, WholeDevice, SameEdit, Honest
<1> QED
    BY <1>6, <1>7, <1>8 DEF RecordsInv, Whole

\* The database is no part of the stores.
LEMMA RecordsUnchanged ==
    ASSUME RecordsInv, UNCHANGED <<stores, shown, tasks, past>>
    PROVE  RecordsInv'
<1>1. UNCHANGED <<devs, ents, shown, loop, restoring, deleting, past>>
    BY DEF stores, tasks
<1>2. Shapes'
    BY <1>1 DEF RecordsInv, Shapes, LoadIsFresh, Serving
<1> QED
    BY <1>1, <1>2, ReadingIsSafe DEF RecordsInv

\* A hub without Zigbee devices satisfies the invariant of the records.
LEMMA RecordsInitially == Init => RecordsInv
<1> SUFFICES ASSUME Init PROVE RecordsInv
    OBVIOUS
<1>1. /\ devs.cache = None /\ devs.file = Empty(DEVICE) /\ devs.loading = None
      /\ ents.cache = None /\ ents.file = Empty(ENTITY) /\ ents.loading = None
      /\ devs \in DevStore /\ ents \in EntStore
    BY RecordsAreSome DEF Init, DevStore, EntStore
<1>2. /\ DevData = Empty(DEVICE) /\ EntData = Empty(ENTITY)
      /\ \A d \in DEVICE : Empty(DEVICE)[d] = None
      /\ \A e \in ENTITY : Empty(ENTITY)[e] = None
    BY <1>1 DEF DevData, EntData, Data, Empty
<1>3. /\ past.torn = {} /\ past.edits = Empty(ENTITY \cup DEVICE)
      /\ DOMAIN past = {"pushed", "sampled", "raced", "torn", "edits"}
    BY DEF Init
<1>4. /\ Empty(ENTITY \cup DEVICE) \in [ENTITY \cup DEVICE -> EDIT \cup {None}]
      /\ \A k \in ENTITY \cup DEVICE : past.edits[k] = None
    BY <1>3 DEF Empty
<1>5. shown = Empty(ENTITY) /\ loop.at = "idle" /\ restoring.at = "start" /\ deleting.at = "idle"
    BY DEF Init
<1>6. Shapes
    BY <1>1, <1>3, <1>4, <1>5 DEF Shapes, LoadIsFresh, Empty
<1>7. \A d \in DEVICE : WholeDevice(d)
    BY <1>1, <1>2, <1>4, <1>5 DEF WholeDevice, SameEdit, Honest
<1>8. \A e \in ENTITY : WholeEntity(e)
    BY <1>1, <1>2, <1>4, <1>5 DEF WholeEntity, SameEdit, Honest
<1> QED
    BY <1>6, <1>7, <1>8 DEF RecordsInv, Whole

\* No step of the loop, the restoration, a request or a restart harms a record.
LEMMA RecordsStep ==
    ASSUME RecordsInv, [Next]_vars
    PROVE  RecordsInv'
<1>1. CASE Next
  <2>1. CASE LoadDevices \/ LoadEntities
      BY <2>1, LoadingKeepsRecords
  <2>2. CASE Bridge
    <3>1. PICK d \in DEVICE :
              \/ DeviceLeft(d) \/ \E raw \in REPORT : StateChanged(d, raw)
              \/ \E ok \in BOOLEAN : \/ DeviceJoined(d, ok)
                                    \/ \E c \in CLUSTERS, raw \in CACHED :
                                          InterviewComplete(d, c, raw, ok)
        BY <2>2 DEF Bridge
    <3>2. CASE DeviceLeft(d) \/ \E raw \in REPORT : StateChanged(d, raw)
        BY <3>2, ReportsKeepRecords
    <3>3. ASSUME NEW ok \in BOOLEAN,
                 \/ DeviceJoined(d, ok)
                 \/ \E c \in CLUSTERS, raw \in CACHED : InterviewComplete(d, c, raw, ok)
          PROVE  RecordsInv'
        BY <3>3, InterviewsKeepRecords
    <3> QED
        BY <3>1, <3>2, <3>3
  <2>3. CASE \E ok \in BOOLEAN : Register(ok) \/ Touch(ok)
      BY <2>3, RegisteringKeepsRecords, TouchingKeepsRecords
  <2>4. CASE Disconnect
      BY <2>4, ReportsKeepRecords
  <2>5. CASE RestoreLists \/ RestoreQueries \/ RestoreWrites
      BY <2>5, RestoringKeepsRecords
  <2>6. CASE Requests
      BY <2>6, ListingKeepsRecords, EditingDevicesKeepsRecords, EditingEntitiesKeepsRecords,
         ClearingKeepsRecords, DeletingKeepsRecords DEF Requests
  <2>7. CASE Database
      BY <2>7, RecordsUnchanged DEF Database
  <2>8. CASE Restart
      BY <2>8, RestartingKeepsRecords
  <2> QED
      BY <1>1, <2>1, <2>2, <2>3, <2>4, <2>5, <2>6, <2>7, <2>8 DEF Next
<1>2. CASE UNCHANGED vars
    BY <1>2, RecordsUnchanged DEF vars
<1> QED
    BY <1>1, <1>2
-----------------------------------------------------------------------------
(* The readings: history_store.rs. *)

Reading == [ts : Nat, value : Nat]
Job == [kind : {"row", "stat"}, entity : SENSOR, reading : Reading]

(* A ring buffer holds no more than it may, or the one reading of capacity 0. *)
RingFits(buffer) == Len(buffer) <= CAPACITY \/ (CAPACITY = 0 /\ Len(buffer) = 1)
Buffers == {buffer \in Seq(Reading) : RingFits(buffer)}

InOrder(table) == \A i, j \in DOMAIN table : i <= j => table[i].ts <= table[j].ts
Tables == {table \in Seq(Reading) : InOrder(table)}

(* What waits to be written was sampled by this process. *)
JobsAreSampled == \A i \in DOMAIN jobs : jobs[i].entity \in past.sampled

HistoryInv ==
    /\ now \in Nat
    /\ ring \in [SENSOR -> Buffers]
    /\ rows \in [SENSOR -> Tables]
    /\ jobs \in Seq(Job)
    /\ JobsAreSampled

\* RingBuffer.push keeps the capacity.
LEMMA PushFits ==
    ASSUME NEW buffer \in Buffers, NEW r \in Reading
    PROVE  PushReading(buffer, r) \in Buffers
<1>1. CAPACITY \in Nat /\ Len(buffer) \in Nat
    BY HistoryStoreAssumption DEF Buffers
<1>2. CASE Len(buffer) >= CAPACITY /\ buffer # << >>
  <2>1. Tail(buffer) \in Seq(Reading) /\ Len(Tail(buffer)) = Len(buffer) - 1
      BY <1>2 DEF Buffers
  <2>2. PushReading(buffer, r) = Append(Tail(buffer), r)
      BY <1>2 DEF PushReading
  <2>3. PushReading(buffer, r) \in Seq(Reading) /\ Len(PushReading(buffer, r)) = Len(buffer)
      BY <1>1, <2>1, <2>2
  <2> QED
      BY <2>3 DEF Buffers, RingFits
<1>3. CASE ~(Len(buffer) >= CAPACITY /\ buffer # << >>)
  <2>1. PushReading(buffer, r) = Append(buffer, r)
      BY <1>3 DEF PushReading
  <2>2. PushReading(buffer, r) \in Seq(Reading) /\ Len(PushReading(buffer, r)) = Len(buffer) + 1
      BY <2>1 DEF Buffers
  <2>3. Len(buffer) < CAPACITY \/ (Len(buffer) = 0 /\ CAPACITY = 0)
    <3>1. buffer = << >> => Len(buffer) = 0
        OBVIOUS
    <3> QED
        BY <1>1, <1>3, <3>1
  <2> QED
      BY <1>1, <2>2, <2>3 DEF Buffers, RingFits
<1> QED
    BY <1>2, <1>3

\* The recursive function in Warmed exists and is what its equation says.
LEMMA WarmedUnfolds ==
    ASSUME NEW table \in Seq(Reading)
    PROVE  \E buffer :
              /\ Warmed(table) = buffer[Len(table)] /\ buffer[0] = << >>
              /\ \A n \in 1..Len(table) : buffer[n] = PushReading(buffer[n - 1], table[n])
<1> DEFINE L == Len(table)
           F == [n \in 1..L |-> [b \in Buffers |-> PushReading(b, table[n])]]
           Eqn(u) == u = [n \in 0..L |->
                             IF n = 0 THEN << >> ELSE PushReading(u[n - 1], table[n])]
           buffer == CHOOSE u : Eqn(u)
<1>1. L \in Nat /\ L \in 0..L /\ \A n \in 1..L : table[n] \in Reading
    OBVIOUS
<1>2. << >> \in Buffers
  <2>1. << >> \in Seq(Reading) /\ Len(<< >>) = 0
      OBVIOUS
  <2> QED
      BY <2>1, HistoryStoreAssumption DEF Buffers, RingFits
<1>3. \A b \in Buffers, n \in 1..L : PushReading(b, table[n]) \in Buffers
    BY <1>1, PushFits
<1>4. /\ F \in [1..L -> [Buffers -> Buffers]]
      /\ \A b \in Buffers, n \in 1..L : F[n][b] = PushReading(b, table[n])
    BY <1>3
<1> HIDE DEF F, L
<1>5. PICK g : Recurs(g, Buffers, << >>, L, F)
    BY <1>1, <1>2, <1>4, StepsExist
<1>6. Eqn(g)
  <2> DEFINE e == [n \in 0..L |-> IF n = 0 THEN << >> ELSE PushReading(g[n - 1], table[n])]
  <2>1. ASSUME NEW n \in 0..L
        PROVE  g[n] = e[n]
    <3>1. CASE n = 0
        BY <1>5, <3>1 DEF Recurs
    <3>2. CASE n # 0
      <4>1. n \in 1..L /\ g[n - 1] \in Buffers
          BY <1>1, <1>5, <3>2 DEF Recurs
      <4>2. g[n] = PushReading(g[n - 1], table[n])
          BY <1>4, <1>5, <4>1 DEF Recurs
      <4> QED
          BY <3>2, <4>2
    <3> QED
        BY <3>1, <3>2
  <2>2. g = [n \in 0..L |-> g[n]]
      BY <1>5 DEF Recurs
  <2> QED
      BY <2>1, <2>2
<1>7. Eqn(buffer)
  <2> HIDE DEF Eqn
  <2> QED
      BY <1>6
<1>8. Warmed(table) = buffer[L]
    BY DEF Warmed, L
<1> HIDE DEF buffer
<1>9. buffer[0] = << >> /\ \A n \in 1..L : buffer[n] = PushReading(buffer[n - 1], table[n])
  <2> DEFINE u == buffer
  <2>1. Eqn(u)
      BY <1>7
  <2> HIDE DEF u
  <2>2. \A n \in 0..L : u[n] = IF n = 0 THEN << >> ELSE PushReading(u[n - 1], table[n])
      BY <2>1
  <2>3. 0 \in 0..L /\ \A n \in 1..L : n \in 0..L /\ n # 0
      BY <1>1
  <2> QED
      BY <2>2, <2>3 DEF u
<1> QED
    BY <1>1, <1>8, <1>9 DEF L

\* try_open: a buffer filled from the table keeps the capacity too.
LEMMA WarmedFits ==
    ASSUME NEW table \in Seq(Reading)
    PROVE  Warmed(table) \in Buffers
<1> DEFINE L == Len(table)
<1>1. L \in Nat /\ L \in 0..L /\ \A n \in 1..L : table[n] \in Reading
    OBVIOUS
<1>2. << >> \in Buffers
  <2>1. << >> \in Seq(Reading) /\ Len(<< >>) = 0
      OBVIOUS
  <2> QED
      BY <2>1, HistoryStoreAssumption DEF Buffers, RingFits
<1>3. \A b \in Buffers, n \in 1..L : PushReading(b, table[n]) \in Buffers
    BY <1>1, PushFits
<1>4. PICK buffer :
          /\ Warmed(table) = buffer[L] /\ buffer[0] = << >>
          /\ \A n \in 1..L : buffer[n] = PushReading(buffer[n - 1], table[n])
    BY WarmedUnfolds
<1> HIDE DEF L
<1>5. \A n \in 1..L : buffer[n - 1] \in Buffers => buffer[n] \in Buffers
    BY <1>3, <1>4
<1>6. \A n \in 0..L : buffer[n] \in Buffers
    BY <1>1, <1>2, <1>4, <1>5, StaysIn
<1> QED
    BY <1>1, <1>4, <1>6

\* The length and the elements of two sequences after one another.
LEMMA Joined ==
    ASSUME NEW T, NEW a \in Seq(T), NEW b \in Seq(T)
    PROVE  /\ a \o b \in Seq(T) /\ Len(a \o b) = Len(a) + Len(b)
           /\ DOMAIN (a \o b) = 1..(Len(a) + Len(b))
           /\ \A i \in 1..Len(a) : (a \o b)[i] = a[i]
           /\ \A i \in (Len(a) + 1)..(Len(a) + Len(b)) :
                 (a \o b)[i] = b[i - Len(a)] /\ i - Len(a) \in 1..Len(b)
<1>1. a \o b \in Seq(T) /\ Len(a \o b) = Len(a) + Len(b)
    OBVIOUS
<1>2. DOMAIN (a \o b) = 1..(Len(a) + Len(b))
    BY <1>1
<1>3. \A i \in 1..Len(a) : (a \o b)[i] = a[i]
    OBVIOUS
<1>4. \A i \in (Len(a) + 1)..(Len(a) + Len(b)) :
          (a \o b)[i] = b[i - Len(a)] /\ i - Len(a) \in 1..Len(b)
    OBVIOUS
<1> QED
    BY <1>1, <1>2, <1>3, <1>4

\* INSERT into the table whose index is (entity_id, ts): rows stay in order.
LEMMA InsertKeepsOrder ==
    ASSUME NEW table \in Tables, NEW r \in Reading
    PROVE  Insert(table, r) \in Tables
<1> DEFINE n == Len(table)
           B == {i \in DOMAIN table : table[i].ts <= r.ts}
           k == Cardinality(B)
           front == SubSeq(table, 1, k)
           back == SubSeq(table, k + 1, n)
<1>1. /\ table \in Seq(Reading) /\ n \in Nat /\ DOMAIN table = 1..n
      /\ r.ts \in Nat /\ \A i \in 1..n : table[i] \in Reading /\ table[i].ts \in Nat
  <2>1. table \in Seq(Reading)
      BY DEF Tables
  <2>2. n \in Nat /\ DOMAIN table = 1..n /\ \A i \in 1..n : table[i] \in Reading
      BY <2>1
  <2>3. \A x \in Reading : x.ts \in Nat
      BY DEF Reading
  <2> QED
      BY <2>1, <2>2, <2>3
<1>2. \A i, j \in 1..n : i <= j => table[i].ts <= table[j].ts
    BY <1>1 DEF Tables, InOrder
<1>3. B \in SUBSET (1..n) /\ \A i \in B, j \in 1..n : j <= i => j \in B
    BY <1>1, <1>2
<1>4. k \in 0..n /\ B = 1..k
  <2> HIDE DEF B, n
  <2> QED
      BY <1>1, <1>3, DownwardIsInterval
<1>5. /\ \A i \in 1..k : i \in 1..n /\ table[i].ts <= r.ts
      /\ \A i \in (k + 1)..n : i \in 1..n /\ r.ts <= table[i].ts
  <2>1. \A i \in 1..n : i \in 1..k <=> table[i].ts <= r.ts
      BY <1>1, <1>4
  <2>2. k \in Nat /\ k <= n
      BY <1>1, <1>4
  <2> HIDE DEF B, k, n
  <2> QED
      BY <1>1, <2>1, <2>2
<1>6. Insert(table, r) = (front \o <<r>>) \o back
  <2>1. Insert(table, r) = InsertAt(table, k + 1, r)
      BY DEF Insert
  <2> DEFINE m == k + 1
  <2>2. m - 1 = k
      BY <1>1, <1>4
  <2> HIDE DEF B, k, m
  <2>3. InsertAt(table, m, r) = SubSeq(table, 1, m - 1) \o <<r>> \o SubSeq(table, m, Len(table))
      BY DEF InsertAt
  <2>4. InsertAt(table, m, r) = (SubSeq(table, 1, k) \o <<r>>) \o SubSeq(table, m, Len(table))
      BY <2>2, <2>3
  <2> QED
      BY <2>1, <2>4 DEF m
<1> HIDE DEF B, k
<1>7. /\ front \in Seq(Reading) /\ Len(front) = k /\ \A i \in 1..k : front[i] = table[i]
      /\ back \in Seq(Reading) /\ Len(back) = n - k
      /\ \A i \in 1..(n - k) : back[i] = table[k + i]
  <2>1. table \in Seq(Reading) /\ Len(table) = n /\ n \in Nat /\ k \in Nat /\ k <= n
      BY <1>1, <1>4
  <2> HIDE DEF n
  <2>2. front \in Seq(Reading) /\ Len(front) = k /\ \A i \in 1..k : front[i] = table[i]
      BY <2>1
  <2>3. back \in Seq(Reading) /\ Len(back) = n - k
      BY <2>1
  <2>4. \A i \in 1..(n - k) : back[i] = table[k + i]
      BY <2>1
  <2> QED
      BY <2>2, <2>3, <2>4
<1> HIDE DEF front, back, n
<1>8. /\ front \o <<r>> \in Seq(Reading) /\ Len(front \o <<r>>) = k + 1
      /\ \A i \in 1..k : (front \o <<r>>)[i] = table[i]
      /\ (front \o <<r>>)[k + 1] = r
    BY <1>4, <1>7
<1> DEFINE q == (front \o <<r>>) \o back
           f == front \o <<r>>
<1>9. /\ q \in Seq(Reading) /\ Len(q) = n + 1 /\ DOMAIN q = 1..(n + 1)
      /\ \A i \in 1..k : q[i] = table[i]
      /\ q[k + 1] = r
      /\ \A i \in (k + 2)..(n + 1) : q[i] = table[i - 1]
  <2>1. f \in Seq(Reading) /\ Len(f) = k + 1 /\ q = f \o back /\ n \in Nat /\ k \in 0..n
      BY <1>1, <1>4, <1>8
  <2>2. (\A i \in 1..k : f[i] = table[i]) /\ f[k + 1] = r
      BY <1>8
  <2> HIDE DEF f, q
  <2>3. back \in Seq(Reading) /\ Len(f) + Len(back) = n + 1 /\ Len(f) + 1 = k + 2
      BY <1>7, <2>1
  <2>4. /\ q \in Seq(Reading) /\ Len(q) = n + 1 /\ DOMAIN q = 1..(n + 1)
        /\ \A i \in 1..(k + 1) : q[i] = f[i]
    <3>1. /\ f \o back \in Seq(Reading) /\ Len(f \o back) = Len(f) + Len(back)
          /\ DOMAIN (f \o back) = 1..(Len(f) + Len(back))
          /\ \A i \in 1..Len(f) : (f \o back)[i] = f[i]
        BY <2>1, <2>3, Joined, ZenonT(30)
    <3> QED
        BY <2>1, <2>3, <3>1
  <2>5. \A i \in (k + 2)..(n + 1) : q[i] = back[i - (k + 1)] /\ i - (k + 1) \in 1..(n - k)
    <3>1. \A i \in (Len(f) + 1)..(Len(f) + Len(back)) :
              (f \o back)[i] = back[i - Len(f)] /\ i - Len(f) \in 1..Len(back)
        BY <2>1, <2>3, Joined
    <3> QED
        BY <1>7, <2>1, <2>3, <3>1
  <2>6. \A i \in (k + 2)..(n + 1) : q[i] = table[i - 1]
    <3> TAKE i \in (k + 2)..(n + 1)
    <3>1. q[i] = table[k + (i - (k + 1))]
        BY <1>7, <2>5
    <3>2. k + (i - (k + 1)) = i - 1
        BY <2>1
    <3> QED
        BY <3>1, <3>2
  <2>7. \A i \in 1..k : i \in 1..(k + 1)
      BY <2>1
  <2>8. k + 1 \in 1..(k + 1)
      BY <2>1
  <2> QED
      BY <2>2, <2>4, <2>6, <2>7, <2>8
<1> HIDE DEF q
<1>10. \A i, j \in 1..(n + 1) : i <= j => q[i].ts <= q[j].ts
  <2> SUFFICES ASSUME NEW i \in 1..(n + 1), NEW j \in 1..(n + 1), i <= j
               PROVE  q[i].ts <= q[j].ts
      OBVIOUS
  <2>1. n \in Nat /\ k \in 0..n /\ i \in Nat /\ j \in Nat
      BY <1>1, <1>4
  <2>2. CASE j \in 1..k
    <3>1. i \in 1..k /\ i \in 1..n /\ j \in 1..n
        BY <2>1, <2>2
    <3> QED
        BY <1>2, <1>9, <2>2, <3>1
  <2>3. CASE j = k + 1
    <3>1. i \in 1..k \/ i = k + 1
        BY <2>1, <2>3
    <3> QED
        BY <1>1, <1>5, <1>9, <2>3, <3>1
  <2>4. CASE j \in (k + 2)..(n + 1)
    <3>1. q[j] = table[j - 1] /\ j - 1 \in (k + 1)..n /\ j - 1 \in 1..n
        BY <1>9, <2>1, <2>4
    <3>2. CASE i \in 1..k
      <4>1. q[i] = table[i] /\ i \in 1..n /\ i <= j - 1
          BY <1>9, <2>1, <2>4, <3>2
      <4> QED
          BY <1>2, <3>1, <4>1
    <3>3. CASE i = k + 1
        BY <1>5, <1>9, <3>1, <3>3
    <3>4. CASE i \in (k + 2)..(n + 1)
      <4>1. q[i] = table[i - 1] /\ i - 1 \in 1..n /\ i - 1 <= j - 1
          BY <1>9, <2>1, <3>4
      <4> QED
          BY <1>2, <3>1, <4>1
    <3> QED
        BY <2>1, <3>2, <3>3, <3>4
  <2> QED
      BY <2>1, <2>2, <2>3, <2>4
<1> QED
    BY <1>6, <1>9, <1>10 DEF q, Tables, InOrder

\* Jobs run in any order: taking one out of the queue leaves the others in it.
LEMMA JobTakenOut ==
    ASSUME NEW T, NEW s \in Seq(T), NEW i \in 1..Len(s)
    PROVE  /\ RemoveAt(s, i) \in Seq(T)
           /\ \A j \in DOMAIN RemoveAt(s, i) : \E k \in 1..Len(s) : RemoveAt(s, i)[j] = s[k]
<1> DEFINE front == SubSeq(s, 1, i - 1)
           back == SubSeq(s, i + 1, Len(s))
<1>1. /\ front \in Seq(T) /\ Len(front) = i - 1
      /\ \A j \in 1..(i - 1) : front[j] = s[j] /\ j \in 1..Len(s)
    OBVIOUS
<1>2. back \in Seq(T) /\ Len(back) = Len(s) - i
    OBVIOUS
<1>3. \A j \in 1..(Len(s) - i) : back[j] = s[i + j] /\ i + j \in 1..Len(s)
    OBVIOUS
<1>4. RemoveAt(s, i) = front \o back
    BY DEF RemoveAt
<1> HIDE DEF front, back
<1>5. /\ front \o back \in Seq(T) /\ DOMAIN (front \o back) = 1..(Len(front) + Len(back))
      /\ \A j \in 1..Len(front) : (front \o back)[j] = front[j]
      /\ \A j \in (Len(front) + 1)..(Len(front) + Len(back)) :
            (front \o back)[j] = back[j - Len(front)] /\ j - Len(front) \in 1..Len(back)
  <2>1. front \in Seq(T) /\ back \in Seq(T)
      BY <1>1, <1>2
  <2> QED
      BY ONLY <2>1, Joined
<1>6. \A j \in DOMAIN (front \o back) : \E k \in 1..Len(s) : (front \o back)[j] = s[k]
  <2> TAKE j \in DOMAIN (front \o back)
  <2>1. CASE j \in 1..Len(front)
      BY <1>1, <1>5, <2>1
  <2>2. CASE j \in (Len(front) + 1)..(Len(front) + Len(back))
      BY <1>2, <1>3, <1>5, <2>2
  <2>3. Len(front) \in Nat /\ Len(back) \in Nat /\ j \in 1..(Len(front) + Len(back))
      BY <1>1, <1>2, <1>5
  <2> QED
      BY <2>1, <2>2, <2>3
<1> QED
    BY <1>4, <1>5, <1>6

\* record_sensor_history keeps numbers only.
LEMMA SamplesAreNumbers ==
    ASSUME NEW e, NEW raw, Sample(e, raw) # None
    PROVE  Sample(e, raw) \in Nat
BY DEF Sample

\* record_and_aggregate, for the entities of a handler that have a number.
LEMMA RecordingKeepsHistory ==
    ASSUME HistoryInv, NEW es \in SUBSET ENTITY, NEW raw, RecordAll(es, raw),
           past'.sampled = past.sampled \cup Samples(es, raw)
    PROVE  HistoryInv' /\ rows' = rows
<1> DEFINE D == Samples(es, raw)
           samples == [e \in D |-> Sample(e, raw)]
           reading(e) == [ts |-> now, value |-> samples[e]]
           order == SetToSeq(D)
           queue(kind) == [i \in 1..Len(order) |->
               [kind |-> kind, entity |-> order[i], reading |-> reading(order[i])]]
<1>1. D \subseteq SENSOR /\ IsFiniteSet(D)
    BY EntitiesAreOfDevices, HistoryStoreAssumption, FS_Subset DEF Samples
<1>2. \A e \in D : reading(e) \in Reading
  <2>1. \A e \in D : Sample(e, raw) \in Nat
      BY SamplesAreNumbers DEF Samples
  <2> QED
      BY <2>1 DEF Reading, HistoryInv
<1>3. /\ ring' = [e \in SENSOR |->
             IF e \in D THEN PushReading(ring[e], reading(e)) ELSE ring[e]]
      /\ jobs' = jobs \o (queue("row") \o queue("stat"))
      /\ rows' = rows /\ now' = now
    BY DEF RecordAll, Record
<1> HIDE DEF D
<1>4. order \in Seq(D)
  <2>1. PICK f \in [1..Cardinality(D) -> D] : IsInjective(f)
      BY <1>1, ListsExist DEF IsInjective
  <2>2. order \in [1..Cardinality(D) -> D] /\ Cardinality(D) \in Nat
      BY <1>1, <2>1, ListsExist DEF SetToSeq
  <2> HIDE DEF order
  <2> QED
      BY <2>2
<1> HIDE DEF order, reading
<1>5. ASSUME NEW kind \in {"row", "stat"}
      PROVE  /\ queue(kind) \in Seq(Job)
             /\ \A i \in DOMAIN queue(kind) : queue(kind)[i].entity \in D
  <2>1. Len(order) \in Nat /\ \A i \in 1..Len(order) : order[i] \in D
      BY <1>4
  <2>2. \A i \in 1..Len(order) :
            [kind |-> kind, entity |-> order[i], reading |-> reading(order[i])] \in Job
      BY <1>1, <1>2, <2>1 DEF Job
  <2>3. queue(kind) \in [1..Len(order) -> Job]
      BY <2>2
  <2>4. queue(kind) \in Seq(Job)
    <3> HIDE DEF queue
    <3> QED
        BY <2>1, <2>3
  <2> QED
      BY <2>1, <2>4
<1> HIDE DEF queue
<1>6. /\ queue("row") \o queue("stat") \in Seq(Job)
      /\ \A i \in DOMAIN (queue("row") \o queue("stat")) :
            (queue("row") \o queue("stat"))[i].entity \in D
  <2> DEFINE a == queue("row")
             b == queue("stat")
  <2>1. a \in Seq(Job) /\ b \in Seq(Job)
      BY <1>5
  <2>2. (\A i \in DOMAIN a : a[i].entity \in D) /\ (\A i \in DOMAIN b : b[i].entity \in D)
      BY <1>5
  <2> HIDE DEF a, b
  <2>3. /\ a \o b \in Seq(Job)
        /\ DOMAIN (a \o b) = 1..(Len(a) + Len(b))
        /\ \A i \in 1..Len(a) : (a \o b)[i] = a[i]
        /\ \A i \in (Len(a) + 1)..(Len(a) + Len(b)) :
              (a \o b)[i] = b[i - Len(a)] /\ i - Len(a) \in 1..Len(b)
      BY <2>1, Joined
  <2>4. /\ Len(a) \in Nat /\ Len(b) \in Nat
        /\ DOMAIN a = 1..Len(a) /\ DOMAIN b = 1..Len(b)
      BY <2>1
  <2>5. ASSUME NEW i \in 1..(Len(a) + Len(b))
        PROVE  (a \o b)[i].entity \in D
    <3>1. i \in 1..Len(a) \/ i \in (Len(a) + 1)..(Len(a) + Len(b))
        BY <2>4
    <3> QED
        BY <2>2, <2>3, <2>4, <3>1
  <2> QED
      BY <2>3, <2>5 DEF a, b
<1>7. jobs' \in Seq(Job) /\ JobsAreSampled'
  <2> DEFINE b == queue("row") \o queue("stat")
  <2>1. jobs \in Seq(Job) /\ b \in Seq(Job) /\ jobs' = jobs \o b
      BY <1>3, <1>6 DEF HistoryInv
  <2>2. (\A i \in DOMAIN jobs : jobs[i].entity \in past'.sampled)
        /\ (\A i \in DOMAIN b : b[i].entity \in past'.sampled)
      BY <1>6 DEF HistoryInv, JobsAreSampled, D
  <2> HIDE DEF b
  <2>3. /\ jobs \o b \in Seq(Job)
        /\ DOMAIN (jobs \o b) = 1..(Len(jobs) + Len(b))
        /\ \A i \in 1..Len(jobs) : (jobs \o b)[i] = jobs[i]
        /\ \A i \in (Len(jobs) + 1)..(Len(jobs) + Len(b)) :
              (jobs \o b)[i] = b[i - Len(jobs)] /\ i - Len(jobs) \in 1..Len(b)
      BY <2>1, Joined
  <2>4. /\ Len(jobs) \in Nat /\ Len(b) \in Nat
        /\ DOMAIN jobs = 1..Len(jobs) /\ DOMAIN b = 1..Len(b)
      BY <2>1
  <2>5. ASSUME NEW i \in 1..(Len(jobs) + Len(b))
        PROVE  (jobs \o b)[i].entity \in past'.sampled
    <3>1. i \in 1..Len(jobs) \/ i \in (Len(jobs) + 1)..(Len(jobs) + Len(b))
        BY <2>4
    <3> QED
        BY <2>2, <2>3, <2>4, <3>1
  <2> QED
      BY <2>1, <2>3, <2>5 DEF JobsAreSampled
<1>8. ring' \in [SENSOR -> Buffers]
  <2>1. \A e \in SENSOR : ring[e] \in Buffers
      BY DEF HistoryInv
  <2>2. \A e \in SENSOR : e \in D => PushReading(ring[e], reading(e)) \in Buffers
      BY <1>2, <2>1, PushFits
  <2> QED
      BY <1>3, <2>1, <2>2
<1> QED
    BY <1>3, <1>7, <1>8 DEF HistoryInv
-----------------------------------------------------------------------------
(* What restore_states_from_history shows. *)

(* The value of a row than which none of the entity's is younger. *)
IsLatest(e, v) ==
    \E r \in ToSet(rows[e]) : (\A q \in ToSet(rows[e]) : q.ts <= r.ts) /\ r.value = v

RestoreInv ==
    /\ ~Serving => \A e \in ENTITY : shown[e] # None => shown[e].from # "restored"
    /\ restoring.at = "queried" => \A e \in ENTITY \ past.sampled :
          restoring.latest[e] # None => IsLatest(e, restoring.latest[e])

ReadingsInv == HistoryInv /\ RestoreInv /\ RestoredUntilHeard

\* While no reading comes in and nothing is restored, shown states only go.
LEMMA NothingHeard ==
    ASSUME ReadingsInv, UNCHANGED <<now, ring, rows, jobs, restoring>>,
           past'.sampled = past.sampled, past'.pushed = past.pushed, past'.raced = past.raced,
           \A e \in ENTITY : \/ shown'[e] \in {None, shown[e]}
                             \/ shown'[e].from # "restored"
    PROVE  ReadingsInv'
<1>1. HistoryInv'
    BY DEF ReadingsInv, HistoryInv, JobsAreSampled
<1>2. RestoreInv'
    BY DEF ReadingsInv, RestoreInv, Serving, IsLatest
<1>3. RestoredUntilHeard'
    BY DEF ReadingsInv, RestoredUntilHeard
<1> QED
    BY <1>1, <1>2, <1>3 DEF ReadingsInv

\* DeviceJoined, InterviewComplete, Touch, DeviceLeft, Disconnect, the loads,
\* the requests and a clock tick bring no reading.
LEMMA QuietStepsKeepReadings ==
    ASSUME Shapes, ReadingsInv,
           \/ LoadDevices \/ LoadEntities \/ Disconnect \/ Requests
           \/ \E ok \in BOOLEAN : Touch(ok)
           \/ \E d \in DEVICE : DeviceLeft(d) \/ \E ok \in BOOLEAN :
                 \/ DeviceJoined(d, ok)
                 \/ \E c \in CLUSTERS, raw \in CACHED : InterviewComplete(d, c, raw, ok)
    PROVE  ReadingsInv'
<1>1. DOMAIN past = {"pushed", "sampled", "raced", "torn", "edits"}
    BY DEF Shapes
<1> DEFINE Quiet == /\ UNCHANGED <<historyVars, restoring>>
                    /\ past'.sampled = past.sampled /\ past'.pushed = past.pushed
                    /\ past'.raced = past.raced
                    /\ \A e \in ENTITY : \/ shown'[e] \in {None, shown[e]}
                                         \/ shown'[e].from # "restored"
<1>2. CASE LoadDevices \/ LoadEntities
  <2>1. Quiet
      BY <1>1, <1>2 DEF LoadDevices, LoadEntities, tasks
  <2> QED
      BY <2>1, NothingHeard DEF historyVars
<1>3. CASE Disconnect
  <2>1. Quiet
      BY <1>3 DEF Disconnect
  <2> QED
      BY <2>1, NothingHeard DEF historyVars
<1>4. CASE Requests
  <2>1. ASSUME NEW d \in DEVICE, DeleteLists(d) \/ \E x \in EDIT, ok \in BOOLEAN : EditDevice(d, x, ok)
        PROVE  Quiet
      BY <1>1, <2>1 DEF DeleteLists, EditDevice, tasks
  <2>2. ASSUME NEW e \in ENTITY, NEW x \in EDIT, NEW ok \in BOOLEAN,
               \/ e \in Known(ents) /\ EditEntity(e, x, ok)
               \/ \E y \in LOOK : EditEntityByForm(e, x, y, ok)
        PROVE  Quiet
      BY <1>1, <2>2 DEF EditEntity, EditEntityByForm, StoreEditEntity, tasks
  <2>3. ASSUME NEW ok \in BOOLEAN, DeleteEntities(ok)
        PROVE  Quiet
    <3>1. \A e \in ENTITY : shown'[e] \in {None, shown[e]}
        BY <2>3 DEF DeleteEntities
    <3> QED
        BY <1>1, <2>3, <3>1 DEF DeleteEntities
  <2>4. ASSUME NEW ok \in BOOLEAN, DeleteDevice(ok)
        PROVE  Quiet
      BY <1>1, <2>4 DEF DeleteDevice
  <2>5. Quiet
    <3> HIDE DEF Quiet
    <3> QED
        BY <1>4, <2>1, <2>2, <2>3, <2>4 DEF Requests
  <2> QED
      BY <2>5, NothingHeard DEF historyVars
<1>5. ASSUME NEW ok \in BOOLEAN, Touch(ok)
      PROVE  ReadingsInv'
  <2>1. Quiet
      BY <1>5 DEF Touch
  <2> QED
      BY <2>1, NothingHeard DEF historyVars
<1>6. ASSUME NEW d \in DEVICE, DeviceLeft(d)
      PROVE  ReadingsInv'
  <2>1. Quiet
      BY <1>6 DEF DeviceLeft, tasks
  <2> QED
      BY <2>1, NothingHeard DEF historyVars
<1>7. ASSUME NEW d \in DEVICE, NEW ok \in BOOLEAN,
             \/ DeviceJoined(d, ok)
             \/ \E c \in CLUSTERS, raw \in CACHED : InterviewComplete(d, c, raw, ok)
      PROVE  ReadingsInv'
  <2>1. CASE DeviceJoined(d, ok)
    <3>1. Quiet
        BY <1>1, <2>1 DEF DeviceJoined, tasks
    <3> QED
        BY <3>1, NothingHeard DEF historyVars
  <2>2. CASE \E c \in CLUSTERS, raw \in CACHED : InterviewComplete(d, c, raw, ok)
    <3>1. Quiet
        BY <1>1, <2>2 DEF InterviewComplete
    <3> QED
        BY <3>1, NothingHeard DEF historyVars
  <2> QED
      BY <1>7, <2>1, <2>2
<1> QED
    BY <1>2, <1>3, <1>4, <1>5, <1>6, <1>7

\* StateChanged and the end of an interview: what is pushed is no longer restored.
LEMMA HearingKeepsReadings ==
    ASSUME Shapes, ReadingsInv,
           \/ \E d \in DEVICE, raw \in REPORT : StateChanged(d, raw)
           \/ \E ok \in BOOLEAN : Register(ok)
    PROVE  ReadingsInv'
<1>1. DOMAIN past = {"pushed", "sampled", "raced", "torn", "edits"}
    BY DEF Shapes
<1>0. PICK es \in SUBSET ENTITY : \E off, raw :
          /\ Push(es, off, raw) /\ RecordAll(es, raw)
          /\ past'.sampled = past.sampled \cup Samples(es, raw)
          /\ past'.pushed = past.pushed \cup Pushed(es, off, raw)
          /\ past'.raced = past.raced /\ restoring' = restoring
  <2>1. ASSUME NEW d \in DEVICE, NEW raw \in REPORT, StateChanged(d, raw)
        PROVE  \E es \in SUBSET ENTITY : \E off :
                  /\ Push(es, off, raw) /\ RecordAll(es, raw)
                  /\ past'.sampled = past.sampled \cup Samples(es, raw)
                  /\ past'.pushed = past.pushed \cup Pushed(es, off, raw)
                  /\ past'.raced = past.raced /\ restoring' = restoring
    <3>1. OfDevice(d) \in SUBSET ENTITY
        BY DataAreTyped
    <3> QED
        BY <1>1, <2>1, <3>1 DEF StateChanged, Heard
  <2>2. ASSUME NEW ok \in BOOLEAN, Register(ok)
        PROVE  \E es \in SUBSET ENTITY :
                  /\ Push(es, {}, loop.raw) /\ RecordAll(es, loop.raw)
                  /\ past'.sampled = past.sampled \cup Samples(es, loop.raw)
                  /\ past'.pushed = past.pushed \cup Pushed(es, {}, loop.raw)
                  /\ past'.raced = past.raced /\ restoring' = restoring
    <3>1. EntitiesFor(loop.device, loop.found) \in SUBSET ENTITY
        BY <2>2, EntitiesAreOfDevices DEF Register, Shapes
    <3> QED
        BY <1>1, <2>2, <3>1 DEF Register, Heard
  <2> QED
      BY <2>1, <2>2
<1>2. PICK off, raw :
          /\ Push(es, off, raw) /\ RecordAll(es, raw)
          /\ past'.sampled = past.sampled \cup Samples(es, raw)
          /\ past'.pushed = past.pushed \cup Pushed(es, off, raw)
          /\ past'.raced = past.raced /\ restoring' = restoring
    BY <1>0
<1>3. HistoryInv' /\ rows' = rows
    BY <1>2, RecordingKeepsHistory DEF ReadingsInv
<1>4. \A e \in ENTITY : IF e \in Pushed(es, off, raw) THEN shown'[e].from = "live"
                        ELSE shown'[e] = shown[e]
    BY <1>2 DEF Push
<1>5. RestoreInv'
    BY <1>2, <1>3, <1>4 DEF ReadingsInv, RestoreInv, Serving, IsLatest
<1>6. RestoredUntilHeard'
    BY <1>2, <1>3, <1>4 DEF ReadingsInv, RestoredUntilHeard
<1> QED
    BY <1>3, <1>5, <1>6 DEF ReadingsInv

\* The rows are in order of time: the reading of the last one is the latest.
LEMMA LastIsLatest ==
    ASSUME HistoryInv, NEW e \in SENSOR, NEW v \in LatestValues(e), rows[e] # << >>
    PROVE  IsLatest(e, v)
<1>1. rows[e] \in Seq(Reading) /\ InOrder(rows[e])
    BY DEF HistoryInv, Tables
<1>2. PICK i \in DOMAIN rows[e] : rows[e][i].ts = rows[e][Len(rows[e])].ts /\ v = rows[e][i].value
    BY DEF LatestValues, Last
<1>3. \A j \in DOMAIN rows[e] : j <= Len(rows[e]) /\ Len(rows[e]) \in DOMAIN rows[e]
    BY <1>1
<1>4. \A j \in DOMAIN rows[e] : rows[e][j].ts <= rows[e][i].ts
    BY <1>1, <1>2, <1>3 DEF InOrder
<1>5. \A q \in ToSet(rows[e]) : q.ts <= rows[e][i].ts
    BY <1>4 DEF ToSet
<1> QED
    BY <1>2, <1>5 DEF IsLatest, ToSet

\* The restoration's query finds the latest rows, and what it writes is theirs
\* unless a reading came in between.
LEMMA RestoringKeepsReadings ==
    ASSUME Shapes, ReadingsInv, RestoreLists \/ RestoreQueries \/ RestoreWrites
    PROVE  ReadingsInv'
<1>1. /\ UNCHANGED historyVars /\ ~Serving
      /\ past'.sampled = past.sampled /\ past'.pushed = past.pushed
    BY DEF RestoreLists, RestoreQueries, RestoreWrites, Serving, Shapes
<1>2. HistoryInv'
    BY <1>1 DEF ReadingsInv, HistoryInv, JobsAreSampled, historyVars
<1>3. CASE RestoreLists \/ RestoreQueries
  <2>1. shown' = shown /\ past' = past
      BY <1>3 DEF RestoreLists, RestoreQueries
  <2>2. RestoredUntilHeard'
      BY <1>1, <2>1 DEF ReadingsInv, RestoredUntilHeard, historyVars
  <2>3. restoring'.at = "queried" => \A e \in ENTITY :
            restoring'.latest[e] # None => IsLatest(e, restoring'.latest[e])
    <3>1. CASE RestoreLists
        BY <3>1 DEF RestoreLists
    <3>2. CASE RestoreQueries
      <4>1. PICK f \in Latest : restoring'.latest = f
          BY <3>2 DEF RestoreQueries
      <4>2. \A e \in SENSOR : IF rows[e] = << >> THEN f[e] = None ELSE f[e] \in LatestValues(e)
          BY DEF Latest
      <4>3. HistoryInv
          BY DEF ReadingsInv
      <4>4. \A e \in SENSOR : f[e] # None => IsLatest(e, f[e])
        <5> HIDE DEF Latest
        <5> QED
            BY <4>2, <4>3, LastIsLatest
      <4> QED
          BY <4>1, <4>4, EntitiesAreOfDevices
    <3> QED
        BY <1>3, <3>1, <3>2
  <2>4. \A e \in ENTITY : \A v : IsLatest(e, v) => IsLatest(e, v)'
      BY <1>1 DEF IsLatest, historyVars
  <2>5. RestoreInv'
      BY <1>1, <2>1, <2>3, <2>4 DEF ReadingsInv, RestoreInv
  <2> QED
      BY <1>2, <2>2, <2>5 DEF ReadingsInv
<1>4. CASE RestoreWrites
  <2> DEFINE back == {e \in restoring.entities : Restorable(e) /\ restoring.latest[e] # None}
  <2>1. /\ restoring.at = "queried" /\ restoring'.at = "done"
        /\ shown' = [e \in ENTITY |->
              IF e \in back
              THEN [value |-> Restored(e, restoring.latest[e]), from |-> "restored"]
              ELSE shown[e]]
        /\ past'.raced = back \cap past.pushed
      BY <1>4 DEF RestoreWrites, Shapes
  <2>2. RestoreInv'
      BY <2>1 DEF RestoreInv, Serving
  <2>3. RestoredUntilHeard'
    <3> SUFFICES ASSUME NEW e \in ENTITY, shown'[e] # None, shown'[e].from = "restored"
                 PROVE  IF e \in past.pushed THEN e \in past'.raced
                        ELSE \/ e \in past.sampled
                             \/ \E r \in ToSet(rows[e]) :
                                   /\ \A q \in ToSet(rows[e]) : q.ts <= r.ts
                                   /\ shown'[e].value = Restored(e, r.value)
        BY <1>1 DEF RestoredUntilHeard, historyVars
    <3>1. e \in back
        BY <1>1, <2>1 DEF ReadingsInv, RestoreInv
    <3>2. shown'[e].value = Restored(e, restoring.latest[e]) /\ restoring.latest[e] # None
        BY <2>1, <3>1
    <3>3. e \notin past.sampled => IsLatest(e, restoring.latest[e])
        BY <2>1, <3>2 DEF ReadingsInv, RestoreInv
    <3> QED
        BY <2>1, <3>1, <3>2, <3>3 DEF IsLatest
  <2> QED
      BY <1>2, <2>2, <2>3 DEF ReadingsInv
<1> QED
    BY <1>3, <1>4

\* A job writes the row of an entity that was sampled; the clock shows nothing.
LEMMA DatabaseKeepsReadings ==
    ASSUME Shapes, ReadingsInv, Database
    PROVE  ReadingsInv'
<1>1. UNCHANGED <<shown, restoring, past, ring>>
    BY DEF Database, RunJob, Tick, tasks
<1>2. CASE Tick
  <2>1. UNCHANGED <<ring, rows, jobs>> /\ now' = now + 1
      BY <1>2 DEF Tick
  <2>2. HistoryInv'
      BY <1>1, <2>1 DEF ReadingsInv, HistoryInv, JobsAreSampled
  <2>3. RestoreInv' /\ RestoredUntilHeard'
      BY <1>1, <2>1 DEF ReadingsInv, RestoreInv, RestoredUntilHeard, Serving, IsLatest
  <2> QED
      BY <2>2, <2>3 DEF ReadingsInv
<1>3. ASSUME NEW i \in DOMAIN jobs, NEW ok \in BOOLEAN, RunJob(i, ok)
      PROVE  ReadingsInv'
  <2>1. /\ jobs \in Seq(Job) /\ i \in 1..Len(jobs) /\ jobs[i] \in Job
        /\ jobs[i].entity \in past.sampled
      BY <1>3 DEF ReadingsInv, HistoryInv, JobsAreSampled
  <2>2. jobs[i].entity \in SENSOR /\ jobs[i].reading \in Reading
      BY <2>1 DEF Job
  <2>3. jobs' = RemoveAt(jobs, i) /\ now' = now
      BY <1>3 DEF RunJob
  <2>4. /\ jobs' \in Seq(Job)
        /\ \A j \in DOMAIN jobs' : \E k \in 1..Len(jobs) : jobs'[j] = jobs[k]
      BY <2>1, <2>3, JobTakenOut, SMTT(30)
  <2>5. JobsAreSampled'
    <3>1. \A k \in 1..Len(jobs) : jobs[k].entity \in past.sampled
        BY <2>1 DEF ReadingsInv, HistoryInv, JobsAreSampled
    <3> QED
        BY <1>1, <2>4, <3>1 DEF JobsAreSampled
  <2>6. \/ rows' = rows
        \/ rows' = [rows EXCEPT ![jobs[i].entity] =
                       Insert(rows[jobs[i].entity], jobs[i].reading)]
      BY <1>3 DEF RunJob
  <2>7. /\ rows' \in [SENSOR -> Tables]
        /\ \A e \in SENSOR \ past.sampled : rows'[e] = rows[e]
    <3>1. rows \in [SENSOR -> Tables]
        BY DEF ReadingsInv, HistoryInv
    <3>2. Insert(rows[jobs[i].entity], jobs[i].reading) \in Tables
        BY <2>2, <3>1, InsertKeepsOrder
    <3> QED
        BY <2>1, <2>2, <2>6, <3>1, <3>2
  <2>8. HistoryInv'
      BY <1>1, <2>3, <2>4, <2>5, <2>7 DEF ReadingsInv, HistoryInv
  <2>9. RestoreInv'
      BY <1>1, <2>7, EntitiesAreOfDevices DEF ReadingsInv, RestoreInv, Serving, IsLatest
  <2>10. RestoredUntilHeard'
      BY <1>1, <2>7, EntitiesAreOfDevices DEF ReadingsInv, RestoredUntilHeard
  <2> QED
      BY <2>8, <2>9, <2>10 DEF ReadingsInv
<1> QED
    BY <1>2, <1>3 DEF Database

\* A restart loses the jobs and the states, and fills the buffers from the rows.
LEMMA RestartKeepsReadings ==
    ASSUME Shapes, ReadingsInv, Restart
    PROVE  ReadingsInv'
<1>1. /\ jobs' = << >> /\ now' = now /\ rows' = rows
      /\ ring' = [e \in SENSOR |-> Warmed(rows[e])]
      /\ restoring'.at = "start"
      /\ \A e \in ENTITY : shown'[e] = None
    BY DEF Restart, Reopen, Empty
<1>2. \A e \in SENSOR : Warmed(rows[e]) \in Buffers
    BY WarmedFits DEF ReadingsInv, HistoryInv, Tables
<1>3. << >> \in Seq(Job) /\ DOMAIN << >> = {}
    OBVIOUS
<1>4. JobsAreSampled'
    BY <1>1, <1>3 DEF JobsAreSampled
<1>5. HistoryInv'
    BY <1>1, <1>2, <1>3, <1>4 DEF ReadingsInv, HistoryInv
<1>6. RestoreInv' /\ RestoredUntilHeard'
    BY <1>1 DEF RestoreInv, RestoredUntilHeard
<1> QED
    BY <1>5, <1>6 DEF ReadingsInv

\* An empty history satisfies the invariant of the readings.
LEMMA ReadingsInitially == Init => ReadingsInv
<1> SUFFICES ASSUME Init PROVE ReadingsInv
    OBVIOUS
<1>1. /\ now = 0 /\ ring = [e \in SENSOR |-> << >>] /\ rows = [e \in SENSOR |-> << >>]
      /\ jobs = << >> /\ restoring.at = "start" /\ shown = Empty(ENTITY)
    BY DEF Init, HistoryInit
<1>2. << >> \in Seq(Reading) /\ << >> \in Seq(Job) /\ Len(<< >>) = 0 /\ DOMAIN << >> = {}
    OBVIOUS
<1>3. << >> \in Buffers /\ << >> \in Tables
    BY <1>2, HistoryStoreAssumption DEF Buffers, RingFits, Tables, InOrder
<1>4. HistoryInv
    BY <1>1, <1>2, <1>3 DEF HistoryInv, JobsAreSampled
<1>5. RestoreInv /\ RestoredUntilHeard
    BY <1>1 DEF RestoreInv, RestoredUntilHeard, Empty
<1> QED
    BY <1>4, <1>5 DEF ReadingsInv

\* Every step preserves the invariant of the readings.
LEMMA ReadingsStep ==
    ASSUME Shapes, ReadingsInv, [Next]_vars
    PROVE  ReadingsInv'
<1>1. CASE Next
  <2>1. CASE Bridge
    <3>1. PICK d \in DEVICE :
              \/ DeviceLeft(d) \/ \E raw \in REPORT : StateChanged(d, raw)
              \/ \E ok \in BOOLEAN : \/ DeviceJoined(d, ok)
                                    \/ \E c \in CLUSTERS, raw \in CACHED :
                                          InterviewComplete(d, c, raw, ok)
        BY <2>1 DEF Bridge
    <3> QED
        BY <3>1, QuietStepsKeepReadings, HearingKeepsReadings
  <2>2. CASE \E ok \in BOOLEAN : Register(ok) \/ Touch(ok)
      BY <2>2, QuietStepsKeepReadings, HearingKeepsReadings
  <2>3. CASE LoadDevices \/ LoadEntities \/ Disconnect \/ Requests
      BY <2>3, QuietStepsKeepReadings
  <2>4. CASE RestoreLists \/ RestoreQueries \/ RestoreWrites
      BY <2>4, RestoringKeepsReadings
  <2>5. CASE Database
      BY <2>5, DatabaseKeepsReadings
  <2>6. CASE Restart
      BY <2>6, RestartKeepsReadings
  <2> QED
      BY <1>1, <2>1, <2>2, <2>3, <2>4, <2>5, <2>6 DEF Next
<1>2. CASE UNCHANGED vars
    BY <1>2, NothingHeard DEF vars, tasks, historyVars
<1> QED
    BY <1>1, <1>2
-----------------------------------------------------------------------------
(* What was read: the weight of the rows and of the rows still to be written. *)

Least(a, b) == IF a < b THEN a ELSE b
Ceiling == IF CAPACITY = 0 THEN 1 ELSE CAPACITY

(* Readings counted: one reading, those not older than t, those of a bucket; *)
(* and the readings of a bucket by their values.                              *)
Just(r) == Among(Reading, {r})
From(t) == Among(Reading, {r \in Reading : r.ts >= t})
In(b) == Among(Reading, {r \in Reading : BucketOf(r.ts) = b})
Worth(b) == [r \in Reading |-> IF BucketOf(r.ts) = b THEN r.value ELSE 0]

(* A reading waits in the jobs of its kind and entity. *)
Owed(kind, e, f) ==
    [j \in Job |-> IF j.kind = kind /\ j.entity = e THEN f[j.reading] ELSE 0]
Pending(kind, e, f) == Weigh(jobs, Owed(kind, e, f))
Written(e, f) == Weigh(rows[e], f) + Pending("row", e, f)

\* So many readings of a list are from t on: none, some or all.
LEMMA WeighFrom ==
    ASSUME NEW s \in Seq(Reading), NEW t \in Nat
    PROVE  /\ From(t) \in [Reading -> Nat]
           /\ \A q \in Reading : From(t)[q] = IF q.ts >= t THEN 1 ELSE 0
           /\ Weigh(s, From(t)) \in 0..Len(s)
           /\ (\A i \in 1..Len(s) : s[i].ts >= t) => Weigh(s, From(t)) = Len(s)
           /\ (\A i \in 1..Len(s) : ~(s[i].ts >= t)) => Weigh(s, From(t)) = 0
           /\ Weigh(s, From(t)) = Cardinality({i \in 1..Len(s) : s[i].ts >= t})
<1> DEFINE S == {q \in Reading : q.ts >= t}
           f == Among(Reading, S)
<1>1. From(t) = f /\ f \in [Reading -> Nat]
    BY DEF From, Among
<1>2. \A q \in Reading : f[q] = IF q.ts >= t THEN 1 ELSE 0
    BY DEF Among
<1>3. \A i \in 1..Len(s) : s[i] \in S <=> s[i].ts >= t
    OBVIOUS
<1>4. {i \in 1..Len(s) : s[i] \in S} = {i \in 1..Len(s) : s[i].ts >= t}
    BY <1>3
<1>5. /\ Weigh(s, f) \in 0..Len(s)
      /\ Weigh(s, f) > 0 <=> \E i \in 1..Len(s) : s[i] \in S
      /\ (\A i \in 1..Len(s) : s[i] \in S) => Weigh(s, f) = Len(s)
  <2> HIDE DEF S
  <2> QED
      BY WeighAmong
<1>6. Weigh(s, f) = Cardinality({i \in 1..Len(s) : s[i] \in S})
  <2> HIDE DEF S
  <2> QED
      BY WeighCounts
<1> HIDE DEF f, S
<1>7. (\A i \in 1..Len(s) : s[i].ts >= t) => Weigh(s, f) = Len(s)
    BY <1>3, <1>5
<1>8. (\A i \in 1..Len(s) : ~(s[i].ts >= t)) => Weigh(s, f) = 0
  <2> SUFFICES ASSUME \A i \in 1..Len(s) : ~(s[i].ts >= t)
               PROVE  Weigh(s, f) = 0
      OBVIOUS
  <2>1. ~(Weigh(s, f) > 0) /\ Weigh(s, f) \in Nat
      BY <1>3, <1>5
  <2> QED
      BY <2>1
<1>9. Weigh(s, f) \in 0..Len(s)
    BY <1>5
<1>10. Weigh(s, f) = Cardinality({i \in 1..Len(s) : s[i].ts >= t})
    BY <1>4, <1>6
<1> QED
    BY <1>1, <1>2, <1>7, <1>8, <1>9, <1>10

\* A push drops the oldest reading of a full buffer and appends the new one.
LEMMA PushSplits ==
    ASSUME NEW buffer \in Seq(Reading), NEW r \in Reading
    PROVE  \/ /\ Len(buffer) < Ceiling
              /\ PushReading(buffer, r) = buffer \o <<r>>
           \/ /\ Len(buffer) >= Ceiling /\ buffer[1] \in Reading
              /\ Tail(buffer) \in Seq(Reading) /\ Len(Tail(buffer)) = Len(buffer) - 1
              /\ \A i \in 1..Len(Tail(buffer)) : Tail(buffer)[i] = buffer[i + 1]
              /\ buffer = <<buffer[1]>> \o Tail(buffer)
              /\ PushReading(buffer, r) = Tail(buffer) \o <<r>>
<1>1. Len(buffer) \in Nat /\ CAPACITY \in Nat /\ (buffer = << >> <=> Len(buffer) = 0)
    BY HistoryStoreAssumption
<1>2. Len(buffer) >= CAPACITY /\ buffer # << >> <=> Len(buffer) >= Ceiling
    BY <1>1 DEF Ceiling
<1>3. CASE Len(buffer) < Ceiling
  <2>1. PushReading(buffer, r) = Append(buffer, r)
      BY <1>1, <1>2, <1>3 DEF PushReading, Ceiling
  <2>2. Append(buffer, r) = buffer \o <<r>>
      BY AppendIsConcat
  <2> QED
      BY <1>3, <2>1, <2>2
<1>4. CASE Len(buffer) >= Ceiling
  <2>1. buffer # << >> /\ Len(buffer) \in Nat \ {0}
      BY <1>1, <1>2, <1>4
  <2> DEFINE t == Tail(buffer)
  <2>2. /\ t \in Seq(Reading) /\ Len(t) = Len(buffer) - 1
        /\ \A i \in 1..Len(t) : t[i] = buffer[i + 1]
      BY <2>1, HeadTailProperties
  <2>3. t = SubSeq(buffer, 2, Len(buffer))
      BY <2>1, TailIsSubSeq
  <2>4. buffer[1] \in Reading
      BY <2>1
  <2>5. SubSeq(buffer, 1, Len(buffer)) = <<buffer[1]>> \o SubSeq(buffer, 1 + 1, Len(buffer))
    <3>1. 1 \in 1..Len(buffer) /\ Len(buffer) \in 1..Len(buffer)
        BY <2>1
    <3> QED
        BY <3>1, SubSeqRecursiveFirst
  <2>6. buffer = <<buffer[1]>> \o t
    <3>1. SubSeq(buffer, 1, Len(buffer)) = buffer /\ 1 + 1 = 2
        BY SubSeqFull
    <3> QED
        BY <2>3, <2>5, <3>1
  <2>7. PushReading(buffer, r) = Append(t, r)
      BY <1>2, <1>4 DEF PushReading
  <2> HIDE DEF t
  <2>8. Append(t, r) = t \o <<r>>
      BY <2>2, AppendIsConcat
  <2> QED
      BY <1>4, <2>2, <2>4, <2>6, <2>7, <2>8 DEF t
<1>5. Ceiling \in Nat
    BY <1>1 DEF Ceiling
<1> QED
    BY <1>1, <1>3, <1>4, <1>5

\* The new buffer weighs no more than the old one and the reading.
LEMMA PushWeighs ==
    ASSUME NEW buffer \in Seq(Reading), NEW r \in Reading, NEW f \in [Reading -> Nat]
    PROVE  /\ PushReading(buffer, r) \in Seq(Reading)
           /\ Weigh(PushReading(buffer, r), f) <= Weigh(buffer, f) + f[r]
<1>1. CASE PushReading(buffer, r) = buffer \o <<r>>
  <2>1. /\ f[r] \in Nat /\ buffer \o <<r>> \in Seq(Reading)
        /\ Weigh(buffer \o <<r>>, f) = Weigh(buffer, f) + f[r] /\ Weigh(buffer, f) \in Nat
      BY WeighOneMore
  <2> DEFINE c == buffer \o <<r>>
  <2>2. /\ f[r] \in Nat /\ c \in Seq(Reading) /\ PushReading(buffer, r) = c
        /\ Weigh(c, f) = Weigh(buffer, f) + f[r] /\ Weigh(buffer, f) \in Nat
      BY <1>1, <2>1
  <2> HIDE DEF c
  <2> QED
      BY <2>2
<1>2. CASE /\ buffer[1] \in Reading /\ Tail(buffer) \in Seq(Reading)
           /\ buffer = <<buffer[1]>> \o Tail(buffer)
           /\ PushReading(buffer, r) = Tail(buffer) \o <<r>>
  <2> DEFINE t == Tail(buffer)  x == buffer[1]
  <2>1. /\ x \in Reading /\ t \in Seq(Reading)
        /\ buffer = <<x>> \o t /\ PushReading(buffer, r) = t \o <<r>>
      BY <1>2
  <2> HIDE DEF x, t
  <2>2. /\ f[x] \in Nat /\ Weigh(t, f) \in Nat
        /\ Weigh(buffer, f) = f[x] + Weigh(t, f)
    <3>1. /\ f[x] \in Nat /\ Weigh(t, f) \in Nat
          /\ Weigh(<<x>> \o t, f) = f[x] + Weigh(t, f)
        BY <2>1, WeighOneMore
    <3> QED
        BY <2>1, <3>1
  <2>3. /\ f[r] \in Nat /\ PushReading(buffer, r) \in Seq(Reading)
        /\ Weigh(PushReading(buffer, r), f) = Weigh(t, f) + f[r]
    <3>1. /\ f[r] \in Nat /\ t \o <<r>> \in Seq(Reading)
          /\ Weigh(t \o <<r>>, f) = Weigh(t, f) + f[r]
        BY <2>1, WeighOneMore
    <3> QED
        BY <2>1, <3>1
  <2> QED
      BY <2>2, <2>3
<1> QED
    BY <1>1, <1>2, PushSplits

\* A buffer with the last readings in order of time keeps that at a push of a
\* reading that is not older: n was the number of readings from t on.
LEMMA PushKeepsLast ==
    ASSUME NEW buffer \in Seq(Reading), NEW r \in Reading, InOrder(buffer),
           \A i \in 1..Len(buffer) : buffer[i].ts <= r.ts, Len(buffer) <= Ceiling,
           NEW t \in Nat, NEW n \in Nat,
           Weigh(buffer, From(t)) = Least(n, Ceiling)
    PROVE  Weigh(PushReading(buffer, r), From(t)) = Least(n + From(t)[r], Ceiling)
<1> DEFINE f == From(t)
           S == {q \in Reading : q.ts >= t}
           m == Len(buffer)
<1>1. f \in [Reading -> Nat] /\ \A q \in Reading : f[q] = IF q.ts >= t THEN 1 ELSE 0
    BY DEF From, Among
<1>2. /\ m \in Nat /\ Ceiling \in Nat \ {0} /\ r.ts \in Nat
      /\ \A i \in 1..m : buffer[i] \in Reading /\ buffer[i].ts \in Nat
  <2>1. m \in Nat /\ \A i \in 1..m : buffer[i] \in Reading
      OBVIOUS
  <2>2. \A q \in Reading : q.ts \in Nat
      BY DEF Reading
  <2>3. Ceiling \in Nat \ {0}
      BY HistoryStoreAssumption DEF Ceiling
  <2> QED
      BY <2>1, <2>2, <2>3
<1>3. ASSUME NEW s \in Seq(Reading)
      PROVE  /\ Weigh(s, f) \in 0..Len(s)
             /\ (\A i \in 1..Len(s) : s[i].ts >= t) => Weigh(s, f) = Len(s)
  <2>1. /\ Weigh(s, Among(Reading, S)) \in 0..Len(s)
        /\ (\A i \in 1..Len(s) : s[i] \in S) => Weigh(s, Among(Reading, S)) = Len(s)
    <3> HIDE DEF S
    <3> QED
        BY WeighAmong
  <2>2. (\A i \in 1..Len(s) : s[i].ts >= t) => \A i \in 1..Len(s) : s[i] \in S
      OBVIOUS
  <2> QED
      BY <2>1, <2>2 DEF From
<1>4. Weigh(buffer, f) = Least(n, Ceiling)
    OBVIOUS
<1>5. CASE m < Ceiling /\ PushReading(buffer, r) = buffer \o <<r>>
  <2> HIDE DEF f
  <2>1. Weigh(PushReading(buffer, r), f) = Weigh(buffer, f) + f[r] /\ f[r] \in Nat
      BY <1>1, <1>5, WeighOneMore
  <2>2. Weigh(buffer, f) \in 0..m /\ f[r] \in {0, 1}
      BY <1>1, <1>3
  <2> HIDE DEF m
  <2>3. Weigh(PushReading(buffer, r), f) = Least(n + f[r], Ceiling)
      BY <1>2, <1>4, <1>5, <2>1, <2>2 DEF Least
  <2> QED
      BY <2>3 DEF f
<1>6. CASE /\ m >= Ceiling /\ buffer[1] \in Reading
           /\ Tail(buffer) \in Seq(Reading) /\ Len(Tail(buffer)) = m - 1
           /\ buffer = <<buffer[1]>> \o Tail(buffer)
           /\ PushReading(buffer, r) = Tail(buffer) \o <<r>>
  <2> DEFINE b == Tail(buffer)  x == buffer[1]
  <2>1. /\ x \in Reading /\ b \in Seq(Reading) /\ Len(b) = m - 1
        /\ buffer = <<x>> \o b /\ PushReading(buffer, r) = b \o <<r>>
      BY <1>6
  <2>2. 1 \in 1..m /\ m = Ceiling
    <3>1. m >= Ceiling /\ m <= Ceiling
        BY <1>6
    <3> HIDE DEF m
    <3> QED
        BY <1>2, <3>1
  <2>3. x.ts <= r.ts /\ x.ts \in Nat
      BY <1>2, <2>2
  <2>4. x.ts >= t => \A i \in 1..m : buffer[i].ts >= t
    <3>1. \A i \in 1..m : x.ts <= buffer[i].ts
      <4> TAKE i \in 1..m
      <4>1. 1 \in DOMAIN buffer /\ i \in DOMAIN buffer /\ 1 <= i
          BY <1>2, <2>2
      <4> QED
          BY <4>1 DEF InOrder
    <3>2. x.ts \in Nat /\ \A i \in 1..m : buffer[i].ts \in Nat
        BY <1>2, <2>3
    <3> HIDE DEF x
    <3> QED
        BY <3>1, <3>2
  <2> HIDE DEF b, x, f
  <2>5. Weigh(buffer, f) = f[x] + Weigh(b, f) /\ f[x] = IF x.ts >= t THEN 1 ELSE 0
    <3>1. Weigh(<<x>> \o b, f) = f[x] + Weigh(b, f)
        BY <1>1, <2>1, WeighOneMore
    <3> QED
        BY <1>1, <2>1, <3>1
  <2>6. Weigh(PushReading(buffer, r), f) = Weigh(b, f) + f[r] /\ f[r] = IF r.ts >= t THEN 1 ELSE 0
    <3>1. Weigh(b \o <<r>>, f) = Weigh(b, f) + f[r]
        BY <1>1, <2>1, WeighOneMore, SMTT(30)
    <3> QED
        BY <1>1, <2>1, <3>1
  <2>7. Weigh(b, f) \in 0..(m - 1) /\ (x.ts >= t => Weigh(buffer, f) = m)
      BY <1>3, <2>1, <2>4
  <2> HIDE DEF m
  <2>8. Weigh(PushReading(buffer, r), f) = Least(n + f[r], Ceiling)
    <3>1. CASE x.ts >= t
      <4>1. r.ts >= t
          BY <1>2, <2>3, <3>1
      <4>2. f[r] = 1 /\ f[x] = 1 /\ Weigh(buffer, f) = m
          BY <2>5, <2>6, <2>7, <3>1, <4>1
      <4>3. Weigh(PushReading(buffer, r), f) = m /\ n >= Ceiling
          BY <1>2, <1>4, <2>2, <2>5, <2>6, <2>7, <4>2 DEF Least
      <4> QED
          BY <1>2, <2>2, <4>2, <4>3 DEF Least
    <3>2. CASE ~(x.ts >= t)
      <4>1. f[x] = 0 /\ f[r] \in {0, 1}
          BY <2>5, <2>6, <3>2
      <4>2. Weigh(b, f) = Least(n, Ceiling) /\ Weigh(b, f) <= m - 1 /\ Weigh(b, f) \in Nat
          BY <1>2, <1>4, <2>5, <2>7, <4>1
      <4>3. Weigh(b, f) = n /\ n <= Ceiling - 1
          BY <1>2, <2>2, <4>2 DEF Least
      <4> QED
          BY <1>2, <2>6, <4>1, <4>3 DEF Least
    <3> QED
        BY <3>1, <3>2
  <2> QED
      BY <2>8 DEF f
<1> QED
    BY <1>5, <1>6, PushSplits

\* A push of a reading that is not older keeps the buffer in order of time.
LEMMA PushKeepsOrder ==
    ASSUME NEW buffer \in Seq(Reading), NEW r \in Reading, InOrder(buffer),
           \A i \in 1..Len(buffer) : buffer[i].ts <= r.ts
    PROVE  InOrder(PushReading(buffer, r))
<1>1. ASSUME NEW s \in Seq(Reading), InOrder(s), \A i \in 1..Len(s) : s[i].ts <= r.ts
      PROVE  InOrder(s \o <<r>>)
  <2> DEFINE c == s \o <<r>>
  <2>1. /\ c \in Seq(Reading) /\ Len(c) = Len(s) + 1 /\ Len(s) \in Nat
        /\ (\A i \in 1..Len(s) : c[i] = s[i]) /\ c[Len(s) + 1] = r
      OBVIOUS
  <2>2. \A i, j \in 1..Len(s) : i <= j => s[i].ts <= s[j].ts
      BY <1>1 DEF InOrder
  <2>3. DOMAIN c = 1..(Len(s) + 1)
      BY <2>1
  <2>4. r.ts \in Nat
      BY DEF Reading
  <2> HIDE DEF c
  <2>5. ASSUME NEW i \in 1..(Len(s) + 1), NEW j \in 1..(Len(s) + 1), i <= j
        PROVE  c[i].ts <= c[j].ts
    <3>1. CASE j \in 1..Len(s)
      <4>1. i \in 1..Len(s)
          BY <2>1, <2>5, <3>1
      <4> QED
          BY <2>1, <2>2, <2>5, <3>1, <4>1
    <3>2. CASE j = Len(s) + 1
        BY <1>1, <2>1, <2>4, <2>5, <3>2
    <3> QED
        BY <2>1, <3>1, <3>2
  <2>6. InOrder(c)
      BY <2>3, <2>5 DEF InOrder
  <2> QED
      BY <2>6 DEF c
<1>2. CASE PushReading(buffer, r) = buffer \o <<r>>
    BY <1>1, <1>2
<1>3. CASE /\ Tail(buffer) \in Seq(Reading) /\ Len(Tail(buffer)) = Len(buffer) - 1
           /\ \A i \in 1..Len(Tail(buffer)) : Tail(buffer)[i] = buffer[i + 1]
           /\ PushReading(buffer, r) = Tail(buffer) \o <<r>>
  <2> DEFINE b == Tail(buffer)
  <2>1. /\ b \in Seq(Reading) /\ Len(b) = Len(buffer) - 1
        /\ \A i \in 1..Len(b) : b[i] = buffer[i + 1]
        /\ PushReading(buffer, r) = b \o <<r>>
      BY <1>3
  <2> HIDE DEF b
  <2>2. \A i \in 1..Len(b) : i + 1 \in 1..Len(buffer) /\ b[i] = buffer[i + 1]
    <3>1. Len(buffer) \in Nat
        OBVIOUS
    <3> QED
        BY <2>1, <3>1
  <2>3. \A i, j \in 1..Len(buffer) : i <= j => buffer[i].ts <= buffer[j].ts
      BY DEF InOrder
  <2>4. DOMAIN b = 1..Len(b)
      BY <2>1
  <2>5. InOrder(b) /\ \A i \in 1..Len(b) : b[i].ts <= r.ts
    <3>1. ASSUME NEW i \in 1..Len(b), NEW j \in 1..Len(b), i <= j
          PROVE  b[i].ts <= b[j].ts
      <4>1. i + 1 <= j + 1
          BY <3>1
      <4> QED
          BY <2>2, <2>3, <4>1
    <3> QED
        BY <2>2, <2>4, <3>1 DEF InOrder
  <2> QED
      BY <1>1, <2>1, <2>5
<1> QED
    BY <1>2, <1>3, PushSplits

\* Filled row by row, a buffer holds the last rows of the table.
LEMMA WarmedIsLast ==
    ASSUME NEW table \in Seq(Reading)
    PROVE  Warmed(table) =
               SubSeq(table, (Len(table) - Least(Len(table), Ceiling)) + 1, Len(table))
<1> DEFINE L == Len(table)
           first(n) == (n - Least(n, Ceiling)) + 1
<1>1. PICK buffer : /\ Warmed(table) = buffer[L] /\ buffer[0] = << >>
                    /\ \A n \in 1..L : buffer[n] = PushReading(buffer[n - 1], table[n])
    BY WarmedUnfolds
<1>2. L \in Nat /\ Ceiling \in Nat \ {0}
    BY HistoryStoreAssumption DEF Ceiling
<1> DEFINE Good == {n \in Nat : n <= L => buffer[n] = SubSeq(table, first(n), n)}
<1>3. 0 \in Good
  <2>1. first(0) = 1
      BY <1>2 DEF Least
  <2>2. SubSeq(table, 1, 0) = << >>
      BY SubSeqEmpty
  <2> QED
      BY <1>1, <2>1, <2>2
<1>4. ASSUME NEW m \in Good, m + 1 <= L
      PROVE  buffer[m + 1] = SubSeq(table, first(m + 1), m + 1)
  <2> DEFINE n == m + 1  b == SubSeq(table, first(m), m)
  <2>1. m \in Nat /\ n \in 1..L /\ n - 1 = m /\ buffer[m] = b
      BY <1>2, <1>4
  <2>2. buffer[n] = PushReading(b, table[n])
      BY <1>1, <2>1
  <2>3. first(m) \in 1..(m + 1) /\ first(m) \in Int /\ m \in Int
      BY <1>2, <2>1 DEF Least
  <2>4. \A i \in first(m)..m : table[i] \in Reading
    <3>1. \A i \in first(m)..m : i \in 1..L
        BY <2>1, <2>3
    <3> QED
        BY <3>1
  <2>5. b \in Seq(Reading) /\ Len(b) = IF first(m) <= m THEN (m - first(m)) + 1 ELSE 0
    <3> DEFINE p == first(m)
    <3>1. p \in Int /\ m \in Int /\ \A i \in p..m : table[i] \in Reading
        BY <2>3, <2>4
    <3> HIDE DEF p
    <3>2. SubSeq(table, p, m) \in Seq(Reading)
          /\ Len(SubSeq(table, p, m)) = IF p <= m THEN m - p + 1 ELSE 0
        BY <3>1, SubSeqProperties
    <3> QED
        BY <3>2 DEF p
  <2>6. Len(b) = Least(m, Ceiling)
      BY <1>2, <2>1, <2>3, <2>5 DEF Least
  <2>7. table[n] \in Reading
      BY <2>1
  <2> HIDE DEF b, n
  <2>8. CASE Len(b) < Ceiling /\ PushReading(b, table[n]) = b \o <<table[n]>>
    <3>1. first(m) = 1 /\ first(n) = 1
        BY <1>2, <2>1, <2>6, <2>8 DEF Least, n
    <3>2. SubSeq(table, 1, n) = SubSeq(table, 1, n - 1) \o <<table[n]>>
      <4>1. 1 \in 1..L /\ n \in 1..L
          BY <2>1
      <4> QED
          BY <4>1, SubSeqRecursiveSecond
    <3> QED
        BY <2>1, <2>2, <2>8, <3>1, <3>2 DEF b, n
  <2>9. CASE Len(b) >= Ceiling /\ PushReading(b, table[n]) = Tail(b) \o <<table[n]>>
    <3>1. Ceiling <= m /\ first(m) = (m - Ceiling) + 1 /\ first(n) = (n - Ceiling) + 1
        BY <1>2, <2>1, <2>6, <2>9 DEF Least, n
    <3> DEFINE q == (m - Ceiling) + 1
    <3>2. q \in 1..L /\ m \in q..L /\ q + 1 = first(n) /\ q + 1 \in 1..L /\ n \in (q + 1)..L
        BY <1>2, <2>1, <3>1 DEF n
    <3>3. b = SubSeq(table, q, m)
        BY <3>1 DEF b
    <3> HIDE DEF q
    <3>4. Tail(b) = SubSeq(table, q + 1, m)
        BY <3>2, <3>3, HeadTailOfSubSeq
    <3>5. SubSeq(table, q + 1, n) = SubSeq(table, q + 1, n - 1) \o <<table[n]>>
      <4> DEFINE p == q + 1
      <4>1. p \in 1..L /\ n \in p..L
          BY <3>2
      <4> HIDE DEF p
      <4>2. SubSeq(table, p, n) = SubSeq(table, p, n - 1) \o <<table[n]>>
          BY <4>1, SubSeqRecursiveSecond
      <4> QED
          BY <4>2 DEF p
    <3>6. buffer[n] = SubSeq(table, first(n), n)
        BY <2>1, <2>2, <2>9, <3>2, <3>4, <3>5
    <3> QED
        BY <3>6 DEF n
  <2> QED
      BY <2>5, <2>7, <2>8, <2>9, PushSplits
<1>5. Good = Nat
  <2>1. ASSUME NEW m \in Good
        PROVE  m + 1 \in Good
      BY <1>4
  <2>2. Good \in SUBSET Nat
      OBVIOUS
  <2> HIDE DEF Good
  <2> QED
      BY <1>3, <2>1, <2>2, SetInduction
<1>6. L \in Good
    BY <1>2, <1>5
<1>7. buffer[L] = SubSeq(table, first(L), L)
    BY <1>2, <1>6
<1> QED
    BY <1>1, <1>7

\* What a restart leaves out of a buffer is older than what it puts in.
LEMMA WarmedKeepsLast ==
    ASSUME NEW table \in Seq(Reading), InOrder(table)
    PROVE  LET n == Least(Len(table), Ceiling)
               k == Len(table) - n
           IN  /\ k \in Nat /\ n \in Nat /\ n = Len(Warmed(table))
               /\ Warmed(table) \in Seq(Reading) /\ InOrder(Warmed(table))
               /\ \A i \in 1..n : Warmed(table)[i] = table[k + i]
               /\ \A t \in Nat : Weigh(Warmed(table), From(t)) =
                                     Least(Weigh(table, From(t)), Ceiling)
               /\ \A f \in [Reading -> Nat] : Weigh(Warmed(table), f) <= Weigh(table, f)
<1> DEFINE L == Len(table)
           n == Least(L, Ceiling)
           k == L - n
           front == SubSeq(table, 1, k)
           back == SubSeq(table, k + 1, L)
<1>1. L \in Nat /\ Ceiling \in Nat \ {0} /\ \A i \in 1..L : table[i] \in Reading
    BY HistoryStoreAssumption DEF Ceiling
<1>2. k \in Nat /\ n \in Nat /\ k + n = L /\ k \in 0..L /\ (k = 0 \/ n = Ceiling) /\ n <= Ceiling
    BY <1>1 DEF Least
<1>3. Warmed(table) = back
    BY WarmedIsLast
<1>4. /\ back \in Seq(Reading) /\ Len(back) = n /\ \A i \in 1..n : back[i] = table[k + i]
      /\ front \in Seq(Reading) /\ Len(front) = k /\ \A i \in 1..k : front[i] = table[i]
  <2> HIDE DEF L, n, k
  <2>1. \A i \in (k + 1)..L : table[i] \in Reading
      BY <1>1, <1>2
  <2>2. \A i \in 1..k : table[i] \in Reading
      BY <1>1, <1>2
  <2> DEFINE m == k + 1
  <2>3. m \in Int /\ L \in Int /\ 1 \in Int /\ k \in Int
      BY <1>1, <1>2
  <2> HIDE DEF m
  <2>4. /\ SubSeq(table, m, L) \in Seq(Reading)
        /\ Len(SubSeq(table, m, L)) = IF m <= L THEN L - m + 1 ELSE 0
        /\ \A i \in 1..(L - m + 1) : SubSeq(table, m, L)[i] = table[m + i - 1]
      BY <2>1, <2>3, SubSeqProperties DEF m
  <2>5. /\ SubSeq(table, 1, k) \in Seq(Reading)
        /\ Len(SubSeq(table, 1, k)) = IF 1 <= k THEN k - 1 + 1 ELSE 0
        /\ \A i \in 1..(k - 1 + 1) : SubSeq(table, 1, k)[i] = table[1 + i - 1]
      BY <2>2, <2>3, SubSeqProperties
  <2>6. Len(back) = n /\ \A i \in 1..n : back[i] = table[k + i]
    <3>1. /\ L - m + 1 = n /\ (m <= L <=> n > 0)
          /\ \A i \in 1..n : m + i - 1 = k + i
        BY <1>1, <1>2 DEF m
    <3> QED
        BY <1>2, <2>4, <3>1 DEF m
  <2>7. Len(front) = k /\ \A i \in 1..k : front[i] = table[i]
    <3>1. k - 1 + 1 = k /\ \A i \in 1..k : 1 + i - 1 = i
        BY <1>2
    <3> QED
        BY <1>2, <2>5, <3>1
  <2> QED
      BY <2>4, <2>5, <2>6, <2>7 DEF m
<1>5. table = front \o back
  <2> HIDE DEF L, n, k
  <2>1. 1 \in 1..(L + 1) /\ k \in (1 - 1)..L /\ L \in k..L
      BY <1>1, <1>2
  <2>2. SubSeq(table, 1, k) \o SubSeq(table, k + 1, L) = SubSeq(table, 1, L)
      BY <2>1, ConcatAdjacentSubSeq DEF L
  <2>3. SubSeq(table, 1, L) = table
      BY SubSeqFull DEF L
  <2> QED
      BY <2>2, <2>3
<1>6. \A i, j \in 1..L : i <= j => table[i].ts <= table[j].ts
    BY <1>1 DEF InOrder
<1>7. \A i \in 1..L : table[i].ts \in Nat
    BY <1>1 DEF Reading
<1> HIDE DEF front, back, L, n, k
<1>8. InOrder(back)
  <2>1. \A i \in 1..n : k + i \in 1..L
      BY <1>1, <1>2
  <2>2. ASSUME NEW i \in 1..n, NEW j \in 1..n, i <= j
        PROVE  back[i].ts <= back[j].ts
    <3>1. k + i <= k + j
        BY <1>2, <2>2
    <3> QED
        BY <1>4, <1>6, <2>1, <3>1
  <2>3. DOMAIN back = 1..n
      BY <1>4
  <2> QED
      BY <2>2, <2>3 DEF InOrder
<1>9. ASSUME NEW f \in [Reading -> Nat]
      PROVE  /\ Weigh(front, f) \in Nat /\ Weigh(back, f) \in Nat
             /\ Weigh(table, f) = Weigh(front, f) + Weigh(back, f)
  <2>1. Weigh(front \o back, f) = Weigh(front, f) + Weigh(back, f)
      BY <1>4, WeighJoined
  <2>2. Weigh(front, f) \in Nat /\ Weigh(back, f) \in Nat
      BY <1>4, WeightsAreNumbers
  <2> QED
      BY <1>5, <2>1, <2>2
<1>10. ASSUME NEW t \in Nat
       PROVE  Weigh(back, From(t)) = Least(Weigh(table, From(t)), Ceiling)
  <2> DEFINE f == From(t)
  <2>1. /\ f \in [Reading -> Nat]
        /\ Weigh(back, f) \in 0..n
        /\ (\A i \in 1..n : back[i].ts >= t) => Weigh(back, f) = n
        /\ (\A i \in 1..k : ~(front[i].ts >= t)) => Weigh(front, f) = 0
    <3>1. From(t) \in [Reading -> Nat]
        BY DEF From, Among
    <3> QED
        BY <1>4, <3>1, WeighFrom
  <2>2. Weigh(front, f) \in Nat /\ Weigh(table, f) = Weigh(front, f) + Weigh(back, f)
      BY <1>9, <2>1
  <2> HIDE DEF f
  <2>3. Weigh(back, f) = Least(Weigh(table, f), Ceiling)
    <3>1. CASE k = 0
      <4>1. \A i \in 1..k : ~(front[i].ts >= t)
          BY <3>1
      <4> QED
          BY <1>1, <1>2, <2>1, <2>2, <4>1 DEF Least
    <3>2. CASE k # 0
      <4>1. n = Ceiling /\ 1 \in 1..n /\ k + 1 \in 1..L
          BY <1>1, <1>2, <3>2
      <4>2. CASE table[k + 1].ts >= t
        <5>1. \A i \in 1..n : back[i].ts >= t
          <6> TAKE i \in 1..n
          <6>1. k + i \in 1..L /\ k + 1 <= k + i
              BY <1>1, <1>2
          <6>2. table[k + 1].ts <= table[k + i].ts /\ table[k + i].ts \in Nat
                /\ table[k + 1].ts \in Nat
              BY <1>6, <1>7, <4>1, <6>1
          <6> QED
              BY <1>4, <4>2, <6>2, SMTT(30)
        <5> QED
            BY <1>1, <2>1, <2>2, <4>1, <5>1 DEF Least
      <4>3. CASE ~(table[k + 1].ts >= t)
        <5>1. \A i \in 1..k : ~(front[i].ts >= t)
          <6> TAKE i \in 1..k
          <6>1. i \in 1..L /\ i <= k + 1
              BY <1>1, <1>2
          <6>2. table[i].ts <= table[k + 1].ts /\ table[i].ts \in Nat
                /\ table[k + 1].ts \in Nat
              BY <1>6, <1>7, <4>1, <6>1
          <6> QED
              BY <1>4, <4>3, <6>2, SMTT(30)
        <5> QED
            BY <1>1, <1>2, <2>1, <2>2, <5>1 DEF Least
      <4> QED
          BY <4>2, <4>3
    <3> QED
        BY <3>1, <3>2
  <2> QED
      BY <2>3 DEF f
<1>11. ASSUME NEW f \in [Reading -> Nat]
       PROVE  Weigh(back, f) <= Weigh(table, f)
    BY <1>9
<1> QED
    BY <1>2, <1>3, <1>4, <1>8, <1>10, <1>11 DEF L, n, k

\* A row that is inserted adds its weight to the table.
LEMMA InsertWeighs ==
    ASSUME NEW table \in Seq(Reading), NEW r \in Reading, NEW f \in [Reading -> Nat]
    PROVE  Weigh(Insert(table, r), f) = Weigh(table, f) + f[r]
<1> DEFINE L == Len(table)
           B == {i \in DOMAIN table : table[i].ts <= r.ts}
           k == Cardinality(B)
           front == SubSeq(table, 1, k)
           back == SubSeq(table, k + 1, L)
<1>1. L \in Nat /\ DOMAIN table = 1..L /\ \A i \in 1..L : table[i] \in Reading
    OBVIOUS
<1>2. k \in 0..L
  <2>1. B \in SUBSET (1..L)
      BY <1>1
  <2> HIDE DEF B, L
  <2>2. IsFiniteSet(1..L) /\ Cardinality(1..L) = IF 1 > L THEN 0 ELSE L - 1 + 1
    <3>1. 1 \in Int /\ L \in Int
        BY <1>1
    <3> QED
        BY <3>1, FS_Interval
  <2>3. IsFiniteSet(B) /\ k <= Cardinality(1..L)
      BY <2>1, <2>2, FS_Subset
  <2>4. k \in Nat
      BY <2>3, FS_CardinalityType
  <2> QED
      BY <1>1, <2>2, <2>3, <2>4
<1>3. Insert(table, r) = (front \o <<r>>) \o back
  <2>1. Insert(table, r) = InsertAt(table, k + 1, r)
      BY DEF Insert
  <2> DEFINE m == k + 1
  <2>2. m - 1 = k
      BY <1>1, <1>2
  <2> HIDE DEF B, k, m
  <2>3. InsertAt(table, m, r) = SubSeq(table, 1, m - 1) \o <<r>> \o SubSeq(table, m, Len(table))
      BY DEF InsertAt
  <2>4. InsertAt(table, m, r) = (SubSeq(table, 1, k) \o <<r>>) \o SubSeq(table, m, Len(table))
      BY <2>2, <2>3
  <2> QED
      BY <2>1, <2>4 DEF m
<1> HIDE DEF B, k, L
<1>4. front \in Seq(Reading) /\ back \in Seq(Reading)
  <2>1. \A i \in 1..k : table[i] \in Reading
      BY <1>1, <1>2
  <2>2. \A i \in (k + 1)..L : table[i] \in Reading
      BY <1>1, <1>2
  <2>3. 1 \in Int /\ k \in Int /\ k + 1 \in Int /\ L \in Int
      BY <1>1, <1>2
  <2>4. SubSeq(table, 1, k) \in Seq(Reading)
      BY <2>1, <2>3, SubSeqProperties
  <2> DEFINE m == k + 1
  <2>5. m \in Int /\ \A i \in m..L : table[i] \in Reading
      BY <2>2, <2>3
  <2> HIDE DEF m
  <2>6. SubSeq(table, m, L) \in Seq(Reading)
      BY <2>3, <2>5, SubSeqProperties
  <2> QED
      BY <2>4, <2>6 DEF m
<1>5. table = front \o back
  <2>1. 1 \in 1..(L + 1) /\ k \in (1 - 1)..L /\ L \in k..L
      BY <1>1, <1>2
  <2>2. SubSeq(table, 1, k) \o SubSeq(table, k + 1, L) = SubSeq(table, 1, L)
      BY <2>1, ConcatAdjacentSubSeq DEF L
  <2>3. SubSeq(table, 1, L) = table
      BY SubSeqFull DEF L
  <2> QED
      BY <2>2, <2>3
<1> HIDE DEF front, back
<1>6. /\ f[r] \in Nat /\ Weigh(front, f) \in Nat /\ Weigh(back, f) \in Nat
      /\ Weigh(front \o back, f) = Weigh(front, f) + Weigh(back, f)
    BY <1>4, WeighOneMore, WeighJoined
<1> DEFINE c == front \o <<r>>
<1>7. c \in Seq(Reading) /\ Weigh(c, f) = Weigh(front, f) + f[r]
    BY <1>4, WeighOneMore
<1>8. Insert(table, r) = c \o back
    BY <1>3
<1> HIDE DEF c
<1>9. Weigh(c \o back, f) = Weigh(c, f) + Weigh(back, f)
    BY <1>4, <1>7, WeighJoined
<1> QED
    BY <1>5, <1>6, <1>7, <1>8, <1>9

\* A job that is taken out of the queue takes its weight along.
LEMMA TakenOutWeighs ==
    ASSUME NEW T, NEW s \in Seq(T), NEW i \in 1..Len(s), NEW f \in [T -> Nat]
    PROVE  /\ f[s[i]] \in Nat /\ RemoveAt(s, i) \in Seq(T) /\ Weigh(RemoveAt(s, i), f) \in Nat
           /\ Weigh(s, f) = Weigh(RemoveAt(s, i), f) + f[s[i]]
<1> DEFINE L == Len(s)  x == s[i]
           front == SubSeq(s, 1, i - 1)
           back == SubSeq(s, i + 1, L)
<1>1. L \in Nat /\ i \in 1..L /\ x \in T /\ \A j \in 1..L : s[j] \in T
    OBVIOUS
<1>2. RemoveAt(s, i) = front \o back
    BY DEF RemoveAt
<1>3. s = front \o (<<x>> \o back)
  <2> HIDE DEF L
  <2> DEFINE k == i - 1
  <2>1. /\ 1 \in 1..(L + 1) /\ k \in (1 - 1)..L /\ L \in k..L /\ k + 1 = i
        /\ L \in i..L
      BY <1>1
  <2>2. SubSeq(s, i, L) = <<s[i]>> \o SubSeq(s, i + 1, L)
      BY <1>1, <2>1, SubSeqRecursiveFirst DEF L
  <2> HIDE DEF k
  <2>3. SubSeq(s, 1, k) \o SubSeq(s, k + 1, L) = SubSeq(s, 1, L)
      BY <2>1, ConcatAdjacentSubSeq DEF L
  <2>4. SubSeq(s, 1, L) = s
      BY SubSeqFull DEF L
  <2> QED
      BY <2>1, <2>2, <2>3, <2>4 DEF k
<1> HIDE DEF L
<1>4. front \in Seq(T) /\ back \in Seq(T)
  <2> DEFINE k == i - 1  m == i + 1
  <2>1. /\ 1 \in Int /\ k \in Int /\ m \in Int /\ L \in Int
        /\ (\A j \in 1..k : s[j] \in T) /\ (\A j \in m..L : s[j] \in T)
      BY <1>1
  <2> HIDE DEF k, m
  <2>2. SubSeq(s, 1, k) \in Seq(T) /\ SubSeq(s, m, L) \in Seq(T)
      BY <2>1, SubSeqProperties
  <2> QED
      BY <2>2 DEF k, m
<1> HIDE DEF front, back, x
<1> DEFINE b == <<x>> \o back
<1>5. /\ f[x] \in Nat /\ Weigh(back, f) \in Nat /\ b \in Seq(T)
      /\ Weigh(b, f) = f[x] + Weigh(back, f)
    BY <1>1, <1>4, WeighOneMore, SMTT(30)
<1>6. s = front \o b
    BY <1>3
<1> HIDE DEF b
<1>7. Weigh(front \o b, f) = Weigh(front, f) + Weigh(b, f) /\ Weigh(front, f) \in Nat
    BY <1>4, <1>5, WeighJoined, WeightsAreNumbers
<1>8. Weigh(front \o back, f) = Weigh(front, f) + Weigh(back, f) /\ front \o back \in Seq(T)
    BY <1>4, WeighJoined, ConcatProperties
<1>9. Weigh(s, f) = Weigh(RemoveAt(s, i), f) + f[x]
    BY <1>2, <1>5, <1>6, <1>7, <1>8
<1>10. RemoveAt(s, i) \in Seq(T) /\ Weigh(RemoveAt(s, i), f) \in Nat /\ f[x] \in Nat
    BY <1>2, <1>5, <1>7, <1>8, SMTT(30)
<1> QED
    BY <1>9, <1>10 DEF x

\* What is owed, pending and written are numbers.
LEMMA AccountsAreNumbers ==
    ASSUME HistoryInv, NEW e \in SENSOR, NEW kind, NEW f \in [Reading -> Nat]
    PROVE  /\ Owed(kind, e, f) \in [Job -> Nat]
           /\ \A j \in Job : Owed(kind, e, f)[j] =
                                 IF j.kind = kind /\ j.entity = e THEN f[j.reading] ELSE 0
           /\ Pending(kind, e, f) \in Nat
           /\ Weigh(rows[e], f) \in Nat
           /\ Written(e, f) \in Nat
<1>1. Owed(kind, e, f) \in [Job -> Nat]
  <2>1. \A j \in Job : f[j.reading] \in Nat
      BY DEF Job
  <2> QED
      BY <2>1 DEF Owed
<1>2. \A j \in Job : Owed(kind, e, f)[j] =
                         IF j.kind = kind /\ j.entity = e THEN f[j.reading] ELSE 0
    BY DEF Owed
<1>3. Pending(kind, e, f) \in Nat
  <2>1. jobs \in Seq(Job)
      BY DEF HistoryInv
  <2> QED
      BY <1>1, <2>1, WeightsAreNumbers DEF Pending
<1>4. Weigh(rows[e], f) \in Nat
  <2>1. rows[e] \in Seq(Reading)
      BY DEF HistoryInv, Tables
  <2> QED
      BY <2>1, WeightsAreNumbers
<1>5. Owed("row", e, f) \in [Job -> Nat]
  <2>1. \A j \in Job : f[j.reading] \in Nat
      BY DEF Job
  <2> QED
      BY <2>1 DEF Owed
<1>6. Pending("row", e, f) \in Nat
  <2>1. jobs \in Seq(Job)
      BY DEF HistoryInv
  <2> QED
      BY <1>5, <2>1, WeightsAreNumbers DEF Pending
<1> QED
    BY <1>1, <1>2, <1>3, <1>4, <1>6 DEF Written

(* Readings by entity, and a list of the entities, each once. *)
Batch(D, order, reading) ==
    /\ D \subseteq SENSOR /\ reading \in [D -> Reading] /\ order \in Seq(D)
    /\ \A a, b \in 1..Len(order) : order[a] = order[b] => a = b
    /\ \A s \in D : \E a \in 1..Len(order) : order[a] = s

(* The jobs of a kind that record queues, for readings by entity. *)
Queued(k, order, reading) ==
    [i \in 1..Len(order) |-> [kind |-> k, entity |-> order[i], reading |-> reading[order[i]]]]

\* The jobs of one handler: one of each kind for each entity with a number.
LEMMA QueueWeighs ==
    ASSUME NEW D, NEW order, NEW reading, Batch(D, order, reading), NEW k \in {"row", "stat"},
           NEW kind, NEW e, NEW f \in [Reading -> Nat]
    PROVE  /\ Queued(k, order, reading) \in Seq(Job) /\ Owed(kind, e, f) \in [Job -> Nat]
           /\ Weigh(Queued(k, order, reading), Owed(kind, e, f)) =
                 IF k = kind /\ e \in D THEN f[reading[e]] ELSE 0
<1> DEFINE L == Len(order)
           queue == Queued(k, order, reading)
           g == Owed(kind, e, f)
           w == [i \in 1..Len(queue) |-> g[queue[i]]]
<1>1. L \in Nat /\ \A i \in 1..L : order[i] \in D /\ reading[order[i]] \in Reading
  <2>1. L \in Nat /\ \A i \in 1..L : order[i] \in D
    <3>1. order \in Seq(D)
        BY DEF Batch
    <3> QED
        BY ONLY <3>1
  <2>2. \A s \in D : reading[s] \in Reading
      BY DEF Batch
  <2> QED
      BY <2>1, <2>2
<1>2. /\ g \in [Job -> Nat]
      /\ \A j \in Job : g[j] = IF j.kind = kind /\ j.entity = e THEN f[j.reading] ELSE 0
  <2>1. \A j \in Job : f[j.reading] \in Nat
      BY DEF Job
  <2> QED
      BY <2>1 DEF Owed
<1>3. \A i \in 1..L : [kind |-> k, entity |-> order[i], reading |-> reading[order[i]]] \in Job
    BY <1>1 DEF Job, Batch
<1>4. queue \in [1..L -> Job]
    BY <1>3 DEF Queued
<1>5. queue \in Seq(Job) /\ Len(queue) = L
    BY ONLY <1>1, <1>4
<1>6. \A i \in 1..L : /\ queue[i].kind = k /\ queue[i].entity = order[i]
                      /\ queue[i].reading = reading[order[i]] /\ queue[i] \in Job
    BY <1>3 DEF Queued
<1> HIDE DEF g
<1>7. \A i \in 1..L : w[i] = IF k = kind /\ order[i] = e THEN f[reading[order[i]]] ELSE 0
  <2> SUFFICES ASSUME NEW i \in 1..L
               PROVE  w[i] = IF k = kind /\ order[i] = e THEN f[reading[order[i]]] ELSE 0
      OBVIOUS
  <2>1. w[i] = g[queue[i]]
      BY <1>5
  <2>2. g[queue[i]] = IF queue[i].kind = kind /\ queue[i].entity = e
                      THEN f[queue[i].reading] ELSE 0
      BY <1>2, <1>6
  <2> HIDE DEF w, queue
  <2> QED
      BY <1>6, <2>1, <2>2
<1>8. w \in Seq(Nat) /\ Len(w) = L /\ Weigh(queue, g) = Total(w)
  <2>1. w \in Seq(Nat)
    <3> HIDE DEF L
    <3> QED
        BY <1>2, <1>5, WeightsAreNumbers
  <2>2. Weigh(queue, g) = Total(w)
      BY DEF Weigh
  <2>3. w \in [1..L -> Nat]
      BY <1>2, <1>4, <1>5
  <2>4. Len(w) = L
    <3> HIDE DEF w, L
    <3> QED
        BY ONLY <1>1, <2>3
  <2> QED
      BY <2>1, <2>2, <2>4
<1> HIDE DEF w, L
<1>9. CASE k = kind /\ e \in D
  <2>1. PICK p \in 1..L : order[p] = e
      BY <1>9 DEF L, Batch
  <2>2. \A i \in 1..Len(w) : i # p => w[i] = 0
      BY <1>7, <1>8, <2>1 DEF L, Batch
  <2>3. Total(w) = w[p]
      BY <1>8, <2>1, <2>2, TotalOfOne
  <2> QED
      BY <1>2, <1>5, <1>7, <1>8, <1>9, <2>1, <2>3 DEF g
<1>10. CASE ~(k = kind /\ e \in D)
  <2>1. \A i \in 1..Len(w) : w[i] = 0
      BY <1>1, <1>7, <1>8, <1>10
  <2>2. Total(w) = 0
      BY <1>8, <2>1, TotalOfOne
  <2> QED
      BY <1>2, <1>5, <1>8, <1>10, <2>2 DEF g
<1> QED
    BY <1>9, <1>10

\* record_and_aggregate for the samples of a handler: each reading enters its
\* buffer, and one row and one share of the statistics are to be written.
LEMMA RecordingWeighs ==
    ASSUME HistoryInv, NEW es \in SUBSET ENTITY, NEW raw, RecordAll(es, raw),
           NEW e \in SENSOR
    PROVE  LET r == [ts |-> now, value |-> Sample(e, raw)]
           IN  /\ UNCHANGED <<now, rows, stats, missed>>
               /\ e \in Samples(es, raw) => r \in Reading /\ ring'[e] = PushReading(ring[e], r)
               /\ e \notin Samples(es, raw) => ring'[e] = ring[e]
               /\ \A kind \in {"row", "stat"}, f \in [Reading -> Nat] :
                     Pending(kind, e, f)' =
                         Pending(kind, e, f) + IF e \in Samples(es, raw) THEN f[r] ELSE 0
<1> DEFINE D == Samples(es, raw)
           samples == [s \in D |-> Sample(s, raw)]
           reading == [s \in D |-> [ts |-> now, value |-> samples[s]]]
           order == SetToSeq(D)
           read(s) == [ts |-> now, value |-> samples[s]]
           qu(k) == [i \in 1..Len(order) |->
               [kind |-> k, entity |-> order[i], reading |-> read(order[i])]]
           queue(k) == Queued(k, order, reading)
<1>1. D \subseteq SENSOR /\ IsFiniteSet(D)
    BY EntitiesAreOfDevices, HistoryStoreAssumption, FS_Subset DEF Samples
<1>2. \A s \in D : [ts |-> now, value |-> Sample(s, raw)] \in Reading
  <2>1. \A s \in D : Sample(s, raw) \in Nat
      BY SamplesAreNumbers DEF Samples
  <2> QED
      BY <2>1 DEF Reading, HistoryInv
<1>3. /\ ring' = [s \in SENSOR |-> IF s \in D THEN PushReading(ring[s], read(s)) ELSE ring[s]]
      /\ jobs' = jobs \o (qu("row") \o qu("stat"))
      /\ UNCHANGED <<now, rows, stats, missed>>
    BY DEF RecordAll, Record
<1> HIDE DEF D
<1>4. reading \in [D -> Reading] /\ \A s \in D : reading[s] = [ts |-> now, value |-> Sample(s, raw)]
    BY <1>2
<1>5. Batch(D, order, reading)
  <2>1. PICK f \in [1..Cardinality(D) -> D] :
            /\ \A a, b \in DOMAIN f : f[a] = f[b] => a = b
            /\ \A s \in D : \E a \in 1..Cardinality(D) : f[a] = s
      BY <1>1, ListsExist
  <2>2. IsInjective(f)
      BY <2>1 DEF IsInjective
  <2>3. Cardinality(D) \in Nat
      BY <1>1, ListsExist
  <2>4. order \in [1..Cardinality(D) -> D] /\ IsInjective(order)
      BY <2>2 DEF SetToSeq
  <2> HIDE DEF order
  <2>5. order \in Seq(D) /\ Len(order) = Cardinality(D)
      BY <2>3, <2>4
  <2>6. \A a, b \in 1..Len(order) : order[a] = order[b] => a = b
      BY <2>3, <2>4, <2>5 DEF IsInjective
  <2>7. \A s \in D : \E a \in 1..Len(order) : order[a] = s
    <3> DEFINE n == Cardinality(D)
    <3>1. n \in Nat /\ order \in Injection(1..n, D)
        BY <2>3, <2>4 DEF Injection
    <3>2. Cardinality(1..n) = n
      <4> HIDE DEF n
      <4>1. Cardinality(1..n) = IF 1 > n THEN 0 ELSE (n - 1) + 1
          BY <3>1, FS_Interval
      <4> QED
          BY <3>1, <4>1
    <3>3. order \in Surjection(1..n, D)
        BY <1>1, <3>1, <3>2, FS_Injection
    <3> QED
        BY <2>5, <3>3 DEF Surjection
  <2> QED
      BY <1>1, <1>4, <2>5, <2>6, <2>7 DEF Batch
<1> HIDE DEF order
<1>6. \A s \in D : read(s) = reading[s]
    BY <1>4 DEF D
<1>7. /\ queue("row") = qu("row") /\ queue("stat") = qu("stat")
  <2>1. order \in Seq(D)
      BY <1>5 DEF Batch
  <2>2. \A i \in 1..Len(order) : order[i] \in D
      BY ONLY <2>1
  <2>3. \A i \in 1..Len(order) : read(order[i]) = reading[order[i]]
      BY <1>6, <2>2
  <2> HIDE DEF read, reading
  <2> QED
      BY <2>3 DEF Queued
<1> HIDE DEF reading
<1>8. ASSUME NEW k \in {"row", "stat"}, NEW kind \in {"row", "stat"}, NEW f \in [Reading -> Nat]
      PROVE  /\ queue(k) \in Seq(Job) /\ Owed(kind, e, f) \in [Job -> Nat]
             /\ Weigh(queue(k), Owed(kind, e, f)) =
                   IF k = kind /\ e \in D THEN f[reading[e]] ELSE 0
  <2>1. Batch(D, order, reading)
      BY <1>5
  <2> HIDE DEF qu, read, samples
  <2>2. /\ Queued(k, order, reading) \in Seq(Job) /\ Owed(kind, e, f) \in [Job -> Nat]
        /\ Weigh(Queued(k, order, reading), Owed(kind, e, f)) =
              IF k = kind /\ e \in D THEN f[reading[e]] ELSE 0
      BY <2>1, QueueWeighs
  <2> QED
      BY ONLY <2>2 DEF queue
<1> DEFINE a == queue("row")  b == queue("stat")
<1>9. jobs' = jobs \o (a \o b) /\ jobs \in Seq(Job)
    BY <1>3, <1>7 DEF HistoryInv
<1>10. ASSUME NEW kind \in {"row", "stat"}, NEW f \in [Reading -> Nat]
       PROVE  Pending(kind, e, f)' =
                 Pending(kind, e, f) + IF e \in D THEN f[reading[e]] ELSE 0
  <2> DEFINE g == Owed(kind, e, f)
             x == IF e \in D THEN f[reading[e]] ELSE 0
  <2>1. /\ a \in Seq(Job) /\ b \in Seq(Job) /\ g \in [Job -> Nat]
        /\ Weigh(a, g) = IF "row" = kind /\ e \in D THEN f[reading[e]] ELSE 0
        /\ Weigh(b, g) = IF "stat" = kind /\ e \in D THEN f[reading[e]] ELSE 0
      BY <1>8
  <2>2. x \in Nat
      BY <1>4
  <2>3. Weigh(a, g) + Weigh(b, g) = x
      BY <2>1, <2>2
  <2>4. Pending(kind, e, f) = Weigh(jobs, g) /\ Pending(kind, e, f)' = Weigh(jobs', g)
      BY DEF Pending, Owed
  <2> HIDE DEF a, b, g, x
  <2>5. a \o b \in Seq(Job) /\ Weigh(a \o b, g) = Weigh(a, g) + Weigh(b, g)
      BY <2>1, WeighJoined, ConcatProperties, ZenonT(30)
  <2> DEFINE c == a \o b
  <2>6. c \in Seq(Job) /\ Weigh(c, g) = x /\ jobs' = jobs \o c
      BY <1>9, <2>3, <2>5
  <2> HIDE DEF c
  <2>7. Weigh(jobs \o c, g) = Weigh(jobs, g) + Weigh(c, g)
      BY <1>9, <2>1, <2>6, WeighJoined, ZenonT(30)
  <2> QED
      BY <2>4, <2>6, <2>7 DEF x
<1> DEFINE r == [ts |-> now, value |-> Sample(e, raw)]
<1>11. /\ e \in D => r \in Reading /\ ring'[e] = PushReading(ring[e], r) /\ reading[e] = r
       /\ e \notin D => ring'[e] = ring[e]
  <2>1. e \in D => r \in Reading /\ reading[e] = r /\ read(e) = r
      BY <1>2, <1>4, <1>6
  <2> HIDE DEF r, read
  <2> QED
      BY <1>3, <2>1
<1>12. \A kind \in {"row", "stat"}, f \in [Reading -> Nat] :
          Pending(kind, e, f)' = Pending(kind, e, f) + IF e \in D THEN f[r] ELSE 0
  <2> HIDE DEF r, reading, a, b
  <2> QED
      BY <1>10, <1>11
<1> QED
    BY <1>3, <1>11, <1>12 DEF D
-----------------------------------------------------------------------------
(* The accounts: what was read of an entity, w, and what of it is not in the *)
(* statistics yet, p, as weights of readings.                                *)

Weights == [Reading -> Nat]
Accounts == [Weights -> Nat]

(* A buffer has the last readings, as many as it may have, in order of time. *)
BufferIsLast(buffer, w) ==
    /\ InOrder(buffer)
    /\ \A t \in Nat : Weigh(buffer, From(t)) = Least(w[From(t)], Ceiling)
    /\ \A r \in Reading : Weigh(buffer, Just(r)) <= w[Just(r)]

NoneIsAhead(w, time) == \A r \in Reading : w[Just(r)] > 0 => r.ts <= time

Share == [count : Nat, min : Nat, max : Nat, sum : Nat]
SharesAreTyped(table) ==
    \A k \in DOMAIN table : k \in SENSOR \X Nat /\ table[k] \in Share

Counted(table, k) == IF k \in DOMAIN table THEN table[k].count ELSE 0
Summed(table, k) == IF k \in DOMAIN table THEN table[k].sum ELSE 0

Spans(table, k, v) == k \in DOMAIN table /\ table[k].min <= v /\ v <= table[k].max

(* The statistics of e and what is not in them yet are what was read. *)
SharesAgree(e, table, w, p) ==
    /\ \A b \in Nat : /\ Counted(table, <<e, b>>) + p[In(b)] = w[In(b)]
                      /\ Summed(table, <<e, b>>) + p[Worth(b)] = w[Worth(b)]
    /\ \A r \in Reading : /\ p[Just(r)] <= w[Just(r)]
                          /\ w[Just(r)] > 0 =>
                                \/ p[Just(r)] > 0
                                \/ Spans(table, <<e, BucketOf(r.ts)>>, r.value)
    /\ \A b \in Nat : <<e, b>> \in DOMAIN table =>
          /\ \E r \in Reading : /\ BucketOf(r.ts) = b /\ w[Just(r)] > 0
                                /\ table[<<e, b>>].min = r.value
          /\ \E r \in Reading : /\ BucketOf(r.ts) = b /\ w[Just(r)] > 0
                                /\ table[<<e, b>>].max = r.value

\* The weights by which readings are counted.
LEMMA WeightsOfReadings ==
    /\ \A r \in Reading : /\ Just(r) \in Weights /\ BucketOf(r.ts) \in Nat
                          /\ BucketOf(r.ts) <= r.ts
                          /\ \A q \in Reading : Just(r)[q] = IF q = r THEN 1 ELSE 0
    /\ \A t \in Nat : /\ From(t) \in Weights
                      /\ \A q \in Reading : From(t)[q] = IF q.ts >= t THEN 1 ELSE 0
    /\ \A b \in Nat : /\ In(b) \in Weights
                      /\ \A q \in Reading : In(b)[q] = IF BucketOf(q.ts) = b THEN 1 ELSE 0
    /\ \A b \in Nat : /\ Worth(b) \in Weights
                      /\ \A q \in Reading :
                            Worth(b)[q] = IF BucketOf(q.ts) = b THEN q.value ELSE 0
<1>1. \A r \in Reading : /\ Just(r) \in Weights
                         /\ \A q \in Reading : Just(r)[q] = IF q = r THEN 1 ELSE 0
    BY DEF Just, Among, Weights
<1>2. \A r \in Reading : BucketOf(r.ts) \in Nat /\ BucketOf(r.ts) <= r.ts
  <2> TAKE r \in Reading
  <2> DEFINE t == r.ts
             m == t % BUCKET
  <2>1. t \in Nat /\ BUCKET \in Nat \ {0}
      BY HistoryStoreAssumption DEF Reading
  <2> HIDE DEF t
  <2>2. m \in Nat /\ m <= t
      BY <2>1
  <2> HIDE DEF m
  <2>3. t - m \in Nat /\ t - m <= t
      BY <2>1, <2>2
  <2> QED
      BY <2>3 DEF BucketOf, m, t
<1>3. \A t \in Nat : /\ From(t) \in Weights
                     /\ \A q \in Reading : From(t)[q] = IF q.ts >= t THEN 1 ELSE 0
    BY DEF From, Among, Weights
<1>4. \A b \in Nat : /\ In(b) \in Weights
                     /\ \A q \in Reading : In(b)[q] = IF BucketOf(q.ts) = b THEN 1 ELSE 0
    BY DEF In, Among, Weights
<1>5. \A b \in Nat : /\ Worth(b) \in Weights
                     /\ \A q \in Reading :
                           Worth(b)[q] = IF BucketOf(q.ts) = b THEN q.value ELSE 0
  <2> TAKE b \in Nat
  <2>1. \A q \in Reading : (IF BucketOf(q.ts) = b THEN q.value ELSE 0) \in Nat
      BY DEF Reading
  <2> QED
      BY <2>1 DEF Worth, Weights
<1> QED
    BY <1>1, <1>2, <1>3, <1>4, <1>5

\* A reading of now enters the buffer and the accounts.
LEMMA PushAccounts ==
    ASSUME NEW w \in Accounts, NEW w2 \in Accounts, NEW r \in Reading,
           \A f \in Weights : w2[f] = w[f] + f[r],
           NEW buffer \in Buffers, BufferIsLast(buffer, w), NoneIsAhead(w, r.ts)
    PROVE  BufferIsLast(PushReading(buffer, r), w2) /\ NoneIsAhead(w2, r.ts)
<1> DEFINE c == PushReading(buffer, r)
<1>1. buffer \in Seq(Reading) /\ Len(buffer) \in Nat /\ Len(buffer) <= Ceiling
      /\ \A i \in 1..Len(buffer) : buffer[i] \in Reading
  <2>1. buffer \in Seq(Reading) /\ RingFits(buffer)
      BY DEF Buffers
  <2>2. CAPACITY \in Nat
      BY HistoryStoreAssumption
  <2>3. Len(buffer) \in Nat /\ \A i \in 1..Len(buffer) : buffer[i] \in Reading
      BY ONLY <2>1
  <2>4. Len(buffer) <= Ceiling
      BY <2>1, <2>2, <2>3 DEF RingFits, Ceiling
  <2> QED
      BY <2>1, <2>3, <2>4
<1>2. \A i \in 1..Len(buffer) : buffer[i].ts <= r.ts
  <2> TAKE i \in 1..Len(buffer)
  <2> DEFINE q == buffer[i]
             S == {q}
  <2>1. q \in Reading
      BY <1>1
  <2>2. \E j \in 1..Len(buffer) : buffer[j] \in S
      OBVIOUS
  <2> HIDE DEF S
  <2>3. Weigh(buffer, Among(Reading, S)) > 0
      BY <1>1, <2>2, WeighAmong
  <2>4. Among(Reading, S) = Just(q)
      BY DEF Just, S
  <2> HIDE DEF q
  <2>5. Weigh(buffer, Just(q)) \in Nat /\ w[Just(q)] \in Nat
      BY <1>1, <2>1, WeightsOfReadings, WeightsAreNumbers DEF Weights, Accounts
  <2>6. w[Just(q)] > 0
      BY <2>1, <2>3, <2>4, <2>5 DEF BufferIsLast
  <2> QED
      BY <2>1, <2>6 DEF NoneIsAhead, q
<1>3. InOrder(c)
    BY <1>1, <1>2, PushKeepsOrder DEF BufferIsLast
<1>4. ASSUME NEW t \in Nat
      PROVE  Weigh(c, From(t)) = Least(w2[From(t)], Ceiling)
  <2>1. From(t) \in Weights /\ w[From(t)] \in Nat
      BY WeightsOfReadings DEF Accounts
  <2> DEFINE n == w[From(t)]
  <2>2. n \in Nat /\ Weigh(buffer, From(t)) = Least(n, Ceiling) /\ w2[From(t)] = n + From(t)[r]
      BY <2>1 DEF BufferIsLast
  <2> HIDE DEF n
  <2>3. InOrder(buffer)
      BY DEF BufferIsLast
  <2> QED
      BY <1>1, <1>2, <2>2, <2>3, PushKeepsLast
<1>5. ASSUME NEW q \in Reading
      PROVE  /\ Weigh(c, Just(q)) <= w2[Just(q)]
             /\ w2[Just(q)] > 0 => q.ts <= r.ts
  <2>1. /\ Just(q) \in Weights /\ Just(q)[r] = IF r = q THEN 1 ELSE 0
        /\ w[Just(q)] \in Nat /\ w2[Just(q)] = w[Just(q)] + Just(q)[r]
    <3>1. Just(q) \in Weights /\ Just(q)[r] = IF r = q THEN 1 ELSE 0
        BY WeightsOfReadings
    <3>2. w[Just(q)] \in Nat
        BY <3>1 DEF Accounts
    <3> QED
        BY <3>1, <3>2
  <2>2. /\ c \in Seq(Reading) /\ Weigh(c, Just(q)) <= Weigh(buffer, Just(q)) + Just(q)[r]
        /\ Weigh(c, Just(q)) \in Nat /\ Weigh(buffer, Just(q)) \in Nat
      BY <1>1, <2>1, PushWeighs, WeightsAreNumbers DEF Weights
  <2>3. Weigh(buffer, Just(q)) <= w[Just(q)] /\ (w[Just(q)] > 0 => q.ts <= r.ts)
      BY DEF BufferIsLast, NoneIsAhead
  <2>4. r.ts \in Nat
      BY DEF Reading
  <2> QED
      BY <2>1, <2>2, <2>3, <2>4
<1> QED
    BY <1>3, <1>4, <1>5 DEF BufferIsLast, NoneIsAhead

\* It is then in no statistics yet.
LEMMA OneMoreAgrees ==
    ASSUME NEW w \in Accounts, NEW w2 \in Accounts, NEW p \in Accounts, NEW p2 \in Accounts,
           NEW r \in Reading,
           \A f \in Weights : w2[f] = w[f] + f[r] /\ p2[f] = p[f] + f[r],
           NEW table, SharesAreTyped(table), NEW e, SharesAgree(e, table, w, p)
    PROVE  SharesAgree(e, table, w2, p2)
<1>1. \A f \in Weights : /\ f[r] \in Nat /\ w[f] \in Nat /\ p[f] \in Nat
                         /\ w2[f] = w[f] + f[r] /\ p2[f] = p[f] + f[r]
    BY DEF Weights, Accounts
<1>2. ASSUME NEW b \in Nat
      PROVE  /\ Counted(table, <<e, b>>) + p2[In(b)] = w2[In(b)]
             /\ Summed(table, <<e, b>>) + p2[Worth(b)] = w2[Worth(b)]
  <2>1. In(b) \in Weights /\ Worth(b) \in Weights
      BY WeightsOfReadings
  <2>2. Counted(table, <<e, b>>) \in Nat /\ Summed(table, <<e, b>>) \in Nat
      BY DEF Counted, Summed, SharesAreTyped, Share
  <2>3. /\ Counted(table, <<e, b>>) + p[In(b)] = w[In(b)]
        /\ Summed(table, <<e, b>>) + p[Worth(b)] = w[Worth(b)]
      BY DEF SharesAgree
  <2> QED
      BY <1>1, <2>1, <2>2, <2>3
<1>3. ASSUME NEW q \in Reading
      PROVE  /\ p2[Just(q)] <= w2[Just(q)]
             /\ w[Just(q)] > 0 => w2[Just(q)] > 0
             /\ w2[Just(q)] > 0 => p2[Just(q)] > 0 \/ Spans(table, <<e, BucketOf(q.ts)>>, q.value)
  <2>1. Just(q) \in Weights /\ Just(q)[r] = IF r = q THEN 1 ELSE 0
      BY WeightsOfReadings
  <2>2. /\ p[Just(q)] <= w[Just(q)]
        /\ w[Just(q)] > 0 => p[Just(q)] > 0 \/ Spans(table, <<e, BucketOf(q.ts)>>, q.value)
      BY DEF SharesAgree
  <2> QED
      BY <1>1, <2>1, <2>2
<1>4. ASSUME NEW b \in Nat, <<e, b>> \in DOMAIN table
      PROVE  /\ \E q \in Reading : /\ BucketOf(q.ts) = b /\ w2[Just(q)] > 0
                                   /\ table[<<e, b>>].min = q.value
             /\ \E q \in Reading : /\ BucketOf(q.ts) = b /\ w2[Just(q)] > 0
                                   /\ table[<<e, b>>].max = q.value
    BY <1>3, <1>4 DEF SharesAgree
<1> QED
    BY <1>2, <1>3, <1>4 DEF SharesAgree

\* The share of a reading: a new row, or the old one with the reading in it.
LEMMA AggregateIs ==
    ASSUME NEW table, SharesAreTyped(table), NEW e \in SENSOR, NEW r \in Reading,
           NEW k, k = <<e, BucketOf(r.ts)>>, NEW t2, t2 = Aggregate(table, e, r)
    PROVE  /\ DOMAIN t2 = DOMAIN table \cup {k}
           /\ \A x \in DOMAIN table : x # k => t2[x] = table[x]
           /\ t2[k].count = Counted(table, k) + 1 /\ t2[k].sum = Summed(table, k) + r.value
           /\ t2[k].min = r.value \/ (k \in DOMAIN table /\ t2[k].min = table[k].min)
           /\ t2[k].max = r.value \/ (k \in DOMAIN table /\ t2[k].max = table[k].max)
           /\ Spans(t2, k, r.value)
           /\ \A v \in Nat : Spans(table, k, v) => Spans(t2, k, v)
           /\ SharesAreTyped(t2)
<1> DEFINE v == r.value
           new == IF k \notin DOMAIN table
                  THEN [count |-> 1, min |-> v, max |-> v, sum |-> v]
                  ELSE [count |-> table[k].count + 1,
                        min |-> IF v < table[k].min THEN v ELSE table[k].min,
                        max |-> IF v > table[k].max THEN v ELSE table[k].max,
                        sum |-> table[k].sum + v]
<1>1. t2 = [x \in DOMAIN table \cup {k} |-> IF x = k THEN new ELSE table[x]]
    BY DEF Aggregate
<1>2. v \in Nat /\ k \in SENSOR \X Nat
  <2>1. v \in Nat /\ BucketOf(r.ts) \in Nat
      BY WeightsOfReadings DEF Reading
  <2> QED
      BY <2>1
<1>3. \A x \in DOMAIN table : x \in SENSOR \X Nat /\ table[x] \in Share
    BY DEF SharesAreTyped
<1>4. k \in DOMAIN table => /\ table[k].count \in Nat /\ table[k].sum \in Nat
                            /\ table[k].min \in Nat /\ table[k].max \in Nat
    BY <1>3 DEF Share
<1> HIDE DEF v
<1>5. /\ new.count = Counted(table, k) + 1 /\ new.sum = Summed(table, k) + v
      /\ new.min = (IF k \in DOMAIN table /\ table[k].min <= v THEN table[k].min ELSE v)
      /\ new.max = (IF k \in DOMAIN table /\ table[k].max >= v THEN table[k].max ELSE v)
      /\ new \in Share
  <2>1. CASE k \notin DOMAIN table
      BY <1>2, <2>1 DEF Counted, Summed, Share
  <2>2. CASE k \in DOMAIN table
      BY <1>2, <1>4, <2>2 DEF Counted, Summed, Share
  <2> QED
      BY <2>1, <2>2
<1> HIDE DEF new
<1>6. /\ DOMAIN t2 = DOMAIN table \cup {k} /\ t2[k] = new
      /\ \A x \in DOMAIN table : x # k => t2[x] = table[x]
    BY <1>1
<1>7. Spans(t2, k, v) /\ \A u \in Nat : Spans(table, k, u) => Spans(t2, k, u)
    BY <1>2, <1>4, <1>5, <1>6 DEF Spans
<1>8. SharesAreTyped(t2)
    BY <1>2, <1>3, <1>5, <1>6 DEF SharesAreTyped
<1>9. /\ t2[k].min = v \/ (k \in DOMAIN table /\ t2[k].min = table[k].min)
      /\ t2[k].max = v \/ (k \in DOMAIN table /\ t2[k].max = table[k].max)
    BY <1>5, <1>6
<1> QED
    BY <1>5, <1>6, <1>7, <1>8, <1>9 DEF v

\* A job of the statistics: what it adds was not in them yet.
LEMMA AggregatedAgrees ==
    ASSUME NEW w \in Accounts, NEW p \in Accounts, NEW p2 \in Accounts, NEW r \in Reading,
           \A f \in Weights : p[f] = p2[f] + f[r],
           NEW table, SharesAreTyped(table), NEW e \in SENSOR, SharesAgree(e, table, w, p)
    PROVE  SharesAgree(e, Aggregate(table, e, r), w, p2)
<1> DEFINE t2 == Aggregate(table, e, r)
           h == BucketOf(r.ts)
           k == <<e, h>>
<1>1. /\ DOMAIN t2 = DOMAIN table \cup {k}
      /\ \A x \in DOMAIN table : x # k => t2[x] = table[x]
      /\ t2[k].count = Counted(table, k) + 1 /\ t2[k].sum = Summed(table, k) + r.value
      /\ t2[k].min = r.value \/ (k \in DOMAIN table /\ t2[k].min = table[k].min)
      /\ t2[k].max = r.value \/ (k \in DOMAIN table /\ t2[k].max = table[k].max)
      /\ Spans(t2, k, r.value)
      /\ \A v \in Nat : Spans(table, k, v) => Spans(t2, k, v)
  <2>1. t2 = Aggregate(table, e, r) /\ k = <<e, BucketOf(r.ts)>>
      OBVIOUS
  <2> HIDE DEF t2, k
  <2> QED
      BY <2>1, AggregateIs
<1>2. h \in Nat /\ r.value \in Nat
    BY WeightsOfReadings DEF Reading
<1>3. \A f \in Weights : /\ f[r] \in Nat /\ w[f] \in Nat /\ p[f] \in Nat /\ p2[f] \in Nat
                         /\ p[f] = p2[f] + f[r]
    BY DEF Weights, Accounts
<1>4. \A x : Counted(table, x) \in Nat /\ Summed(table, x) \in Nat
    BY DEF Counted, Summed, SharesAreTyped, Share
<1> HIDE DEF t2, h
<1>5. ASSUME NEW b \in Nat
      PROVE  /\ Counted(t2, <<e, b>>) + p2[In(b)] = w[In(b)]
             /\ Summed(t2, <<e, b>>) + p2[Worth(b)] = w[Worth(b)]
  <2> DEFINE x == <<e, b>>
  <2>1. /\ In(b) \in Weights /\ Worth(b) \in Weights
        /\ In(b)[r] = (IF h = b THEN 1 ELSE 0)
        /\ Worth(b)[r] = (IF h = b THEN r.value ELSE 0)
      BY WeightsOfReadings DEF h
  <2>2. /\ Counted(table, x) + p[In(b)] = w[In(b)]
        /\ Summed(table, x) + p[Worth(b)] = w[Worth(b)]
      BY DEF SharesAgree
  <2>3. x = k <=> h = b
      OBVIOUS
  <2> HIDE DEF x
  <2>4. CASE h = b
    <3>1. x = k
        BY <2>3, <2>4
    <3> HIDE DEF k
    <3>2. Counted(t2, x) = Counted(table, x) + 1 /\ Summed(t2, x) = Summed(table, x) + r.value
      <4>1. x \in DOMAIN t2
          BY <1>1, <3>1
      <4>2. Counted(t2, x) = t2[x].count /\ Summed(t2, x) = t2[x].sum
          BY <4>1 DEF Counted, Summed
      <4> QED
          BY <1>1, <3>1, <4>2
    <3>3. w[In(b)] \in Nat /\ p2[In(b)] \in Nat /\ p[In(b)] = p2[In(b)] + 1
        BY <1>3, <2>1, <2>4
    <3>4. w[Worth(b)] \in Nat /\ p2[Worth(b)] \in Nat /\ p[Worth(b)] = p2[Worth(b)] + r.value
        BY <1>3, <2>1, <2>4
    <3>5. Counted(table, x) \in Nat /\ Summed(table, x) \in Nat
        BY <1>4
    <3>6. Counted(t2, x) + p2[In(b)] = w[In(b)]
        BY <2>2, <3>2, <3>3, <3>5
    <3>7. Summed(t2, x) + p2[Worth(b)] = w[Worth(b)]
        BY <1>2, <2>2, <3>2, <3>4, <3>5
    <3> QED
        BY <3>6, <3>7 DEF x
  <2>5. CASE h # b
    <3>1. x # k
        BY <2>3, <2>5
    <3> HIDE DEF k
    <3>2. Counted(t2, x) = Counted(table, x) /\ Summed(t2, x) = Summed(table, x)
        BY <1>1, <3>1 DEF Counted, Summed
    <3> QED
        BY <1>3, <1>4, <2>1, <2>2, <2>5, <3>2 DEF x
  <2> QED
      BY <2>4, <2>5
<1>6. w[Just(r)] > 0
  <2>1. Just(r) \in Weights /\ Just(r)[r] = 1
      BY WeightsOfReadings
  <2>2. p[Just(r)] <= w[Just(r)]
      BY DEF SharesAgree
  <2> QED
      BY <1>3, <2>1, <2>2
<1>7. ASSUME NEW q \in Reading
      PROVE  /\ p2[Just(q)] <= w[Just(q)]
             /\ w[Just(q)] > 0 =>
                   p2[Just(q)] > 0 \/ Spans(t2, <<e, BucketOf(q.ts)>>, q.value)
  <2>1. Just(q) \in Weights /\ Just(q)[r] = IF r = q THEN 1 ELSE 0
      BY WeightsOfReadings
  <2>2. /\ p[Just(q)] <= w[Just(q)]
        /\ w[Just(q)] > 0 => p[Just(q)] > 0 \/ Spans(table, <<e, BucketOf(q.ts)>>, q.value)
      BY DEF SharesAgree
  <2>3. p2[Just(q)] <= w[Just(q)]
      BY <1>3, <2>1, <2>2
  <2>4. CASE q = r
      BY <1>1, <2>3, <2>4 DEF h
  <2>5. CASE q # r
    <3>1. p2[Just(q)] = p[Just(q)]
        BY <1>3, <2>1, <2>5
    <3> DEFINE x == <<e, BucketOf(q.ts)>>
    <3>2. q.value \in Nat
        BY DEF Reading
    <3>3. Spans(table, x, q.value) => Spans(t2, x, q.value)
      <4> HIDE DEF x, k
      <4>1. CASE x = k
          BY <1>1, <3>2, <4>1
      <4>2. CASE x # k
          BY <1>1, <4>2 DEF Spans
      <4> QED
          BY <4>1, <4>2
    <3> QED
        BY <2>2, <2>3, <3>1, <3>3
  <2> QED
      BY <2>4, <2>5
<1>8. ASSUME NEW b \in Nat, <<e, b>> \in DOMAIN t2
      PROVE  /\ \E q \in Reading : /\ BucketOf(q.ts) = b /\ w[Just(q)] > 0
                                   /\ t2[<<e, b>>].min = q.value
             /\ \E q \in Reading : /\ BucketOf(q.ts) = b /\ w[Just(q)] > 0
                                   /\ t2[<<e, b>>].max = q.value
  <2> DEFINE x == <<e, b>>
  <2>1. x \in DOMAIN table =>
          /\ \E q \in Reading : /\ BucketOf(q.ts) = b /\ w[Just(q)] > 0
                                /\ table[x].min = q.value
          /\ \E q \in Reading : /\ BucketOf(q.ts) = b /\ w[Just(q)] > 0
                                /\ table[x].max = q.value
      BY DEF SharesAgree
  <2>2. x = k <=> h = b
      OBVIOUS
  <2>3. x \in DOMAIN t2
      BY <1>8
  <2> HIDE DEF x, k
  <2>4. CASE x = k
    <3>1. BucketOf(r.ts) = b
        BY <2>2, <2>4 DEF h
    <3>2. t2[x].min = r.value \/ (x \in DOMAIN table /\ t2[x].min = table[x].min)
        BY <1>1, <2>4
    <3>3. t2[x].max = r.value \/ (x \in DOMAIN table /\ t2[x].max = table[x].max)
        BY <1>1, <2>4
    <3>4. \E q \in Reading : BucketOf(q.ts) = b /\ w[Just(q)] > 0 /\ t2[x].min = q.value
        BY <1>6, <2>1, <3>1, <3>2
    <3>5. \E q \in Reading : BucketOf(q.ts) = b /\ w[Just(q)] > 0 /\ t2[x].max = q.value
        BY <1>6, <2>1, <3>1, <3>3
    <3> QED
        BY <3>4, <3>5 DEF x
  <2>5. CASE x # k
    <3>1. x \in DOMAIN table /\ t2[x] = table[x]
        BY <1>1, <2>3, <2>5
    <3> QED
        BY <2>1, <3>1 DEF x
  <2> QED
      BY <2>4, <2>5
<1>9. SharesAgree(e, t2, w, p2)
    BY <1>5, <1>7, <1>8 DEF SharesAgree
<1> QED
    BY <1>9 DEF t2

\* It leaves the shares of the other entities as they are.
LEMMA OthersAgree ==
    ASSUME NEW table, SharesAreTyped(table), NEW e \in SENSOR, NEW r \in Reading,
           NEW c, c # e, NEW w, NEW p, SharesAgree(c, table, w, p)
    PROVE  SharesAgree(c, Aggregate(table, e, r), w, p)
<1> DEFINE t2 == Aggregate(table, e, r)
           k == <<e, BucketOf(r.ts)>>
<1>1. /\ DOMAIN t2 = DOMAIN table \cup {k}
      /\ \A x \in DOMAIN table : x # k => t2[x] = table[x]
  <2>1. t2 = Aggregate(table, e, r) /\ k = <<e, BucketOf(r.ts)>>
      OBVIOUS
  <2> HIDE DEF t2, k
  <2> QED
      BY <2>1, AggregateIs, SMTT(30)
<1>2. \A b : <<c, b>> # k
    OBVIOUS
<1> HIDE DEF t2, k
<1>3. \A b : /\ <<c, b>> \in DOMAIN t2 <=> <<c, b>> \in DOMAIN table
             /\ <<c, b>> \in DOMAIN table => t2[<<c, b>>] = table[<<c, b>>]
    BY <1>1, <1>2
<1>4. \A b, v : /\ Counted(t2, <<c, b>>) = Counted(table, <<c, b>>)
                /\ Summed(t2, <<c, b>>) = Summed(table, <<c, b>>)
                /\ Spans(t2, <<c, b>>, v) <=> Spans(table, <<c, b>>, v)
    BY <1>3 DEF Counted, Summed, Spans
<1>5. SharesAgree(c, t2, w, p)
    BY <1>3, <1>4 DEF SharesAgree
<1> QED
    BY <1>5 DEF t2

\* try_open: a buffer that is filled from the table has its last rows.
LEMMA WarmedAccounts ==
    ASSUME NEW table \in Tables, NEW w \in Accounts,
           \A f \in Weights : w[f] = Weigh(table, f)
    PROVE  BufferIsLast(Warmed(table), w)
<1>1. table \in Seq(Reading) /\ InOrder(table)
    BY DEF Tables
<1>2. /\ InOrder(Warmed(table))
      /\ \A t \in Nat : Weigh(Warmed(table), From(t)) = Least(Weigh(table, From(t)), Ceiling)
      /\ \A f \in [Reading -> Nat] : Weigh(Warmed(table), f) <= Weigh(table, f)
    BY <1>1, WarmedKeepsLast
<1>3. \A t \in Nat : w[From(t)] = Weigh(table, From(t))
    BY WeightsOfReadings
<1>4. \A r \in Reading : w[Just(r)] = Weigh(table, Just(r)) /\ Just(r) \in [Reading -> Nat]
    BY WeightsOfReadings DEF Weights
<1> QED
    BY <1>2, <1>3, <1>4 DEF BufferIsLast

(* What was read of an entity is in its rows or waits to be written there;   *)
(* what of it is not in the statistics waits to be added to them.            *)
ReadOf(e) == [f \in Weights |-> Written(e, f)]
Unshared(e) == [f \in Weights |-> Pending("stat", e, f)]

(* Buffer, rows and statistics agree on what was read. *)
Accounted ==
    /\ SharesAreTyped(stats)
    /\ \A e \in SENSOR :
          /\ BufferIsLast(ring[e], ReadOf(e)) /\ NoneIsAhead(ReadOf(e), now)
          /\ SharesAgree(e, stats, ReadOf(e), Unshared(e))

AccountsInv == ~missed => Accounted

\* The accounts are numbers.
LEMMA AccountsAreTyped ==
    ASSUME HistoryInv, NEW e \in SENSOR
    PROVE  /\ ReadOf(e) \in Accounts /\ Unshared(e) \in Accounts
           /\ \A f \in Weights : /\ ReadOf(e)[f] = Written(e, f)
                                 /\ Unshared(e)[f] = Pending("stat", e, f)
                                 /\ Written(e, f) \in Nat /\ Pending("stat", e, f) \in Nat
                                 /\ Weigh(rows[e], f) \in Nat /\ Pending("row", e, f) \in Nat
<1>1. ASSUME NEW f \in Weights
      PROVE  /\ Written(e, f) \in Nat /\ Pending("stat", e, f) \in Nat
             /\ Weigh(rows[e], f) \in Nat /\ Pending("row", e, f) \in Nat
    BY AccountsAreNumbers DEF Weights
<1> QED
    BY <1>1 DEF ReadOf, Unshared, Accounts

\* What rows and jobs stay the same for, the accounts do.
LEMMA SameAccounts ==
    ASSUME NEW e \in SENSOR,
           \A f \in Weights : /\ Written(e, f)' = Written(e, f)
                              /\ Pending("stat", e, f)' = Pending("stat", e, f)
    PROVE  ReadOf(e)' = ReadOf(e) /\ Unshared(e)' = Unshared(e)
BY DEF ReadOf, Unshared

\* record_and_aggregate: a reading enters the buffer and the accounts at once.
LEMMA RecordingKeepsAccounts ==
    ASSUME HistoryInv, AccountsInv, NEW es \in SUBSET ENTITY, NEW raw, RecordAll(es, raw)
    PROVE  AccountsInv'
<1>1. UNCHANGED <<now, rows, stats, missed>>
    BY DEF RecordAll, Record
<1> SUFFICES ASSUME ~missed
             PROVE  Accounted'
    BY <1>1 DEF AccountsInv
<1>2. Accounted
    BY DEF AccountsInv
<1>3. ASSUME NEW e \in SENSOR
      PROVE  /\ BufferIsLast(ring'[e], ReadOf(e)') /\ NoneIsAhead(ReadOf(e)', now)
             /\ SharesAgree(e, stats, ReadOf(e)', Unshared(e)')
  <2> DEFINE r == [ts |-> now, value |-> Sample(e, raw)]
             w == ReadOf(e)
             p == Unshared(e)
             u == ReadOf(e)'
             v == Unshared(e)'
             buffer == ring[e]
  <2>1. /\ e \in Samples(es, raw) => r \in Reading /\ ring'[e] = PushReading(buffer, r)
        /\ e \notin Samples(es, raw) => ring'[e] = buffer
        /\ \A kind \in {"row", "stat"}, f \in [Reading -> Nat] :
              Pending(kind, e, f)' =
                  Pending(kind, e, f) + IF e \in Samples(es, raw) THEN f[r] ELSE 0
      BY RecordingWeighs
  <2>2. /\ BufferIsLast(buffer, w) /\ NoneIsAhead(w, now) /\ SharesAgree(e, stats, w, p)
        /\ w \in Accounts /\ p \in Accounts /\ buffer \in Buffers /\ SharesAreTyped(stats)
      BY <1>2, AccountsAreTyped DEF Accounted, HistoryInv
  <2> HIDE DEF r, buffer
  <2>3. CASE e \in Samples(es, raw)
    <3>1. r \in Reading /\ r.ts = now
        BY <2>1, <2>3 DEF r
    <3>2. ASSUME NEW f \in Weights
          PROVE  /\ Written(e, f)' = Written(e, f) + f[r]
                 /\ Pending("stat", e, f)' = Pending("stat", e, f) + f[r]
                 /\ f[r] \in Nat /\ Written(e, f) \in Nat /\ Pending("stat", e, f) \in Nat
      <4>1. /\ Pending("row", e, f)' = Pending("row", e, f) + f[r]
            /\ Pending("stat", e, f)' = Pending("stat", e, f) + f[r]
          BY <2>1, <2>3 DEF Weights
      <4>2. /\ Weigh(rows[e], f) \in Nat /\ Pending("row", e, f) \in Nat
            /\ Written(e, f) \in Nat /\ Pending("stat", e, f) \in Nat
          BY AccountsAreTyped
      <4>3. f[r] \in Nat
          BY <3>1 DEF Weights
      <4>4. /\ Written(e, f)' = Weigh(rows[e], f) + Pending("row", e, f)'
            /\ Written(e, f) = Weigh(rows[e], f) + Pending("row", e, f)
          BY <1>1 DEF Written
      <4> QED
          BY <4>1, <4>2, <4>3, <4>4
    <3>3. /\ \A f \in Weights : u[f] = w[f] + f[r] /\ v[f] = p[f] + f[r]
          /\ u \in Accounts /\ v \in Accounts
      <4>1. /\ \A f \in Weights : u[f] = Written(e, f)' /\ v[f] = Pending("stat", e, f)'
            /\ \A f \in Weights : w[f] = Written(e, f) /\ p[f] = Pending("stat", e, f)
            /\ u = [f \in Weights |-> u[f]] /\ v = [f \in Weights |-> v[f]]
          BY DEF ReadOf, Unshared
      <4> HIDE DEF u, v, w, p
      <4>2. \A f \in Weights : /\ u[f] = w[f] + f[r] /\ v[f] = p[f] + f[r]
                               /\ u[f] \in Nat /\ v[f] \in Nat
          BY <3>2, <4>1
      <4> QED
          BY <4>1, <4>2 DEF Accounts
    <3> HIDE DEF u, v, w, p
    <3>4. BufferIsLast(PushReading(buffer, r), u) /\ NoneIsAhead(u, r.ts)
        BY <2>2, <3>1, <3>3, PushAccounts
    <3>5. SharesAgree(e, stats, u, v)
        BY <2>2, <3>1, <3>3, OneMoreAgrees
    <3> QED
        BY <2>1, <2>3, <3>1, <3>4, <3>5 DEF u, v
  <2>4. CASE e \notin Samples(es, raw)
    <3>1. ASSUME NEW f \in Weights
          PROVE  /\ Written(e, f)' = Written(e, f)
                 /\ Pending("stat", e, f)' = Pending("stat", e, f)
      <4>1. /\ Pending("row", e, f)' = Pending("row", e, f) + 0
            /\ Pending("stat", e, f)' = Pending("stat", e, f) + 0
          BY <2>1, <2>4 DEF Weights
      <4>2. /\ Weigh(rows[e], f) \in Nat /\ Pending("row", e, f) \in Nat
            /\ Pending("stat", e, f) \in Nat
          BY AccountsAreTyped
      <4>3. /\ Written(e, f)' = Weigh(rows[e], f) + Pending("row", e, f)'
            /\ Written(e, f) = Weigh(rows[e], f) + Pending("row", e, f)
          BY <1>1 DEF Written
      <4> QED
          BY <4>1, <4>2, <4>3
    <3>2. u = w /\ v = p
        BY <3>1, SameAccounts
    <3> HIDE DEF u, v, w, p
    <3> QED
        BY <2>1, <2>2, <2>4, <3>2 DEF u, v
  <2> QED
      BY <2>3, <2>4
<1>4. now' = now /\ stats' = stats
    BY <1>1
<1> QED
    BY <1>2, <1>3, <1>4 DEF Accounted

\* A job that ran is no longer pending: neither that of a row nor of a share.
LEMMA JobsWeigh ==
    ASSUME HistoryInv, NEW i \in DOMAIN jobs, jobs' = RemoveAt(jobs, i),
           NEW e \in SENSOR, NEW kind, NEW f \in [Reading -> Nat]
    PROVE  /\ jobs[i] \in Job /\ f[jobs[i].reading] \in Nat
           /\ Pending(kind, e, f)' \in Nat
           /\ Pending(kind, e, f) = Pending(kind, e, f)' +
                 IF jobs[i].kind = kind /\ jobs[i].entity = e THEN f[jobs[i].reading] ELSE 0
<1> DEFINE g == Owed(kind, e, f)
<1>1. jobs \in Seq(Job) /\ i \in 1..Len(jobs) /\ jobs[i] \in Job
    BY DEF HistoryInv
<1>2. /\ g \in [Job -> Nat]
      /\ \A j \in Job : g[j] = IF j.kind = kind /\ j.entity = e THEN f[j.reading] ELSE 0
    BY AccountsAreNumbers
<1>3. Pending(kind, e, f) = Weigh(jobs, g) /\ Pending(kind, e, f)' = Weigh(jobs', g)
    BY DEF Pending, Owed
<1> HIDE DEF g
<1>4. /\ g[jobs[i]] \in Nat /\ Weigh(RemoveAt(jobs, i), g) \in Nat
      /\ Weigh(jobs, g) = Weigh(RemoveAt(jobs, i), g) + g[jobs[i]]
    BY <1>1, <1>2, TakenOutWeighs
<1>5. f[jobs[i].reading] \in Nat
    BY <1>1 DEF Job
<1> QED
    BY <1>1, <1>2, <1>3, <1>4, <1>5

\* RunJob: a row that is written was read before, and so was what is added to
\* the statistics; a job that fails ends the agreement.
LEMMA RunningKeepsAccounts ==
    ASSUME HistoryInv, AccountsInv, NEW i \in DOMAIN jobs, NEW ok \in BOOLEAN, RunJob(i, ok)
    PROVE  AccountsInv'
<1> DEFINE j == jobs[i]
           r == j.reading
<1>1. /\ jobs' = RemoveAt(jobs, i) /\ now' = now /\ ring' = ring
      /\ missed' = (missed \/ ~ok)
      /\ ok => rows' = IF j.kind = "row" THEN [rows EXCEPT ![j.entity] = Insert(@, r)] ELSE rows
      /\ ok => stats' = IF j.kind = "stat" THEN Aggregate(stats, j.entity, r) ELSE stats
    BY DEF RunJob
<1> SUFFICES ASSUME ~missed, ok
             PROVE  Accounted'
    BY <1>1 DEF AccountsInv
<1>2. Accounted
    BY DEF AccountsInv
<1>3. j \in Job /\ j.entity \in SENSOR /\ r \in Reading /\ j.kind \in {"row", "stat"}
  <2>1. jobs \in Seq(Job) /\ i \in 1..Len(jobs)
      BY DEF HistoryInv
  <2>2. j \in Job
      BY <2>1
  <2> HIDE DEF j
  <2> QED
      BY <2>2 DEF Job
<1>4. ASSUME NEW e \in SENSOR, NEW f \in Weights
      PROVE  /\ f[r] \in Nat /\ Weigh(rows[e], f) \in Nat
             /\ Pending("row", e, f)' \in Nat /\ Pending("stat", e, f)' \in Nat
             /\ Pending("row", e, f) = Pending("row", e, f)' +
                   IF j.kind = "row" /\ j.entity = e THEN f[r] ELSE 0
             /\ Pending("stat", e, f) = Pending("stat", e, f)' +
                   IF j.kind = "stat" /\ j.entity = e THEN f[r] ELSE 0
             /\ Written(e, f) = Weigh(rows[e], f) + Pending("row", e, f)
             /\ Written(e, f)' = Weigh(rows'[e], f) + Pending("row", e, f)'
  <2>1. f \in [Reading -> Nat]
      BY DEF Weights
  <2>2. Weigh(rows[e], f) \in Nat
      BY AccountsAreTyped
  <2>3. /\ f[r] \in Nat
        /\ Pending("row", e, f)' \in Nat /\ Pending("stat", e, f)' \in Nat
        /\ Pending("row", e, f) = Pending("row", e, f)' +
              IF j.kind = "row" /\ j.entity = e THEN f[r] ELSE 0
        /\ Pending("stat", e, f) = Pending("stat", e, f)' +
              IF j.kind = "stat" /\ j.entity = e THEN f[r] ELSE 0
      BY <1>1, <2>1, JobsWeigh
  <2>4. /\ Written(e, f) = Weigh(rows[e], f) + Pending("row", e, f)
        /\ Written(e, f)' = Weigh(rows'[e], f) + Pending("row", e, f)'
      BY DEF Written
  <2> QED
      BY <2>2, <2>3, <2>4
<1> HIDE DEF j
<1>5. CASE j.kind = "row"
  <2> DEFINE c == j.entity
  <2>1. /\ rows' = [rows EXCEPT ![c] = Insert(rows[c], r)] /\ stats' = stats
        /\ rows \in [SENSOR -> Tables]
      BY <1>1, <1>5 DEF HistoryInv
  <2>2. ASSUME NEW e \in SENSOR, NEW f \in Weights
        PROVE  /\ Written(e, f)' = Written(e, f)
               /\ Pending("stat", e, f)' = Pending("stat", e, f)
    <3>1. CASE e = c
      <4>1. rows'[e] = Insert(rows[e], r) /\ rows[e] \in Seq(Reading)
          BY <2>1, <3>1 DEF Tables
      <4>2. Weigh(rows'[e], f) = Weigh(rows[e], f) + f[r]
          BY <1>3, <4>1, InsertWeighs DEF Weights
      <4>3. /\ Pending("row", e, f) = Pending("row", e, f)' + f[r]
            /\ Pending("stat", e, f) = Pending("stat", e, f)' + 0
          BY <1>4, <1>5, <3>1
      <4> QED
          BY <1>4, <4>2, <4>3
    <3>2. CASE e # c
      <4>1. rows'[e] = rows[e]
          BY <2>1, <3>2
      <4>2. /\ Pending("row", e, f) = Pending("row", e, f)' + 0
            /\ Pending("stat", e, f) = Pending("stat", e, f)' + 0
          BY <1>4, <1>5, <3>2
      <4> QED
          BY <1>4, <4>1, <4>2
    <3> QED
        BY <3>1, <3>2
  <2>3. \A e \in SENSOR : ReadOf(e)' = ReadOf(e) /\ Unshared(e)' = Unshared(e)
      BY <2>2, SameAccounts
  <2> QED
      BY <1>1, <1>2, <2>1, <2>3 DEF Accounted
<1>6. CASE j.kind = "stat"
  <2> DEFINE c == j.entity
             t2 == Aggregate(stats, c, r)
  <2>1. rows' = rows /\ stats' = t2 /\ SharesAreTyped(stats) /\ c \in SENSOR
      BY <1>1, <1>2, <1>3, <1>6 DEF Accounted
  <2>2. SharesAreTyped(t2)
      BY <1>3, <2>1, AggregateIs
  <2> HIDE DEF t2, c, r
  <2>3. ASSUME NEW e \in SENSOR
        PROVE  ReadOf(e)' = ReadOf(e) /\ SharesAgree(e, t2, ReadOf(e), Unshared(e)')
    <3> DEFINE w == ReadOf(e)
               p == Unshared(e)
               p2 == Unshared(e)'
    <3>1. /\ SharesAgree(e, stats, w, p) /\ w \in Accounts /\ p \in Accounts
          /\ \A f \in Weights : p[f] = Pending("stat", e, f)
          BY <1>2, AccountsAreTyped DEF Accounted
    <3>2. ASSUME NEW f \in Weights
          PROVE  Written(e, f)' = Written(e, f)
      <4>1. Pending("row", e, f) = Pending("row", e, f)' + 0
          BY <1>4, <1>6
      <4> QED
          BY <1>4, <2>1, <4>1
    <3>3. ReadOf(e)' = w
        BY <3>2 DEF ReadOf
    <3>4. /\ \A f \in Weights : p2[f] = Pending("stat", e, f)'
          /\ p2 = [f \in Weights |-> p2[f]]
        BY DEF Unshared
    <3> HIDE DEF w, p, p2
    <3>5. p2 \in Accounts
      <4>1. \A f \in Weights : p2[f] \in Nat
          BY <1>4, <3>4
      <4> QED
          BY <3>4, <4>1 DEF Accounts
    <3>6. CASE e = c
      <4>1. \A f \in Weights : p[f] = p2[f] + f[r]
          BY <1>4, <1>6, <3>1, <3>4, <3>6 DEF c
      <4>2. SharesAgree(e, Aggregate(stats, e, r), w, p2)
          BY <1>3, <2>1, <3>1, <3>5, <4>1, AggregatedAgrees
      <4> QED
          BY <3>3, <3>6, <4>2 DEF t2, w, p2
    <3>7. CASE e # c
      <4>1. \A f \in Weights : Pending("stat", e, f) = Pending("stat", e, f)' + 0
                               /\ Pending("stat", e, f)' \in Nat
          BY <1>4, <1>6, <3>7 DEF c
      <4>2. \A f \in Weights : p2[f] = p[f]
          BY <3>1, <3>4, <4>1
      <4>3. p2 = p
          BY <3>1, <3>4, <4>2 DEF Accounts
      <4>4. SharesAgree(e, t2, w, p)
          BY <1>3, <2>1, <3>1, <3>7, OthersAgree DEF t2
      <4> QED
          BY <3>3, <4>3, <4>4 DEF w, p2
    <3> QED
        BY <3>6, <3>7
  <2>4. \A e \in SENSOR : BufferIsLast(ring[e], ReadOf(e)) /\ NoneIsAhead(ReadOf(e), now)
      BY <1>2 DEF Accounted
  <2> QED
      BY <1>1, <2>1, <2>2, <2>3, <2>4 DEF Accounted
<1> QED
    BY <1>3, <1>5, <1>6

\* Reopen without pending jobs: the buffers are filled from all that was read.
LEMMA ReopeningKeepsAccounts ==
    ASSUME HistoryInv, AccountsInv, Reopen
    PROVE  AccountsInv'
<1>1. /\ jobs' = << >> /\ ring' = [e \in SENSOR |-> Warmed(rows[e])]
      /\ missed' = (missed \/ jobs # << >>)
      /\ now' = now /\ rows' = rows /\ stats' = stats
    BY DEF Reopen
<1> SUFFICES ASSUME ~missed, jobs = << >>
             PROVE  Accounted'
    BY <1>1 DEF AccountsInv
<1>2. Accounted
    BY DEF AccountsInv
<1>3. ASSUME NEW e \in SENSOR, NEW f \in Weights
      PROVE  /\ Written(e, f)' = Written(e, f)
             /\ Pending("stat", e, f)' = Pending("stat", e, f)
  <2>1. jobs' = jobs /\ rows' = rows
      BY <1>1
  <2> QED
      BY <2>1 DEF Written, Pending, Owed
<1>4. ASSUME NEW e \in SENSOR
      PROVE  BufferIsLast(Warmed(rows[e]), ReadOf(e))
  <2>1. rows[e] \in Tables /\ ReadOf(e) \in Accounts
      BY AccountsAreTyped DEF HistoryInv
  <2>2. \A f \in Weights : ReadOf(e)[f] = Weigh(rows[e], f)
    <3> TAKE f \in Weights
    <3> DEFINE g == Owed("row", e, f)
    <3>1. g \in [Job -> Nat]
        BY AccountsAreNumbers DEF Weights
    <3> HIDE DEF g
    <3>2. Weigh(<< >>, g) = 0
        BY <3>1, WeighFew
    <3>3. Written(e, f) = Weigh(rows[e], f) + 0
        BY <3>2 DEF Written, Pending, g
    <3> QED
        BY <3>3, AccountsAreTyped
  <2> QED
      BY <2>1, <2>2, WarmedAccounts
<1>5. \A e \in SENSOR : ReadOf(e)' = ReadOf(e) /\ Unshared(e)' = Unshared(e)
    BY <1>3, SameAccounts
<1> QED
    BY <1>1, <1>2, <1>4, <1>5 DEF Accounted

\* A tick of the clock leaves all readings in the past.
LEMMA TickingKeepsAccounts ==
    ASSUME HistoryInv, AccountsInv, UNCHANGED <<ring, rows, stats, jobs, missed>>,
           now' \in {now, now + 1}
    PROVE  AccountsInv'
<1> SUFFICES ASSUME ~missed
             PROVE  Accounted'
    BY DEF AccountsInv
<1>1. Accounted /\ now \in Nat
    BY DEF AccountsInv, HistoryInv
<1>2. \A e \in SENSOR : ReadOf(e)' = ReadOf(e) /\ Unshared(e)' = Unshared(e)
    BY DEF ReadOf, Unshared, Written, Pending, Owed
<1>3. \A e \in SENSOR : NoneIsAhead(ReadOf(e), now')
  <2> SUFFICES ASSUME NEW e \in SENSOR, NEW r \in Reading, ReadOf(e)[Just(r)] > 0
               PROVE  r.ts <= now'
      BY DEF NoneIsAhead
  <2>1. r.ts <= now
      BY <1>1 DEF Accounted, NoneIsAhead
  <2>2. r.ts \in Nat /\ now \in Nat
      BY <1>1 DEF Reading
  <2> QED
      BY <2>1, <2>2
<1> QED
    BY <1>1, <1>2, <1>3 DEF Accounted

\* Nothing was read yet.
LEMMA AccountsInitially == Init => AccountsInv
<1> SUFFICES ASSUME Init PROVE Accounted
    BY DEF AccountsInv
<1>1. /\ now = 0 /\ ring = [e \in SENSOR |-> << >>] /\ rows = [e \in SENSOR |-> << >>]
      /\ jobs = << >> /\ stats = << >>
    BY DEF Init, HistoryInit
<1>2. << >> \in Seq(Reading) /\ Len(<< >>) = 0 /\ DOMAIN << >> = {}
    OBVIOUS
<1>3. ASSUME NEW e \in SENSOR
      PROVE  /\ ReadOf(e) = [f \in Weights |-> 0] /\ Unshared(e) = [f \in Weights |-> 0]
  <2>1. ASSUME NEW f \in Weights
        PROVE  Written(e, f) = 0 /\ Pending("stat", e, f) = 0
    <3>1. \A kind : Pending(kind, e, f) = 0
      <4> TAKE kind
      <4> DEFINE g == Owed(kind, e, f)
      <4>1. g \in [Job -> Nat]
        <5>1. \A j \in Job : f[j.reading] \in Nat
            BY DEF Job, Weights
        <5> QED
            BY <5>1 DEF Owed
      <4> HIDE DEF g
      <4>2. Weigh(<< >>, g) = 0
          BY <4>1, WeighFew
      <4> QED
          BY <1>1, <4>2 DEF Pending, g
    <3>2. Weigh(rows[e], f) = 0
      <4>1. Weigh(<< >>, f) = 0
          BY WeighFew DEF Weights
      <4> QED
          BY <1>1, <4>1
    <3> QED
        BY <3>1, <3>2 DEF Written
  <2> QED
      BY <2>1 DEF ReadOf, Unshared
<1> DEFINE z == [f \in Weights |-> 0]
<1>4. \A f \in Weights : z[f] = 0
    OBVIOUS
<1> HIDE DEF z
<1>5. BufferIsLast(<< >>, z)
  <2>1. \A f \in Weights : Weigh(<< >>, f) = 0
      BY WeighFew DEF Weights
  <2>2. \A t \in Nat : Weigh(<< >>, From(t)) = 0 /\ z[From(t)] = 0
      BY <1>4, <2>1, WeightsOfReadings
  <2>3. \A r \in Reading : Weigh(<< >>, Just(r)) = 0 /\ z[Just(r)] = 0
      BY <1>4, <2>1, WeightsOfReadings
  <2>4. Least(0, Ceiling) = 0
      BY HistoryStoreAssumption DEF Least, Ceiling
  <2>5. InOrder(<< >>)
      BY <1>2 DEF InOrder
  <2> QED
      BY <2>2, <2>3, <2>4, <2>5 DEF BufferIsLast
<1>6. NoneIsAhead(z, now)
    BY <1>4, WeightsOfReadings DEF NoneIsAhead
<1>7. SharesAreTyped(stats) /\ \A x : x \notin DOMAIN stats
    BY <1>1, <1>2 DEF SharesAreTyped
<1>8. \A e \in SENSOR : SharesAgree(e, stats, z, z)
  <2> TAKE e \in SENSOR
  <2>1. \A b \in Nat : z[In(b)] = 0 /\ z[Worth(b)] = 0
      BY <1>4, WeightsOfReadings
  <2>2. \A r \in Reading : z[Just(r)] = 0
      BY <1>4, WeightsOfReadings
  <2>3. \A x : Counted(stats, x) = 0 /\ Summed(stats, x) = 0
      BY <1>7 DEF Counted, Summed
  <2> QED
      BY <1>7, <2>1, <2>2, <2>3 DEF SharesAgree
<1> QED
    BY <1>1, <1>3, <1>5, <1>6, <1>7, <1>8 DEF Accounted, z

\* A step leaves the history alone, records samples, runs a job, is a tick of
\* the clock, or opens the database again.
LEMMA HistoryMoves ==
    ASSUME Shapes, [Next]_vars
    PROVE  \/ UNCHANGED historyVars
           \/ \E es \in SUBSET ENTITY : \E raw : RecordAll(es, raw)
           \/ \E i \in DOMAIN jobs, ok \in BOOLEAN : RunJob(i, ok)
           \/ Tick \/ Reopen
<1> DEFINE Records == \E es \in SUBSET ENTITY : \E raw : RecordAll(es, raw)
<1>1. ASSUME NEW d \in DEVICE, NEW raw \in REPORT, StateChanged(d, raw)
      PROVE  Records
  <2>1. OfDevice(d) \in SUBSET ENTITY
      BY DataAreTyped
  <2> QED
      BY <1>1, <2>1 DEF StateChanged
<1>2. ASSUME NEW ok \in BOOLEAN, Register(ok)
      PROVE  Records
  <2>1. EntitiesFor(loop.device, loop.found) \in SUBSET ENTITY
      BY <1>2, EntitiesAreOfDevices DEF Register, Shapes
  <2> QED
      BY <1>2, <2>1 DEF Register
<1> HIDE DEF Records
<1>3. CASE Bridge
  <2>1. ASSUME NEW d \in DEVICE, NEW ok \in BOOLEAN,
               \/ DeviceLeft(d) \/ DeviceJoined(d, ok)
               \/ \E c \in CLUSTERS, raw \in CACHED : InterviewComplete(d, c, raw, ok)
        PROVE  UNCHANGED historyVars
      BY <2>1 DEF DeviceLeft, DeviceJoined, InterviewComplete, tasks
  <2>2. \A d \in DEVICE : DeviceLeft(d) => UNCHANGED historyVars
      BY <2>1
  <2> QED
      BY <1>1, <1>3, <2>1, <2>2 DEF Bridge, Records
<1>4. CASE \E ok \in BOOLEAN : Register(ok) \/ Touch(ok)
  <2>1. \A ok \in BOOLEAN : Touch(ok) => UNCHANGED historyVars
      BY DEF Touch
  <2> QED
      BY <1>2, <1>4, <2>1 DEF Records
<1>5. CASE LoadDevices \/ LoadEntities \/ Disconnect
    BY <1>5 DEF LoadDevices, LoadEntities, Disconnect, tasks
<1>6. CASE Requests
  <2>1. ASSUME NEW d \in DEVICE, DeleteLists(d) \/ \E x \in EDIT, ok \in BOOLEAN : EditDevice(d, x, ok)
        PROVE  UNCHANGED historyVars
      BY <2>1 DEF DeleteLists, EditDevice, tasks
  <2>2. ASSUME NEW e \in ENTITY, NEW x \in EDIT, NEW ok \in BOOLEAN,
               \/ e \in Known(ents) /\ EditEntity(e, x, ok)
               \/ \E y \in LOOK : EditEntityByForm(e, x, y, ok)
        PROVE  UNCHANGED historyVars
      BY <2>2 DEF EditEntity, EditEntityByForm, StoreEditEntity, tasks
  <2>3. ASSUME NEW ok \in BOOLEAN, DeleteEntities(ok) \/ DeleteDevice(ok)
        PROVE  UNCHANGED historyVars
      BY <2>3 DEF DeleteEntities, DeleteDevice, tasks
  <2> QED
      BY <1>6, <2>1, <2>2, <2>3 DEF Requests
<1>7. CASE RestoreLists \/ RestoreQueries \/ RestoreWrites
    BY <1>7 DEF RestoreLists, RestoreQueries, RestoreWrites
<1>8. CASE Database
    BY <1>8 DEF Database
<1>9. CASE Restart
    BY <1>9 DEF Restart
<1>10. CASE UNCHANGED vars
    BY <1>10 DEF vars
<1> QED
    BY <1>3, <1>4, <1>5, <1>6, <1>7, <1>8, <1>9, <1>10 DEF Next, Records

\* Every step keeps the accounts.
LEMMA AccountsStep ==
    ASSUME Shapes, HistoryInv, AccountsInv, [Next]_vars
    PROVE  AccountsInv'
<1>1. CASE UNCHANGED historyVars
    BY <1>1, TickingKeepsAccounts DEF historyVars
<1>2. CASE \E es \in SUBSET ENTITY : \E raw : RecordAll(es, raw)
    BY <1>2, RecordingKeepsAccounts
<1>3. CASE \E i \in DOMAIN jobs, ok \in BOOLEAN : RunJob(i, ok)
    BY <1>3, RunningKeepsAccounts
<1>4. CASE Tick
    BY <1>4, TickingKeepsAccounts DEF Tick
<1>5. CASE Reopen
    BY <1>5, ReopeningKeepsAccounts
<1> QED
    BY <1>1, <1>2, <1>3, <1>4, <1>5, HistoryMoves

\* Once the jobs have run the accounts are of the rows alone.
LEMMA SettledAccounts ==
    ASSUME HistoryInv, AccountsInv, Settled, NEW e \in SENSOR
    PROVE  /\ rows[e] \in Tables /\ ring[e] \in Buffers /\ now \in Nat
           /\ SharesAreTyped(stats)
           /\ \E w \in Accounts, p \in Accounts :
                 /\ \A f \in Weights : w[f] = Weigh(rows[e], f) /\ p[f] = 0
                 /\ BufferIsLast(ring[e], w) /\ NoneIsAhead(w, now)
                 /\ SharesAgree(e, stats, w, p)
<1>1. Accounted /\ jobs = << >>
    BY DEF AccountsInv, Settled
<1>2. ASSUME NEW f \in Weights
      PROVE  ReadOf(e)[f] = Weigh(rows[e], f) /\ Unshared(e)[f] = 0
  <2>1. ASSUME NEW kind
        PROVE  Pending(kind, e, f) = 0
    <3> DEFINE g == Owed(kind, e, f)
    <3>1. g \in [Job -> Nat]
        BY AccountsAreNumbers DEF Weights
    <3> HIDE DEF g
    <3>2. Weigh(<< >>, g) = 0
        BY <3>1, WeighFew
    <3> QED
        BY <1>1, <3>2 DEF Pending, g
  <2>2. Written(e, f) = Weigh(rows[e], f) + 0
      BY <2>1 DEF Written
  <2> QED
      BY <2>1, <2>2, AccountsAreTyped
<1>3. /\ BufferIsLast(ring[e], ReadOf(e)) /\ NoneIsAhead(ReadOf(e), now)
      /\ SharesAgree(e, stats, ReadOf(e), Unshared(e)) /\ SharesAreTyped(stats)
    BY <1>1 DEF Accounted
<1>4. ReadOf(e) \in Accounts /\ Unshared(e) \in Accounts
    BY AccountsAreTyped
<1>5. rows[e] \in Tables /\ ring[e] \in Buffers /\ now \in Nat
    BY DEF HistoryInv
<1> HIDE DEF ReadOf, Unshared
<1> QED
    BY <1>2, <1>3, <1>4, <1>5
-----------------------------------------------------------------------------
(* Once the jobs have run: buffers, rows and statistics of the same readings. *)

\* What is picked are the elements at the positions.
LEMMA PickMembers ==
    ASSUME NEW T, NEW list \in Seq(T), NEW positions \in SUBSET (1..Len(list))
    PROVE  /\ Pick(list, positions) \in Seq(T)
           /\ \A x : x \in ToSet(Pick(list, positions)) <=> \E i \in positions : x = list[i]
           /\ Pick(list, positions) = << >> <=> positions = {}
<1> DEFINE p == Pick(list, positions)
           L == Len(list)
<1>1. p \in Seq(T) /\ Picked(p, list, positions, L)
    BY PickIsPicked
<1>2. positions \cap 1..L = positions
    OBVIOUS
<1> HIDE DEF p
<1>3. /\ Len(p) \in Nat /\ DOMAIN p = 1..Len(p)
      /\ \E f \in [1..Len(p) -> positions] :
            /\ \A k \in positions : \E i \in 1..Len(p) : f[i] = k
            /\ \A i \in 1..Len(p) : p[i] = list[f[i]]
    BY <1>1, <1>2 DEF Picked
<1>4. PICK f \in [1..Len(p) -> positions] :
            /\ \A k \in positions : \E i \in 1..Len(p) : f[i] = k
            /\ \A i \in 1..Len(p) : p[i] = list[f[i]]
    BY <1>3
<1>5. \A x : x \in ToSet(p) <=> \E i \in 1..Len(p) : x = p[i]
    BY <1>3 DEF ToSet
<1>6. \A x : x \in ToSet(p) <=> \E i \in positions : x = list[i]
  <2>1. \A i \in 1..Len(p) : f[i] \in positions
      BY <1>4
  <2>2. ASSUME NEW x, x \in ToSet(p)
        PROVE  \E i \in positions : x = list[i]
    <3>1. PICK i \in 1..Len(p) : x = p[i]
        BY <1>5, <2>2
    <3> WITNESS f[i] \in positions
    <3> QED
        BY <1>4, <3>1
  <2>3. ASSUME NEW x, NEW k \in positions, x = list[k]
        PROVE  x \in ToSet(p)
    <3>1. PICK i \in 1..Len(p) : f[i] = k
        BY <1>4
    <3>2. x = p[i]
        BY <1>4, <2>3, <3>1
    <3> QED
        BY <1>5, <3>2
  <2> QED
      BY <2>2, <2>3
<1>7. p = << >> <=> positions = {}
  <2>1. p = << >> <=> Len(p) = 0
    <3> HIDE DEF L
    <3> QED
        BY <1>1
  <2>2. Len(p) = 0 => positions = {}
    <3> SUFFICES ASSUME Len(p) = 0, NEW k \in positions
                 PROVE  FALSE
        OBVIOUS
    <3>1. PICK i \in 1..Len(p) : f[i] = k
        BY <1>4
    <3> QED
        BY <3>1
  <2>3. Len(p) # 0 => positions # {}
    <3> SUFFICES ASSUME Len(p) # 0
                 PROVE  positions # {}
        OBVIOUS
    <3>1. 1 \in 1..Len(p)
        BY <1>3
    <3>2. f[1] \in positions
        BY <3>1
    <3> QED
        BY <3>2
  <2> QED
      BY <2>1, <2>2, <2>3
<1> QED
    BY <1>1, <1>6, <1>7 DEF p

\* In order of time, so many readings are from t on as follow the first of them.
LEMMA FromPositions ==
    ASSUME NEW s \in Seq(Reading), InOrder(s), NEW i \in 1..Len(s), NEW t \in Nat
    PROVE  s[i].ts >= t <=> Weigh(s, From(t)) >= (Len(s) - i) + 1
<1> DEFINE L == Len(s)
           P == {j \in 1..L : s[j].ts >= t}
           c == Cardinality(P)
<1>1. /\ L \in Nat /\ i \in 1..L /\ \A j \in 1..L : s[j] \in Reading
      /\ \A j, k \in 1..L : j <= k => s[j].ts <= s[k].ts
  <2>1. DOMAIN s = 1..L /\ L \in Nat /\ \A j \in 1..L : s[j] \in Reading
      OBVIOUS
  <2> QED
      BY <2>1 DEF InOrder
<1>2. Weigh(s, From(t)) = c
    BY WeighFrom
<1>3. \A j \in 1..L : s[j].ts \in Nat
    BY <1>1 DEF Reading
<1>4. P \subseteq 1..L /\ \A j \in 1..L : j \in P <=> s[j].ts >= t
    OBVIOUS
<1> HIDE DEF P, L
<1>5. IsFiniteSet(P) /\ c \in Nat
  <2>1. IsFiniteSet(1..L)
      BY <1>1, FS_Interval
  <2>2. IsFiniteSet(P)
      BY <1>4, <2>1, FS_Subset
  <2> QED
      BY <2>2, FS_CardinalityType
<1> HIDE DEF c
<1>6. CASE s[i].ts >= t
  <2>1. i..L \subseteq P
    <3> SUFFICES ASSUME NEW j \in i..L
                 PROVE  j \in P
        OBVIOUS
    <3>1. j \in 1..L /\ i <= j
        BY <1>1
    <3>2. s[i].ts <= s[j].ts /\ s[i].ts \in Nat /\ s[j].ts \in Nat
        BY <1>1, <1>3, <3>1
    <3>3. s[j].ts >= t
        BY <1>6, <3>2
    <3> QED
        BY <1>4, <3>1, <3>3
  <2>2. Cardinality(i..L) = (L - i) + 1
    <3>1. Cardinality(i..L) = IF i > L THEN 0 ELSE (L - i) + 1
        BY <1>1, FS_Interval
    <3> QED
        BY <1>1, <3>1
  <2>3. Cardinality(i..L) <= c
      BY <1>5, <2>1, FS_Subset DEF c
  <2>4. c >= (L - i) + 1
      BY <1>1, <1>5, <2>2, <2>3
  <2> QED
      BY <1>2, <1>6, <2>4 DEF L
<1>7. CASE ~(s[i].ts >= t)
  <2> DEFINE m == i + 1
  <2>1. P \subseteq m..L
    <3> SUFFICES ASSUME NEW j \in P
                 PROVE  j \in m..L
        OBVIOUS
    <3>1. j \in 1..L /\ s[j].ts >= t
        BY <1>4
    <3>2. ~(j <= i)
      <4> SUFFICES ASSUME j <= i PROVE FALSE
          OBVIOUS
      <4>1. s[j].ts <= s[i].ts /\ s[i].ts \in Nat /\ s[j].ts \in Nat
          BY <1>1, <1>3, <3>1
      <4> QED
          BY <1>7, <3>1, <4>1
    <3> QED
        BY <1>1, <3>1, <3>2
  <2>2. m \in Int /\ m <= L + 1
      BY <1>1
  <2> HIDE DEF m
  <2>3. IsFiniteSet(m..L) /\ Cardinality(m..L) = IF m > L THEN 0 ELSE (L - m) + 1
      BY <1>1, <2>2, FS_Interval
  <2>4. c <= Cardinality(m..L)
      BY <2>1, <2>3, FS_Subset DEF c
  <2>5. ~(c >= (L - i) + 1)
      BY <1>1, <1>5, <2>2, <2>3, <2>4 DEF m
  <2> QED
      BY <1>2, <1>7, <2>5 DEF L
<1> QED
    BY <1>6, <1>7

\* A buffer with as many readings from any time on as a table, if it may have so
\* many, is as old as the table's last rows.
LEMMA SameTimes ==
    ASSUME NEW s \in Seq(Reading), InOrder(s), NEW b \in Seq(Reading), InOrder(b),
           \A t \in Nat : Weigh(b, From(t)) = Least(Weigh(s, From(t)), Ceiling)
    PROVE  /\ Len(b) = Least(Len(s), Ceiling) /\ Len(b) <= Len(s)
           /\ \A i \in 1..Len(b) : /\ (Len(s) - Len(b)) + i \in 1..Len(s)
                                   /\ b[i].ts = s[(Len(s) - Len(b)) + i].ts
<1> DEFINE L == Len(s)
           R == Len(b)
<1>1. L \in Nat /\ R \in Nat /\ Ceiling \in Nat \ {0}
    BY HistoryStoreAssumption DEF Ceiling
<1>2. (\A i \in 1..L : s[i].ts \in Nat) /\ \A i \in 1..R : b[i].ts \in Nat
  <2>1. (\A i \in 1..L : s[i] \in Reading) /\ \A i \in 1..R : b[i] \in Reading
      OBVIOUS
  <2> HIDE DEF L, R
  <2> QED
      BY <2>1 DEF Reading
<1>3. Weigh(s, From(0)) = L /\ Weigh(b, From(0)) = R
  <2>1. (\A i \in 1..L : s[i].ts >= 0) /\ \A i \in 1..R : b[i].ts >= 0
      BY <1>2
  <2>2. 0 \in Nat
      OBVIOUS
  <2> QED
      BY <2>1, <2>2, WeighFrom
<1>4. R = Least(L, Ceiling)
  <2>1. 0 \in Nat
      OBVIOUS
  <2> QED
      BY <1>3, <2>1
<1>5. \A t \in Nat : Weigh(s, From(t)) \in Nat /\ Weigh(b, From(t)) \in Nat
  <2> TAKE t \in Nat
  <2>1. Weigh(s, From(t)) \in 0..L /\ Weigh(b, From(t)) \in 0..R
      BY WeighFrom
  <2> QED
      BY <1>1, <2>1
<1>6. R <= L /\ R <= Ceiling
    BY <1>1, <1>4 DEF Least
<1>7. ASSUME NEW i \in 1..R
      PROVE  (L - R) + i \in 1..L /\ b[i].ts = s[(L - R) + i].ts
  <2> DEFINE k == (L - R) + i
  <2>1. k \in 1..L /\ (L - k) + 1 = (R - i) + 1 /\ (R - i) + 1 <= Ceiling /\ i \in Nat
      BY <1>1, <1>6
  <2>2. ASSUME NEW t \in Nat
        PROVE  b[i].ts >= t <=> s[k].ts >= t
    <3> DEFINE x == Weigh(s, From(t))
               y == Weigh(b, From(t))
               n == (R - i) + 1
    <3>1. b[i].ts >= t <=> y >= n
      <4>1. i \in 1..Len(b)
          OBVIOUS
      <4>2. b[i].ts >= t <=> Weigh(b, From(t)) >= (Len(b) - i) + 1
        <5> HIDE DEF R, y, n
        <5> QED
            BY <4>1, FromPositions
      <4> QED
          BY <4>2
    <3>2. s[k].ts >= t <=> x >= n
      <4> HIDE DEF k
      <4>1. s[k].ts >= t <=> x >= (L - k) + 1
          BY <2>1, FromPositions
      <4> QED
          BY <2>1, <4>1
    <3>3. x \in Nat /\ y \in Nat /\ y = Least(x, Ceiling) /\ n \in Nat /\ n <= Ceiling
      <4>1. x \in Nat /\ y \in Nat
          BY <1>5
      <4>2. y = Least(x, Ceiling)
          OBVIOUS
      <4>3. n \in Nat /\ n <= Ceiling
          BY <1>1, <2>1
      <4> QED
          BY <4>1, <4>2, <4>3
    <3> HIDE DEF x, y, n
    <3>4. y >= n <=> x >= n
        BY <1>1, <3>3 DEF Least
    <3> QED
        BY <3>1, <3>2, <3>4
  <2>3. b[i].ts \in Nat /\ s[k].ts \in Nat
      BY <1>2, <2>1
  <2> HIDE DEF k
  <2>4. b[i].ts = s[k].ts
    <3> DEFINE x == b[i].ts  y == s[k].ts
    <3>1. /\ x \in Nat /\ y \in Nat
          /\ \A t \in Nat : x >= t <=> y >= t
        BY <2>2, <2>3
    <3> HIDE DEF x, y
    <3>2. (x >= x <=> y >= x) /\ (x >= y <=> y >= y)
        BY ONLY <3>1, Zenon
    <3>3. x >= y /\ y >= x
        BY <3>1, <3>2
    <3> QED
        BY <3>1, <3>3 DEF x, y
  <2> QED
      BY <2>1, <2>4 DEF k
<1> QED
    BY <1>4, <1>6, <1>7

\* The last elements of a list.
LEMMA LastPart ==
    ASSUME NEW T, NEW s \in Seq(T), NEW m \in 0..Len(s)
    PROVE  LET tail == SubSeq(s, (Len(s) - m) + 1, Len(s))
           IN  /\ tail \in Seq(T) /\ Len(tail) = m
               /\ \A i \in 1..m : tail[i] = s[(Len(s) - m) + i]
<1> DEFINE L == Len(s)
           q == (L - m) + 1
           tail == SubSeq(s, q, L)
<1>1. L \in Nat /\ m \in Nat /\ m <= L /\ \A i \in 1..L : s[i] \in T
    OBVIOUS
<1> HIDE DEF L
<1>2. \A i \in q..L : s[i] \in T
    BY <1>1
<1>3. q \in Int /\ L \in Int /\ (q <= L <=> m > 0) /\ (L - q) + 1 = m
    BY <1>1
<1>4. \A i \in 1..m : (q + i) - 1 = (L - m) + i
    BY <1>1
<1> HIDE DEF q
<1>5. /\ tail \in Seq(T)
      /\ Len(tail) = IF q <= L THEN (L - q) + 1 ELSE 0
      /\ \A i \in 1..((L - q) + 1) : tail[i] = s[(q + i) - 1]
    BY <1>2, <1>3, SubSeqProperties
<1> HIDE DEF tail
<1>6. tail \in Seq(T) /\ Len(tail) = m /\ \A i \in 1..m : tail[i] = s[(L - m) + i]
  <2>1. tail \in Seq(T) /\ Len(tail) = m
      BY <1>1, <1>3, <1>5
  <2>2. \A i \in 1..m : tail[i] = s[(q + i) - 1]
      BY <1>3, <1>5
  <2> QED
      BY <1>4, <2>1, <2>2
<1> QED
    BY <1>6 DEF tail, q, L

\* The positions of a list of which the last m elements are read.
LEMMA LastTimes ==
    ASSUME NEW s \in Seq(Reading), NEW b \in Seq(Reading), Len(b) <= Len(s),
           \A i \in 1..Len(b) : b[i].ts = s[(Len(s) - Len(b)) + i].ts,
           NEW m \in 0..Len(b)
    PROVE  Times(SubSeq(b, (Len(b) - m) + 1, Len(b))) =
               SubSeq(Times(s), (Len(s) - m) + 1, Len(s))
<1> DEFINE L == Len(s)  R == Len(b)
           line == SubSeq(b, (R - m) + 1, R)
           chart == Times(s)
           tail == SubSeq(chart, (L - m) + 1, L)
<1>1. L \in Nat /\ R \in Nat /\ m \in Nat /\ m <= R /\ R <= L
    OBVIOUS
<1>2. DOMAIN chart = 1..L /\ \A i \in 1..L : chart[i] = s[i].ts
    BY DEF Times
<1>3. chart \in Seq(Nat)
  <2>1. \A i \in 1..L : s[i].ts \in Nat
    <3>1. \A i \in 1..L : s[i] \in Reading
        OBVIOUS
    <3> HIDE DEF L
    <3> QED
        BY <3>1 DEF Reading
  <2>2. chart \in [1..L -> Nat]
      BY <2>1 DEF Times
  <2> HIDE DEF chart, L
  <2> QED
      BY <1>1, <2>2
<1>4. /\ line \in Seq(Reading) /\ Len(line) = m
      /\ \A i \in 1..m : line[i] = b[(R - m) + i]
    BY LastPart
<1>5. /\ tail \in Seq(Nat) /\ Len(tail) = m
      /\ \A i \in 1..m : tail[i] = chart[(L - m) + i]
  <2>1. Len(chart) = L
    <3> HIDE DEF L, chart
    <3> QED
        BY ONLY <1>1, <1>2, <1>3
  <2>2. m \in 0..Len(chart)
      BY <1>1, <2>1
  <2> HIDE DEF chart
  <2>3. /\ SubSeq(chart, (Len(chart) - m) + 1, Len(chart)) \in Seq(Nat)
        /\ Len(SubSeq(chart, (Len(chart) - m) + 1, Len(chart))) = m
        /\ \A i \in 1..m : SubSeq(chart, (Len(chart) - m) + 1, Len(chart))[i] =
                               chart[(Len(chart) - m) + i]
      BY <1>3, <2>2, LastPart
  <2> HIDE DEF L
  <2> QED
      BY <2>1, <2>3
<1> HIDE DEF chart
<1> HIDE DEF line, tail
<1>6. \A i \in 1..m : Times(line)[i] = tail[i]
  <2> TAKE i \in 1..m
  <2>1. (R - m) + i \in 1..R /\ (L - m) + i \in 1..L /\ (L - R) + ((R - m) + i) = (L - m) + i
      BY <1>1
  <2>2. b[(R - m) + i].ts = s[(L - m) + i].ts
    <3> DEFINE j == (R - m) + i
    <3>1. b[j].ts = s[(L - R) + j].ts
        BY <2>1
    <3> QED
        BY <2>1, <3>1
  <2>3. Times(line)[i] = line[i].ts
    <3>1. i \in DOMAIN line
        BY <1>4
    <3> QED
        BY <3>1 DEF Times
  <2> QED
      BY <1>2, <1>4, <1>5, <2>1, <2>2, <2>3
<1>7. Times(line) = tail
  <2>1. DOMAIN line = 1..m /\ DOMAIN tail = 1..m /\ tail = [i \in DOMAIN tail |-> tail[i]]
      BY <1>4, <1>5
  <2>2. Times(line) = [i \in 1..m |-> Times(line)[i]]
      BY <2>1 DEF Times
  <2> QED
      BY <1>6, <2>1, <2>2
<1> QED
    BY <1>7 DEF line, tail, chart

\* What the history page reads of all time is the table.
LEMMA ChartIsTable ==
    ASSUME HistoryInv, NEW e \in SENSOR
    PROVE  Readings(e, [since |-> 0]) = rows[e]
<1> DEFINE all == {i \in DOMAIN rows[e] : rows[e][i].ts >= 0}
<1>1. rows[e] \in Seq(Reading) /\ DOMAIN rows[e] = 1..Len(rows[e])
    BY DEF HistoryInv, Tables
<1>2. 1..Len(rows[e]) \subseteq all
  <2>1. \A i \in 1..Len(rows[e]) : rows[e][i] \in Reading
      BY <1>1
  <2>2. \A i \in 1..Len(rows[e]) : rows[e][i].ts \in Nat
      BY <2>1 DEF Reading
  <2> QED
      BY <1>1, <2>2
<1>3. Readings(e, [since |-> 0]) = Pick(rows[e], all)
    BY HistoryStoreAssumption DEF Readings, Since
<1> HIDE DEF all
<1> QED
    BY <1>1, <1>2, <1>3, PickAll

\* Once the jobs have run the buffers have the last rows of the table.
LEMMA RingSettles ==
    ASSUME HistoryInv, AccountsInv
    PROVE  RingIsWarm
<1> SUFFICES ASSUME Settled, NEW e \in SENSOR, NEW n \in 0..CAPACITY, n <= 1000
             PROVE  LET line == Readings(e, [since |-> None, last |-> n])
                        chart == Readings(e, [since |-> 0])
                        k == IF n < Len(chart) THEN n ELSE Len(chart)
                    IN  /\ Times(line) = SubSeq(Times(chart), Len(chart) - k + 1, Len(chart))
                        /\ ToSet(line) \subseteq ToSet(chart)
                        /\ Times(Warmed(rows[e])) = Times(ring[e])
    BY DEF RingIsWarm
<1> DEFINE s == rows[e]  b == ring[e]  c == Warmed(s)
           L == Len(s)  R == Len(b)  m == Least(n, L)
           line == SubSeq(b, (R - m) + 1, R)
<1>1. PICK w \in Accounts, p \in Accounts :
          /\ \A f \in Weights : w[f] = Weigh(s, f) /\ p[f] = 0
          /\ BufferIsLast(b, w) /\ NoneIsAhead(w, now)
          /\ SharesAgree(e, stats, w, p)
    BY SettledAccounts
<1>2. s \in Seq(Reading) /\ InOrder(s) /\ b \in Seq(Reading) /\ InOrder(b)
    BY <1>1 DEF HistoryInv, Tables, Buffers, BufferIsLast
<1>3. \A t \in Nat : Weigh(b, From(t)) = Least(Weigh(s, From(t)), Ceiling)
    BY <1>1, WeightsOfReadings DEF BufferIsLast
<1>4. /\ Len(c) = Least(L, Ceiling) /\ c \in Seq(Reading) /\ InOrder(c)
      /\ \A t \in Nat : Weigh(c, From(t)) = Least(Weigh(s, From(t)), Ceiling)
    BY <1>2, WarmedKeepsLast
<1> HIDE DEF s, b, c
<1>5. /\ R = Least(L, Ceiling) /\ R <= L
      /\ \A i \in 1..R : (L - R) + i \in 1..L /\ b[i].ts = s[(L - R) + i].ts
    BY <1>2, <1>3, SameTimes
<1>6. /\ Len(c) = R
      /\ \A i \in 1..R : c[i].ts = s[(L - R) + i].ts
  <2>1. \A i \in 1..Len(c) : c[i].ts = s[(Len(s) - Len(c)) + i].ts
      BY <1>2, <1>4, SameTimes
  <2> QED
      BY <1>4, <1>5, <2>1
<1>7. Times(c) = Times(b)
  <2>1. DOMAIN c = 1..R /\ DOMAIN b = 1..R
    <3> HIDE DEF R
    <3>1. DOMAIN c = 1..R
        BY <1>4, <1>6
    <3> QED
        BY <1>2, <3>1 DEF R
  <2>2. \A i \in 1..R : c[i].ts = b[i].ts
      BY <1>5, <1>6
  <2> QED
      BY <2>1, <2>2 DEF Times
<1>8. Readings(e, [since |-> 0]) = s
    BY ChartIsTable DEF s
<1>9. L \in Nat /\ R \in Nat /\ n \in Nat /\ n <= CAPACITY /\ CAPACITY \in Nat
      /\ CAPACITY <= Ceiling /\ Ceiling \in Nat
  <2>1. L \in Nat /\ R \in Nat
      BY <1>2
  <2> QED
      BY <2>1, HistoryStoreAssumption DEF Ceiling
<1>10. /\ m \in 0..R /\ m = (IF n < L THEN n ELSE L)
       /\ (IF n < R THEN R - n ELSE 0) = R - m
  <2> HIDE DEF L, R
  <2> QED
      BY <1>5, <1>9 DEF Least
<1>11. Readings(e, [since |-> None, last |-> n]) = line
  <2>1. Readings(e, [since |-> None, last |-> n]) = LastN(e, IF n < 1000 THEN n ELSE 1000)
      BY DEF Readings
  <2>2. (IF n < 1000 THEN n ELSE 1000) = n
      BY <1>9
  <2>3. LastN(e, n) = SubSeq(b, (IF n < R THEN R - n ELSE 0) + 1, R)
      BY DEF LastN, b
  <2> DEFINE cap == IF n < 1000 THEN n ELSE 1000
  <2>4. Readings(e, [since |-> None, last |-> n]) = LastN(e, cap) /\ cap = n
      BY <2>1, <2>2
  <2> HIDE DEF cap
  <2>5. Readings(e, [since |-> None, last |-> n]) = LastN(e, n)
      BY <2>4
  <2> DEFINE first == IF n < R THEN R - n ELSE 0
  <2>6. LastN(e, n) = SubSeq(b, first + 1, R) /\ first = R - m
      BY <1>10, <2>3
  <2> HIDE DEF m, first
  <2> QED
      BY <2>5, <2>6
<1>12. Times(line) = SubSeq(Times(s), (L - m) + 1, L)
  <2> HIDE DEF m
  <2> QED
      BY <1>2, <1>5, <1>10, LastTimes
<1>13. ToSet(line) \subseteq ToSet(s)
  <2> SUFFICES ASSUME NEW x \in ToSet(line)
               PROVE  x \in ToSet(s)
      OBVIOUS
  <2>1. line \in Seq(Reading) /\ Len(line) = m /\ \A i \in 1..m : line[i] = b[(R - m) + i]
    <3> HIDE DEF m
    <3> QED
        BY <1>2, <1>10, LastPart
  <2>2. m \in Nat /\ m <= R
    <3> HIDE DEF m, R
    <3> QED
        BY <1>9, <1>10
  <2>3. PICK i \in DOMAIN line : x = line[i]
      BY DEF ToSet
  <2> HIDE DEF line, m
  <2>4. i \in 1..m
      BY <2>1, <2>3
  <2>5. \E j \in 1..R : x = b[j]
    <3>1. (R - m) + i \in 1..R
        BY <1>9, <2>2, <2>4
    <3> QED
        BY <2>1, <2>3, <2>4, <3>1
  <2>6. PICK j \in 1..Len(b) : x = b[j]
      BY <2>5
  <2>7. x \in Reading
    <3>1. \A k \in 1..Len(b) : b[k] \in Reading
        BY ONLY <1>2
    <3> QED
        BY <2>6, <3>1
  <2> DEFINE S == {x}
  <2>8. \A y : y \in S <=> y = x
      OBVIOUS
  <2> HIDE DEF S
  <2>9. Weigh(b, Among(Reading, S)) > 0
    <3>1. \E k \in 1..Len(b) : b[k] \in S
        BY <2>6, <2>8
    <3> QED
        BY <1>2, <3>1, WeighAmong
  <2>10. Just(x) = Among(Reading, S) /\ Just(x) \in Weights
      BY <2>7, WeightsOfReadings DEF Just, S
  <2>11. Weigh(b, Just(x)) <= Weigh(s, Just(x))
      BY <1>1, <2>7, <2>10 DEF BufferIsLast
  <2>12. Weigh(s, Just(x)) > 0
    <3>1. Weigh(s, Just(x)) \in Nat /\ Weigh(b, Just(x)) \in Nat
        BY <1>2, <2>10, WeightsAreNumbers DEF Weights
    <3> QED
        BY <2>9, <2>10, <2>11, <3>1
  <2>13. PICK k \in 1..Len(s) : s[k] \in S
      BY <1>2, <2>10, <2>12, WeighAmong
  <2>14. k \in DOMAIN s /\ s[k] = x
    <3>1. DOMAIN s = 1..Len(s)
        BY ONLY <1>2
    <3> QED
        BY <2>8, <2>13, <3>1
  <2> QED
      BY <2>14 DEF ToSet
<1> HIDE DEF m, line
<1>14. /\ Times(line) = SubSeq(Times(s), L - m + 1, L)
       /\ ToSet(line) \subseteq ToSet(s)
       /\ Times(Warmed(s)) = Times(b)
    BY <1>7, <1>12, <1>13 DEF c
<1> QED
    BY <1>8, <1>10, <1>11, <1>14 DEF s, b

\* A bucket starts at a bucket's start, so a time is from there on with its bucket.
LEMMA BucketsAreAligned ==
    ASSUME NEW s \in Nat, NEW t \in Nat
    PROVE  /\ BucketOf(s) \in Nat /\ BucketOf(t) \in Nat
           /\ BucketOf(t) >= BucketOf(s) <=> t >= BucketOf(s)
<1> DEFINE B == BUCKET
           a == s \div B  c == t \div B  d == t % B  m == s % B
<1>1. B \in Nat /\ B > 0
    BY HistoryStoreAssumption
<1> HIDE DEF B
<1>2. /\ a \in Nat /\ m \in Nat /\ m < B /\ s = B * a + m
      /\ c \in Nat /\ d \in Nat /\ d < B /\ t = B * c + d
    BY <1>1
<1> HIDE DEF a, c, d, m
<1>3. B * a \in Nat /\ B * c \in Nat
    BY <1>1, <1>2
<1>4. BucketOf(s) = B * a /\ BucketOf(t) = B * c
  <2>1. s - m = B * a /\ t - d = B * c
      BY <1>1, <1>2, <1>3
  <2> QED
      BY <2>1 DEF BucketOf, B, m, d
<1>5. ASSUME c < a
      PROVE  B * c + d < B * a
  <2>1. PICK k \in Nat : a = (c + 1) + k
    <3>1. a - (c + 1) \in Nat /\ a = (c + 1) + (a - (c + 1))
        BY <1>2, <1>5
    <3> QED
        BY <3>1
  <2>2. B * a = (B * c + B) + B * k
      BY <1>1, <1>2, <2>1
  <2>3. B * k \in Nat
      BY <1>1, <2>1
  <2> QED
      BY <1>1, <1>2, <1>3, <2>2, <2>3
<1>6. ASSUME ~(c < a)
      PROVE  B * c >= B * a
  <2>1. PICK k \in Nat : c = a + k
    <3>1. c - a \in Nat /\ c = a + (c - a)
        BY <1>2, <1>6
    <3> QED
        BY <3>1
  <2>2. B * c = B * a + B * k
      BY <1>1, <1>2, <2>1
  <2>3. B * k \in Nat
      BY <1>1, <2>1
  <2> QED
      BY <1>3, <2>2, <2>3
<1> QED
  <2>1. CASE c < a
      BY <1>1, <1>2, <1>3, <1>4, <1>5, <2>1
  <2>2. CASE ~(c < a)
      BY <1>1, <1>2, <1>3, <1>4, <1>6, <2>2
  <2> QED
      BY <2>1, <2>2

(* The statistics of e sum up the rows s, bucket by bucket. *)
SumsUp(e, s, table) ==
    /\ \A i \in 1..Len(s) : Spans(table, <<e, BucketOf(s[i].ts)>>, s[i].value)
    /\ \A b \in Nat : <<e, b>> \in DOMAIN table =>
          /\ table[<<e, b>>].count =
                Cardinality({i \in 1..Len(s) : BucketOf(s[i].ts) = b})
          /\ table[<<e, b>>].sum = Weigh(s, Worth(b))
          /\ \E i \in 1..Len(s) : /\ BucketOf(s[i].ts) = b
                                  /\ table[<<e, b>>].min = s[i].value
          /\ \E i \in 1..Len(s) : /\ BucketOf(s[i].ts) = b
                                  /\ table[<<e, b>>].max = s[i].value

\* The rows of the statistics when none is missing: they sum up the readings.
LEMMA SharesSettle ==
    ASSUME NEW e \in SENSOR, NEW s \in Seq(Reading), NEW table, SharesAreTyped(table),
           NEW w \in Accounts, NEW p \in Accounts, SharesAgree(e, table, w, p),
           \A f \in Weights : w[f] = Weigh(s, f) /\ p[f] = 0
    PROVE  SumsUp(e, s, table)
<1>1. Len(s) \in Nat /\ \A i \in 1..Len(s) : s[i] \in Reading
    OBVIOUS
<1>2. \A r \in Reading : w[Just(r)] > 0 <=> \E i \in 1..Len(s) : s[i] = r
  <2> TAKE r \in Reading
  <2> DEFINE S == {r}
  <2>1. Just(r) = Among(Reading, S) /\ Just(r) \in Weights
      BY WeightsOfReadings DEF Just
  <2>2. \A y : y \in S <=> y = r
      OBVIOUS
  <2> HIDE DEF S
  <2>3. Weigh(s, Among(Reading, S)) > 0 <=> \E i \in 1..Len(s) : s[i] \in S
      BY WeighAmong
  <2>4. w[Just(r)] = Weigh(s, Among(Reading, S))
      BY <2>1
  <2> QED
      BY <2>2, <2>3, <2>4
<1>3. \A i \in 1..Len(s) : Spans(table, <<e, BucketOf(s[i].ts)>>, s[i].value)
  <2> TAKE i \in 1..Len(s)
  <2> DEFINE r == s[i]
  <2>1. r \in Reading /\ w[Just(r)] > 0
      BY <1>1, <1>2
  <2> HIDE DEF r
  <2>2. p[Just(r)] = 0
      BY <2>1, WeightsOfReadings
  <2>3. p[Just(r)] > 0 \/ Spans(table, <<e, BucketOf(r.ts)>>, r.value)
      BY <2>1 DEF SharesAgree
  <2>4. Spans(table, <<e, BucketOf(r.ts)>>, r.value)
      BY <2>2, <2>3
  <2> QED
      BY <2>4 DEF r
<1>4. ASSUME NEW b \in Nat, <<e, b>> \in DOMAIN table
      PROVE  /\ table[<<e, b>>].count =
                   Cardinality({i \in 1..Len(s) : BucketOf(s[i].ts) = b})
             /\ table[<<e, b>>].sum = Weigh(s, Worth(b))
             /\ \E i \in 1..Len(s) : /\ BucketOf(s[i].ts) = b
                                     /\ table[<<e, b>>].min = s[i].value
             /\ \E i \in 1..Len(s) : /\ BucketOf(s[i].ts) = b
                                     /\ table[<<e, b>>].max = s[i].value
  <2> DEFINE row == table[<<e, b>>]
             S == {r \in Reading : BucketOf(r.ts) = b}
             P == {i \in 1..Len(s) : s[i] \in S}
  <2>1. row.count \in Nat /\ row.sum \in Nat
      BY <1>4 DEF SharesAreTyped, Share
  <2>2. In(b) \in Weights /\ Worth(b) \in Weights
      BY WeightsOfReadings
  <2>3. /\ row.count + p[In(b)] = w[In(b)]
        /\ row.sum + p[Worth(b)] = w[Worth(b)]
      BY <1>4 DEF SharesAgree, Counted, Summed
  <2>4. row.count = Weigh(s, In(b)) /\ row.sum = Weigh(s, Worth(b))
    <3>1. p[In(b)] = 0 /\ p[Worth(b)] = 0
          /\ w[In(b)] = Weigh(s, In(b)) /\ w[Worth(b)] = Weigh(s, Worth(b))
        BY <2>2
    <3> HIDE DEF row
    <3> QED
        BY <2>1, <2>3, <3>1
  <2>5. In(b) = Among(Reading, S)
      BY DEF In
  <2>6. P = {i \in 1..Len(s) : BucketOf(s[i].ts) = b}
      BY <1>1
  <2>7. Weigh(s, Among(Reading, S)) = Cardinality(P)
    <3> HIDE DEF S
    <3> QED
        BY WeighCounts
  <2>8. row.count = Cardinality({i \in 1..Len(s) : BucketOf(s[i].ts) = b})
    <3> HIDE DEF row, S, P
    <3> QED
        BY <2>4, <2>5, <2>6, <2>7
  <2>9. /\ \E r \in Reading : BucketOf(r.ts) = b /\ w[Just(r)] > 0 /\ row.min = r.value
        /\ \E r \in Reading : BucketOf(r.ts) = b /\ w[Just(r)] > 0 /\ row.max = r.value
      BY <1>4 DEF SharesAgree
  <2>10. \E i \in 1..Len(s) : BucketOf(s[i].ts) = b /\ row.min = s[i].value
    <3>1. PICK r \in Reading : BucketOf(r.ts) = b /\ w[Just(r)] > 0 /\ row.min = r.value
        BY <2>9
    <3>2. PICK i \in 1..Len(s) : s[i] = r
        BY <1>2, <3>1
    <3> HIDE DEF row
    <3> QED
        BY <3>1, <3>2
  <2>11. \E i \in 1..Len(s) : BucketOf(s[i].ts) = b /\ row.max = s[i].value
    <3>1. PICK r \in Reading : BucketOf(r.ts) = b /\ w[Just(r)] > 0 /\ row.max = r.value
        BY <2>9
    <3>2. PICK i \in 1..Len(s) : s[i] = r
        BY <1>2, <3>1
    <3> HIDE DEF row
    <3> QED
        BY <3>1, <3>2
  <2> QED
      BY <2>4, <2>8, <2>10, <2>11
<1> QED
    BY <1>3, <1>4 DEF SumsUp

\* What the history page reads from t on are the rows from t on.
LEMMA SinceIs ==
    ASSUME HistoryInv, NEW e \in SENSOR, NEW t \in Nat
    PROVE  /\ \A x : x \in ToSet(Since(e, t)) <=>
                     \E i \in 1..Len(rows[e]) : rows[e][i].ts >= t /\ x = rows[e][i]
           /\ Since(e, t) # << >> <=> \E i \in 1..Len(rows[e]) : rows[e][i].ts >= t
<1> DEFINE s == rows[e]
           P == {i \in 1..Len(s) : s[i].ts >= t}
<1>1. s \in Seq(Reading) /\ DOMAIN s = 1..Len(s)
    BY DEF HistoryInv, Tables
<1>2. Since(e, t) = Pick(s, P)
    BY <1>1 DEF Since
<1>3. P \in SUBSET (1..Len(s)) /\ \A i \in 1..Len(s) : i \in P <=> s[i].ts >= t
    OBVIOUS
<1> HIDE DEF s, P
<1>4. /\ \A x : x \in ToSet(Pick(s, P)) <=> \E i \in P : x = s[i]
      /\ Pick(s, P) = << >> <=> P = {}
    BY <1>1, <1>3, PickMembers
<1>5. /\ \A x : x \in ToSet(Since(e, t)) <=> \E i \in 1..Len(s) : s[i].ts >= t /\ x = s[i]
      /\ Since(e, t) # << >> <=> \E i \in 1..Len(s) : s[i].ts >= t
    BY <1>2, <1>3, <1>4
<1> QED
    BY <1>5 DEF s

\* A bucket has a row in the statistics when it has one in the table.
LEMMA BucketsSettle ==
    ASSUME HistoryInv, AccountsInv, Settled, NEW e \in SENSOR
    PROVE  /\ \A k \in DOMAIN stats : k \in SENSOR \X Nat /\ stats[k] \in Share
           /\ \A b \in Nat : <<e, b>> \in DOMAIN stats <=>
                             \E i \in 1..Len(rows[e]) : BucketOf(rows[e][i].ts) = b
           /\ SumsUp(e, rows[e], stats)
<1> DEFINE s == rows[e]
<1>1. /\ s \in Seq(Reading) /\ SharesAreTyped(stats)
      /\ \E w \in Accounts, p \in Accounts :
            /\ \A f \in Weights : w[f] = Weigh(s, f) /\ p[f] = 0
            /\ SharesAgree(e, stats, w, p)
    BY SettledAccounts DEF Tables
<1> HIDE DEF s
<1>2. PICK w \in Accounts, p \in Accounts :
            /\ \A f \in Weights : w[f] = Weigh(s, f) /\ p[f] = 0
            /\ SharesAgree(e, stats, w, p)
    BY <1>1
<1>3. SumsUp(e, s, stats)
    BY <1>1, <1>2, SharesSettle, Zenon
<1>4. \A b \in Nat : <<e, b>> \in DOMAIN stats <=>
                     \E i \in 1..Len(s) : BucketOf(s[i].ts) = b
    BY <1>3 DEF Spans, SumsUp
<1>5. \A k \in DOMAIN stats : k \in SENSOR \X Nat /\ stats[k] \in Share
    BY <1>1, Zenon DEF SharesAreTyped
<1> QED
    BY <1>3, <1>4, <1>5 DEF s

(* The statistics and the table have the same buckets from start to end. *)
SameBuckets(e, start, end) ==
    \A b : (\E k \in DOMAIN Statistics(e, start, end) : b = k[2]) <=>
            \E r \in ToSet(Since(e, start)) :
               BucketOf(r.ts) \in start..end /\ b = BucketOf(r.ts)

\* The statistics and the table have the same buckets of a window.
LEMMA WindowsSettle ==
    ASSUME HistoryInv, AccountsInv, Settled, NEW e \in SENSOR,
           NEW a \in Nat, NEW start, start = BucketOf(a), NEW end \in Nat
    PROVE  /\ start \in Nat
           /\ StatsSince(e, start) # {} <=> Since(e, start) # << >>
           /\ SameBuckets(e, start, end)
<1> DEFINE s == rows[e]
           In1(b) == \E i \in 1..Len(s) : BucketOf(s[i].ts) = b
<1>1. \A i \in 1..Len(s) : s[i] \in Reading /\ s[i].ts \in Nat
  <2>1. s \in Seq(Reading)
    <3>1. s \in Tables
        BY DEF HistoryInv
    <3> QED
        BY <3>1 DEF Tables
  <2> HIDE DEF s
  <2>2. \A i \in 1..Len(s) : s[i] \in Reading
      BY ONLY <2>1
  <2> QED
      BY <2>2 DEF Reading
<1>2. /\ \A k \in DOMAIN stats : k \in SENSOR \X Nat
      /\ \A b \in Nat : <<e, b>> \in DOMAIN stats <=> In1(b)
    BY BucketsSettle
<1>3. start \in Nat /\ \A i \in 1..Len(s) :
          /\ BucketOf(s[i].ts) \in Nat
          /\ BucketOf(s[i].ts) >= start <=> s[i].ts >= start
  <2>1. start \in Nat
      BY BucketsAreAligned
  <2>2. ASSUME NEW i \in 1..Len(s)
        PROVE  /\ BucketOf(s[i].ts) \in Nat
               /\ BucketOf(s[i].ts) >= start <=> s[i].ts >= start
    <3> DEFINE t == s[i].ts
    <3>1. t \in Nat
        BY <1>1
    <3> HIDE DEF t
    <3>2. BucketOf(t) \in Nat /\ (BucketOf(t) >= start <=> t >= start)
        BY <3>1, BucketsAreAligned
    <3> QED
        BY <3>2 DEF t
  <2> QED
      BY <2>1, <2>2
<1>4. /\ \A x : x \in ToSet(Since(e, start)) <=>
                \E i \in 1..Len(s) : s[i].ts >= start /\ x = s[i]
      /\ Since(e, start) # << >> <=> \E i \in 1..Len(s) : s[i].ts >= start
    BY <1>3, SinceIs
<1>5. \A k : k \in StatsSince(e, start) <=>
             \E b \in Nat : k = <<e, b>> /\ k \in DOMAIN stats /\ b >= start
    BY <1>2 DEF StatsSince
<1>6. \A b : (\E k \in DOMAIN Statistics(e, start, end) : b = k[2]) <=>
             b \in Nat /\ b >= start /\ b <= end /\ <<e, b>> \in DOMAIN stats
  <2>1. DOMAIN Statistics(e, start, end) = {j \in StatsSince(e, start) : j[2] <= end}
      BY DEF Statistics
  <2> TAKE b
  <2>2. ASSUME NEW k \in DOMAIN Statistics(e, start, end), b = k[2]
        PROVE  b \in Nat /\ b >= start /\ b <= end /\ <<e, b>> \in DOMAIN stats
    <3>1. k \in StatsSince(e, start) /\ k[2] <= end
        BY <2>1
    <3>2. PICK c \in Nat : k = <<e, c>> /\ k \in DOMAIN stats /\ c >= start
        BY <1>5, <3>1
    <3> QED
        BY <2>2, <3>1, <3>2
  <2>3. ASSUME b \in Nat, b >= start, b <= end, <<e, b>> \in DOMAIN stats
        PROVE  \E k \in DOMAIN Statistics(e, start, end) : b = k[2]
    <3> DEFINE k == <<e, b>>
    <3>1. k \in StatsSince(e, start) /\ k[2] = b
        BY <1>5, <2>3
    <3>2. k \in DOMAIN Statistics(e, start, end)
        BY <2>1, <2>3, <3>1
    <3> QED
        BY <3>1, <3>2
  <2> QED
      BY <2>2, <2>3
<1> HIDE DEF s
<1>7. StatsSince(e, start) # {} <=> Since(e, start) # << >>
  <2>1. ASSUME NEW k \in StatsSince(e, start)
        PROVE  \E i \in 1..Len(s) : s[i].ts >= start
    <3>1. PICK b \in Nat : k = <<e, b>> /\ k \in DOMAIN stats /\ b >= start
        BY <1>5
    <3>2. PICK i \in 1..Len(s) : BucketOf(s[i].ts) = b
        BY <1>2, <3>1
    <3> QED
        BY <1>3, <3>1, <3>2
  <2>2. ASSUME NEW i \in 1..Len(s), s[i].ts >= start
        PROVE  StatsSince(e, start) # {}
    <3> DEFINE b == BucketOf(s[i].ts)
    <3>1. b \in Nat /\ b >= start
        BY <1>3, <2>2
    <3>2. <<e, b>> \in DOMAIN stats
        BY <1>2, <3>1
    <3> HIDE DEF b
    <3>3. <<e, b>> \in StatsSince(e, start)
        BY <1>5, <3>1, <3>2
    <3> QED
        BY <3>3
  <2> QED
      BY <1>4, <2>1, <2>2
<1>8. ASSUME NEW b
      PROVE  (\E k \in DOMAIN Statistics(e, start, end) : b = k[2]) <=>
             \E r \in ToSet(Since(e, start)) :
                BucketOf(r.ts) \in start..end /\ b = BucketOf(r.ts)
  <2>1. ASSUME b \in Nat, b >= start, b <= end, <<e, b>> \in DOMAIN stats
        PROVE  \E r \in ToSet(Since(e, start)) :
                  BucketOf(r.ts) \in start..end /\ b = BucketOf(r.ts)
    <3>1. PICK i \in 1..Len(s) : BucketOf(s[i].ts) = b
        BY <1>2, <2>1
    <3>2. s[i].ts >= start
        BY <1>3, <2>1, <3>1
    <3>3. s[i] \in ToSet(Since(e, start))
        BY <1>4, <3>2
    <3>4. b \in start..end
        BY <1>3, <2>1
    <3> QED
        BY <3>1, <3>3, <3>4
  <2>2. ASSUME NEW r \in ToSet(Since(e, start)), BucketOf(r.ts) \in start..end,
               b = BucketOf(r.ts)
        PROVE  b \in Nat /\ b >= start /\ b <= end /\ <<e, b>> \in DOMAIN stats
    <3>1. PICK i \in 1..Len(s) : s[i].ts >= start /\ r = s[i]
        BY <1>4
    <3>2. b \in Nat /\ BucketOf(s[i].ts) = b
        BY <1>3, <2>2, <3>1
    <3>3. <<e, b>> \in DOMAIN stats
        BY <1>2, <3>2
    <3>4. b >= start /\ b <= end
        BY <1>3, <2>2, <3>2
    <3> QED
        BY <3>2, <3>3, <3>4
  <2> QED
      BY <1>6, <2>1, <2>2
<1> QED
    BY <1>3, <1>7, <1>8 DEF SameBuckets

(* What each row adds to the sum of bucket b. *)
ValuesOf(s, b) == [i \in DOMAIN s |-> IF BucketOf(s[i].ts) = b THEN s[i].value ELSE 0]

\* The values of a bucket's rows add up to their weight.
LEMMA WorthIsTotal ==
    ASSUME NEW s \in Seq(Reading), NEW b \in Nat
    PROVE  Weigh(s, Worth(b)) = Total(ValuesOf(s, b))
<1>1. DOMAIN s = 1..Len(s) /\ \A i \in 1..Len(s) : s[i] \in Reading
    OBVIOUS
<1>2. \A i \in 1..Len(s) :
          Worth(b)[s[i]] = IF BucketOf(s[i].ts) = b THEN s[i].value ELSE 0
    BY <1>1, WeightsOfReadings
<1>3. [i \in 1..Len(s) |-> Worth(b)[s[i]]] = ValuesOf(s, b)
    BY <1>1, <1>2 DEF ValuesOf
<1> QED
    BY <1>3 DEF Weigh

\* Once the jobs have run the statistics of any window sum up the table.
LEMMA StatsSettle ==
    ASSUME HistoryInv, AccountsInv
    PROVE  StatsAgree
<1> SUFFICES ASSUME Settled, NEW start \in {BucketOf(s) : s \in 0..now},
                    NEW end \in {BucketOf(s) : s \in 0..now}
             PROVE  LET in(r) == BucketOf(r.ts) \in start..end
                    IN  /\ {e \in SENSOR : StatsSince(e, start) # {}} = EntityIdsSince(start)
                        /\ \A e \in SENSOR :
                              LET table == Statistics(e, start, end)
                                  own(t) == {i \in DOMAIN rows[e] : BucketOf(rows[e][i].ts) = t}
                                  worth(t) == [i \in DOMAIN rows[e] |->
                                      IF i \in own(t) THEN rows[e][i].value ELSE 0]
                              IN  /\ {k[2] : k \in DOMAIN table} =
                                        {BucketOf(r.ts) : r \in {q \in ToSet(Since(e, start)) : in(q)}}
                                  /\ \A k \in DOMAIN table :
                                        LET values == {rows[e][i].value : i \in own(k[2])}
                                        IN  /\ table[k].count = Cardinality(own(k[2]))
                                            /\ table[k].sum = Total(worth(k[2]))
                                            /\ {table[k].min, table[k].max} \subseteq values
                                            /\ \A v \in values : table[k].min <= v /\ v <= table[k].max
    BY DEF StatsAgree
<1>1. now \in Nat /\ \A s \in 0..now : s \in Nat
    BY DEF HistoryInv
<1>2. PICK a \in Nat : start = BucketOf(a)
    BY <1>1
<1>3. end \in Nat
    BY <1>1, BucketsAreAligned
<1>4. {e \in SENSOR : StatsSince(e, start) # {}} = EntityIdsSince(start)
  <2>1. \A e \in SENSOR : StatsSince(e, start) # {} <=> Since(e, start) # << >>
      BY <1>2, <1>3, WindowsSettle
  <2> QED
      BY <2>1 DEF EntityIdsSince
<1>5. ASSUME NEW e \in SENSOR
      PROVE  {k[2] : k \in DOMAIN Statistics(e, start, end)} =
                {BucketOf(r.ts) : r \in {q \in ToSet(Since(e, start)) :
                                            BucketOf(q.ts) \in start..end}}
  <2>1. SameBuckets(e, start, end)
      BY <1>2, <1>3, WindowsSettle
  <2> QED
      BY <2>1 DEF SameBuckets
<1>6. ASSUME NEW e \in SENSOR, NEW k \in DOMAIN Statistics(e, start, end), NEW own, NEW row,
             own = {i \in DOMAIN rows[e] : BucketOf(rows[e][i].ts) = k[2]},
             row = Statistics(e, start, end)[k]
      PROVE  /\ row.count = Cardinality(own)
             /\ row.sum = Total([i \in DOMAIN rows[e] |->
                                    IF i \in own THEN rows[e][i].value ELSE 0])
             /\ {row.min, row.max} \subseteq {rows[e][i].value : i \in own}
             /\ \A v \in {rows[e][i].value : i \in own} : row.min <= v /\ v <= row.max
  <2> DEFINE s == rows[e]  b == k[2]
  <2>1. s \in Seq(Reading) /\ DOMAIN s = 1..Len(s)
    <3>1. s \in Tables
        BY DEF HistoryInv
    <3> QED
        BY <3>1 DEF Tables
  <2>2. /\ k \in DOMAIN stats /\ k[1] = e /\ row = stats[k]
      BY <1>6 DEF Statistics, StatsSince
  <2>3. /\ \A x \in DOMAIN stats : x \in SENSOR \X Nat /\ stats[x] \in Share
        /\ SumsUp(e, s, stats)
      BY BucketsSettle
  <2>4. b \in Nat /\ k = <<e, b>>
      BY <2>2, <2>3
  <2>5. own = {i \in 1..Len(s) : BucketOf(s[i].ts) = b}
      BY <1>6, <2>1
  <2> HIDE DEF s, b
  <2>6. row = stats[<<e, b>>] /\ <<e, b>> \in DOMAIN stats
      BY <2>2, <2>4
  <2>7. /\ row.count = Cardinality(own)
        /\ row.sum = Weigh(s, Worth(b))
        /\ \E i \in 1..Len(s) : BucketOf(s[i].ts) = b /\ row.min = s[i].value
        /\ \E i \in 1..Len(s) : BucketOf(s[i].ts) = b /\ row.max = s[i].value
      BY <2>3, <2>4, <2>5, <2>6 DEF SumsUp
  <2> DEFINE worth == [i \in DOMAIN s |-> IF i \in own THEN s[i].value ELSE 0]
  <2>8. Weigh(s, Worth(b)) = Total(worth)
    <3>1. worth = ValuesOf(s, b)
        BY <2>1, <2>5 DEF ValuesOf
    <3>2. Weigh(s, Worth(b)) = Total(ValuesOf(s, b))
        BY <2>1, <2>4, WorthIsTotal
    <3> HIDE DEF worth
    <3> QED
        BY <3>1, <3>2
  <2>9. ASSUME NEW i \in own
        PROVE  row.min <= s[i].value /\ s[i].value <= row.max
    <3>1. i \in 1..Len(s) /\ BucketOf(s[i].ts) = b
        BY <2>5
    <3>2. Spans(stats, <<e, b>>, s[i].value)
        BY <2>3, <3>1 DEF SumsUp
    <3> QED
        BY <2>6, <3>2 DEF Spans
  <2>10. {row.min, row.max} \subseteq {s[i].value : i \in own}
      BY <2>5, <2>7
  <2> QED
      BY <2>7, <2>8, <2>9, <2>10 DEF s
<1> QED
    BY <1>4, <1>5, <1>6
-----------------------------------------------------------------------------
(* The theorems. *)

ZigbeeInv == RecordsInv /\ ReadingsInv

\* Records and readings keep their invariants whatever the bridge sends.
LEMMA ZigbeeInvariant == Spec => []ZigbeeInv
<1>1. Init => ZigbeeInv
    BY RecordsInitially, ReadingsInitially DEF ZigbeeInv
<1>2. ZigbeeInv /\ [Next]_vars => ZigbeeInv'
    BY RecordsStep, ReadingsStep DEF ZigbeeInv, RecordsInv
<1> QED
    BY <1>1, <1>2, PTL DEF Spec

\* The accounts are kept with them.
LEMMA AccountsInvariant == Spec => [](ZigbeeInv /\ AccountsInv)
<1>1. Init => AccountsInv
    BY AccountsInitially
<1>2. ZigbeeInv /\ AccountsInv /\ [Next]_vars => AccountsInv'
    BY AccountsStep DEF ZigbeeInv, RecordsInv, ReadingsInv
<1> QED
    BY <1>1, <1>2, ZigbeeInvariant, PTL DEF Spec

\* Whatever joins, is interviewed, reports, leaves, is deleted, and whenever the
\* hub restarts: an entity's device is known, what is shown has an entity
\* (zigbee_integration.rs, http.rs), and no buffer outgrows its capacity.
THEOREM RecordsAlwaysBelong == Spec => []RecordsBelong
<1>1. ASSUME ZigbeeInv
      PROVE  RecordsBelong
  <2>1. Shapes /\ Whole /\ HistoryInv
      BY <1>1 DEF ZigbeeInv, RecordsInv, ReadingsInv
  <2>2. TypeOK
    <3>1. DOMAIN Data(ents) = ENTITY /\ DOMAIN Data(devs) = DEVICE
        BY <2>1, DataAreTyped DEF DevData, EntData, Devices, Entities
    <3>2. \A e \in SENSOR : Len(ring[e]) <= CAPACITY \/ (CAPACITY = 0 /\ Len(ring[e]) = 1)
      <4>1. \A e \in SENSOR : ring[e] \in Buffers
          BY <2>1 DEF HistoryInv
      <4> QED
          BY <4>1 DEF Buffers, RingFits
    <3> QED
        BY <2>1, <3>1, <3>2 DEF TypeOK, Shapes
  <2>3. EntityHasDevice
      BY <2>1, DataAreTyped, EntitiesAreOfDevices DEF EntityHasDevice, Whole, WholeEntity
  <2>4. StateHasEntity
      BY <2>1, DataAreTyped DEF StateHasEntity, Whole, WholeEntity
  <2> QED
      BY <2>2, <2>3, <2>4 DEF RecordsBelong
<1> QED
    BY <1>1, ZigbeeInvariant, PTL

\* The name, area and disabled flag that a user gave stay through rejoins,
\* interviews, reports and restarts (upsert, register_bulk, touch_last_seen).
THEOREM EditsAlwaysSurvive == Spec => []EditsSurvive
<1>1. ASSUME ZigbeeInv
      PROVE  EditsSurvive
  <2>1. Shapes /\ Whole
      BY <1>1 DEF ZigbeeInv, RecordsInv
  <2>2. \A e \in Known(ents) : past.edits[e] \in {None, Data(ents)[e].edit}
                               \/ DeviceOf(e) \in past.torn
      BY <2>1, DataAreTyped DEF Whole, WholeEntity, Honest, EntData
  <2>3. \A d \in Known(devs) : past.edits[d] \in {None, Data(devs)[d].edit} \/ d \in past.torn
      BY <2>1, DataAreTyped DEF Whole, WholeDevice, Honest, DevData
  <2> QED
      BY <2>2, <2>3 DEF EditsSurvive
<1> QED
    BY <1>1, ZigbeeInvariant, PTL

\* What restore_states_from_history shows is the reading of the latest row, and
\* gives way to the first report that does not race it.
THEOREM RestoredStatesGiveWay == Spec => []RestoredUntilHeard
<1>1. ZigbeeInv => RestoredUntilHeard
    BY DEF ZigbeeInv, ReadingsInv
<1> QED
    BY <1>1, ZigbeeInvariant, PTL

\* Whatever is read and whenever the hub restarts, in whatever order the jobs
\* get the database: once they have run, the buffer, the table and the statistics
\* of an entity agree (history_store.rs, record, record_and_aggregate and try_open).
THEOREM HistoryAlwaysAgrees == Spec => []HistoryAgrees
<1>1. ZigbeeInv /\ AccountsInv => HistoryAgrees
    BY RingSettles, StatsSettle DEF ZigbeeInv, ReadingsInv, HistoryAgrees
<1> QED
    BY <1>1, AccountsInvariant, PTL

\* The report of a disabled entity changes nothing it shows (StateChanged of
\* run_event_loop skips it); only an interview of its device does.
THEOREM DisabledStayQuiet == Spec => DisabledIsQuiet
<1> DEFINE Quiet == \A e \in ENTITY :
               (IsDisabled(e) /\ shown'[e] # shown[e] /\ shown'[e] # None) =>
                   shown'[e].from # "live" \/ loop.at = "registering"
<1>1. ASSUME Shapes, [Next]_vars
      PROVE  [Quiet]_vars
  <2> SUFFICES ASSUME Next PROVE Quiet
      BY <1>1
  <2>1. CASE Bridge
    <3>1. ASSUME NEW d \in DEVICE, NEW raw \in REPORT, StateChanged(d, raw)
          PROVE  Quiet
        BY <1>1, <3>1, DataAreTyped DEF StateChanged, Push, Pushed
    <3>2. ASSUME NEW d \in DEVICE, DeviceLeft(d)
          PROVE  Quiet
        BY <3>2 DEF DeviceLeft
    <3>3. ASSUME NEW d \in DEVICE, NEW ok \in BOOLEAN,
                 \/ DeviceJoined(d, ok)
                 \/ \E c \in CLUSTERS, raw \in CACHED : InterviewComplete(d, c, raw, ok)
          PROVE  Quiet
        BY <3>3 DEF DeviceJoined, InterviewComplete
    <3> HIDE DEF Quiet
    <3> QED
        BY <2>1, <3>1, <3>2, <3>3 DEF Bridge
  <2>2. CASE \E ok \in BOOLEAN : Register(ok) \/ Touch(ok)
      BY <2>2 DEF Register, Touch
  <2>3. CASE Requests
    <3>1. ASSUME NEW ok \in BOOLEAN, DeleteEntities(ok)
          PROVE  Quiet
        BY <3>1 DEF DeleteEntities
    <3>2. shown' = shown \/ \E ok \in BOOLEAN : DeleteEntities(ok)
        BY <2>3, ZenonT(30) DEF Requests, DeleteLists, EditDevice, EditEntity, EditEntityByForm,
           StoreEditEntity, DeleteDevice
    <3> QED
        BY <3>1, <3>2
  <2>4. CASE LoadDevices \/ LoadEntities \/ Disconnect
      BY <2>4 DEF LoadDevices, LoadEntities, Disconnect
  <2>5. CASE RestoreLists \/ RestoreQueries \/ RestoreWrites
      BY <2>5 DEF RestoreLists, RestoreQueries, RestoreWrites
  <2>6. CASE Database \/ Restart
      BY <2>6 DEF Database, Restart, Empty
  <2> HIDE DEF Quiet
  <2> QED
      BY <1>1, <2>1, <2>2, <2>3, <2>4, <2>5, <2>6 DEF Next
<1>2. ZigbeeInv => Shapes
    BY DEF ZigbeeInv, RecordsInv
<1> QED
    BY <1>1, <1>2, ZigbeeInvariant, PTL DEF Spec, DisabledIsQuiet
===============================================================================
