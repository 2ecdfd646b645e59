-------------------------------- MODULE Places ---------------------------------
(***************************************************************************)
(* Zones and areas (zone_store.rs, area_registry_store.rs) with the        *)
(* commands and forms that change them (ha_ws.rs, http.rs), the zones the  *)
(* apps are told (ha_webhook.rs, get_zones) and the zone a position is in  *)
(* (person_store.rs, find_zone).                                           *)
(*                                                                         *)
(* Each store changes under its mutex and writes its file before its       *)
(* cache: a request is one step, which happens or fails.  What is inside   *)
(* such a step is LabelStores' and AtomicSave's matter.                    *)
(***************************************************************************)
EXTENDS Naturals, Sequences, FiniteSets, SequencesExt, Lists, TLC

CONSTANTS
    PLACE,         \* positions that devices report
    ZONENAME,      \* names given to zones
    AREANAME,      \* names given to areas
    SeedAreas,     \* the names in [areas] of the configuration
    Home,          \* the name whose slug is "home"
    None,
    MaxZones, MaxAreas   \* bounds

ASSUME PlacesAssumption == SeedAreas \in Seq(AREANAME)

VARIABLES
    zones,         \* ZoneStore: sequence of [id, name, at]
    areas          \* AreaRegistryStore: sequence of [id, name]

places == <<zones, areas>>

\* A zone without both coordinates is nowhere; one with them is around some of
\* the positions.
AROUND == (SUBSET PLACE) \cup {None}
Ids(list) == {list[i].id : i \in DOMAIN list}

\* The record a change by id finds: the first of that id.
FirstOf(list, id) ==
    CHOOSE i \in DOMAIN list : /\ list[i].id = id
                               /\ \A j \in 1..(i - 1) : list[j].id # id

\* Mutant: the suffix counts the records there are.
FreshIdCounts(name, ids) == <<name, Cardinality(ids)>>

\* An id made from a name: the slug, or the slug and a random suffix when a
\* record has the slug already (create).
FreshId(name, ids) ==
    IF <<name, 0>> \in ids
    THEN <<name, CHOOSE n \in 1..(Cardinality(ids) + 1) : <<name, n>> \notin ids>>
    ELSE <<name, 0>>

\* AreaRegistryStore::seed_if_empty: ids are slugs, two names may have the same.
Seeded(list) ==
    IF list # << >> THEN list
    ELSE [i \in DOMAIN SeedAreas |-> [id |-> <<SeedAreas[i], 0>>, name |-> SeedAreas[i]]]

PlacesInit == zones = << >> /\ areas = Seeded(<< >>)

(***************************************************************************)
(* Zones.                                                                  *)
(***************************************************************************)
\* The commands and the delete form refuse the id of the home zone; the edit
\* form does not.
HomeId == <<Home, 0>>

\* ZoneStore::create.
AddZone(name, at) ==
    /\ Len(zones) < MaxZones
    /\ zones' = Append(zones, [id |-> FreshId(name, Ids(zones)), name |-> name, at |-> at])
    /\ UNCHANGED areas

CreateZone(name, at) == AddZone(name, at)

\* The form asks for a name only.
CreateZoneByForm(name) == AddZone(name, None)

\* ZoneStore::update.
StoreUpdate(id, name, at) ==
    /\ id \in Ids(zones)
    /\ zones' = [zones EXCEPT ![FirstOf(zones, id)].name = name,
                              ![FirstOf(zones, id)].at = at]
    /\ UNCHANGED areas

UpdateZone(id, name, at) == id # HomeId /\ StoreUpdate(id, name, at)

\* An empty coordinate stays, one that is no number is cleared: the zone keeps
\* its place, loses it, or has another.
UpdateZoneByForm(id, name, at) == StoreUpdate(id, name, at)

\* ZoneStore::delete.
RemoveZone(id) ==
    /\ id \in Ids(zones)
    /\ zones' = Pick(zones, {i \in DOMAIN zones : zones[i].id # id})
    /\ UNCHANGED areas

DeleteZone(id) == id # HomeId /\ RemoveZone(id)
DeleteZoneByForm(id) == id # HomeId /\ RemoveZone(id)

\* find_zone: the first zone of the list around the position; a zone without
\* coordinates is around nothing.
ZoneAt(place) ==
    LET around == {i \in DOMAIN zones : zones[i].at # None /\ place \in zones[i].at}
    IN  IF around = {} THEN "not_home"
        ELSE zones[CHOOSE i \in around : \A j \in around : i <= j].name

AllTold(list) == [i \in DOMAIN list |-> [id |-> list[i].id, name |-> list[i].name]]
HomeZone == [id |-> HomeId, name |-> Home]

\* get_zones tells an app the home zone of the configuration and then every
\* stored zone that has coordinates.
GetZones == <<HomeZone>> \o AllTold(Pick(zones, {i \in DOMAIN zones : zones[i].at # None}))

(***************************************************************************)
(* Areas.                                                                  *)
(***************************************************************************)
\* AreaRegistryStore::create.
AddArea(name) ==
    /\ Len(areas) < MaxAreas
    /\ areas' = Append(areas, [id |-> FreshId(name, Ids(areas)), name |-> name])
    /\ UNCHANGED zones

CreateArea(name) == AddArea(name)
CreateAreaByForm(name) == AddArea(name)

\* AreaRegistryStore::update: an area is renamed under its id.
StoreRename(id, name) ==
    /\ id \in Ids(areas)
    /\ areas' = [areas EXCEPT ![FirstOf(areas, id)].name = name]
    /\ UNCHANGED zones

RenameArea(id, name) == StoreRename(id, name)

\* AreaRegistryStore::delete.  Nothing is said to the devices and entities in
\* the area.
RemoveArea(id) ==
    /\ id \in Ids(areas)
    /\ areas' = Pick(areas, {i \in DOMAIN areas : areas[i].id # id})
    /\ UNCHANGED zones

DeleteArea(id) == RemoveArea(id)
DeleteAreaByForm(id) == RemoveArea(id)

ZonesNext ==
    \/ \E n \in ZONENAME, at \in AROUND : CreateZone(n, at)
    \/ \E n \in ZONENAME : CreateZoneByForm(n)
    \/ \E id \in Ids(zones) :
          \/ DeleteZone(id) \/ DeleteZoneByForm(id)
          \/ \E n \in ZONENAME, at \in AROUND : \/ UpdateZone(id, n, at)
                                                \/ UpdateZoneByForm(id, n, at)
AreasNext ==
    \/ \E n \in AREANAME : CreateArea(n) \/ CreateAreaByForm(n)
    \/ \E id \in Ids(areas) : \/ DeleteArea(id) \/ DeleteAreaByForm(id)
                              \/ \E n \in AREANAME : RenameArea(id, n)

(***************************************************************************)
(* Properties.                                                             *)
(***************************************************************************)
\* Zones and areas are deleted and changed by id: an id names one of them,
\* whatever was made, renamed, deleted and seeded in which order
\* (ZoneStore::create, AreaRegistryStore::create and seed_if_empty).
IdsAreUnique ==
    /\ \A i, j \in DOMAIN zones : zones[i].id = zones[j].id => i = j
    /\ (\A i, j \in DOMAIN SeedAreas : SeedAreas[i] = SeedAreas[j] => i = j)
       => \A i, j \in DOMAIN areas : areas[i].id = areas[j].id => i = j

\* An app can show where the hub says somebody is: the zone a position is in is
\* one get_zones lists, by that name, and no id but that of the home zone, which
\* a stored zone may have too, is listed twice (ha_webhook.rs, get_zones).
AppsKnowTheZones ==
    LET told == GetZones
    IN  /\ \A p \in PLACE : ZoneAt(p) # "not_home"
              => \E i \in DOMAIN told : i > 1 /\ told[i].name = ZoneAt(p)
        /\ \A i, j \in DOMAIN told :
              told[i].id = told[j].id => i = j \/ told[i].id = HomeId

\* Zones and areas can be told apart and apps know where persons can be
\* (zone_store.rs, area_registry_store.rs, ha_webhook.rs).
PlacesAreTold == IdsAreUnique /\ AppsKnowTheZones
===============================================================================
