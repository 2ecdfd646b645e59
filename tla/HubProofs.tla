------------------------------- MODULE HubProofs -------------------------------
(***************************************************************************)
(* What MobileApp, Places, Overview, LoginFlows, LongLivedTokens and       *)
(* JoinWindow promise, for any number of devices, sensors, persons,        *)
(* places, cards, requests and payloads.                                   *)
(*                                                                         *)
(* The invariants are in parts, one for each thing the hub keeps: the      *)
(* lists of places (PlacesInv), the registries of devices and sensors      *)
(* (RegistryInv), what is shown of them (ShownInv) and the persons they    *)
(* move (PersonsInv).  A list is kept by lemmas about what a store does    *)
(* to it; a batch is taken item by item, and a card by what it holds.      *)
(***************************************************************************)
EXTENDS MobileApp, Overview, LoginFlows, LongLivedTokens, JoinWindow, ListLemmas

(***************************************************************************)
(* Zones and areas.  A new id is one that no record has, and no other      *)
(* operation gives an id or copies one.                                    *)
(***************************************************************************)
ZoneRecord == [id : ZONENAME \X Nat, name : ZONENAME, at : AROUND]
AreaRecord == [id : AREANAME \X Nat, name : AREANAME]

Distinct(list) == \A i, j \in DOMAIN list : list[i].id = list[j].id => i = j
SeedsAreDistinct == \A i, j \in DOMAIN SeedAreas : SeedAreas[i] = SeedAreas[j] => i = j

PlacesInv == /\ zones \in Seq(ZoneRecord) /\ Distinct(zones)
             /\ areas \in Seq(AreaRecord) /\ (SeedsAreDistinct => Distinct(areas))

\* There are more suffixes to choose from than ids that may have them.
LEMMA FreshIdIsFresh ==
    ASSUME NEW N, NEW name \in N, NEW ids, IsFiniteSet(ids)
    PROVE  FreshId(name, ids) \notin ids /\ FreshId(name, ids) \in N \X Nat
<1>1. CASE <<name, 0>> \notin ids
    BY <1>1 DEF FreshId
<1>2. CASE <<name, 0>> \in ids
  <2> DEFINE C == Cardinality(ids)
  <2>1. C \in Nat
      BY FS_CardinalityType
  <2> HIDE DEF C
  <2>2. \E n \in 1..(C + 1) : <<name, n>> \notin ids
    <3> SUFFICES ASSUME \A n \in 1..(C + 1) : <<name, n>> \in ids PROVE FALSE
        OBVIOUS
    <3> DEFINE f == [n \in 1..(C + 1) |-> <<name, n>>]
    <3>1. IsFiniteSet(1..(C + 1)) /\ Cardinality(1..(C + 1)) = C + 1
        BY <2>1, FS_Interval
    <3>2. f \in [1..(C + 1) -> ids]
        OBVIOUS
    <3>3. Cardinality(ids) < Cardinality(1..(C + 1))
        BY <2>1, <3>1 DEF C
    <3>4. \A x, y \in 1..(C + 1) : f[x] = f[y] => x = y
        OBVIOUS
    <3> DEFINE D == 1..(C + 1)
    <3> HIDE DEF f, D
    <3>5. IsFiniteSet(D) /\ f \in [D -> ids] /\ Cardinality(ids) < Cardinality(D)
        BY <3>1, <3>2, <3>3 DEF D
    <3>6. \E x, y \in D : x # y /\ f[x] = f[y]
        BY <3>5, FS_PigeonHole
    <3> QED
        BY <3>4, <3>6 DEF D
  <2>3. PICK n \in 1..(C + 1) : FreshId(name, ids) = <<name, n>> /\ <<name, n>> \notin ids
      BY <1>2, <2>2 DEF FreshId, C
  <2> QED
      BY <2>1, <2>3
<1> QED
    BY <1>1, <1>2

\* The ids of a list are finitely many.
LEMMA IdsAreFinite ==
    ASSUME NEW T, NEW list \in Seq(T)
    PROVE  IsFiniteSet(Ids(list))
<1> DEFINE f == [i \in 1..Len(list) |-> list[i].id]
<1>1. DOMAIN list = 1..Len(list) /\ Len(list) \in Nat
    OBVIOUS
<1>2. IsFiniteSet(1..Len(list))
    BY <1>1, FS_Interval
<1>3. f \in Surjection(1..Len(list), Ids(list))
    BY <1>1 DEF Ids, Surjection
<1> HIDE DEF f
<1> QED
    BY <1>2, <1>3, FS_Surjection

\* The three things the stores do with a list: append a record with a new id,
\* change what is not the id, and keep some of the records.
LEMMA AppendKeepsDistinct ==
    ASSUME NEW T, NEW list \in Seq(T), Distinct(list), NEW r \in T, r.id \notin Ids(list)
    PROVE  Append(list, r) \in Seq(T) /\ Distinct(Append(list, r))
<1> DEFINE l == Append(list, r)
           n == Len(list)
<1>1. /\ l \in Seq(T) /\ n \in Nat /\ DOMAIN list = 1..n /\ DOMAIN l = 1..(n + 1)
      /\ l[n + 1] = r /\ \A i \in 1..n : l[i] = list[i]
    OBVIOUS
<1>2. \A i \in 1..n : list[i].id # r.id
    BY <1>1 DEF Ids
<1> HIDE DEF l, n
<1>3. \A i \in DOMAIN l : i \in 1..n \/ i = n + 1
    BY <1>1
<1>4. Distinct(l)
    BY <1>1, <1>2, <1>3 DEF Distinct
<1> QED
    BY <1>1, <1>4 DEF l

\* Dropping items from a list of distinct ids leaves the ids distinct (retain).
LEMMA PickKeepsDistinct ==
    ASSUME NEW T, NEW list \in Seq(T), Distinct(list), NEW positions
    PROVE  Pick(list, positions) \in Seq(T) /\ Distinct(Pick(list, positions))
<1> DEFINE p == Pick(list, positions)
<1>1. p \in Seq(T) /\ Picked(p, list, positions, Len(list))
    BY PickIsPicked
<1> HIDE DEF p
<1>2. PICK f \in [1..Len(p) -> positions \cap 1..Len(list)] :
        /\ \A i, j \in 1..Len(p) : i < j => f[i] < f[j]
        /\ \A i \in 1..Len(p) : p[i] = list[f[i]]
    BY <1>1 DEF Picked
<1>3. DOMAIN p = 1..Len(p) /\ DOMAIN list = 1..Len(list) /\ Len(p) \in Nat /\ Len(list) \in Nat
    BY <1>1
<1>4. ASSUME NEW i \in DOMAIN p, NEW j \in DOMAIN p, p[i].id = p[j].id
      PROVE  i = j
  <2>1. /\ f[i] \in 1..Len(list) /\ f[j] \in 1..Len(list)
        /\ p[i] = list[f[i]] /\ p[j] = list[f[j]]
      BY <1>2, <1>3
  <2>2. f[i] = f[j]
      BY <1>3, <1>4, <2>1 DEF Distinct
  <2>3. i < j \/ j < i \/ i = j
      BY <1>3
  <2> QED
      BY <1>2, <1>3, <2>1, <2>2, <2>3
<1> QED
    BY <1>1, <1>4 DEF Distinct, p

\* So does changing an item in place, if it keeps its id.
LEMMA UpdateKeepsDistinct ==
    ASSUME NEW T, NEW list \in Seq(T), Distinct(list), NEW k \in DOMAIN list,
           NEW r \in T, r.id = list[k].id
    PROVE  [list EXCEPT ![k] = r] \in Seq(T) /\ Distinct([list EXCEPT ![k] = r])
<1> DEFINE l == [list EXCEPT ![k] = r]
<1>1. l \in Seq(T) /\ DOMAIN l = DOMAIN list
    OBVIOUS
<1>2. \A i \in DOMAIN list : l[i] = IF i = k THEN r ELSE list[i]
    OBVIOUS
<1> HIDE DEF l
<1>3. \A i \in DOMAIN list : l[i].id = list[i].id
    BY <1>2
<1> QED
    BY <1>1, <1>3 DEF Distinct, l

\* A change by id finds a record of that id.
LEMMA FirstOfFinds ==
    ASSUME NEW T, NEW list \in Seq(T), NEW id \in Ids(list)
    PROVE  FirstOf(list, id) \in DOMAIN list /\ list[FirstOf(list, id)].id = id
<1> DEFINE S == {i \in DOMAIN list : list[i].id = id}
<1>1. S \in SUBSET Nat /\ S # {}
    BY DEF Ids
<1>2. PICK i \in S : \A j \in S : i <= j
  <2> HIDE DEF S
  <2> QED
      BY <1>1, SmallestExists
<1>3. \A j \in 1..(i - 1) : j \in DOMAIN list /\ ~(i <= j)
    OBVIOUS
<1>4. list[i].id = id /\ \A j \in 1..(i - 1) : list[j].id # id
    BY <1>2, <1>3
<1> QED
    BY <1>4 DEF FirstOf

\* The configured areas, seeded into an empty list, have as many ids as names.
LEMMA SeedingIsSound ==
    ASSUME NEW list \in Seq(AreaRecord), SeedsAreDistinct => Distinct(list)
    PROVE  Seeded(list) \in Seq(AreaRecord) /\ (SeedsAreDistinct => Distinct(Seeded(list)))
<1> DEFINE seeds == [i \in DOMAIN SeedAreas |-> [id |-> <<SeedAreas[i], 0>>, name |-> SeedAreas[i]]]
<1>1. DOMAIN SeedAreas = 1..Len(SeedAreas) /\ Len(SeedAreas) \in Nat
      /\ \A i \in DOMAIN SeedAreas : SeedAreas[i] \in AREANAME
    BY PlacesAssumption
<1>2. \A i \in DOMAIN SeedAreas : [id |-> <<SeedAreas[i], 0>>, name |-> SeedAreas[i]] \in AreaRecord
    BY <1>1 DEF AreaRecord
<1>3. seeds \in [1..Len(SeedAreas) -> AreaRecord]
    BY <1>1, <1>2
<1>4. SeedsAreDistinct => Distinct(seeds)
    BY DEF SeedsAreDistinct, Distinct
<1> HIDE DEF seeds
<1>5. seeds \in Seq(AreaRecord)
    BY <1>1, <1>3
<1> QED
    BY <1>4, <1>5 DEF Seeded, seeds

\* At first there are the seeds and no zones.
LEMMA PlacesInitially == PlacesInit => PlacesInv
<1>1. << >> \in Seq(AreaRecord) /\ << >> \in Seq(ZoneRecord) /\ Distinct(<< >>)
    BY DEF Distinct
<1>2. Seeded(<< >>) \in Seq(AreaRecord) /\ (SeedsAreDistinct => Distinct(Seeded(<< >>)))
    BY <1>1, SeedingIsSound
<1> QED
    BY <1>1, <1>2 DEF PlacesInit, PlacesInv

\* The zone commands preserve the invariant.
LEMMA ZonesStep == PlacesInv /\ ZonesNext => PlacesInv'
<1> SUFFICES ASSUME PlacesInv, ZonesNext
             PROVE  PlacesInv'
    OBVIOUS
<1> USE DEF PlacesInv
<1>1. ASSUME NEW name \in ZONENAME, NEW at \in AROUND, AddZone(name, at)
      PROVE  PlacesInv'
  <2> DEFINE z == [id |-> FreshId(name, Ids(zones)), name |-> name, at |-> at]
  <2>1. z \in ZoneRecord /\ z.id \notin Ids(zones)
      BY IdsAreFinite, FreshIdIsFresh DEF ZoneRecord
  <2>2. zones' = Append(zones, z) /\ UNCHANGED areas
      BY <1>1 DEF AddZone
  <2> HIDE DEF z
  <2> QED
      BY <2>1, <2>2, AppendKeepsDistinct
<1>2. ASSUME NEW id \in Ids(zones), RemoveZone(id)
      PROVE  PlacesInv'
    BY <1>2, PickKeepsDistinct DEF RemoveZone
<1>3. ASSUME NEW id \in Ids(zones), NEW name \in ZONENAME, NEW at \in AROUND, StoreUpdate(id, name, at)
      PROVE  PlacesInv'
  <2> DEFINE k == FirstOf(zones, id)
             z == [zones[k] EXCEPT !.name = name, !.at = at]
  <2>1. k \in DOMAIN zones
      BY FirstOfFinds
  <2>2. zones' = [zones EXCEPT ![k].name = name, ![k].at = at] /\ UNCHANGED areas
      BY <1>3 DEF StoreUpdate
  <2> HIDE DEF k
  <2>3. zones[k] \in ZoneRecord
      BY <2>1
  <2>4. z \in ZoneRecord /\ z.id = zones[k].id
      BY <2>3 DEF ZoneRecord
  <2>5. zones' = [zones EXCEPT ![k] = z]
      BY <2>1, <2>2
  <2> HIDE DEF z
  <2>6. zones \in Seq(ZoneRecord) /\ Distinct(zones)
      OBVIOUS
  <2>7. zones' \in Seq(ZoneRecord) /\ Distinct(zones')
      BY <2>1, <2>4, <2>5, <2>6, UpdateKeepsDistinct
  <2> QED
      BY <2>2, <2>7 DEF Distinct
<1> QED
  <2>1. None \in AROUND
      BY DEF AROUND
  <2> QED
      BY <1>1, <1>2, <1>3, <2>1
         DEF ZonesNext, CreateZone, CreateZoneByForm, DeleteZone, DeleteZoneByForm,
             UpdateZone, UpdateZoneByForm

\* The area commands preserve the invariant.
LEMMA AreasStep == PlacesInv /\ AreasNext => PlacesInv'
<1> SUFFICES ASSUME PlacesInv, AreasNext
             PROVE  PlacesInv'
    OBVIOUS
<1> USE DEF PlacesInv
<1>1. ASSUME NEW name \in AREANAME, AddArea(name)
      PROVE  PlacesInv'
  <2> DEFINE a == [id |-> FreshId(name, Ids(areas)), name |-> name]
  <2>1. a \in AreaRecord /\ a.id \notin Ids(areas)
      BY IdsAreFinite, FreshIdIsFresh DEF AreaRecord
  <2>2. areas' = Append(areas, a) /\ UNCHANGED zones
      BY <1>1 DEF AddArea
  <2> HIDE DEF a
  <2>3. areas' \in Seq(AreaRecord)
      BY <2>1, <2>2
  <2>4. SeedsAreDistinct => Distinct(areas')
      BY <2>1, <2>2, AppendKeepsDistinct
  <2> QED
      BY <2>2, <2>3, <2>4
<1>2. ASSUME NEW id \in Ids(areas), RemoveArea(id)
      PROVE  PlacesInv'
  <2> DEFINE left == {i \in DOMAIN areas : areas[i].id # id}
  <2>1. areas' = Pick(areas, left) /\ UNCHANGED zones
      BY <1>2 DEF RemoveArea
  <2> HIDE DEF left
  <2>2. areas' \in Seq(AreaRecord)
      BY <2>1, PickIsPicked
  <2>3. SeedsAreDistinct => Distinct(areas')
      BY <2>1, PickKeepsDistinct
  <2> QED
      BY <2>1, <2>2, <2>3
<1>3. ASSUME NEW id \in Ids(areas), NEW name \in AREANAME, StoreRename(id, name)
      PROVE  PlacesInv'
  <2> DEFINE k == FirstOf(areas, id)
             a == [areas[k] EXCEPT !.name = name]
  <2>1. k \in DOMAIN areas
      BY FirstOfFinds
  <2>2. areas' = [areas EXCEPT ![k].name = name] /\ UNCHANGED zones
      BY <1>3 DEF StoreRename
  <2> HIDE DEF k
  <2>3. areas[k] \in AreaRecord
      BY <2>1
  <2>4. a \in AreaRecord /\ a.id = areas[k].id
      BY <2>3 DEF AreaRecord
  <2>5. areas' = [areas EXCEPT ![k] = a]
      BY <2>1, <2>2
  <2> HIDE DEF a
  <2>6. areas' \in Seq(AreaRecord)
      BY <2>1, <2>4, <2>5
  <2>7. SeedsAreDistinct => Distinct(areas')
      BY <2>1, <2>4, <2>5, UpdateKeepsDistinct
  <2> QED
      BY <2>2, <2>6, <2>7
<1> QED
    BY <1>1, <1>2, <1>3
       DEF AreasNext, CreateArea, CreateAreaByForm, DeleteArea, DeleteAreaByForm, RenameArea

\* Zone commands, area commands and the seeding at a restart preserve it.
LEMMA PlacesStep ==
    ASSUME PlacesInv, \/ ZonesNext \/ AreasNext \/ UNCHANGED places
                      \/ areas' = Seeded(areas) /\ UNCHANGED zones
    PROVE  PlacesInv'
<1>1. CASE UNCHANGED places
    BY <1>1 DEF places, PlacesInv
<1>2. CASE areas' = Seeded(areas) /\ UNCHANGED zones
    BY <1>2, SeedingIsSound DEF PlacesInv
<1> QED
    BY <1>1, <1>2, ZonesStep, AreasStep

\* What get_zones lists after the home zone: the zones with coordinates.
LEMMA WhatIsTold ==
    ASSUME PlacesInv
    PROVE  /\ DOMAIN GetZones = 1..Len(GetZones) /\ Len(GetZones) \in Nat
           /\ GetZones[1] = HomeZone
           /\ \A i \in DOMAIN zones : zones[i].at # None =>
                 \E t \in DOMAIN GetZones : t > 1 /\ GetZones[t].name = zones[i].name
           /\ \A t \in DOMAIN GetZones, u \in DOMAIN GetZones :
                 t > 1 /\ u > 1 /\ GetZones[t].id = GetZones[u].id => t = u
<1> DEFINE placed == {i \in DOMAIN zones : zones[i].at # None}
           p == Pick(zones, placed)
           told == AllTold(p)
           Told == [id : ZONENAME \X Nat, name : ZONENAME]
<1>1. zones \in Seq(ZoneRecord) /\ Distinct(zones)
    BY DEF PlacesInv
<1>2. p \in Seq(ZoneRecord) /\ Picked(p, zones, placed, Len(zones)) /\ Distinct(p)
    BY <1>1, PickIsPicked, PickKeepsDistinct
<1>3. placed \subseteq 1..Len(zones) /\ DOMAIN zones = 1..Len(zones) /\ Len(zones) \in Nat
    BY <1>1
<1> HIDE DEF p, placed
<1>4. PICK f \in [1..Len(p) -> placed \cap 1..Len(zones)] :
        /\ \A k \in placed \cap 1..Len(zones) : \E i \in 1..Len(p) : f[i] = k
        /\ \A i \in 1..Len(p) : p[i] = zones[f[i]]
    BY <1>2 DEF Picked
<1>5. Len(p) \in Nat /\ DOMAIN p = 1..Len(p) /\ \A i \in 1..Len(p) : p[i] \in ZoneRecord
    BY <1>2
<1>6. /\ told \in [1..Len(p) -> Told]
      /\ \A i \in 1..Len(p) : told[i].id = p[i].id /\ told[i].name = p[i].name
  <2>1. told = [i \in 1..Len(p) |-> [id |-> p[i].id, name |-> p[i].name]]
      BY <1>5 DEF AllTold
  <2>2. \A r \in ZoneRecord : [id |-> r.id, name |-> r.name] \in Told
      BY DEF ZoneRecord
  <2>3. \A i \in 1..Len(p) : [id |-> p[i].id, name |-> p[i].name] \in Told
      BY <1>5, <2>2
  <2> HIDE DEF told, Told
  <2>4. told \in [1..Len(p) -> Told]
      BY <2>1, <2>3
  <2>5. \A i \in 1..Len(p) : told[i] = [id |-> p[i].id, name |-> p[i].name]
      BY <2>1
  <2> QED
      BY <2>4, <2>5
<1>7. told \in Seq(Told) /\ Len(told) = Len(p)
  <2> HIDE DEF told, Told
  <2> QED
      BY <1>5, <1>6
<1>8. GetZones = <<HomeZone>> \o told
    BY DEF GetZones, p, placed
<1> HIDE DEF told, Told
<1>9. /\ Len(GetZones) = Len(p) + 1 /\ DOMAIN GetZones = 1..(Len(p) + 1) /\ GetZones[1] = HomeZone
      /\ \A i \in 1..Len(p) : GetZones[i + 1] = told[i]
  <2> DEFINE U == Told \cup {HomeZone}
  <2>1. \A s \in Seq(U), h \in U :
           /\ Len(<<h>> \o s) = Len(s) + 1 /\ DOMAIN (<<h>> \o s) = 1..(Len(s) + 1)
           /\ (<<h>> \o s)[1] = h
           /\ \A i \in 1..Len(s) : (<<h>> \o s)[i + 1] = s[i]
    <3> SUFFICES ASSUME NEW s \in Seq(U), NEW h \in U
                 PROVE  /\ Len(<<h>> \o s) = Len(s) + 1 /\ DOMAIN (<<h>> \o s) = 1..(Len(s) + 1)
                        /\ (<<h>> \o s)[1] = h
                        /\ \A i \in 1..Len(s) : (<<h>> \o s)[i + 1] = s[i]
        OBVIOUS
    <3> HIDE DEF U
    <3>1. <<h>> \in Seq(U) /\ Len(<<h>>) = 1 /\ <<h>>[1] = h
        OBVIOUS
    <3> DEFINE o == <<h>>
    <3> HIDE DEF o
    <3>2. /\ Len(o \o s) = Len(o) + Len(s) /\ DOMAIN (o \o s) = 1..(Len(o) + Len(s))
          /\ \A i \in 1..(Len(o) + Len(s)) : (o \o s)[i] = IF i <= Len(o) THEN o[i] ELSE s[i - Len(o)]
        BY <3>1 DEF o
    <3>3. Len(s) \in Nat
        OBVIOUS
    <3>4. \A i \in 1..Len(s) : i + 1 \in 1..(1 + Len(s)) /\ ~(i + 1 <= 1) /\ i + 1 - 1 = i
        BY <3>3
    <3> QED
        BY <3>1, <3>2, <3>3, <3>4 DEF o
  <2>2. told \in Seq(U) /\ HomeZone \in U
      BY <1>7
  <2> HIDE DEF U
  <2> QED
      BY <1>7, <1>8, <2>1, <2>2
<1>10. ASSUME NEW i \in DOMAIN zones, zones[i].at # None
       PROVE  \E t \in DOMAIN GetZones : t > 1 /\ GetZones[t].name = zones[i].name
  <2>1. i \in placed \cap 1..Len(zones)
      BY <1>3, <1>10 DEF placed
  <2>2. PICK k \in 1..Len(p) : f[k] = i
      BY <1>4, <2>1
  <2>3. GetZones[k + 1].name = zones[i].name
      BY <1>4, <1>6, <1>9, <2>2
  <2>4. k + 1 \in DOMAIN GetZones /\ k + 1 > 1
      BY <1>5, <1>9
  <2> QED
      BY <2>3, <2>4
<1>11. ASSUME NEW t \in DOMAIN GetZones, NEW u \in DOMAIN GetZones, t > 1, u > 1,
              GetZones[t].id = GetZones[u].id
       PROVE  t = u
  <2>1. t - 1 \in 1..Len(p) /\ u - 1 \in 1..Len(p) /\ t = t - 1 + 1 /\ u = u - 1 + 1
      BY <1>5, <1>9, <1>11
  <2>2. p[t - 1].id = p[u - 1].id
      BY <1>6, <1>9, <1>11, <2>1
  <2>3. t - 1 = u - 1
      BY <1>2, <1>5, <2>1, <2>2 DEF Distinct
  <2> QED
      BY <2>1, <2>3
<1> QED
    BY <1>5, <1>9, <1>10, <1>11

\* Of an invariant list, ids are unique and apps are told the zones in force.
LEMMA PlacesInvImplies == PlacesInv => PlacesAreTold
<1> SUFFICES ASSUME PlacesInv PROVE IdsAreUnique /\ AppsKnowTheZones
    BY DEF PlacesAreTold
<1>1. IdsAreUnique
    BY DEF PlacesInv, IdsAreUnique, Distinct, SeedsAreDistinct
<1>2. ASSUME NEW p \in PLACE, ZoneAt(p) # "not_home"
      PROVE  \E i \in DOMAIN GetZones : i > 1 /\ GetZones[i].name = ZoneAt(p)
  <2> DEFINE around == {i \in DOMAIN zones : zones[i].at # None /\ p \in zones[i].at}
             first == CHOOSE i \in around : \A j \in around : i <= j
  <2>1. around # {} /\ ZoneAt(p) = zones[first].name
      BY <1>2 DEF ZoneAt
  <2>2. around \in SUBSET Nat
      BY DEF PlacesInv
  <2>3. \E i \in around : \A j \in around : i <= j
    <3> HIDE DEF around
    <3> QED
        BY <2>1, <2>2, SmallestExists
  <2>4. first \in around
    <3> HIDE DEF around
    <3> QED
        BY <2>3
  <2>5. first \in DOMAIN zones /\ zones[first].at # None
      BY <2>4
  <2> HIDE DEF first
  <2> QED
      BY <2>1, <2>5, WhatIsTold
<1>3. ASSUME NEW i \in DOMAIN GetZones, NEW j \in DOMAIN GetZones, GetZones[i].id = GetZones[j].id
      PROVE  i = j \/ GetZones[i].id = HomeId
  <2>1. i = 1 \/ j = 1 \/ (i > 1 /\ j > 1)
      BY WhatIsTold
  <2>2. GetZones[1].id = HomeId
      BY WhatIsTold DEF HomeZone
  <2> QED
      BY <1>3, <2>1, <2>2, WhatIsTold
<1>4. AppsKnowTheZones
    BY <1>2, <1>3 DEF AppsKnowTheZones
<1> QED
    BY <1>1, <1>4

\* However zones and areas are made, renamed, deleted and seeded: an id names one
\* of them, and the zone a position is in is one the apps were told
\* (zone_store.rs, area_registry_store.rs, ha_webhook.rs).
THEOREM PlacesAreToldAlways == Spec => []PlacesAreTold
<1>1. Init => PlacesInv
    BY PlacesInitially DEF Init
<1>2. PlacesInv /\ [Next]_vars => PlacesInv'
    BY PlacesStep DEF Next, vars, Restart
<1> QED
    BY <1>1, <1>2, PlacesInvImplies, PTL DEF Spec

(***************************************************************************)
(* Devices and their sensors.  A registration renews the record with its   *)
(* app and device id or adds one where there was none, and nothing else    *)
(* touches an app or an id.                                                *)
(***************************************************************************)
DeviceRecord == [app : APP, id : DEVID \cup {None}, edit : EDIT \cup {None}, secret : {0, 1}]
EntityRecord == [eid : ENTITYID, numeric : BOOLEAN, edit : EDIT \cup {None}]

OneIn(list) == \A v, w \in DOMAIN list :
    list[v].id # None /\ list[v].id = list[w].id /\ list[v].app = list[w].app => v = w

RegistryInv ==
    /\ devices \in Seq(DeviceRecord) /\ Len(devices) <= MaxDevices /\ OneIn(devices)
    /\ entities \in [KEY -> EntityRecord \cup {None}]
    /\ \A k \in KEY : entities[k] # None => k[1] \in DOMAIN devices

\* What a device was given stays, from one list of devices to the next.
Kept(old, new) == \A w \in DOMAIN old :
    /\ w \in DOMAIN new
    /\ new[w].app = old[w].app /\ new[w].id = old[w].id
    /\ old[w].secret # 0 => new[w].secret = old[w].secret
    /\ old[w].edit # None => new[w].edit # None

\* The devices are numbered without gaps, by webhook ids.
LEMMA DevicesAreAnInterval ==
    ASSUME devices \in Seq(DeviceRecord), Len(devices) <= MaxDevices
    PROVE  /\ Len(devices) \in Nat /\ DOMAIN devices = 1..Len(devices)
           /\ DOMAIN devices \subseteq WEBHOOK /\ WEBHOOK \subseteq Nat
           /\ \A w \in DOMAIN devices : devices[w] \in DeviceRecord
    BY MobileAssumption DEF WEBHOOK

\* A record that changes in its secret or its edit only.
LEMMA RenewedDevice ==
    ASSUME RegistryInv, NEW w \in DOMAIN devices, NEW r \in DeviceRecord,
           r.app = devices[w].app, r.id = devices[w].id,
           devices[w].secret # 0 => r.secret = devices[w].secret,
           devices[w].edit # None => r.edit # None
    PROVE  LET l == [devices EXCEPT ![w] = r]
           IN  /\ l \in Seq(DeviceRecord) /\ Len(l) = Len(devices) /\ OneIn(l)
               /\ DOMAIN l = DOMAIN devices /\ Kept(devices, l)
<1> DEFINE l == [devices EXCEPT ![w] = r]
<1>1. devices \in Seq(DeviceRecord) /\ OneIn(devices)
    BY DEF RegistryInv
<1>2. l \in Seq(DeviceRecord) /\ Len(l) = Len(devices) /\ DOMAIN l = DOMAIN devices
    BY <1>1
<1>3. \A v \in DOMAIN devices : l[v] = IF v = w THEN r ELSE devices[v]
    BY <1>1
<1> HIDE DEF l
<1>4. \A v \in DOMAIN devices : l[v].app = devices[v].app /\ l[v].id = devices[v].id
    BY <1>3
<1>5. OneIn(l)
    BY <1>1, <1>2, <1>4 DEF OneIn
<1>6. Kept(devices, l)
    BY <1>2, <1>3, <1>4 DEF Kept
<1> QED
    BY <1>2, <1>5, <1>6 DEF l

\* The first of several records is one of them (iter().find).
LEMMA FirstMatching ==
    ASSUME NEW S \in SUBSET Nat, S # {}
    PROVE  (CHOOSE v \in S : \A u \in S : v <= u) \in S
    BY SmallestExists

\* A registration, new or again, leaves one record per app and device, and keeps
\* the webhook ids and secrets that were given out.
LEMMA RegisteringKeeps ==
    ASSUME RegistryInv, NEW app \in APP, NEW id \in DEVID \cup {None}, NEW wanted \in BOOLEAN,
           Registered(app, id, wanted).at <= MaxDevices
    PROVE  LET l == Registered(app, id, wanted).list
               w == Registered(app, id, wanted).at
           IN  /\ l \in Seq(DeviceRecord) /\ Len(l) <= MaxDevices /\ OneIn(l)
               /\ w \in DOMAIN l /\ DOMAIN devices \subseteq DOMAIN l /\ Kept(devices, l)
<1> DEFINE done == Registered(app, id, wanted)
<1>1. devices \in Seq(DeviceRecord) /\ OneIn(devices) /\ Len(devices) <= MaxDevices
    BY DEF RegistryInv
<1>2. /\ Len(devices) \in Nat /\ DOMAIN devices = 1..Len(devices)
      /\ \A w \in DOMAIN devices : devices[w] \in DeviceRecord
    BY <1>1, DevicesAreAnInterval
<1>3. CASE Matching(app, id) # {}
  <2> DEFINE w == CHOOSE v \in Matching(app, id) : \A u \in Matching(app, id) : v <= u
             r == [devices[w] EXCEPT !.secret = Secret(@, wanted)]
  <2>1. Matching(app, id) \in SUBSET Nat /\ Matching(app, id) \subseteq DOMAIN devices
      BY <1>2 DEF Matching
  <2>2. w \in DOMAIN devices
      BY <1>3, <2>1, FirstMatching
  <2>3. done.at = w /\ done.list = [devices EXCEPT ![w].secret = Secret(@, wanted)]
      BY <1>3 DEF Registered
  <2> HIDE DEF w
  <2>4. devices[w] \in DeviceRecord
      BY <1>2, <2>2
  <2>5. /\ r \in DeviceRecord /\ r.app = devices[w].app /\ r.id = devices[w].id
        /\ r.edit = devices[w].edit
        /\ devices[w].secret # 0 => r.secret = devices[w].secret
      BY <2>4 DEF DeviceRecord, Secret
  <2>6. done.list = [devices EXCEPT ![w] = r]
      BY <2>2, <2>3
  <2> HIDE DEF r, done
  <2>7. /\ done.list \in Seq(DeviceRecord) /\ Len(done.list) = Len(devices) /\ OneIn(done.list)
        /\ DOMAIN done.list = DOMAIN devices /\ Kept(devices, done.list)
      BY <2>2, <2>5, <2>6, RenewedDevice
  <2> QED
      BY <1>1, <2>2, <2>3, <2>7 DEF done
<1>4. CASE Matching(app, id) = {}
  <2> DEFINE r == [app |-> app, id |-> id, edit |-> None, secret |-> Secret(0, wanted)]
             n == Len(devices)
  <2>1. r \in DeviceRecord /\ r.app = app /\ r.id = id
      BY DEF DeviceRecord, Secret
  <2>2. done.at = n + 1 /\ done.list = Append(devices, r)
      BY <1>4 DEF Registered
  <2> HIDE DEF r
  <2>3. /\ done.list \in Seq(DeviceRecord) /\ Len(done.list) = n + 1
        /\ DOMAIN done.list = 1..(n + 1) /\ done.list[n + 1] = r
        /\ \A i \in 1..n : done.list[i] = devices[i]
      BY <1>1, <2>1, <2>2
  <2>4. \A i \in 1..n : id # None => ~(devices[i].app = app /\ devices[i].id = id)
      BY <1>2, <1>4 DEF Matching
  <2> HIDE DEF done, n
  <2>5. \A i \in 1..(n + 1) : i \in 1..n \/ i = n + 1
      BY <1>2 DEF n
  <2>6. OneIn(done.list)
    <3> SUFFICES ASSUME NEW v \in 1..(n + 1), NEW u \in 1..(n + 1), done.list[v].id # None,
                        done.list[v].id = done.list[u].id, done.list[v].app = done.list[u].app
                 PROVE  v = u
        BY <2>3 DEF OneIn
    <3>1. CASE v \in 1..n /\ u \in 1..n
        BY <1>1, <1>2, <2>3, <3>1 DEF OneIn, n
    <3>2. CASE v = n + 1 /\ u \in 1..n
        BY <2>1, <2>3, <2>4, <3>2
    <3>3. CASE v \in 1..n /\ u = n + 1
        BY <2>1, <2>3, <2>4, <3>3
    <3> QED
        BY <2>5, <3>1, <3>2, <3>3
  <2>7. Kept(devices, done.list)
      BY <1>2, <2>3 DEF Kept, n
  <2>8. Len(done.list) <= MaxDevices /\ done.at \in DOMAIN done.list
      BY <1>2, <2>2, <2>3 DEF n, done
  <2>9. DOMAIN devices \subseteq DOMAIN done.list
      BY <1>2, <2>3 DEF n
  <2> QED
      BY <2>3, <2>6, <2>7, <2>8, <2>9 DEF done
<1> QED
    BY <1>3, <1>4

\* A list that stays keeps what it gave out.
LEMMA KeptItself == ASSUME devices \in Seq(DeviceRecord) PROVE Kept(devices, devices)
    BY DEF Kept

\* So does an edit of one record by its user.
LEMMA EditingKeeps ==
    ASSUME RegistryInv, NEW w, NEW x \in EDIT, StoreEdit(w, x)
    PROVE  RegistryInv' /\ Kept(devices, devices')
<1> DEFINE r == [devices[w] EXCEPT !.edit = x]
<1>1. w \in DOMAIN devices /\ devices' = [devices EXCEPT ![w].edit = x] /\ UNCHANGED entities
    BY DEF StoreEdit
<1>2. devices[w] \in DeviceRecord /\ Len(devices) \in Nat
    BY <1>1, DevicesAreAnInterval DEF RegistryInv
<1>3. /\ r \in DeviceRecord /\ r.app = devices[w].app /\ r.id = devices[w].id
      /\ r.secret = devices[w].secret /\ r.edit = x
    BY <1>2 DEF DeviceRecord
<1>4. devices' = [devices EXCEPT ![w] = r]
    BY <1>1
<1> HIDE DEF r
<1>5. /\ devices' \in Seq(DeviceRecord) /\ Len(devices') = Len(devices) /\ OneIn(devices')
      /\ DOMAIN devices' = DOMAIN devices /\ Kept(devices, devices')
  <2>1. x # None
      BY MobileAssumption
  <2>2. /\ devices[w].secret # 0 => r.secret = devices[w].secret
        /\ devices[w].edit # None => r.edit # None
      BY <1>3, <2>1
  <2> DEFINE l == [devices EXCEPT ![w] = r]
  <2>3. w \in DOMAIN devices /\ r \in DeviceRecord /\ r.app = devices[w].app /\ r.id = devices[w].id
      BY <1>1, <1>3
  <2>4. /\ l \in Seq(DeviceRecord) /\ Len(l) = Len(devices) /\ OneIn(l)
        /\ DOMAIN l = DOMAIN devices /\ Kept(devices, l)
      BY <2>2, <2>3, RenewedDevice
  <2>5. devices' = l
      BY <1>4
  <2> HIDE DEF l
  <2> QED
      BY <2>4, <2>5
<1> QED
    BY <1>1, <1>5 DEF RegistryInv

\* A record of a sensor that comes, changes or goes.
LEMMA SensorStep ==
    ASSUME RegistryInv, UNCHANGED devices, NEW k \in KEY, NEW r \in EntityRecord \cup {None},
           r # None => k[1] \in DOMAIN devices, entities' = [entities EXCEPT ![k] = r]
    PROVE  RegistryInv'
<1>1. /\ entities' \in [KEY -> EntityRecord \cup {None}]
      /\ \A l \in KEY : entities'[l] = IF l = k THEN r ELSE entities[l]
    BY DEF RegistryInv
<1> QED
    BY <1>1 DEF RegistryInv

\* What register_sensor stores is a record with an entity id of its own.
LEMMA SensorRecordIsOne ==
    ASSUME RegistryInv, NEW k \in KEY, NEW numeric \in BOOLEAN
    PROVE  /\ SensorRecord(k, numeric) \in EntityRecord
           /\ SensorRecord(k, numeric).eid \in ENTITYID
           /\ SensorRecord(k, numeric).numeric = numeric
<1>1. EntityId(k) \in ENTITYID
    BY DEF ENTITYID
<1>2. entities[k] # None => entities[k] \in EntityRecord
    BY DEF RegistryInv
<1>3. entities[k] # None => entities[k].eid \in ENTITYID
    BY <1>2 DEF EntityRecord
<1> QED
    BY <1>1, <1>3 DEF SensorRecord, EntityRecord

\* Of the records that hold an entity id, the lists show one of them.
LEMMA FirstHolds ==
    ASSUME NEW e, Holding(e) # {}
    PROVE  FirstHolding(e) \in Holding(e)
<1> DEFINE S == {k[2].uid : k \in Holding(e)}
<1>1. S \in SUBSET Nat /\ S # {}
  <2>1. \A k \in Holding(e) : k \in WEBHOOK \X SENSOR
      BY DEF Holding, KEY
  <2>2. \A k \in WEBHOOK \X SENSOR : k[2].uid \in UID
      BY DEF SENSOR
  <2>3. \A k \in Holding(e) : k[2].uid \in Nat
      BY <2>1, <2>2, MobileAssumption
  <2> QED
      BY <2>3
<1>2. \E i \in S : \A j \in S : i <= j
  <2> HIDE DEF S
  <2> QED
      BY <1>1, SmallestExists
<1>3. \E k \in Holding(e) : \A l \in Holding(e) : k[2].uid <= l[2].uid
    BY <1>2
<1> QED
    BY <1>3 DEF FirstHolding

\* Every operation of the mobile app keeps records well-formed, unique per device,
\* and keeps what was given out.
LEMMA RegistryStep ==
    ASSUME RegistryInv, Devices \/ Sensors \/ Persons \/ MobileRestart \/ UNCHANGED mobileVars
    PROVE  RegistryInv' /\ Kept(devices, devices')
<1>0. devices \in Seq(DeviceRecord) /\ Kept(devices, devices)
    BY KeptItself DEF RegistryInv
<1>1. ASSUME UNCHANGED stores
      PROVE  RegistryInv' /\ Kept(devices, devices')
    BY <1>0, <1>1 DEF RegistryInv, stores
<1>2. ASSUME NEW a \in APP, NEW d \in DEVID \cup {None}, NEW s \in BOOLEAN, RegisterDevice(a, d, s)
      PROVE  RegistryInv' /\ Kept(devices, devices')
  <2>1. /\ Registered(a, d, s).at <= MaxDevices /\ devices' = Registered(a, d, s).list
        /\ UNCHANGED entities
      BY <1>2 DEF RegisterDevice
  <2>2. /\ devices' \in Seq(DeviceRecord) /\ Len(devices') <= MaxDevices /\ OneIn(devices')
        /\ DOMAIN devices \subseteq DOMAIN devices' /\ Kept(devices, devices')
      BY <2>1, RegisteringKeeps
  <2> QED
      BY <2>1, <2>2 DEF RegistryInv
<1>3. ASSUME NEW x \in EDIT, NEW w, StoreEdit(w, x)
      PROVE  RegistryInv' /\ Kept(devices, devices')
    BY <1>3, EditingKeeps
<1>4. CASE Devices
    BY <1>2, <1>3, <1>4 DEF Devices, EditDevice, RenameDevice
<1>5. ASSUME NEW k \in KEY, NEW n \in BOOLEAN, NEW v, RegisterSensor(k[1], k[2], n, v)
      PROVE  RegistryInv' /\ Kept(devices, devices')
  <2>1. k = <<k[1], k[2]>>
      BY DEF KEY
  <2>2. /\ entities' = [entities EXCEPT ![k] = SensorRecord(k, n)]
        /\ k[1] \in DOMAIN devices /\ UNCHANGED devices
      BY <1>5, <2>1 DEF RegisterSensor, Reaches
  <2>3. RegistryInv'
      BY <2>2, SensorRecordIsOne, SensorStep
  <2> QED
      BY <1>0, <2>2, <2>3
<1>6. ASSUME NEW e \in ENTITYID, NEW x \in EDIT, NEW u \in BOOLEAN, StoreEditEntity(e, x, u)
      PROVE  RegistryInv' /\ Kept(devices, devices')
  <2> DEFINE k == FirstHolding(e)
             r == [entities[k] EXCEPT !.edit = x, !.numeric = @ \/ u]
  <2>1. Holding(e) # {} /\ entities' = [entities EXCEPT ![k] = r] /\ UNCHANGED devices
      BY <1>6 DEF StoreEditEntity
  <2>2. k \in Holding(e)
      BY <2>1, FirstHolds
  <2> HIDE DEF k
  <2>3. k \in KEY /\ entities[k] \in EntityRecord /\ k[1] \in DOMAIN devices
      BY <2>2 DEF Holding, RegistryInv
  <2>4. r \in EntityRecord
    <3>1. (entities[k].numeric \/ u) \in BOOLEAN
        BY <2>3 DEF EntityRecord
    <3> QED
        BY <2>3, <3>1 DEF EntityRecord
  <2> HIDE DEF r
  <2>5. RegistryInv'
      BY <2>1, <2>3, <2>4, SensorStep
  <2> QED
      BY <1>0, <2>1, <2>5
<1>7. ASSUME NEW e \in ENTITYID, RemoveEntity(e)
      PROVE  RegistryInv' /\ Kept(devices, devices')
  <2>1. entities' = [k \in KEY |-> IF k \in Holding(e) THEN None ELSE entities[k]]
        /\ UNCHANGED devices
      BY <1>7 DEF RemoveEntity
  <2>2. \A k \in KEY : entities'[k] = None \/ entities'[k] = entities[k]
      BY <2>1
  <2>3. entities' \in [KEY -> EntityRecord \cup {None}]
      BY <2>1 DEF RegistryInv
  <2>4. RegistryInv'
      BY <2>1, <2>2, <2>3 DEF RegistryInv
  <2> QED
      BY <1>0, <2>1, <2>4
<1>8. CASE Sensors
  <2>1. ASSUME NEW w \in WEBHOOK, NEW items \in BATCH, UpdateSensors(w, items)
        PROVE  RegistryInv' /\ Kept(devices, devices')
      BY <1>1, <2>1 DEF UpdateSensors
  <2> QED
      BY <1>5, <1>6, <1>7, <1>8, <2>1 DEF Sensors, EditEntity, EditEntityByForm
<1>9. CASE Persons
    BY <1>1, <1>9 DEF Persons, ReportLocation, SetPerson, RemovePerson
<1> QED
    BY <1>1, <1>4, <1>8, <1>9 DEF MobileRestart, mobileVars

\* However devices register again and users edit them, a device keeps its
\* webhook id, its secret and what the user set (mobile_device_store.rs,
\* register).
THEOREM DevicesKeepTheirs == Spec => DeviceKeepsWhatItWasGiven
<1>1. Init => RegistryInv
  <2>1. << >> \in Seq(DeviceRecord) /\ Len(<< >>) = 0 /\ OneIn(<< >>)
      BY DEF OneIn
  <2> QED
      BY <2>1, MobileAssumption DEF Init, MobileInit, RegistryInv
<1>2. RegistryInv /\ [Next]_vars => RegistryInv' /\ Kept(devices, devices')
  <2>1. [Next]_vars => Devices \/ Sensors \/ Persons \/ MobileRestart \/ UNCHANGED mobileVars
      BY DEF Next, vars, Restart
  <2> QED
      BY <2>1, RegistryStep
<1>3. RegistryInv /\ [Next]_vars
      => [\A w \in DOMAIN devices :
             /\ w \in DOMAIN devices'
             /\ devices'[w].app = devices[w].app /\ devices'[w].id = devices[w].id
             /\ devices[w].secret # 0 => devices'[w].secret = devices[w].secret
             /\ devices[w].edit # None => devices'[w].edit # None]_vars
    BY <1>2 DEF Kept
<1> QED
    BY <1>1, <1>2, <1>3, PTL DEF Spec, DeviceKeepsWhatItWasGiven

(***************************************************************************)
(* A batch of sensor updates: what the items up to n did, by induction on  *)
(* n.                                                                      *)
(***************************************************************************)
PlaceName == ZONENAME \cup {"not_home"}
Location == [zone : PlaceName, source : WEBHOOK]
SHOWN == VALUE \cup {None} \cup PlaceName
ITEM == [type : ENTITYTYPE \cup {Unsupported}, uid : UID, value : Nat \cup {Text, Refused}]
ANSWER == {None, "success", "not_registered", "invalid_format"}
RUN == [shown : [ENTITYID -> SHOWN], recorded : [ENTITYID -> Nat \cup {None}],
        answer : [UID -> ANSWER]]

ShownInv == /\ shown \in [ENTITYID -> SHOWN] /\ recorded \in [ENTITYID -> Nat \cup {None}]
            /\ \A k \in KEY : shown[EntityId(k)] \in VALUE \cup {None}

\* The record that a batch item finds has an entity id.
LEMMA RecordsHaveIds ==
    ASSUME RegistryInv, NEW w \in DOMAIN devices, NEW item \in ITEM, Rec(w, item) # None
    PROVE  Rec(w, item) \in EntityRecord /\ Rec(w, item).eid \in ENTITYID
<1> DEFINE sensor == [type |-> item.type, uid |-> item.uid]
<1>1. item.type \in ENTITYTYPE /\ Rec(w, item) = entities[<<w, sensor>>]
    BY DEF Rec
<1>2. <<w, sensor>> \in KEY
    BY <1>1, DevicesAreAnInterval DEF RegistryInv, KEY, SENSOR, ITEM
<1> HIDE DEF sensor
<1>3. Rec(w, item) \in EntityRecord
    BY <1>1, <1>2 DEF RegistryInv
<1> QED
    BY <1>3 DEF EntityRecord

(* next is what the item makes of run. *)
Does(w, run, item, next) ==
    /\ next \in RUN
    /\ next.shown = IF Taken(w, item) THEN [run.shown EXCEPT ![Rec(w, item).eid] = item.value]
                    ELSE run.shown
    /\ next.recorded = IF Counted(w, item) THEN [run.recorded EXCEPT ![Rec(w, item).eid] = item.value]
                       ELSE run.recorded
    /\ \E a \in ANSWER : /\ next.answer = [run.answer EXCEPT ![item.uid] = a]
                         /\ a = "success" <=> Taken(w, item)

\* One item of a batch: what it shows, what it records, and how it is answered.
LEMMA ItemDoes ==
    ASSUME RegistryInv, NEW w \in DOMAIN devices, NEW run \in RUN, NEW item \in ITEM
    PROVE  Does(w, run, item, Item(w, run, item))
<1> DEFINE rec == Rec(w, item)
           did(a, s, r) == [shown |-> s, recorded |-> r, answer |-> [run.answer EXCEPT ![item.uid] = a]]
           s1 == [run.shown EXCEPT ![rec.eid] = item.value]
           r1 == IF Counted(w, item) THEN [run.recorded EXCEPT ![rec.eid] = item.value] ELSE run.recorded
<1>0. /\ run.shown \in [ENTITYID -> SHOWN] /\ run.recorded \in [ENTITYID -> Nat \cup {None}]
      /\ run.answer \in [UID -> ANSWER] /\ item.uid \in UID /\ item.value \in Nat \cup {Text, Refused}
      /\ run = [shown |-> run.shown, recorded |-> run.recorded, answer |-> run.answer]
    BY DEF RUN, ITEM
<1>1. ASSUME NEW a \in ANSWER, NEW s \in [ENTITYID -> SHOWN], NEW r \in [ENTITYID -> Nat \cup {None}]
      PROVE  /\ did(a, s, r) \in RUN /\ did(a, s, r).shown = s /\ did(a, s, r).recorded = r
             /\ did(a, s, r).answer = [run.answer EXCEPT ![item.uid] = a]
    BY <1>0 DEF RUN
<1>2. CASE rec = None
  <2>1. Item(w, run, item) = did("not_registered", run.shown, run.recorded)
    <3>1. Item(w, run, item) = [run EXCEPT !.answer[item.uid] = "not_registered"]
        BY <1>2 DEF Item
    <3> QED
        BY <1>0, <3>1
  <2>2. ~Taken(w, item) /\ ~Counted(w, item) /\ "not_registered" \in ANSWER
      BY <1>2 DEF Taken, Counted, ANSWER
  <2> HIDE DEF did
  <2>3. /\ Item(w, run, item) \in RUN /\ Item(w, run, item).shown = run.shown
        /\ Item(w, run, item).recorded = run.recorded
        /\ Item(w, run, item).answer = [run.answer EXCEPT ![item.uid] = "not_registered"]
      BY <1>0, <1>1, <2>1, <2>2
  <2>4. "not_registered" = "success" <=> Taken(w, item)
      BY <2>2
  <2> QED
      BY <2>2, <2>3, <2>4 DEF Does
<1>3. CASE rec # None /\ item.value = Refused
  <2>1. Item(w, run, item) = did("invalid_format", run.shown, run.recorded)
    <3>1. Item(w, run, item) = [run EXCEPT !.answer[item.uid] = "invalid_format"]
        BY <1>3 DEF Item
    <3> QED
        BY <1>0, <3>1
  <2>2. ~Taken(w, item) /\ ~Counted(w, item) /\ "invalid_format" \in ANSWER
      BY <1>3 DEF Taken, Counted, ANSWER
  <2> HIDE DEF did
  <2>3. /\ Item(w, run, item) \in RUN /\ Item(w, run, item).shown = run.shown
        /\ Item(w, run, item).recorded = run.recorded
        /\ Item(w, run, item).answer = [run.answer EXCEPT ![item.uid] = "invalid_format"]
      BY <1>0, <1>1, <2>1, <2>2
  <2>4. "invalid_format" = "success" <=> Taken(w, item)
      BY <2>2
  <2> QED
      BY <2>2, <2>3, <2>4 DEF Does
<1>4. CASE rec # None /\ item.value # Refused
  <2>1. rec.eid \in ENTITYID
      BY <1>4, RecordsHaveIds
  <2>2. s1 \in [ENTITYID -> SHOWN] /\ r1 \in [ENTITYID -> Nat \cup {None}]
      BY <1>0, <1>4, <2>1 DEF SHOWN, VALUE, Counted, Number
  <2>3. Taken(w, item) /\ (Counted(w, item) <=> rec.numeric /\ Number(item.value)) /\ "success" \in ANSWER
      BY <1>4 DEF Taken, Counted, ANSWER
  <2>4. Item(w, run, item) = did("success", s1, r1)
    <3>1. r1 = Sampled(run.recorded, rec.eid, rec, item.value)
        BY <2>3 DEF Sampled
    <3>2. s1 = Applied(run.shown, rec.eid, item.value)
        BY DEF Applied
    <3>3. Item(w, run, item) =
            [[run EXCEPT !.answer[item.uid] = "success"] EXCEPT
                 !.shown = Applied(@, rec.eid, item.value),
                 !.recorded = Sampled(@, rec.eid, rec, item.value)]
        BY <1>4 DEF Item
    <3> HIDE DEF rec
    <3>4. Item(w, run, item) =
            [shown |-> Applied(run.shown, rec.eid, item.value),
             recorded |-> Sampled(run.recorded, rec.eid, rec, item.value),
             answer |-> [run.answer EXCEPT ![item.uid] = "success"]]
        BY <1>0, <3>3
    <3> QED
        BY <3>1, <3>2, <3>4 DEF did
  <2> HIDE DEF did, s1, r1
  <2>5. /\ Item(w, run, item) \in RUN /\ Item(w, run, item).shown = s1
        /\ Item(w, run, item).recorded = r1
        /\ Item(w, run, item).answer = [run.answer EXCEPT ![item.uid] = "success"]
      BY <1>1, <2>2, <2>3, <2>4
  <2> QED
      BY <2>3, <2>5 DEF s1, r1, Does
<1> QED
    BY <1>2, <1>3, <1>4

\* A batch is the sequence of the states it goes through, item by item.
LEMMA BatchUnfolds ==
    ASSUME RegistryInv, ShownInv, NEW w \in DOMAIN devices, NEW items \in Seq(ITEM)
    PROVE  \E g \in [0..Len(items) -> RUN] :
              /\ Batch(w, items) = g[Len(items)] /\ g[0] = Unanswered
              /\ \A n \in 1..Len(items) : g[n] = Item(w, g[n - 1], items[n])
<1> DEFINE L == Len(items)
           F == [n \in 1..L |-> [run \in RUN |-> Item(w, run, items[n])]]
           Eqn(u) == u = [n \in 0..L |-> IF n = 0 THEN Unanswered ELSE Item(w, u[n - 1], items[n])]
           after == CHOOSE u : Eqn(u)
<1>1. L \in Nat /\ L \in 0..L /\ \A n \in 1..L : items[n] \in ITEM
    OBVIOUS
<1>2. Unanswered \in RUN
    BY DEF Unanswered, RUN, ShownInv, ANSWER
<1>3. \A run \in RUN, n \in 1..L : Item(w, run, items[n]) \in RUN
    BY <1>1, ItemDoes DEF Does
<1>4. F \in [1..L -> [RUN -> RUN]] /\ \A run \in RUN, n \in 1..L : F[n][run] = Item(w, run, items[n])
    BY <1>3
<1> HIDE DEF F, L
<1>5. PICK g : Recurs(g, RUN, Unanswered, L, F)
    BY <1>1, <1>2, <1>4, StepsExist
<1>6. Eqn(g)
  <2> DEFINE e == [n \in 0..L |-> IF n = 0 THEN Unanswered ELSE Item(w, g[n - 1], items[n])]
  <2>1. ASSUME NEW n \in 0..L
        PROVE  g[n] = e[n]
    <3>1. CASE n = 0
        BY <1>5, <3>1 DEF Recurs
    <3>2. CASE n # 0
      <4>1. n \in 1..L /\ g[n - 1] \in RUN
          BY <1>1, <1>5, <3>2 DEF Recurs
      <4>2. g[n] = Item(w, g[n - 1], items[n])
          BY <1>4, <1>5, <4>1 DEF Recurs
      <4> QED
          BY <3>2, <4>2
    <3> QED
        BY <3>1, <3>2
  <2>2. g = [n \in 0..L |-> g[n]]
      BY <1>5 DEF Recurs
  <2> QED
      BY <2>1, <2>2
<1>7. Eqn(after)
  <2> HIDE DEF Eqn
  <2> QED
      BY <1>6
<1>8. Batch(w, items) = after[L]
    BY DEF Batch, L
<1> HIDE DEF after
<1>9. /\ after = [n \in 0..L |-> after[n]] /\ after[0] = Unanswered
      /\ \A n \in 1..L : after[n] = Item(w, after[n - 1], items[n])
  <2> DEFINE u == after
  <2>1. Eqn(u)
      BY <1>7
  <2> HIDE DEF u
  <2>2. /\ \A n \in 0..L : u[n] = IF n = 0 THEN Unanswered ELSE Item(w, u[n - 1], items[n])
        /\ u = [n \in 0..L |-> u[n]]
      BY <2>1
  <2>3. 0 \in 0..L /\ \A n \in 1..L : n \in 0..L /\ n # 0
      BY <1>1
  <2> QED
      BY <2>2, <2>3 DEF u
<1> DEFINE Good == {n \in Nat : n <= L => after[n] \in RUN}
<1>10. Good = Nat
  <2>1. 0 \in Good
      BY <1>2, <1>9
  <2>2. ASSUME NEW n \in Good
        PROVE  n + 1 \in Good
    <3>1. n \in Nat /\ (n <= L => after[n] \in RUN)
        OBVIOUS
    <3>2. SUFFICES ASSUME n + 1 <= L PROVE after[n + 1] \in RUN
        BY <3>1
    <3>3. n + 1 \in 1..L /\ n + 1 - 1 = n /\ after[n] \in RUN
        BY <1>1, <3>1, <3>2
    <3>4. after[n + 1] = Item(w, after[n], items[n + 1])
      <4> DEFINE m == n + 1
      <4>1. m \in 1..L /\ m - 1 = n
          BY <3>3
      <4> HIDE DEF m
      <4>2. after[m] = Item(w, after[m - 1], items[m])
          BY <1>9, <4>1
      <4>3. after[m] = Item(w, after[n], items[m])
          BY <4>1, <4>2
      <4> QED
          BY <4>3 DEF m
    <3>5. Item(w, after[n], items[n + 1]) \in RUN
        BY <1>3, <3>3
    <3> QED
        BY <3>4, <3>5
  <2>3. Good \in SUBSET Nat
      OBVIOUS
  <2> HIDE DEF Good
  <2> QED
      BY <2>1, <2>2, <2>3, SetInduction
<1>11. \A n \in 0..L : n \in Good /\ n <= L
  <2> HIDE DEF Good
  <2> QED
      BY <1>1, <1>10
<1>12. after \in [0..L -> RUN]
    BY <1>9, <1>11
<1> QED
    BY <1>8, <1>9, <1>12 DEF L

\* The newest of some items is that with the largest number.
LEMMA LastIsNewest ==
    ASSUME NEW T, NEW k \in T, \A j \in T : j \in Nat /\ j <= k, NEW items, NEW old
    PROVE  Newest(T, items, old) = items[k].value
<1>1. \A i \in T : (\A j \in T : j <= i) => i = k
    OBVIOUS
<1>2. (CHOOSE i \in T : \A j \in T : j <= i) = k
    BY <1>1
<1> QED
    BY <1>2 DEF Newest

\* An item more, and what the batch did up to here is still as it was answered.
LEMMA OneMoreItem ==
    ASSUME RegistryInv, NEW w \in DOMAIN devices, NEW items \in Seq(ITEM), NEW n \in Nat,
           n + 1 <= Len(items), NEW run \in RUN, Did(w, items, n, run)
    PROVE  Did(w, items, n + 1, Item(w, run, items[n + 1]))
<1> DEFINE item == items[n + 1]
           next == Item(w, run, item)
           took(e, m) == {i \in 1..m : Taken(w, items[i]) /\ Rec(w, items[i]).eid = e}
           counted(e, m) == {i \in 1..m : Counted(w, items[i]) /\ Rec(w, items[i]).eid = e}
<1>1. item \in ITEM /\ \A i \in 1..(n + 1) : items[i] \in ITEM
    OBVIOUS
<1>2. \A i \in 1..(n + 1) : i \in 1..n \/ i = n + 1
    OBVIOUS
<1>0. item = items[n + 1]
    OBVIOUS
<1> HIDE DEF item
<1>8. Does(w, run, item, next)
    BY <1>1, ItemDoes
<1>4. /\ run.shown \in [ENTITYID -> SHOWN] /\ run.recorded \in [ENTITYID -> Nat \cup {None}]
      /\ run.answer \in [UID -> ANSWER]
    BY DEF RUN
<1> HIDE DEF next
<1>3. /\ next.shown = IF Taken(w, item) THEN [run.shown EXCEPT ![Rec(w, item).eid] = item.value]
                      ELSE run.shown
      /\ next.recorded = IF Counted(w, item) THEN [run.recorded EXCEPT ![Rec(w, item).eid] = item.value]
                         ELSE run.recorded
      /\ \E a \in ANSWER : /\ next.answer = [run.answer EXCEPT ![item.uid] = a]
                           /\ a = "success" <=> Taken(w, item)
    BY <1>8 DEF Does
<1>5. ASSUME NEW e \in ENTITYID
      PROVE  next.shown[e] = Newest(took(e, n + 1), items, shown[e])
  <2>1. run.shown[e] = Newest(took(e, n), items, shown[e])
      BY DEF Did
  <2>2. CASE Taken(w, item) /\ Rec(w, item).eid = e
    <3>1. took(e, n + 1) = took(e, n) \cup {n + 1}
        BY <1>0, <1>2, <2>2
    <3>2. Newest(took(e, n + 1), items, shown[e]) = item.value
      <4> DEFINE T == took(e, n + 1)
                 k == n + 1
      <4>1. k \in T /\ \A j \in T : j \in Nat /\ j <= k
          BY <3>1
      <4> HIDE DEF T, k
      <4>2. Newest(T, items, shown[e]) = items[k].value
          BY <4>1, LastIsNewest
      <4> QED
          BY <1>0, <4>2 DEF T, k
    <3> QED
        BY <1>3, <1>4, <2>2, <3>2
  <2>3. CASE ~(Taken(w, item) /\ Rec(w, item).eid = e)
    <3>1. took(e, n + 1) = took(e, n)
        BY <1>0, <1>2, <2>3
    <3> HIDE DEF took
    <3> QED
        BY <1>3, <1>4, <2>1, <2>3, <3>1
  <2> QED
      BY <2>2, <2>3
<1>6. ASSUME NEW e \in ENTITYID
      PROVE  next.recorded[e] = Newest(counted(e, n + 1), items, recorded[e])
  <2>1. run.recorded[e] = Newest(counted(e, n), items, recorded[e])
      BY DEF Did
  <2>2. CASE Counted(w, item) /\ Rec(w, item).eid = e
    <3>1. counted(e, n + 1) = counted(e, n) \cup {n + 1}
        BY <1>0, <1>2, <2>2
    <3>2. Newest(counted(e, n + 1), items, recorded[e]) = item.value
      <4> DEFINE T == counted(e, n + 1)
                 k == n + 1
      <4>1. k \in T /\ \A j \in T : j \in Nat /\ j <= k
          BY <3>1
      <4> HIDE DEF T, k
      <4>2. Newest(T, items, recorded[e]) = items[k].value
          BY <4>1, LastIsNewest
      <4> QED
          BY <1>0, <4>2 DEF T, k
    <3> QED
        BY <1>3, <1>4, <2>2, <3>2
  <2>3. CASE ~(Counted(w, item) /\ Rec(w, item).eid = e)
    <3>1. counted(e, n + 1) = counted(e, n)
        BY <1>0, <1>2, <2>3
    <3> HIDE DEF counted
    <3> QED
        BY <1>3, <1>4, <2>1, <2>3, <3>1
  <2> QED
      BY <2>2, <2>3
<1>7. ASSUME NEW i \in 1..(n + 1), \A j \in 1..(n + 1) : j > i => items[j].uid # items[i].uid
      PROVE  next.answer[items[i].uid] = "success" <=> Taken(w, items[i])
  <2>1. items[i].uid \in UID /\ item.uid \in UID
      BY <1>0, <1>1 DEF ITEM
  <2>2. CASE i = n + 1
      BY <1>0, <1>3, <1>4, <2>1, <2>2
  <2>3. CASE i \in 1..n
    <3>1. /\ n + 1 > i /\ n + 1 \in 1..(n + 1)
          /\ \A j \in 1..n : j > i => items[j].uid # items[i].uid
        BY <1>7, <2>3
    <3>2. item.uid # items[i].uid
        BY <1>0, <1>7, <3>1
    <3>3. run.answer[items[i].uid] = "success" <=> Taken(w, items[i])
        BY <2>3, <3>1 DEF Did
    <3> QED
        BY <1>3, <1>4, <2>1, <3>2, <3>3
  <2> QED
      BY <1>2, <2>2, <2>3
<1>9. Did(w, items, n + 1, next)
    BY <1>5, <1>6, <1>7 DEF Did
<1> QED
    BY <1>9 DEF next, item

\* Item by item, the batch did what it answers: induction over the sequence.
LEMMA BatchDid ==
    ASSUME RegistryInv, ShownInv, NEW w \in DOMAIN devices, NEW items \in Seq(ITEM)
    PROVE  Batch(w, items) \in RUN /\ Did(w, items, Len(items), Batch(w, items))
<1> DEFINE L == Len(items)
<1> PICK g \in [0..L -> RUN] :
        /\ Batch(w, items) = g[L] /\ g[0] = Unanswered
        /\ \A n \in 1..L : g[n] = Item(w, g[n - 1], items[n])
    BY BatchUnfolds
<1>1. L \in Nat
    OBVIOUS
<1> HIDE DEF L
<1> DEFINE Have == {n \in Nat : n <= L => Did(w, items, n, g[n])}
<1>2. 0 \in Have
  <2>1. /\ g[0].shown = shown /\ g[0].recorded = recorded
        /\ \A i \in 1..0 : FALSE
      BY DEF Unanswered
  <2>2. \A S \in SUBSET (1..0) : S = {}
      OBVIOUS
  <2>3. Did(w, items, 0, g[0])
      BY <2>1, <2>2 DEF Did, Newest
  <2> QED
      BY <2>3
<1>3. ASSUME NEW n \in Have
      PROVE  n + 1 \in Have
  <2>1. n \in Nat /\ (n <= L => Did(w, items, n, g[n]))
      OBVIOUS
  <2>2. SUFFICES ASSUME n + 1 <= L PROVE Did(w, items, n + 1, g[n + 1])
      BY <2>1
  <2>3. n + 1 \in 1..L /\ n + 1 - 1 = n /\ g[n] \in RUN /\ Did(w, items, n, g[n])
      BY <1>1, <2>1, <2>2
  <2>4. g[n + 1] = Item(w, g[n], items[n + 1])
      BY <2>3
  <2>5. n + 1 <= Len(items)
      BY <2>2 DEF L
  <2> QED
      BY <2>1, <2>3, <2>4, <2>5, OneMoreItem
<1>4. Have \in SUBSET Nat
    OBVIOUS
<1>5. L \in Have /\ L \in 0..L /\ L <= L
  <2> HIDE DEF Have
  <2>1. Have = Nat
      BY <1>2, <1>3, <1>4, SetInduction
  <2> QED
      BY <1>1, <2>1
<1>6. Did(w, items, L, g[L])
    BY <1>5
<1> QED
    BY <1>5, <1>6 DEF L

\* Hence every batch, on every hub.
LEMMA BatchIsAnswered ==
    ASSUME RegistryInv, ShownInv
    PROVE  BatchDoesAsAnswered
<1>1. BATCH \subseteq Seq(ITEM)
    BY MobileAssumption DEF ITEM
<1> QED
    BY <1>1, BatchDid DEF BatchDoesAsAnswered

(***************************************************************************)
(* What is shown of persons and sensors, and who is moved by whom.  A      *)
(* registration that finds nobody for its device puts a person there under *)
(* the device's own id: whoever had that id loses its devices, and those   *)
(* count as left by a user.                                                *)
(***************************************************************************)
PersonsInv ==
    /\ persons \in [PERSON -> (SUBSET WEBHOOK) \cup {None}]
    /\ located \in [PERSON -> Location \cup {None}]
    /\ \A p \in PERSON : located[p] # None => located[p].source \in DOMAIN devices
    /\ past \in [fresh : SUBSET WEBHOOK, left : SUBSET WEBHOOK, moved : SUBSET PERSON]
    /\ NewDevicesAreTracked /\ SourceTracks

MobileInv == RegistryInv /\ ShownInv /\ PersonsInv /\ PlacesInv

\* The zone a position is in has a name.
LEMMA ZoneAtIsAName ==
    ASSUME PlacesInv, NEW place \in PLACE
    PROVE  ZoneAt(place) \in PlaceName
<1> DEFINE around == {i \in DOMAIN zones : zones[i].at # None /\ place \in zones[i].at}
           first == CHOOSE i \in around : \A j \in around : i <= j
<1>1. around \in SUBSET Nat /\ around \subseteq DOMAIN zones
    BY DEF PlacesInv
<1>2. CASE around = {}
    BY <1>2 DEF ZoneAt, PlaceName
<1>3. CASE around # {}
  <2>1. first \in around
    <3> HIDE DEF around
    <3> QED
        BY <1>1, <1>3, SmallestExists
  <2>2. ZoneAt(place) = zones[first].name
      BY <1>3 DEF ZoneAt
  <2> HIDE DEF first
  <2>3. zones[first] \in ZoneRecord
      BY <1>1, <2>1 DEF PlacesInv
  <2> QED
      BY <2>2, <2>3 DEF ZoneRecord, PlaceName
<1> QED
    BY <1>2, <1>3

\* A sensor's entity id is nobody's.
LEMMA SensorsAreNotPersons ==
    ASSUME NEW k, NEW p
    PROVE  EntityId(k) # PersonEntity(p)
    BY DEF EntityId, PersonEntity

\* One value that is shown for a sensor, and maybe kept as a sample.
LEMMA RegisterSensorShows ==
    ASSUME RegistryInv, ShownInv, NEW k \in KEY, NEW n \in BOOLEAN, NEW v \in {1, Refused},
           RegisterSensor(k[1], k[2], n, v)
    PROVE  ShownInv'
<1> DEFINE rec == SensorRecord(k, n)
<1>1. k = <<k[1], k[2]>>
    BY DEF KEY
<1>2. IF v = Refused THEN UNCHANGED <<shown, recorded>>
      ELSE /\ shown' = Applied(shown, rec.eid, v)
           /\ recorded' = Sampled(recorded, rec.eid, rec, v)
    BY <1>1 DEF RegisterSensor
<1>3. rec.eid \in ENTITYID
    BY SensorRecordIsOne
<1> HIDE DEF rec
<1>4. CASE v = Refused
    BY <1>2, <1>4 DEF ShownInv
<1>5. CASE v # Refused
  <2>1. v \in Nat /\ v \in VALUE /\ v \in SHOWN
      BY <1>5 DEF VALUE, SHOWN
  <2>2. shown' = [shown EXCEPT ![rec.eid] = v]
      BY <1>2, <1>5 DEF Applied
  <2>3. recorded' = recorded \/ recorded' = [recorded EXCEPT ![rec.eid] = v]
      BY <1>2, <1>5 DEF Sampled
  <2>4. shown' \in [ENTITYID -> SHOWN] /\ recorded' \in [ENTITYID -> Nat \cup {None}]
      BY <1>3, <2>1, <2>2, <2>3 DEF ShownInv
  <2>5. \A l \in KEY : shown'[EntityId(l)] \in VALUE \cup {None}
    <3>1. \A l \in KEY : EntityId(l) \in ENTITYID
        BY DEF ENTITYID
    <3> QED
        BY <2>1, <2>2, <3>1 DEF ShownInv
  <2> QED
      BY <2>4, <2>5 DEF ShownInv
<1> QED
    BY <1>4, <1>5

\* A batch shows for a sensor what it showed, or the value of an item that was
\* not refused.
LEMMA UpdateSensorsShows ==
    ASSUME RegistryInv, ShownInv, NEW w \in WEBHOOK, NEW items \in BATCH, UpdateSensors(w, items)
    PROVE  ShownInv'
<1>1. items \in Seq(ITEM)
  <2>1. BATCH \subseteq Seq(ITEM)
      BY MobileAssumption DEF ITEM
  <2> QED
      BY <2>1
<1> DEFINE run == Batch(w, items)
<1>2. w \in DOMAIN devices /\ shown' = run.shown /\ recorded' = run.recorded
    BY DEF UpdateSensors, Reaches
<1>3. run \in RUN /\ Did(w, items, Len(items), run)
    BY <1>1, <1>2, BatchDid
<1> HIDE DEF run
<1>4. shown' \in [ENTITYID -> SHOWN] /\ recorded' \in [ENTITYID -> Nat \cup {None}]
    BY <1>2, <1>3 DEF RUN
<1>5. ASSUME NEW k \in KEY
      PROVE  run.shown[EntityId(k)] \in VALUE \cup {None}
  <2> DEFINE e == EntityId(k)
             S == {i \in 1..Len(items) : Taken(w, items[i]) /\ Rec(w, items[i]).eid = e}
  <2>1. e \in ENTITYID /\ shown[e] \in VALUE \cup {None}
      BY DEF ENTITYID, ShownInv
  <2>2. run.shown[e] = Newest(S, items, shown[e])
      BY <1>3, <2>1 DEF Did
  <2>3. ASSUME NEW i \in S
        PROVE  items[i].value \in VALUE
    <3>1. items[i] \in ITEM
        BY <1>1
    <3>2. items[i].value # Refused
        BY DEF Taken
    <3> QED
        BY <3>1, <3>2 DEF ITEM, VALUE
  <2>4. S \subseteq 1..Len(items) /\ Len(items) \in Nat
      BY <1>1
  <2>5. CASE S # {}
    <3> DEFINE L == Len(items)
               T == {L - i : i \in S}
    <3>1. T \in SUBSET Nat /\ T # {}
        BY <2>4, <2>5
    <3>2. \E t \in T : \A u \in T : t <= u
      <4> HIDE DEF T
      <4> QED
          BY <3>1, SmallestExists
    <3>3. PICK i \in S : \A u \in T : L - i <= u
        BY <3>2
    <3>4. ASSUME NEW j \in S
          PROVE  j <= i
      <4>1. L - i <= L - j
          BY <3>3
      <4>2. i \in Nat /\ j \in Nat /\ L \in Nat
          BY <2>4
      <4> HIDE DEF L
      <4> QED
          BY <4>1, <4>2
    <3>5. (CHOOSE m \in S : \A j \in S : j <= m) \in S
      <4> HIDE DEF S
      <4> QED
          BY <3>4
    <3> HIDE DEF S
    <3> QED
        BY <2>2, <2>3, <2>5, <3>5 DEF Newest
  <2>6. CASE S = {}
      BY <2>1, <2>2, <2>6 DEF Newest
  <2> QED
      BY <2>5, <2>6
<1> QED
    BY <1>2, <1>4, <1>5 DEF ShownInv

\* Who tracks the device is in the zone of the position, and is shown there.
LEMMA ReportLocationShows ==
    ASSUME MobileInv, NEW w \in WEBHOOK, NEW place \in PLACE, ReportLocation(w, place)
    PROVE  /\ ShownInv'
           /\ located' \in [PERSON -> Location \cup {None}]
           /\ \A p \in PERSON : located'[p] = IF Tracks(p, w) THEN [zone |-> ZoneAt(place), source |-> w]
                                              ELSE located[p]
<1>1. /\ located' = Moved(w, place) /\ UNCHANGED recorded
      /\ shown' = [e \in ENTITYID |->
              IF \E p \in PERSON : /\ e = PersonEntity(p)
                                   /\ located'[p] # None /\ Shows(p)
              THEN located'[e[2]].zone ELSE shown[e]]
    BY DEF ReportLocation
<1>2. [zone |-> ZoneAt(place), source |-> w] \in Location
    BY ZoneAtIsAName DEF MobileInv, Location
<1>3. \A p \in PERSON : located'[p] = IF Tracks(p, w) THEN [zone |-> ZoneAt(place), source |-> w]
                                      ELSE located[p]
    BY <1>1 DEF Moved
<1>4. located' \in [PERSON -> Location \cup {None}]
  <2>1. \A p \in PERSON : (IF Tracks(p, w) THEN [zone |-> ZoneAt(place), source |-> w]
                           ELSE located[p]) \in Location \cup {None}
      BY <1>2 DEF MobileInv, PersonsInv
  <2> QED
      BY <1>1, <2>1 DEF Moved
<1>5. ASSUME NEW e \in ENTITYID
      PROVE  shown'[e] \in SHOWN
  <2>1. shown[e] \in SHOWN
      BY DEF MobileInv, ShownInv
  <2>2. CASE \E p \in PERSON : e = PersonEntity(p) /\ located'[p] # None /\ Shows(p)
    <3>1. PICK p \in PERSON : e = PersonEntity(p) /\ located'[p] # None
        BY <2>2
    <3>2. e[2] = p /\ located'[p] \in Location
        BY <1>4, <3>1 DEF PersonEntity
    <3>3. shown'[e] = located'[p].zone
        BY <1>1, <2>2, <3>2
    <3> QED
        BY <3>2, <3>3 DEF Location, SHOWN
  <2>3. CASE ~ \E p \in PERSON : e = PersonEntity(p) /\ located'[p] # None /\ Shows(p)
      BY <1>1, <2>1, <2>3
  <2> QED
      BY <2>2, <2>3
<1>6. ASSUME NEW k \in KEY
      PROVE  shown'[EntityId(k)] \in VALUE \cup {None}
  <2>1. EntityId(k) \in ENTITYID /\ \A p \in PERSON : EntityId(k) # PersonEntity(p)
      BY SensorsAreNotPersons DEF ENTITYID
  <2>2. shown'[EntityId(k)] = shown[EntityId(k)]
      BY <1>1, <2>1
  <2> QED
      BY <2>2 DEF MobileInv, ShownInv
<1>7. shown' \in [ENTITYID -> SHOWN]
  <2>1. shown' = [e \in ENTITYID |-> shown'[e]]
      BY <1>1
  <2> QED
      BY <1>5, <2>1
<1> QED
    BY <1>1, <1>3, <1>4, <1>6, <1>7 DEF MobileInv, ShownInv

\* Steps that keep persons and what devices were given keep who is where.
LEMMA PersonsUntouched ==
    ASSUME PersonsInv, Kept(devices, devices'), UNCHANGED <<persons, located, past>>
    PROVE  PersonsInv'
<1>1. NewDevicesAreTracked' /\ SourceTracks'
    BY DEF PersonsInv, NewDevicesAreTracked, SourceTracks, Tracks
<1>2. DOMAIN devices \subseteq DOMAIN devices'
    BY DEF Kept
<1> QED
    BY <1>1, <1>2 DEF PersonsInv

\* A registered device is somebody's, and only the devices of the person whose
\* id it takes may have lost theirs.
LEMMA RegisterDevicePersons ==
    ASSUME RegistryInv, PersonsInv, NEW a \in APP, NEW d \in DEVID \cup {None}, NEW s \in BOOLEAN,
           RegisterDevice(a, d, s)
    PROVE  PersonsInv'
<1> DEFINE w == Registered(a, d, s).at
           alone == \A p \in PERSON : ~Tracks(p, w)
<1>1. /\ w <= MaxDevices /\ devices' = Registered(a, d, s).list /\ UNCHANGED located
      /\ persons' = IF alone THEN [persons EXCEPT ![w] = {w}] ELSE persons
      /\ past' = [past EXCEPT !.fresh = @ \cup {w},
                              !.left = (@ \ {w}) \cup IF alone THEN Followed(w) ELSE {},
                              !.moved = IF alone THEN @ \cup {w} ELSE @]
    BY DEF RegisterDevice
<1>2. /\ w \in DOMAIN devices' /\ devices' \in Seq(DeviceRecord) /\ Len(devices') <= MaxDevices
      /\ DOMAIN devices \subseteq DOMAIN devices'
    BY <1>1, RegisteringKeeps
<1>3. w \in WEBHOOK /\ w \in PERSON
    BY <1>2, MobileAssumption DEF WEBHOOK, PERSON
<1> HIDE DEF w
<1>4. /\ past'.fresh = past.fresh \cup {w}
      /\ past'.left = (past.left \ {w}) \cup IF alone THEN Followed(w) ELSE {}
      /\ past'.moved = IF alone THEN past.moved \cup {w} ELSE past.moved
      /\ past' \in [fresh : SUBSET WEBHOOK, left : SUBSET WEBHOOK, moved : SUBSET PERSON]
  <2>1. past \in [fresh : SUBSET WEBHOOK, left : SUBSET WEBHOOK, moved : SUBSET PERSON]
      BY DEF PersonsInv
  <2>2. Followed(w) \subseteq WEBHOOK
      BY DEF Followed
  <2> DEFINE f == past.fresh \cup {w}
             l == (past.left \ {w}) \cup IF alone THEN Followed(w) ELSE {}
             m == IF alone THEN past.moved \cup {w} ELSE past.moved
  <2>3. f \in SUBSET WEBHOOK /\ l \in SUBSET WEBHOOK /\ m \in SUBSET PERSON
      BY <1>3, <2>1, <2>2
  <2>4. past' = [past EXCEPT !.fresh = f, !.left = l, !.moved = m]
      BY <1>1
  <2> HIDE DEF f, l, m
  <2>5. /\ past'.fresh = f /\ past'.left = l /\ past'.moved = m
        /\ past' \in [fresh : SUBSET WEBHOOK, left : SUBSET WEBHOOK, moved : SUBSET PERSON]
      BY <2>1, <2>3, <2>4
  <2> QED
      BY <2>5 DEF f, l, m
<1>5. {w} # None /\ persons \in [PERSON -> (SUBSET WEBHOOK) \cup {None}]
    BY <1>3, MobileAssumption DEF PersonsInv
<1>6. persons' \in [PERSON -> (SUBSET WEBHOOK) \cup {None}]
    BY <1>1, <1>3, <1>5
<1>7. CASE alone
  <2>1. persons'[w] = {w} /\ \A p \in PERSON \ {w} : persons'[p] = persons[p]
      BY <1>1, <1>3, <1>5, <1>7
  <2>2. ASSUME NEW v \in past'.fresh \ past'.left
        PROVE  \E p \in PERSON : persons'[p] # None /\ v \in persons'[p]
    <3>1. CASE v = w
        BY <1>3, <1>5, <2>1, <3>1
    <3>2. CASE v # w
      <4>1. v \in past.fresh \ past.left /\ v \notin Followed(w) /\ v \in WEBHOOK
          BY <1>4, <1>7, <3>2
      <4>2. PICK p \in PERSON : Tracks(p, v)
          BY <4>1 DEF PersonsInv, NewDevicesAreTracked
      <4>3. p # w
          BY <4>1, <4>2 DEF Followed
      <4> QED
          BY <2>1, <4>2, <4>3 DEF Tracks
    <3> QED
        BY <3>1, <3>2
  <2>3. NewDevicesAreTracked'
      BY <2>2 DEF NewDevicesAreTracked, Tracks
  <2>4. SourceTracks'
    <3> SUFFICES ASSUME NEW p \in PERSON, located[p] # None, persons'[p] # None, p \notin past'.moved
                 PROVE  located[p].source \in persons'[p]
        BY <1>1 DEF SourceTracks, Tracks
    <3>1. p # w /\ p \notin past.moved
        BY <1>4, <1>7
    <3> QED
        BY <2>1, <3>1 DEF PersonsInv, SourceTracks, Tracks
  <2> QED
      BY <1>1, <1>2, <1>4, <1>6, <2>3, <2>4 DEF PersonsInv
<1>8. CASE ~alone
  <2>1. UNCHANGED persons /\ past'.left = past.left \ {w} /\ past'.moved = past.moved
      BY <1>1, <1>4, <1>8
  <2>2. NewDevicesAreTracked'
    <3> SUFFICES ASSUME NEW v \in past'.fresh \ past'.left
                 PROVE  \E p \in PERSON : Tracks(p, v)
        BY <2>1 DEF NewDevicesAreTracked, Tracks
    <3>1. CASE v = w
        BY <1>8, <3>1
    <3>2. CASE v # w
        BY <1>4, <2>1, <3>2 DEF PersonsInv, NewDevicesAreTracked
    <3> QED
        BY <3>1, <3>2
  <2>3. SourceTracks'
      BY <1>1, <2>1 DEF PersonsInv, SourceTracks, Tracks
  <2> QED
      BY <1>1, <1>2, <1>4, <1>6, <2>2, <2>3 DEF PersonsInv
<1> QED
    BY <1>7, <1>8

\* After a user set or removed a person, no device counts as somebody's.
LEMMA UserChangesPersons ==
    ASSUME PersonsInv, UNCHANGED <<devices, located>>, NEW p \in PERSON,
           NEW t \in (SUBSET WEBHOOK) \cup {None}, persons' = [persons EXCEPT ![p] = t],
           NEW m \in SUBSET PERSON, past.moved \subseteq m, p \in m \/ t = None,
           past' = [past EXCEPT !.left = @ \cup WEBHOOK, !.moved = m]
    PROVE  PersonsInv'
<1>1. past \in [fresh : SUBSET WEBHOOK, left : SUBSET WEBHOOK, moved : SUBSET PERSON]
    BY DEF PersonsInv
<1>2. /\ past'.fresh = past.fresh /\ past'.left = past.left \cup WEBHOOK /\ past'.moved = m
      /\ past' \in [fresh : SUBSET WEBHOOK, left : SUBSET WEBHOOK, moved : SUBSET PERSON]
  <2> DEFINE l == past.left \cup WEBHOOK
  <2>1. l \in SUBSET WEBHOOK /\ past' = [past EXCEPT !.left = l, !.moved = m]
      BY <1>1
  <2> HIDE DEF l
  <2>2. /\ past'.fresh = past.fresh /\ past'.left = l /\ past'.moved = m
        /\ past' \in [fresh : SUBSET WEBHOOK, left : SUBSET WEBHOOK, moved : SUBSET PERSON]
      BY <1>1, <2>1
  <2> QED
      BY <2>2 DEF l
<1>3. NewDevicesAreTracked'
    BY <1>1, <1>2 DEF NewDevicesAreTracked
<1>4. persons' \in [PERSON -> (SUBSET WEBHOOK) \cup {None}] /\ persons'[p] = t
      /\ \A q \in PERSON \ {p} : persons'[q] = persons[q]
    BY DEF PersonsInv
<1>5. SourceTracks'
  <2> SUFFICES ASSUME NEW q \in PERSON, located[q] # None, persons'[q] # None, q \notin m
               PROVE  located[q].source \in persons'[q]
      BY <1>2 DEF SourceTracks, Tracks
  <2>1. q # p /\ q \notin past.moved
      BY <1>4
  <2> QED
      BY <1>4, <2>1 DEF PersonsInv, SourceTracks, Tracks
<1> QED
    BY <1>2, <1>3, <1>4, <1>5 DEF PersonsInv

\* A location report moves the persons that track the device, and only them.
LEMMA ReportLocationPersons ==
    ASSUME MobileInv, NEW w \in WEBHOOK, NEW place \in PLACE, ReportLocation(w, place)
    PROVE  PersonsInv'
<1>1. /\ w \in DOMAIN devices /\ UNCHANGED <<devices, persons>>
      /\ past' = [past EXCEPT !.moved = @ \ {p \in PERSON : Tracks(p, w)}]
    BY DEF ReportLocation, Reaches, stores
<1>2. past \in [fresh : SUBSET WEBHOOK, left : SUBSET WEBHOOK, moved : SUBSET PERSON]
    BY DEF MobileInv, PersonsInv
<1>3. /\ past'.fresh = past.fresh /\ past'.left = past.left
      /\ past'.moved = past.moved \ {p \in PERSON : Tracks(p, w)}
      /\ past' \in [fresh : SUBSET WEBHOOK, left : SUBSET WEBHOOK, moved : SUBSET PERSON]
    BY <1>1, <1>2
<1>4. NewDevicesAreTracked'
    BY <1>1, <1>3 DEF MobileInv, PersonsInv, NewDevicesAreTracked, Tracks
<1>5. /\ located' \in [PERSON -> Location \cup {None}]
      /\ \A p \in PERSON : located'[p] = IF Tracks(p, w) THEN [zone |-> ZoneAt(place), source |-> w]
                                         ELSE located[p]
    BY ReportLocationShows
<1>6. \A p \in PERSON : located'[p] # None => located'[p].source \in DOMAIN devices'
  <2> SUFFICES ASSUME NEW p \in PERSON, located'[p] # None
               PROVE  located'[p].source \in DOMAIN devices
      BY <1>1
  <2>1. CASE Tracks(p, w)
    <3>1. located'[p].source = w
        BY <1>5, <2>1
    <3> QED
        BY <1>1, <3>1
  <2>2. CASE ~Tracks(p, w)
      BY <1>5, <2>2 DEF MobileInv, PersonsInv
  <2> QED
      BY <2>1, <2>2
<1>7. SourceTracks'
  <2> SUFFICES ASSUME NEW p \in PERSON, located'[p] # None, persons[p] # None, p \notin past'.moved
               PROVE  Tracks(p, located'[p].source)
      BY <1>1 DEF SourceTracks, Tracks
  <2>1. CASE Tracks(p, w)
    <3>1. located'[p].source = w
        BY <1>5, <2>1
    <3> QED
        BY <2>1, <3>1
  <2>2. CASE ~Tracks(p, w)
    <3>1. p \notin past.moved /\ located'[p] = located[p]
        BY <1>3, <1>5, <2>2
    <3> QED
        BY <3>1 DEF MobileInv, PersonsInv, SourceTracks
  <2> QED
      BY <2>1, <2>2
<1> QED
    BY <1>1, <1>3, <1>4, <1>5, <1>6, <1>7 DEF MobileInv, PersonsInv

\* Nothing is shown and nobody is anywhere when a process starts.
LEMMA NothingKnown ==
    ASSUME persons' = Nobody, located' = Nobody, shown' = [e \in ENTITYID |-> None],
           recorded' = [e \in ENTITYID |-> None],
           past' = [fresh |-> {}, left |-> {}, moved |-> {}]
    PROVE  ShownInv' /\ PersonsInv'
<1>1. \A p \in PERSON : persons'[p] = None /\ located'[p] = None
    BY DEF Nobody
<1>2. persons' \in [PERSON -> (SUBSET WEBHOOK) \cup {None}] /\ located' \in [PERSON -> Location \cup {None}]
    BY DEF Nobody
<1>3. past'.fresh = {} /\ past' \in [fresh : SUBSET WEBHOOK, left : SUBSET WEBHOOK, moved : SUBSET PERSON]
    OBVIOUS
<1>4. PersonsInv'
    BY <1>1, <1>2, <1>3 DEF PersonsInv, NewDevicesAreTracked, SourceTracks
<1>5. \A k \in KEY : EntityId(k) \in ENTITYID
    BY DEF ENTITYID
<1> QED
    BY <1>4, <1>5 DEF ShownInv, SHOWN

\* Every step of the composed hub preserves the invariant.
LEMMA MobileStep == MobileInv /\ [Next]_vars => MobileInv'
<1> SUFFICES ASSUME MobileInv, [Next]_vars
             PROVE  MobileInv'
    OBVIOUS
<1>0. RegistryInv /\ ShownInv /\ PersonsInv /\ PlacesInv
    BY DEF MobileInv
<1>1. RegistryInv' /\ Kept(devices, devices')
  <2>1. Devices \/ Sensors \/ Persons \/ MobileRestart \/ UNCHANGED mobileVars
      BY DEF Next, vars, Restart
  <2> QED
      BY <1>0, <2>1, RegistryStep
<1>2. PlacesInv'
    BY <1>0, PlacesStep DEF Next, vars, Restart
<1>3. ASSUME UNCHANGED <<shown, recorded>>
      PROVE  ShownInv'
    BY <1>0, <1>3 DEF ShownInv
<1>4. ASSUME UNCHANGED <<persons, located, past>>
      PROVE  PersonsInv'
    BY <1>0, <1>1, <1>4, PersonsUntouched
<1>5. CASE Devices
  <2>1. ASSUME NEW a \in APP, NEW d \in DEVID \cup {None}, NEW s \in BOOLEAN, RegisterDevice(a, d, s)
        PROVE  ShownInv' /\ PersonsInv'
    <3>1. PersonsInv'
        BY <1>0, <2>1, RegisterDevicePersons
    <3> QED
        BY <1>3, <2>1, <3>1 DEF RegisterDevice
  <2>2. ASSUME NEW x \in EDIT, NEW w, StoreEdit(w, x)
        PROVE  ShownInv' /\ PersonsInv'
      BY <1>3, <1>4, <2>2 DEF StoreEdit, memory
  <2> QED
      BY <1>1, <1>2, <1>5, <2>1, <2>2 DEF Devices, EditDevice, RenameDevice, MobileInv
<1>6. CASE Sensors
  <2>1. ASSUME NEW k \in KEY, NEW n \in BOOLEAN, NEW v \in {1, Refused}, RegisterSensor(k[1], k[2], n, v)
        PROVE  ShownInv' /\ PersonsInv'
    <3>1. ShownInv'
        BY <1>0, <2>1, RegisterSensorShows
    <3> QED
        BY <1>4, <2>1, <3>1 DEF RegisterSensor
  <2>2. ASSUME NEW w \in WEBHOOK, NEW items \in BATCH, UpdateSensors(w, items)
        PROVE  ShownInv' /\ PersonsInv'
    <3>1. ShownInv'
        BY <1>0, <2>2, UpdateSensorsShows
    <3>2. UNCHANGED <<persons, located, past>>
        BY <2>2 DEF UpdateSensors
    <3> QED
        BY <1>4, <3>1, <3>2
  <2>3. ASSUME UNCHANGED <<devices, memory, past>>
        PROVE  ShownInv' /\ PersonsInv'
      BY <1>3, <1>4, <2>3 DEF memory
  <2> QED
      BY <1>1, <1>2, <1>6, <2>1, <2>2, <2>3
         DEF Sensors, EditEntity, EditEntityByForm, StoreEditEntity, RemoveEntity, MobileInv
<1>7. CASE Persons
  <2>1. ASSUME NEW w \in WEBHOOK, NEW p \in PLACE, ReportLocation(w, p)
        PROVE  ShownInv' /\ PersonsInv'
      BY <2>1, ReportLocationShows, ReportLocationPersons
  <2>2. ASSUME NEW p \in PERSON, NEW t \in SUBSET DOMAIN devices, SetPerson(p, t)
        PROVE  ShownInv' /\ PersonsInv'
    <3> DEFINE m == past.moved \cup {p}
    <3>1. /\ UNCHANGED <<stores, located, shown, recorded>> /\ persons' = [persons EXCEPT ![p] = t]
          /\ past' = [past EXCEPT !.left = @ \cup WEBHOOK, !.moved = m]
        BY <2>2 DEF SetPerson
    <3>2. t \in (SUBSET WEBHOOK) \cup {None}
        BY <1>0, DevicesAreAnInterval DEF RegistryInv
    <3>3. m \in SUBSET PERSON /\ past.moved \subseteq m /\ p \in m
        BY <1>0 DEF PersonsInv
    <3> HIDE DEF m
    <3>4. PersonsInv'
        BY <1>0, <3>1, <3>2, <3>3, UserChangesPersons DEF stores
    <3> QED
        BY <1>3, <3>1, <3>4
  <2>3. ASSUME NEW p \in PERSON, RemovePerson(p)
        PROVE  ShownInv' /\ PersonsInv'
    <3> DEFINE m == past.moved
    <3>1. /\ UNCHANGED <<stores, located, shown, recorded>> /\ persons' = [persons EXCEPT ![p] = None]
          /\ past' = [past EXCEPT !.left = @ \cup WEBHOOK]
        BY <2>3 DEF RemovePerson
    <3>2. past \in [fresh : SUBSET WEBHOOK, left : SUBSET WEBHOOK, moved : SUBSET PERSON]
        BY <1>0 DEF PersonsInv
    <3>3. past' = [past EXCEPT !.left = @ \cup WEBHOOK, !.moved = m]
        BY <3>1, <3>2
    <3>4. m \in SUBSET PERSON /\ past.moved \subseteq m
        BY <3>2
    <3> DEFINE t == None
    <3>5. t \in (SUBSET WEBHOOK) \cup {None} /\ t = None
        OBVIOUS
    <3> HIDE DEF m, t
    <3>6. PersonsInv'
        BY <1>0, <3>1, <3>3, <3>4, <3>5, UserChangesPersons DEF stores
    <3> QED
        BY <1>3, <3>1, <3>6
  <2> QED
      BY <1>1, <1>2, <1>7, <2>1, <2>2, <2>3 DEF Persons, MobileInv
<1>8. CASE MobileRestart
    BY <1>1, <1>2, <1>8, NothingKnown DEF MobileRestart, MobileInv
<1>9. CASE UNCHANGED mobileVars
    BY <1>1, <1>2, <1>3, <1>4, <1>9 DEF mobileVars, memory, MobileInv
<1> QED
    BY <1>5, <1>6, <1>7, <1>8, <1>9 DEF Next, vars, Restart

\* It holds of a hub without devices, persons and states.
LEMMA MobileInitially == Init => MobileInv
<1> SUFFICES ASSUME Init
             PROVE  MobileInv
    OBVIOUS
<1>1. RegistryInv
  <2>1. << >> \in Seq(DeviceRecord) /\ Len(<< >>) = 0 /\ OneIn(<< >>)
      BY DEF OneIn
  <2> QED
      BY <2>1, MobileAssumption DEF Init, MobileInit, RegistryInv
<1>2. PlacesInv
    BY PlacesInitially DEF Init
<1>3. PersonsInv
  <2>1. past.fresh = {} /\ past \in [fresh : SUBSET WEBHOOK, left : SUBSET WEBHOOK, moved : SUBSET PERSON]
      BY DEF Init, MobileInit
  <2>2. /\ persons \in [PERSON -> (SUBSET WEBHOOK) \cup {None}] /\ located \in [PERSON -> Location \cup {None}]
        /\ \A p \in PERSON : located[p] = None
      BY DEF Init, MobileInit, Nobody
  <2> QED
      BY <2>1, <2>2 DEF PersonsInv, NewDevicesAreTracked, SourceTracks
<1>4. ShownInv
  <2>1. \A k \in KEY : EntityId(k) \in ENTITYID
      BY DEF ENTITYID
  <2> QED
      BY <2>1 DEF Init, MobileInit, ShownInv, SHOWN
<1> QED
    BY <1>1, <1>2, <1>3, <1>4 DEF MobileInv

\* What is listed leads back: the first record known by a device's id is that
\* device or one that sent the same id.
LEMMA ListsLead == RegistryInv => ListedIdsLead
<1> SUFFICES ASSUME RegistryInv
             PROVE  ListedIdsLead
    OBVIOUS
<1>1. /\ DOMAIN devices \subseteq WEBHOOK /\ WEBHOOK \subseteq Nat
      /\ \A w \in DOMAIN devices : devices[w] \in DeviceRecord
    BY DevicesAreAnInterval DEF RegistryInv
<1>2. \A w \in DOMAIN devices : devices[w].id \in DEVID \cup {None}
    BY <1>1 DEF DeviceRecord
<1>3. \A v \in WEBHOOK : v \notin DEVID \cup {None}
    BY MobileAssumption
<1>4. ASSUME NEW w \in DOMAIN devices
      PROVE  Known(w) = {w}
    BY <1>1, <1>2, <1>3 DEF Known
<1>5. \A d \in DeviceList : Known(d.id) = {d.id}
    BY <1>4 DEF DeviceList
<1>6. ASSUME NEW k \in KEY, entities[k] # None
      PROVE  \E e \in EntityList :
                /\ e.entity = entities[k].eid /\ k \in Holding(e.entity)
                /\ Known(e.device) # {}
                /\ \/ FirstKnown(e.device) = k[1]
                   \/ \E v \in DOMAIN devices \ {k[1]} : devices[v].id = devices[k[1]].id
  <2> DEFINE e == [entity |-> entities[k].eid, device |-> ListedId(k[1]), edit |-> entities[k].edit]
             w == k[1]
             id == ListedId(w)
  <2>1. e \in EntityList /\ e.entity = entities[k].eid /\ e.device = id
      BY <1>6 DEF EntityList
  <2>2. k \in Holding(e.entity)
      BY <1>6, <2>1 DEF Holding
  <2>3. w \in DOMAIN devices
      BY <1>6 DEF RegistryInv
  <2> HIDE DEF e, w
  <2>4. CASE devices[w].id = None
    <3>1. Known(id) = {w}
        BY <1>4, <2>3, <2>4 DEF ListedId
    <3>2. FirstKnown(id) = w
        BY <1>1, <2>3, <3>1 DEF FirstKnown
    <3> HIDE DEF id
    <3> QED
        BY <2>1, <2>2, <3>1, <3>2 DEF w
  <2>5. CASE devices[w].id # None
    <3>1. id = devices[w].id /\ id # None /\ id \in DEVID
        BY <1>2, <2>3, <2>5 DEF ListedId
    <3> HIDE DEF id
    <3>2. Known(id) = {v \in DOMAIN devices : devices[v].id = id}
        BY <1>1, <1>3, <3>1 DEF Known
    <3>3. w \in Known(id) /\ Known(id) \in SUBSET Nat
        BY <1>1, <2>3, <3>1, <3>2
    <3>4. FirstKnown(id) \in Known(id)
        BY <3>3, FirstMatching DEF FirstKnown
    <3>5. FirstKnown(id) = w \/ \E v \in DOMAIN devices \ {w} : devices[v].id = devices[w].id
        BY <3>1, <3>2, <3>4
    <3> QED
        BY <2>1, <2>2, <3>3, <3>5 DEF w
  <2> QED
      BY <2>4, <2>5
<1> QED
    BY <1>5, <1>6 DEF ListedIdsLead

\* It implies the three properties of the mobile app.
LEMMA MobileInvImplies ==
    MobileInv => RegistryIsSound /\ DevicesMovePersons /\ BatchDoesAsAnswered
<1> SUFFICES ASSUME MobileInv
             PROVE  TypeOK /\ OneRecordPerDevice
    BY BatchIsAnswered, ListsLead DEF MobileInv, PersonsInv, RegistryIsSound, DevicesMovePersons
<1>0. RegistryInv /\ ShownInv /\ PersonsInv /\ PlacesInv
    BY DEF MobileInv
<1>1. OneRecordPerDevice
    BY <1>0 DEF RegistryInv, OneIn, OneRecordPerDevice
<1>2. \A w \in DOMAIN devices : devices[w] \in DeviceRecord
    BY <1>0, DevicesAreAnInterval DEF RegistryInv
<1>3. \A w \in DOMAIN devices : /\ devices[w].app \in APP /\ devices[w].id \in DEVID \cup {None}
                                /\ devices[w].edit \in EDIT \cup {None}
                                /\ devices[w].secret \in 0..2
    BY <1>2 DEF DeviceRecord
<1>4. \A k \in KEY : recorded[EntityId(k)] \in Nat \cup {None}
    BY <1>0 DEF ShownInv, ENTITYID
<1>5. \A i \in DOMAIN zones : zones[i].at \in AROUND
  <2>1. \A i \in DOMAIN zones : zones[i] \in ZoneRecord
      BY <1>0 DEF PlacesInv
  <2> QED
      BY <2>1 DEF ZoneRecord
<1>6. \A k \in KEY : entities[k] # None => k[1] \in DOMAIN devices /\ entities[k] \in EntityRecord
    BY <1>0 DEF RegistryInv
<1>7. \A p \in PERSON : (persons[p] = None \/ persons[p] \subseteq WEBHOOK)
                        /\ (located[p] = None \/ located[p].source \in DOMAIN devices)
    BY <1>0 DEF PersonsInv
<1>8. TypeOK
    BY <1>0, <1>3, <1>4, <1>5, <1>6, <1>7 DEF TypeOK, RegistryInv, ShownInv, EntityRecord
<1> QED
    BY <1>1, <1>8

\* However apps register again and users edit: a device has one record, and
\* every id that a list shows leads to what it was shown for
\* (mobile_device_store.rs, mobile_entity_store.rs, ha_ws.rs).
THEOREM RegistriesAreSound == Spec => []RegistryIsSound
<1> QED
    BY MobileInitially, MobileStep, MobileInvImplies, PTL DEF Spec

\* A registered device moves somebody until a user changes the persons or
\* another device takes that person's place, and who is somewhere was moved by a
\* device of theirs (ha_mobile.rs, mobile_app_register; person_store.rs).
THEOREM DevicesAlwaysMovePersons == Spec => []DevicesMovePersons
<1> QED
    BY MobileInitially, MobileStep, MobileInvImplies, PTL DEF Spec

\* Whatever devices and sensors there are, update_sensor_states does with every
\* payload what it answers, item by item (ha_webhook.rs).
THEOREM BatchesDoAsAnswered == Spec => []BatchDoesAsAnswered
<1> QED
    BY MobileInitially, MobileStep, MobileInvImplies, PTL DEF Spec

(***************************************************************************)
(* The dashboard.  A card holds the views that go to it, in some order     *)
(* (Holds), and which views go to which card is a partition of the         *)
(* enabled ones.                                                           *)
(***************************************************************************)
IsView(v) == /\ v.name \in NAME /\ v.off \in BOOLEAN
             /\ v.device \in NAME \cup {None}
             /\ v.unavailable \in BOOLEAN /\ (~v.unavailable => v.value # None)
AreViews(views) == views \in Seq(ToSet(views)) /\ \A i \in DOMAIN views : IsView(views[i])

\* A list of anything is a list of what is in it, of so many elements.
LEMMA ListOfIts ==
    ASSUME NEW T, NEW list \in Seq(T)
    PROVE  /\ list \in Seq(ToSet(list)) /\ Len(list) \in Nat /\ DOMAIN list = 1..Len(list)
           /\ IsFiniteSet(DOMAIN list)
<1>1. /\ Len(list) \in Nat /\ DOMAIN list = 1..Len(list)
      /\ list = [i \in 1..Len(list) |-> list[i]]
    OBVIOUS
<1>2. \A i \in 1..Len(list) : list[i] \in ToSet(list)
    BY <1>1 DEF ToSet
<1>3. list \in Seq(ToSet(list))
    BY <1>1, <1>2
<1>4. IsFiniteSet(1..Len(list))
  <2>1. 1 \in Int /\ Len(list) \in Int
      BY <1>1
  <2> QED
      BY <2>1, FS_Interval
<1> QED
    BY <1>1, <1>3, <1>4

LEMMA SortKeysAreNumbers == \A type : DomainSortKey(type) \in Nat
<1> SUFFICES ASSUME NEW type PROVE DomainSortKey(type) \in Nat
    OBVIOUS
<1>1. DOMAIN Order = 1..9 /\ Len(Order) = 9
    BY DEF Order
<1>2. type \in {Order[i] : i \in DOMAIN Order}
      => (CHOOSE i \in DOMAIN Order : Order[i] = type) \in 1..9
    BY <1>1
<1> QED
    BY <1>1, <1>2 DEF DomainSortKey

\* Any two views are in order: by domain, by name, or by their positions.
LEMMA ViewsAreOrdered ==
    ASSUME NEW views, AreViews(views), NEW n \in Nat, DOMAIN views = 1..n
    PROVE  LET I == DOMAIN views
           IN  TotallyOrders({p \in I \X I : ComesBefore(views, p[1], p[2])}, I)
<1> DEFINE I == DOMAIN views
           R == {p \in I \X I : ComesBefore(views, p[1], p[2])}
           key(i) == DomainSortKey(views[i].type)
           name(i) == views[i].name
<1>1. \A i, j \in I : <<i, j>> \in R <=> ComesBefore(views, i, j)
    OBVIOUS
<1>2. \A i, j \in I : ComesBefore(views, i, j) <=>
          \/ key(i) < key(j)
          \/ key(i) = key(j) /\ <<name(i), name(j)>> \in Alphabet
          \/ key(i) = key(j) /\ name(i) = name(j) /\ i < j
    BY DEF ComesBefore
<1>3. \A i \in I : i \in Nat /\ key(i) \in Nat /\ name(i) \in NAME
    BY SortKeysAreNumbers DEF AreViews, IsView
<1>4. \A a, b, c \in NAME : /\ <<a, a>> \notin Alphabet
                            /\ a = b \/ <<a, b>> \in Alphabet \/ <<b, a>> \in Alphabet
                            /\ <<a, b>> \in Alphabet /\ <<b, c>> \in Alphabet
                               => <<a, c>> \in Alphabet
    BY OverviewAssumption DEF TotallyOrders
<1> HIDE DEF R, key, name, I
<1>5. ASSUME NEW x \in I, NEW y \in I, NEW z \in I
      PROVE  /\ <<x, x>> \notin R
             /\ x = y \/ <<x, y>> \in R \/ <<y, x>> \in R
             /\ <<x, y>> \in R /\ <<y, z>> \in R => <<x, z>> \in R
  <2>1. <<x, x>> \notin R
    <3>1. key(x) \in Nat /\ x \in Nat /\ <<name(x), name(x)>> \notin Alphabet
        BY <1>3, <1>4
    <3>2. ~(key(x) < key(x)) /\ ~(x < x)
        BY <3>1
    <3> QED
        BY <1>1, <1>2, <3>1, <3>2
  <2>2. x = y \/ <<x, y>> \in R \/ <<y, x>> \in R
    <3>1. key(x) < key(y) \/ key(y) < key(x) \/ key(x) = key(y)
        BY <1>3
    <3>2. x < y \/ y < x \/ x = y
        BY <1>3
    <3>3. name(x) = name(y) \/ <<name(x), name(y)>> \in Alphabet \/ <<name(y), name(x)>> \in Alphabet
        BY <1>3, <1>4
    <3> QED
        BY <1>1, <1>2, <3>1, <3>2, <3>3
  <2>3. ASSUME <<x, y>> \in R, <<y, z>> \in R
        PROVE  <<x, z>> \in R
    <3>1. ComesBefore(views, x, y) /\ ComesBefore(views, y, z)
        BY <1>1, <2>3
    <3>2. CASE key(x) # key(y) \/ key(y) # key(z)
      <4>1. key(x) \in Nat /\ key(y) \in Nat /\ key(z) \in Nat
          BY <1>3
      <4>2. /\ key(x) < key(y) \/ key(x) = key(y)
            /\ key(y) < key(z) \/ key(y) = key(z)
          BY <1>2, <3>1
      <4>3. key(x) < key(z)
          BY <3>2, <4>1, <4>2
      <4> QED
          BY <1>1, <1>2, <4>3
    <3>3. CASE key(x) = key(y) /\ key(y) = key(z)
      <4>1. /\ <<name(x), name(y)>> \in Alphabet \/ (name(x) = name(y) /\ x < y)
            /\ <<name(y), name(z)>> \in Alphabet \/ (name(y) = name(z) /\ y < z)
          BY <1>2, <1>3, <3>1, <3>3
      <4>2. name(x) \in NAME /\ name(y) \in NAME /\ name(z) \in NAME
          BY <1>3
      <4>3. <<name(x), name(z)>> \in Alphabet \/ (name(x) = name(z) /\ x < z)
        <5>1. <<name(x), name(y)>> \in Alphabet /\ <<name(y), name(z)>> \in Alphabet
              => <<name(x), name(z)>> \in Alphabet
            BY <1>4, <4>2
        <5>2. x \in Nat /\ y \in Nat /\ z \in Nat /\ (x < y /\ y < z => x < z)
            BY <1>3
        <5>3. CASE name(x) = name(y)
            BY <4>1, <5>2, <5>3
        <5>4. CASE name(y) = name(z)
            BY <4>1, <5>2, <5>4
        <5>5. CASE name(x) # name(y) /\ name(y) # name(z)
            BY <4>1, <5>1, <5>5
        <5> QED
            BY <5>3, <5>4, <5>5
      <4> QED
          BY <1>1, <1>2, <3>3, <4>3
    <3> QED
        BY <3>2, <3>3
  <2> QED
      BY <2>1, <2>2, <2>3
<1>6. TotallyOrders(R, I)
    BY <1>5 DEF TotallyOrders
<1> QED
    BY <1>6 DEF R, I

\* Sorting a card's views loses none and repeats none, and puts them in order.
LEMMA SortedViewsHold ==
    ASSUME NEW views, AreViews(views)
    PROVE  /\ AreViews(SortedViews(views))
           /\ Holds(SortedViews(views), views, DOMAIN views)
           /\ InOrder(SortedViews(views))
<1> DEFINE I == DOMAIN views
           R == {p \in I \X I : ComesBefore(views, p[1], p[2])}
           order == Sorted(I, R)
           s == SortedViews(views)
<1>1. Len(views) \in Nat /\ I = 1..Len(views) /\ IsFiniteSet(I)
    BY ListOfIts DEF AreViews
<1>2. TotallyOrders(R, I)
    BY <1>1, ViewsAreOrdered
<1> HIDE DEF R
<1>3. /\ Pairs(order, 1..Cardinality(I), I)
      /\ \A i, j \in 1..Cardinality(I) : i < j => <<order[i], order[j]>> \in R
  <2> HIDE DEF I
  <2> QED
      BY <1>1, <1>2, SortedHoldsAll
<1>4. Cardinality(I) = Len(views)
  <2>1. 1 \in Int /\ Len(views) \in Int
      BY <1>1
  <2>2. Cardinality(1..Len(views)) = IF 1 > Len(views) THEN 0 ELSE Len(views) - 1 + 1
      BY <2>1, FS_Interval
  <2> QED
      BY <1>1, <2>2
<1>5. s = [i \in I |-> views[order[i]]]
    BY DEF SortedViews, R
<1> HIDE DEF order, s
<1>6. Pairs(order, I, I)
    BY <1>1, <1>3, <1>4
<1>7. DOMAIN s = I /\ \A i \in I : order[i] \in I /\ s[i] = views[order[i]]
    BY <1>5, <1>6 DEF Pairs
<1>8. Holds(s, views, I)
    BY <1>6, <1>7 DEF Holds
<1>9. AreViews(s)
  <2>1. \A i \in I : IsView(s[i]) /\ s[i] \in ToSet(s)
      BY <1>7 DEF AreViews, ToSet
  <2>2. s = [i \in 1..Len(views) |-> s[i]]
      BY <1>1, <1>5, <1>7
  <2>3. s \in Seq(ToSet(s))
      BY <1>1, <2>1, <2>2
  <2> QED
      BY <1>7, <2>1, <2>3 DEF AreViews
<1>10. InOrder(s)
  <2> SUFFICES ASSUME NEW i \in I, NEW j \in I, i < j
               PROVE  \/ DomainSortKey(s[i].type) < DomainSortKey(s[j].type)
                      \/ /\ DomainSortKey(s[i].type) = DomainSortKey(s[j].type)
                         /\ s[i].name = s[j].name \/ <<s[i].name, s[j].name>> \in Alphabet
      BY <1>7 DEF InOrder
  <2>1. <<order[i], order[j]>> \in R
      BY <1>1, <1>3, <1>4
  <2>2. ComesBefore(views, order[i], order[j])
      BY <2>1 DEF R
  <2>3. s[i] = views[order[i]] /\ s[j] = views[order[j]]
      BY <1>7
  <2> QED
      BY <2>2, <2>3 DEF ComesBefore
<1> QED
    BY <1>8, <1>9, <1>10 DEF s, I

\* What holds all of a list has its elements and no others.
LEMMA HeldElements ==
    ASSUME NEW p, NEW list, Holds(p, list, DOMAIN list)
    PROVE  ToSet(p) = ToSet(list)
<1>1. PICK f : Pairs(f, DOMAIN p, DOMAIN list) /\ \A i \in DOMAIN p : p[i] = list[f[i]]
    BY DEF Holds
<1>2. ASSUME NEW i \in DOMAIN p
      PROVE  p[i] \in ToSet(list)
    BY <1>1 DEF Pairs, ToSet
<1>3. ASSUME NEW k \in DOMAIN list
      PROVE  list[k] \in ToSet(p)
  <2>1. PICK i \in DOMAIN p : f[i] = k
      BY <1>1 DEF Pairs
  <2> QED
      BY <1>1, <2>1 DEF ToSet
<1> QED
    BY <1>2, <1>3 DEF ToSet

\* A badge is found among the views as they were before they were sorted.
LEMMA BadgeIsRight ==
    ASSUME NEW views, AreViews(views), NEW sorted, ToSet(sorted) = ToSet(views), NEW class
    PROVE  BadgeIsOf(Badge(views, class), sorted, class)
<1> DEFINE found == {i \in DOMAIN views : /\ views[i].type = "sensor"
                                          /\ views[i].class = class
                                          /\ ~views[i].unavailable}
           readings == {v \in ToSet(sorted) : /\ v.type = "sensor" /\ v.class = class
                                              /\ ~v.unavailable}
           first == CHOOSE i \in found : \A j \in found : i <= j
<1>1. \A v : v \in readings <=> \E i \in found : v = views[i]
    BY DEF ToSet
<1>2. CASE found = {}
  <2>1. Badge(views, class) = None
      BY <1>2 DEF Badge
  <2>2. readings = {}
      BY <1>1, <1>2
  <2> QED
      BY <2>1, <2>2 DEF BadgeIsOf
<1>3. CASE found # {}
  <2>1. Badge(views, class) = views[first].value
      BY <1>3 DEF Badge
  <2>2. found \in SUBSET Nat
      BY ListOfIts DEF AreViews
  <2>3. first \in found
    <3> HIDE DEF found
    <3>1. \E i \in found : \A j \in found : i <= j
        BY <1>3, <2>2, SmallestExists
    <3> QED
        BY <3>1
  <2> HIDE DEF first
  <2>4. views[first].value # None /\ views[first] \in readings
      BY <1>1, <2>3 DEF AreViews, IsView
  <2> HIDE DEF found
  <2> QED
      BY <2>1, <2>4 DEF BadgeIsOf
<1> QED
    BY <1>2, <1>3

\* A card's badges and counts, made of unsorted views, are right for sorted ones.
LEMMA CardsAreRight ==
    ASSUME NEW name, NEW views, AreViews(views)
    PROVE  CardIsRight(Card(name, views))
<1> DEFINE s == SortedViews(views)
           card == Card(name, views)
<1>1. Holds(s, views, DOMAIN views) /\ IsFiniteSet(DOMAIN views)
    BY SortedViewsHold, ListOfIts DEF AreViews
<1>2. ToSet(s) = ToSet(views)
    BY <1>1, HeldElements
<1>3. /\ card.entities = s
      /\ card.temperature = Badge(views, "temperature")
      /\ card.humidity = Badge(views, "humidity")
      /\ card.lights = On(views, "light") /\ card.switches = On(views, "switch")
    BY DEF Card
<1> HIDE DEF card, s
<1>4. /\ BadgeIsOf(card.temperature, card.entities, "temperature")
      /\ BadgeIsOf(card.humidity, card.entities, "humidity")
    BY <1>2, <1>3, BadgeIsRight
<1>5. ASSUME NEW type
      PROVE  On(views, type) = Cardinality({i \in DOMAIN s : s[i].type = type /\ s[i].value = "on"})
  <2> DEFINE X == {v \in ToSet(views) : v.type = type /\ v.value = "on"}
  <2>1. Cardinality({i \in DOMAIN s : s[i] \in X}) = Cardinality({k \in DOMAIN views : views[k] \in X})
    <3> HIDE DEF X
    <3> QED
        BY <1>1, HeldAreCounted
  <2>2. {i \in DOMAIN s : s[i] \in X} = {i \in DOMAIN s : s[i].type = type /\ s[i].value = "on"}
      BY <1>2 DEF ToSet
  <2>3. {k \in DOMAIN views : views[k] \in X}
        = {k \in DOMAIN views : views[k].type = type /\ views[k].value = "on"}
      BY DEF ToSet
  <2> QED
      BY <2>1, <2>2, <2>3 DEF On
<1>6. /\ card.lights = Cardinality({i \in DOMAIN card.entities :
                            card.entities[i].type = "light" /\ card.entities[i].value = "on"})
      /\ card.switches = Cardinality({i \in DOMAIN card.entities :
                            card.entities[i].type = "switch" /\ card.entities[i].value = "on"})
    BY <1>3, <1>5
<1>7. CardIsRight(card)
    BY <1>4, <1>6 DEF CardIsRight
<1> QED
    BY <1>7 DEF card

\* Of some positions in a list there is a last one.
LEMMA LastPosition ==
    ASSUME NEW n \in Nat, NEW P \in SUBSET (1..n), P # {}
    PROVE  \E i \in P : \A j \in P : j <= i
<1> DEFINE S == {m \in Nat : n - m \in P}
<1>1. \A i \in P : n - i \in Nat /\ n - (n - i) = i /\ i \in Nat
    OBVIOUS
<1>2. \A i \in P : n - i \in S
    BY <1>1
<1>3. S \in SUBSET Nat /\ S # {}
    BY <1>2
<1>4. PICK m \in S : \A k \in S : m <= k
  <2> HIDE DEF S
  <2> QED
      BY <1>3, SmallestExists
<1>5. n - m \in P /\ m \in Nat
    OBVIOUS
<1>6. ASSUME NEW j \in P
      PROVE  j <= n - m
  <2>1. m <= n - j /\ j \in Nat
      BY <1>1, <1>2, <1>4
  <2> QED
      BY <1>5, <2>1
<1> QED
    BY <1>5, <1>6

\* Every card has a name: an area's, a device's or "Unassigned".
LEMMA CardsHaveNames ==
    ASSUME areas \in Seq(AreaRecord), NEW v, IsView(v)
    PROVE  CardOf(v) \in NAME
<1>1. AREANAME \cup {"Unassigned"} \subseteq NAME
    BY OverviewAssumption
<1>2. ASSUME NEW area
      PROVE  AreaName(area) \in NAME
  <2> DEFINE found == {i \in DOMAIN areas : areas[i].id = area}
             last == CHOOSE i \in found : \A j \in found : j <= i
  <2>1. CASE found = {}
      BY <1>1, <2>1 DEF AreaName
  <2>2. CASE found # {}
    <3>1. Len(areas) \in Nat /\ found \in SUBSET (1..Len(areas))
      <4>1. Len(areas) \in Nat /\ DOMAIN areas = 1..Len(areas)
          OBVIOUS
      <4> QED
          BY <4>1
    <3>2. last \in found
      <4> HIDE DEF found
      <4>1. \E i \in found : \A j \in found : j <= i
          BY <2>2, <3>1, LastPosition
      <4> QED
          BY <4>1
    <3>3. AreaName(area) = areas[last].name
        BY <2>2 DEF AreaName
    <3> HIDE DEF last
    <3>4. areas[last].name \in AREANAME
      <4>1. \A i \in DOMAIN areas : areas[i] \in AreaRecord
          OBVIOUS
      <4>2. \A r \in AreaRecord : r.name \in AREANAME
          BY DEF AreaRecord
      <4> QED
          BY <3>2, <4>1, <4>2
    <3> QED
        BY <1>1, <3>3, <3>4
  <2> QED
      BY <2>1, <2>2
<1> QED
    BY <1>1, <1>2 DEF CardOf, IsView

\* Cards are in order: by name, "Unassigned" at the end.
LEMMA CardsAreOrdered ==
    ASSUME NEW names \in SUBSET NAME
    PROVE  TotallyOrders(CardsBefore(names), names)
<1> DEFINE R == CardsBefore(names)
<1>1. \A m, n \in names : <<m, n>> \in R <=> /\ m # "Unassigned"
                                            /\ \/ n = "Unassigned"
                                               \/ <<m, n>> \in Alphabet
    BY DEF CardsBefore
<1>2. \A a, b, c \in names : /\ <<a, a>> \notin Alphabet
                             /\ a = b \/ <<a, b>> \in Alphabet \/ <<b, a>> \in Alphabet
                             /\ <<a, b>> \in Alphabet /\ <<b, c>> \in Alphabet
                                => <<a, c>> \in Alphabet
    BY OverviewAssumption DEF TotallyOrders
<1> HIDE DEF R
<1>3. ASSUME NEW x \in names, NEW y \in names, NEW z \in names
      PROVE  /\ <<x, x>> \notin R
             /\ x = y \/ <<x, y>> \in R \/ <<y, x>> \in R
             /\ <<x, y>> \in R /\ <<y, z>> \in R => <<x, z>> \in R
    BY <1>1, <1>2
<1> QED
    BY <1>3 DEF TotallyOrders, R

(* All the names, each once, in order. *)
OrderedNames(order, n, names) ==
    /\ Pairs(order, 1..n, names)
    /\ \A c, d \in 1..n : c < d => <<order[c], order[d]>> \in CardsBefore(names)

\* The names of the cards are those of the enabled views, each once.
LEMMA CardsAreNamed ==
    ASSUME areas \in Seq(AreaRecord), NEW views, AreViews(views)
    PROVE  /\ IsFiniteSet(CardNames(views)) /\ CardNames(views) \subseteq NAME
           /\ \A i \in DOMAIN views : ~views[i].off => CardOf(views[i]) \in CardNames(views)
           /\ \E n \in Nat : OrderedNames(Sorted(CardNames(views), CardsBefore(CardNames(views))),
                                         n, CardNames(views))
<1> DEFINE names == CardNames(views)
           there == {i \in DOMAIN views : ~views[i].off}
           f == [i \in there |-> CardOf(views[i])]
<1>1. \A x : x \in names <=> \E i \in there : x = CardOf(views[i])
    BY DEF CardNames
<1>2. names \subseteq NAME
    BY <1>1, CardsHaveNames DEF AreViews
<1>3. IsFiniteSet(there)
  <2>1. IsFiniteSet(DOMAIN views) /\ there \in SUBSET DOMAIN views
      BY ListOfIts DEF AreViews
  <2> HIDE DEF there
  <2> QED
      BY <2>1, FS_Subset
<1>4. IsFiniteSet(names)
  <2>1. f \in Surjection(there, names)
      BY <1>1 DEF Surjection
  <2> HIDE DEF f, there
  <2> QED
      BY <1>3, <2>1, FS_Surjection
<1>5. \A i \in DOMAIN views : ~views[i].off => CardOf(views[i]) \in names
    BY <1>1
<1> HIDE DEF names
<1>6. TotallyOrders(CardsBefore(names), names)
    BY <1>2, CardsAreOrdered
<1>7. \E n \in Nat : OrderedNames(Sorted(names, CardsBefore(names)), n, names)
  <2>1. OrderedNames(Sorted(names, CardsBefore(names)), Cardinality(names), names)
      BY <1>4, <1>6, SortedHoldsAll DEF OrderedNames
  <2>2. Cardinality(names) \in Nat
      BY <1>4, FS_CardinalityType
  <2> QED
      BY <2>1, <2>2
<1> QED
    BY <1>2, <1>4, <1>5, <1>7 DEF names

(* The cards are right, of different names and in order, and hold between them, each on the *)
(* card of its name, the enabled views. *)
CardsHold(cards, views) ==
    /\ \E n \in Nat : DOMAIN cards = 1..n
    /\ \A c \in DOMAIN cards : /\ CardIsRight(cards[c]) /\ InOrder(cards[c].entities)
                               /\ Holds(cards[c].entities, views, OnCard(cards[c].name, views))
    /\ \A c, d \in DOMAIN cards :
          /\ cards[c].name = cards[d].name => c = d
          /\ c < d => \/ cards[d].name = "Unassigned"
                      \/ <<cards[c].name, cards[d].name>> \in Alphabet
    /\ \A i \in DOMAIN views : ~views[i].off
          => \E c \in DOMAIN cards : cards[c].name = CardOf(views[i])

LEMMA AreaCardsHold ==
    ASSUME areas \in Seq(AreaRecord), NEW views, AreViews(views)
    PROVE  CardsHold(AreaCards(views), views)
<1> DEFINE names == CardNames(views)
           order == Sorted(names, CardsBefore(names))
           cards == AreaCards(views)
<1>1. \A i \in DOMAIN views : ~views[i].off => CardOf(views[i]) \in names
    BY CardsAreNamed
<1>2. PICK n \in Nat : OrderedNames(order, n, names)
    BY CardsAreNamed
<1>3. cards = [c \in DOMAIN order |-> Card(order[c], Pick(views, OnCard(order[c], views)))]
    BY DEF AreaCards
<1> HIDE DEF names, order, cards
<1>4. /\ DOMAIN order = 1..n /\ \A c, d \in 1..n : order[c] = order[d] => c = d
      /\ \A x \in names : \E c \in 1..n : order[c] = x
      /\ \A c, d \in 1..n : c < d => \/ order[d] = "Unassigned"
                                      \/ <<order[c], order[d]>> \in Alphabet
    BY <1>2 DEF OrderedNames, Pairs, CardsBefore
<1>5. DOMAIN cards = 1..n
    BY <1>3, <1>4
<1>6. ASSUME NEW c \in 1..n
      PROVE  /\ cards[c].name = order[c] /\ CardIsRight(cards[c]) /\ InOrder(cards[c].entities)
             /\ Holds(cards[c].entities, views, OnCard(order[c], views))
  <2> DEFINE P == OnCard(order[c], views)
             q == Pick(views, P)
  <2>1. cards[c] = Card(order[c], q)
      BY <1>3, <1>4
  <2>2. P \in SUBSET DOMAIN views
      BY DEF OnCard
  <2> HIDE DEF P
  <2>3. q \in Seq(ToSet(views)) /\ Holds(q, views, P)
      BY <2>2, PickHolds DEF AreViews
  <2> HIDE DEF q
  <2>4. AreViews(q)
    <3>1. PICK f : Pairs(f, DOMAIN q, P) /\ \A i \in DOMAIN q : q[i] = views[f[i]]
        BY <2>3 DEF Holds
    <3>2. \A i \in DOMAIN q : IsView(q[i])
        BY <2>2, <3>1 DEF AreViews, Pairs
    <3>3. q \in Seq(ToSet(q))
        BY <2>3, ListOfIts
    <3> QED
        BY <3>2, <3>3 DEF AreViews
  <2>5. Holds(SortedViews(q), q, DOMAIN q) /\ InOrder(SortedViews(q))
      BY <2>4, SortedViewsHold
  <2>6. Holds(SortedViews(q), views, P)
      BY <2>3, <2>5, HoldsThrough
  <2>7. CardIsRight(cards[c])
      BY <2>1, <2>4, CardsAreRight
  <2>8. cards[c].name = order[c] /\ cards[c].entities = SortedViews(q)
      BY <2>1 DEF Card
  <2> QED
      BY <2>5, <2>6, <2>7, <2>8 DEF P
<1>7. \A i \in DOMAIN views : ~views[i].off => \E c \in 1..n : cards[c].name = CardOf(views[i])
    BY <1>1, <1>4, <1>6
<1>8. \A c \in 1..n :
          /\ CardIsRight(cards[c]) /\ InOrder(cards[c].entities)
          /\ Holds(cards[c].entities, views, OnCard(cards[c].name, views))
    BY <1>6
<1>9. \A c, d \in 1..n :
          /\ cards[c].name = cards[d].name => c = d
          /\ c < d => \/ cards[d].name = "Unassigned"
                      \/ <<cards[c].name, cards[d].name>> \in Alphabet
    BY <1>4, <1>6
<1>10. CardsHold(cards, views)
    BY <1>5, <1>7, <1>8, <1>9 DEF CardsHold
<1> QED
    BY <1>10 DEF cards

\* What is in which place.
LEMMA WhatIsShown ==
    ASSUME NEW cards, NEW p
    PROVE  p \in Shown(cards) <=> \E c \in DOMAIN cards : \E k \in DOMAIN cards[c].entities :
                                     p = <<c, k, cards[c].entities[k]>>
<1>1. p \in Shown(cards) <=> \E c \in DOMAIN cards : p \in OnOne(c, cards[c])
    BY DEF Shown
<1>2. \A c : p \in OnOne(c, cards[c]) <=> \E k \in DOMAIN cards[c].entities :
                                            p = <<c, k, cards[c].entities[k]>>
    BY DEF OnOne
<1> QED
    BY <1>1, <1>2

\* A disabled view is shown nowhere, an enabled one in as many places as it is met
\* in the list.
LEMMA EachIsShown ==
    ASSUME NEW cards, NEW views, AreViews(views), CardsHold(cards, views), NEW i \in DOMAIN views
    PROVE  Cardinality({p \in Shown(cards) : p[3] = views[i]})
           = IF views[i].off THEN 0 ELSE Cardinality({j \in DOMAIN views : views[j] = views[i]})
<1> DEFINE v == views[i]
           at == {p \in Shown(cards) : p[3] = v}
           alike == {j \in DOMAIN views : views[j] = v}
<1>1. \A p : p \in at <=> \E c \in DOMAIN cards : \E k \in DOMAIN cards[c].entities :
                             p = <<c, k, v>> /\ cards[c].entities[k] = v
  <2> TAKE p
  <2>1. \A c, k, x : p = <<c, k, x>> => p[3] = x
      OBVIOUS
  <2> QED
      BY <2>1, WhatIsShown
<1>2. ASSUME NEW c \in DOMAIN cards, NEW k \in DOMAIN cards[c].entities, cards[c].entities[k] = v
      PROVE  ~v.off /\ CardOf(v) = cards[c].name
  <2>1. PICK f : /\ Pairs(f, DOMAIN cards[c].entities, OnCard(cards[c].name, views))
                 /\ \A l \in DOMAIN cards[c].entities : cards[c].entities[l] = views[f[l]]
      BY DEF CardsHold, Holds
  <2>2. f[k] \in OnCard(cards[c].name, views) /\ v = views[f[k]]
      BY <1>2, <2>1 DEF Pairs
  <2> QED
      BY <2>2 DEF OnCard
<1>3. CASE v.off
  <2>1. at = {}
      BY <1>1, <1>2, <1>3
  <2> HIDE DEF at
  <2> QED
      BY <1>3, <2>1, FS_EmptySet DEF at
<1>4. CASE ~v.off
  <2>1. PICK c \in DOMAIN cards : cards[c].name = CardOf(v)
      BY <1>4 DEF CardsHold
  <2> DEFINE on == {k \in DOMAIN cards[c].entities : cards[c].entities[k] \in {v}}
             f == [k \in on |-> <<c, k, v>>]
             P == OnCard(cards[c].name, views)
  <2>2. Holds(cards[c].entities, views, P)
      BY DEF CardsHold
  <2>3. IsFiniteSet(P)
    <3>1. P \in SUBSET DOMAIN views /\ IsFiniteSet(DOMAIN views)
        BY ListOfIts DEF OnCard, AreViews
    <3> HIDE DEF P
    <3> QED
        BY <3>1, FS_Subset
  <2>4. {j \in P : views[j] \in {v}} = alike
      BY <1>4, <2>1 DEF OnCard
  <2>5. IsFiniteSet(on) /\ Cardinality(on) = Cardinality(alike)
    <3> DEFINE X == {v}
               list == cards[c].entities
    <3> HIDE DEF P, X, list
    <3>0. /\ IsFiniteSet({k \in DOMAIN list : list[k] \in X})
          /\ Cardinality({k \in DOMAIN list : list[k] \in X}) = Cardinality({j \in P : views[j] \in X})
        BY <2>2, <2>3, HeldAreCounted DEF list
    <3>1. /\ IsFiniteSet(on)
          /\ Cardinality(on) = Cardinality({j \in P : views[j] \in {v}})
        BY <3>0 DEF X, list
    <3> QED
        BY <2>4, <3>1
  <2>6. Pairs(f, on, at)
    <3>1. f \in [on -> at]
        BY <1>1
    <3>2. \A k, l \in on : f[k] = f[l] => k = l
        OBVIOUS
    <3>3. ASSUME NEW p \in at
          PROVE  \E k \in on : f[k] = p
      <4>0. PICK d \in DOMAIN cards : \E k \in DOMAIN cards[d].entities :
                p = <<d, k, v>> /\ cards[d].entities[k] = v
          BY <1>1
      <4>1. PICK k \in DOMAIN cards[d].entities : p = <<d, k, v>> /\ cards[d].entities[k] = v
          BY <4>0
      <4>2. d = c
          BY <1>2, <2>1, <4>1 DEF CardsHold
      <4>3. k \in on /\ f[k] = p
          BY <4>1, <4>2
      <4> QED
          BY <4>3
    <3> HIDE DEF f, on, at
    <3> QED
        BY <3>1, <3>2, <3>3 DEF Pairs
  <2>7. Cardinality(at) = Cardinality(on)
    <3> HIDE DEF f, on, at
    <3> QED
        BY <2>5, <2>6, PairedSets
  <2>8. Cardinality(at) = Cardinality(alike)
      BY <2>5, <2>7
  <2> QED
      BY <1>4, <2>8
<1>5. v.off \in BOOLEAN
    BY DEF AreViews, IsView
<1> QED
    BY <1>3, <1>4, <1>5

LEMMA OverviewHolds ==
    ASSUME areas \in Seq(AreaRecord), AreViews(AllViews)
    PROVE  OverviewIsComplete /\ CardsAreInOrder
<1> DEFINE views == AllViews
           cards == AreaCards(views)
<1>1. AreViews(views)
    OBVIOUS
<1>2. CardsHold(cards, views)
  <2> HIDE DEF views
  <2> QED
      BY <1>1, AreaCardsHold
<1> HIDE DEF cards, views
<1>3. \A i \in DOMAIN views :
          Cardinality({p \in Shown(cards) : p[3] = views[i]})
          = IF views[i].off THEN 0 ELSE Cardinality({j \in DOMAIN views : views[j] = views[i]})
    BY <1>1, <1>2, EachIsShown
<1>4. /\ \A c, d \in DOMAIN cards : cards[c].name = cards[d].name => c = d
      /\ \A c \in DOMAIN cards : CardIsRight(cards[c])
    BY <1>2 DEF CardsHold
<1>5. OverviewIsComplete
    BY <1>3, <1>4 DEF OverviewIsComplete, cards, views
<1>6. CardsAreInOrder
    BY <1>2 DEF CardsHold, CardsAreInOrder, cards, views
<1> QED
    BY <1>5, <1>6

\* The views of both kinds of entities, the apps' first.
LEMMA ViewsOfTheHome ==
    ASSUME home \in HOMES
    PROVE  /\ AreViews(AllViews)
           /\ \A i \in DOMAIN home.mobile :
                 \E j \in DOMAIN AllViews : AllViews[j] = MobileView(home.mobile[i])
           /\ \A i \in DOMAIN home.zigbee :
                 \E j \in DOMAIN AllViews : AllViews[j] = ZigbeeView(home.zigbee[i])
<1> DEFINE m == Len(home.mobile)
           z == Len(home.zigbee)
           a == [i \in DOMAIN home.mobile |-> MobileView(home.mobile[i])]
           b == [i \in DOMAIN home.zigbee |-> ZigbeeView(home.zigbee[i])]
           T == {a[i] : i \in DOMAIN a} \cup {b[i] : i \in DOMAIN b}
<1>1. /\ home.mobile \in Seq(ToSet(home.mobile)) /\ home.zigbee \in Seq(ToSet(home.zigbee))
      /\ \A e \in ToSet(home.mobile) \cup ToSet(home.zigbee) : e.name \in NAME /\ e.off \in BOOLEAN
      /\ \A d \in DOMAIN home.devices : home.devices[d].name \in NAME
      /\ \A id \in DOMAIN home.states : home.states[id] # None
    BY OverviewAssumption
<1>2. /\ m \in Nat /\ DOMAIN home.mobile = 1..m
      /\ z \in Nat /\ DOMAIN home.zigbee = 1..z
    BY <1>1, ListOfIts
<1>3. \A id : ~Unavailable(Values(id)) => Values(id) # None
    BY <1>1 DEF Unavailable, Values
<1>4. \A e : e.name \in NAME /\ e.off \in BOOLEAN => IsView(MobileView(e)) /\ IsView(ZigbeeView(e))
  <2> SUFFICES ASSUME NEW e, e.name \in NAME, e.off \in BOOLEAN
               PROVE  IsView(MobileView(e)) /\ IsView(ZigbeeView(e))
      OBVIOUS
  <2>1. Unavailable(Values(e.id)) \in BOOLEAN
      BY DEF Unavailable
  <2>2. IsView(MobileView(e))
      BY <1>3, <2>1 DEF MobileView, IsView
  <2>3. IsView(ZigbeeView(e))
      BY <1>1, <1>3, <2>1 DEF ZigbeeView, IsView
  <2> QED
      BY <2>2, <2>3
<1>5. /\ \A i \in 1..m : a[i] = MobileView(home.mobile[i]) /\ IsView(a[i]) /\ a[i] \in T
      /\ \A i \in 1..z : b[i] = ZigbeeView(home.zigbee[i]) /\ IsView(b[i]) /\ b[i] \in T
  <2>1. \A i \in 1..m : home.mobile[i] \in ToSet(home.mobile)
      BY <1>2 DEF ToSet
  <2>2. \A i \in 1..z : home.zigbee[i] \in ToSet(home.zigbee)
      BY <1>2 DEF ToSet
  <2>3. ASSUME NEW i \in 1..m
        PROVE  a[i] = MobileView(home.mobile[i]) /\ IsView(a[i]) /\ a[i] \in T
      BY <1>1, <1>2, <1>4, <2>1
  <2>4. ASSUME NEW i \in 1..z
        PROVE  b[i] = ZigbeeView(home.zigbee[i]) /\ IsView(b[i]) /\ b[i] \in T
      BY <1>1, <1>2, <1>4, <2>2
  <2> QED
      BY <2>3, <2>4
<1>6. AllViews = a \o b
    BY DEF AllViews
<1>7. a = [i \in 1..m |-> a[i]] /\ b = [i \in 1..z |-> b[i]]
    BY <1>2
<1> HIDE DEF a, b, m, z, T
<1>8. a \in Seq(T) /\ b \in Seq(T)
  <2>1. a \in Seq(T)
      BY ONLY <1>2, <1>5, <1>7
  <2>2. b \in Seq(T)
      BY ONLY <1>2, <1>5, <1>7
  <2> QED
      BY <2>1, <2>2
<1>9. Len(a) = m /\ Len(b) = z
    BY <1>2, <1>7, <1>8
<1>10. /\ AllViews \in Seq(T) /\ Len(AllViews) = m + z /\ DOMAIN AllViews = 1..(m + z)
       /\ \A i \in 1..(m + z) : AllViews[i] = IF i <= m THEN a[i] ELSE b[i - m]
  <2>1. /\ a \o b \in Seq(T) /\ Len(a \o b) = m + z
        /\ \A i \in 1..(m + z) : (a \o b)[i] = IF i <= m THEN a[i] ELSE b[i - m]
      BY ONLY <1>2, <1>8, <1>9
  <2>2. DOMAIN (a \o b) = 1..(m + z)
      BY ONLY <2>1
  <2> QED
      BY ONLY <1>6, <2>1, <2>2
<1>11. \A i \in DOMAIN AllViews : IsView(AllViews[i])
  <2> TAKE i \in DOMAIN AllViews
  <2>1. (i <= m /\ i \in 1..m) \/ (~(i <= m) /\ i - m \in 1..z)
      BY <1>2, <1>10
  <2> QED
      BY <1>5, <1>10, <2>1
<1>12. AreViews(AllViews)
    BY <1>10, <1>11, ListOfIts DEF AreViews
<1>13. ASSUME NEW i \in DOMAIN home.mobile
       PROVE  \E j \in DOMAIN AllViews : AllViews[j] = MobileView(home.mobile[i])
  <2>1. i \in 1..(m + z) /\ i <= m /\ i \in 1..m
      BY <1>2
  <2> QED
      BY <1>5, <1>10, <2>1
<1>14. ASSUME NEW i \in DOMAIN home.zigbee
       PROVE  \E j \in DOMAIN AllViews : AllViews[j] = ZigbeeView(home.zigbee[i])
  <2>1. i \in 1..z /\ m + i \in 1..(m + z) /\ ~(m + i <= m) /\ m + i - m = i
      BY <1>2
  <2>2. PICK k \in 1..(m + z) : k = m + i
      BY <2>1
  <2>3. AllViews[k] = b[i]
    <3>1. k - m = i /\ ~(k <= m)
        BY ONLY <1>2, <2>1, <2>2
    <3>2. AllViews[k] = IF k <= m THEN a[k] ELSE b[k - m]
        BY <1>10
    <3> QED
        BY <3>1, <3>2
  <2> QED
      BY <1>5, <1>10, <2>1, <2>3
<1> QED
    BY <1>12, <1>13, <1>14

\* An entity's details have the value it is shown with, whichever entity of its id
\* they find.
LEMMA DetailsAgree ==
    ASSUME NEW e, \/ \E i \in DOMAIN home.mobile : e = home.mobile[i]
                  \/ \E i \in DOMAIN home.zigbee : e = home.zigbee[i],
           home \in HOMES
    PROVE  EntityDetails(e.id).value = Values(e.id)
<1> DEFINE mobile == {i \in DOMAIN home.mobile : home.mobile[i].id = e.id}
           zigbee == {i \in DOMAIN home.zigbee : home.zigbee[i].id = e.id}
           first(S) == CHOOSE i \in S : \A j \in S : i <= j
<1>1. mobile \in SUBSET Nat /\ zigbee \in SUBSET Nat
  <2>1. home.mobile \in Seq(ToSet(home.mobile)) /\ home.zigbee \in Seq(ToSet(home.zigbee))
      BY OverviewAssumption
  <2> QED
      BY <2>1, ListOfIts
<1>2. ASSUME NEW S \in SUBSET Nat, S # {}
      PROVE  first(S) \in S
  <2>1. \E i \in S : \A j \in S : i <= j
      BY <1>2, SmallestExists
  <2> QED
      BY <2>1
<1>3. mobile # {} \/ zigbee # {}
    OBVIOUS
<1>4. EntityDetails(e.id) = IF mobile # {} THEN MobileView(home.mobile[first(mobile)])
                            ELSE IF zigbee # {} THEN ZigbeeView(home.zigbee[first(zigbee)])
                            ELSE None
    BY DEF EntityDetails
<1>5. mobile # {} => home.mobile[first(mobile)].id = e.id
  <2>1. mobile # {} => first(mobile) \in mobile
    <3> HIDE DEF mobile, first
    <3> QED
        BY <1>1, <1>2
  <2> HIDE DEF first
  <2> QED
      BY <2>1
<1>6. zigbee # {} => home.zigbee[first(zigbee)].id = e.id
  <2>1. zigbee # {} => first(zigbee) \in zigbee
    <3> HIDE DEF zigbee, first
    <3> QED
        BY <1>1, <1>2
  <2> HIDE DEF first
  <2> QED
      BY <2>1
<1>7. \A r : MobileView(r).value = Values(r.id) /\ ZigbeeView(r).value = Values(r.id)
    BY DEF MobileView, ZigbeeView
<1> HIDE DEF mobile, zigbee, first
<1> QED
    BY <1>3, <1>4, <1>5, <1>6, <1>7

\* A view in an area is on the page of the area.
LEMMA PageShows ==
    ASSUME areas \in Seq(AreaRecord), Distinct(areas), AreViews(AllViews),
           NEW a \in DOMAIN areas, NEW j \in DOMAIN AllViews,
           ~AllViews[j].off, AllViews[j].area = areas[a].id
    PROVE  \E p \in Shown(AreaPage(areas[a], AllViews)) : p[3] = AllViews[j]
<1> DEFINE views == AllViews
           v == views[j]
           cards == AreaCards(views)
           P == {c \in DOMAIN cards : cards[c].name = areas[a].name}
           page == Pick(cards, P)
<1>1. CardOf(v) = areas[a].name
  <2> DEFINE found == {i \in DOMAIN areas : areas[i].id = areas[a].id}
  <2>1. found = {a}
      BY DEF Distinct
  <2>2. (CHOOSE i \in found : \A k \in found : k <= i) = a
    <3>1. a <= a
        OBVIOUS
    <3> HIDE DEF found
    <3> QED
        BY <2>1, <3>1
  <2>3. AreaName(areas[a].id) = areas[a].name
      BY <2>1, <2>2 DEF AreaName
  <2>4. areas[a].id # None
    <3>1. areas[a] \in AreaRecord
        OBVIOUS
    <3> QED
        BY <3>1, OverviewAssumption DEF AreaRecord
  <2> QED
      BY <2>3, <2>4 DEF CardOf
<1>2. CardsHold(cards, views)
  <2> HIDE DEF views
  <2> QED
      BY AreaCardsHold DEF views
<1>3. AreaPage(areas[a], AllViews) = page
    BY DEF AreaPage
<1>4. ~v.off /\ AreViews(views)
    OBVIOUS
<1> HIDE DEF views, cards, P, page
<1>5. PICK c \in DOMAIN cards : cards[c].name = areas[a].name
    BY <1>1, <1>2, <1>4 DEF CardsHold, views
<1>6. j \in OnCard(cards[c].name, views)
    BY <1>1, <1>4, <1>5 DEF OnCard, views
<1>7. PICK k \in DOMAIN cards[c].entities : cards[c].entities[k] = v
  <2>1. PICK f : /\ Pairs(f, DOMAIN cards[c].entities, OnCard(cards[c].name, views))
                 /\ \A l \in DOMAIN cards[c].entities : cards[c].entities[l] = views[f[l]]
      BY <1>2 DEF CardsHold, Holds
  <2>2. PICK k \in DOMAIN cards[c].entities : f[k] = j
      BY <1>6, <2>1 DEF Pairs
  <2> QED
      BY <2>1, <2>2
<1>8. PICK d \in DOMAIN page : page[d] = cards[c]
  <2>1. cards \in Seq(ToSet(cards))
    <3>1. PICK n \in Nat : cards = [i \in 1..n |-> cards[i]] /\ DOMAIN cards = 1..n
      <4>1. PICK n \in Nat : DOMAIN cards = 1..n
          BY <1>2 DEF CardsHold
      <4>2. cards = [i \in DOMAIN cards |-> cards[i]]
          BY DEF cards, AreaCards
      <4> QED
          BY <4>1, <4>2
    <3>2. \A i \in 1..n : cards[i] \in ToSet(cards)
        BY <3>1 DEF ToSet
    <3> QED
        BY <3>1, <3>2
  <2>2. P \in SUBSET DOMAIN cards /\ c \in P
      BY <1>5 DEF P
  <2>3. Holds(page, cards, P)
      BY <2>1, <2>2, PickHolds DEF page
  <2>4. PICK f : Pairs(f, DOMAIN page, P) /\ \A i \in DOMAIN page : page[i] = cards[f[i]]
      BY <2>3 DEF Holds
  <2>5. PICK d \in DOMAIN page : f[d] = c
      BY <2>2, <2>4 DEF Pairs
  <2> QED
      BY <2>4, <2>5
<1>9. <<d, k, v>> \in Shown(page) /\ <<d, k, v>>[3] = v
    BY <1>7, <1>8, WhatIsShown
<1> QED
    BY <1>3, <1>9 DEF v, views

\* An entity of an area is on the page of the area, as its details show it.
LEMMA AreaPagesHold ==
    ASSUME areas \in Seq(AreaRecord), Distinct(areas), home \in HOMES
    PROVE  AreaPagesAreComplete
<1> SUFFICES ASSUME NEW a \in DOMAIN areas
    PROVE  LET page == Shown(AreaPage(areas[a], AllViews))
               on(id) == \E p \in page : p[3].id = id /\ p[3].value = EntityDetails(id).value
               within(e) == ~e.off /\ e.area = areas[a].id
               moved(e) == /\ ~e.off /\ e.area = None /\ e.device \in DOMAIN home.devices
                           /\ home.devices[e.device].area = areas[a].id
           IN  /\ \A i \in DOMAIN home.mobile : within(home.mobile[i]) => on(home.mobile[i].id)
               /\ \A i \in DOMAIN home.zigbee :
                     within(home.zigbee[i]) \/ moved(home.zigbee[i]) => on(home.zigbee[i].id)
    BY DEF AreaPagesAreComplete
<1> DEFINE page == Shown(AreaPage(areas[a], AllViews))
           on(id) == \E p \in page : p[3].id = id /\ p[3].value = EntityDetails(id).value
<1>1. ASSUME NEW j \in DOMAIN AllViews, ~AllViews[j].off, AllViews[j].area = areas[a].id
      PROVE  \E p \in page : p[3] = AllViews[j]
    BY <1>1, ViewsOfTheHome, PageShows
<1> HIDE DEF page
<1>2. ASSUME NEW i \in DOMAIN home.mobile,
             ~home.mobile[i].off, home.mobile[i].area = areas[a].id
      PROVE  on(home.mobile[i].id)
  <2> DEFINE e == home.mobile[i]
  <2>1. PICK j \in DOMAIN AllViews : AllViews[j] = MobileView(e)
      BY ViewsOfTheHome
  <2>2. EntityDetails(e.id).value = Values(e.id)
      BY DetailsAgree
  <2> HIDE DEF e
  <2>3. /\ MobileView(e).off = e.off /\ MobileView(e).area = e.area
        /\ MobileView(e).id = e.id /\ MobileView(e).value = Values(e.id)
      BY DEF MobileView
  <2>4. \E p \in page : p[3] = MobileView(e)
      BY <1>1, <1>2, <2>1, <2>3 DEF e
  <2> QED
      BY <2>2, <2>3, <2>4 DEF e
<1>3. ASSUME NEW i \in DOMAIN home.zigbee, ~home.zigbee[i].off,
             \/ home.zigbee[i].area = areas[a].id
             \/ /\ home.zigbee[i].area = None /\ home.zigbee[i].device \in DOMAIN home.devices
                /\ home.devices[home.zigbee[i].device].area = areas[a].id
      PROVE  on(home.zigbee[i].id)
  <2> DEFINE e == home.zigbee[i]
  <2>1. PICK j \in DOMAIN AllViews : AllViews[j] = ZigbeeView(e)
      BY ViewsOfTheHome
  <2>2. EntityDetails(e.id).value = Values(e.id)
      BY DetailsAgree
  <2>3. areas[a].id # None
    <3>1. areas[a] \in AreaRecord
        OBVIOUS
    <3> QED
        BY <3>1, OverviewAssumption DEF AreaRecord
  <2> HIDE DEF e
  <2>4. /\ ZigbeeView(e).off = e.off /\ ZigbeeView(e).id = e.id
        /\ ZigbeeView(e).value = Values(e.id)
        /\ ZigbeeView(e).area = IF e.area = None /\ e.device \in DOMAIN home.devices
                                THEN home.devices[e.device].area ELSE e.area
      BY DEF ZigbeeView
  <2>5. ZigbeeView(e).area = areas[a].id /\ ~ZigbeeView(e).off
      BY <1>3, <2>3, <2>4 DEF e
  <2>6. \E p \in page : p[3] = ZigbeeView(e)
      BY <1>1, <2>1, <2>5
  <2> QED
      BY <2>2, <2>4, <2>6 DEF e
<1> QED
    BY <1>2, <1>3 DEF page

\* Areas keep their ids apart under whatever is done to them.
LEMMA OverviewStep ==
    PlacesInv /\ home \in HOMES /\ [OverviewNext]_<<places, home>> => (PlacesInv /\ home \in HOMES)'
<1> SUFFICES ASSUME PlacesInv, home \in HOMES, [OverviewNext]_<<places, home>>
             PROVE  PlacesInv' /\ home' \in HOMES
    OBVIOUS
<1>1. home' \in HOMES
    BY DEF OverviewNext
<1>2. CASE OverviewNext
    BY <1>2, PlacesStep DEF OverviewNext
<1>3. CASE UNCHANGED <<places, home>>
    BY <1>3, PlacesStep
<1> QED
    BY <1>1, <1>2, <1>3

\* No entity is lost from the dashboard or shown twice, it is in order, and an
\* area's page shows those in the area with the values of their details, for any entities, devices
\* and states and whatever happens to areas (http.rs, collect_all_entity_views,
\* build_area_cards, area_detail_page and fetch_entity_view).  Two seeded areas of
\* one slug have one page, and the names of both.
THEOREM DashboardIsEverComplete ==
    ASSUME SeedsAreDistinct
    PROVE  OverviewSpec => []DashboardIsComplete
<1> DEFINE Inv == PlacesInv /\ home \in HOMES
<1>1. OverviewInit => Inv
    BY PlacesInitially DEF OverviewInit
<1>2. Inv /\ [OverviewNext]_<<places, home>> => Inv'
    BY OverviewStep
<1>3. Inv => DashboardIsComplete
    BY OverviewHolds, AreaPagesHold, ViewsOfTheHome DEF DashboardIsComplete, PlacesInv
<1> QED
    BY <1>1, <1>2, <1>3, PTL DEF OverviewSpec

(***************************************************************************)
(* The window for joining.  While the newest command is not lost, it ends  *)
(* where the pages say or later: it was given its end before it was sent,  *)
(* and the bridge counts its duration from when it takes it.               *)
(***************************************************************************)
JoinTypeOK ==
    /\ now \in Nat \ {0} /\ expires \in Nat /\ until \in Nat
    /\ commands \in Seq(Nat)
    /\ running \in BOOLEAN /\ lost \in BOOLEAN

\* The last command sent, once taken, ends the window the pages show.
NewestEndsTheWindow ==
    running /\ ~lost =>
        /\ commands = << >> => expires <= until /\ (expires = 0 <=> until = 0)
        /\ commands # << >> => /\ expires <= now + commands[Len(commands)]
                               /\ expires = 0 <=> commands[Len(commands)] = 0

JoinInv == JoinTypeOK /\ NewestEndsTheWindow

\* A sender that gives up takes its own command out of the queue, and the last
\* one stays the last unless it was its own.
LEMMA DroppedSender ==
    ASSUME NEW s \in Seq(Nat), NEW i \in 1..Len(s)
    PROVE  LET rest == RemoveAt(s, i)
           IN  /\ rest \in Seq(Nat) /\ Len(rest) = Len(s) - 1
               /\ i < Len(s) => rest[Len(rest)] = s[Len(s)]
<1> DEFINE front == SubSeq(s, 1, i - 1)
           back == SubSeq(s, i + 1, Len(s))
<1>1. front \in Seq(Nat) /\ Len(front) = i - 1
    OBVIOUS
<1>2. /\ back \in Seq(Nat) /\ Len(back) = Len(s) - i
      /\ i < Len(s) => back[Len(s) - i] = s[Len(s)]
    OBVIOUS
<1>3. RemoveAt(s, i) = front \o back
    BY DEF RemoveAt
<1>4. ASSUME NEW f \in Seq(Nat), NEW b \in Seq(Nat)
      PROVE  /\ f \o b \in Seq(Nat) /\ Len(f \o b) = Len(f) + Len(b)
             /\ Len(b) > 0 => (f \o b)[Len(f) + Len(b)] = b[Len(b)]
    OBVIOUS
<1>5. front \o back \in Seq(Nat) /\ Len(front \o back) = Len(front) + Len(back)
      /\ (Len(back) > 0 => (front \o back)[Len(front) + Len(back)] = back[Len(back)])
    BY <1>1, <1>2, <1>4
<1>6. i \in Nat /\ Len(s) \in Nat /\ i <= Len(s)
    OBVIOUS
<1> HIDE DEF front, back
<1>7. (i - 1) + (Len(s) - i) = Len(s) - 1 /\ (i < Len(s) => Len(s) - i > 0)
    BY <1>6
<1> QED
    BY <1>1, <1>2, <1>3, <1>5, <1>6, <1>7

\* Every step of page, handle and bridge preserves the invariant of the window.
LEMMA JoinStep == JoinInv /\ [JoinNext]_joinVars => JoinInv'
<1> SUFFICES ASSUME JoinInv, [JoinNext]_joinVars
             PROVE  JoinInv'
    OBVIOUS
<1> USE JoinWindowAssumption DEF JoinInv, JoinTypeOK, NewestEndsTheWindow
<1>0. << >> \in Seq(Nat)
    OBVIOUS
<1>1. ASSUME NEW d \in Nat, PermitJoin(d)
      PROVE  JoinInv'
  <2>1. EndOf(d) \in Nat /\ EndOf(d) <= now + d /\ (EndOf(d) = 0 <=> d = 0)
      BY DEF EndOf
  <2>2. /\ Append(commands, d) \in Seq(Nat) /\ Append(commands, d) # << >>
        /\ Append(commands, d)[Len(Append(commands, d))] = d
      OBVIOUS
  <2> QED
      BY <1>1, <2>1, <2>2 DEF PermitJoin
<1>2. ASSUME NEW i \in DOMAIN commands, SenderDropped(i)
      PROVE  JoinInv'
  <2>1. i \in 1..Len(commands)
      BY <1>2
  <2> DEFINE rest == RemoveAt(commands, i)
  <2>2. /\ rest \in Seq(Nat) /\ Len(rest) = Len(commands) - 1
        /\ i < Len(commands) => rest[Len(rest)] = commands[Len(commands)]
      BY <2>1, DroppedSender
  <2>3. /\ commands' = rest /\ lost' = (lost \/ i = Len(commands))
        /\ UNCHANGED <<now, expires, until, running>>
      BY <1>2 DEF SenderDropped
  <2> HIDE DEF rest
  <2>4. Len(commands) \in Nat /\ commands # << >> /\ (i < Len(commands) => rest # << >>)
      BY <2>1, <2>2
  <2>5. JoinTypeOK'
      BY <2>2, <2>3
  <2>6. ASSUME running, ~lost, i # Len(commands)
        PROVE  NewestEndsTheWindow'
    <3>1. rest # << >> /\ rest[Len(rest)] = commands[Len(commands)] /\ i < Len(commands)
        BY <2>1, <2>2, <2>4, <2>6
    <3> QED
        BY <2>3, <2>4, <2>6, <3>1
  <2>7. NewestEndsTheWindow'
      BY <2>3, <2>6
  <2> QED
      BY <2>5, <2>7
<1>3. CASE BridgeTakes
  <2> DEFINE d == Head(commands)
             rest == Tail(commands)
  <2>1. /\ d \in Nat /\ rest \in Seq(Nat)
        /\ rest = << >> => d = commands[Len(commands)]
        /\ rest # << >> => rest[Len(rest)] = commands[Len(commands)]
    <3>1. commands \in Seq(Nat) /\ commands # << >>
        BY <1>3 DEF BridgeTakes
    <3>2. d = commands[1] /\ d \in Nat /\ rest \in Seq(Nat) /\ Len(rest) = Len(commands) - 1
        BY <3>1
    <3>3. \A i \in 1..Len(rest) : rest[i] = commands[i + 1]
        BY <3>1
    <3>4. (rest = << >> => Len(rest) = 0) /\ (rest # << >> => Len(rest) \in 1..Len(rest))
      <4>1. \A s \in Seq(Nat) : (s = << >> => Len(s) = 0) /\ (s # << >> => Len(s) \in 1..Len(s))
          OBVIOUS
      <4> HIDE DEF rest
      <4> QED
          BY <3>2, <4>1
    <3>5. Len(commands) \in Nat
        BY <3>1
    <3> HIDE DEF d, rest
    <3> QED
        BY <3>2, <3>3, <3>4, <3>5
  <2>2. EndOf(d) \in Nat /\ (d = 0 => EndOf(d) = 0) /\ (d # 0 => EndOf(d) = now + d /\ EndOf(d) # 0)
      BY <2>1, SMTT(30) DEF EndOf
  <2>3. /\ running /\ commands # << >> /\ until' = EndOf(d) /\ commands' = rest
        /\ UNCHANGED <<now, expires, running, lost>>
      BY <1>3 DEF BridgeTakes
  <2> HIDE DEF d, rest
  <2>4. JoinTypeOK'
      BY <2>1, <2>2, <2>3
  <2>5. NewestEndsTheWindow'
      BY <2>1, <2>2, <2>3
  <2> QED
      BY <2>4, <2>5
<1>4. CASE BridgeStops
    BY <1>0, <1>4 DEF BridgeStops
<1>5. CASE Tick
  <2>1. commands # << >> => commands[Len(commands)] \in Nat
      OBVIOUS
  <2> QED
      BY <1>5, <2>1 DEF Tick
<1>6. CASE JoinRestart
  <2>1. running' \in BOOLEAN /\ lost' \in BOOLEAN
      BY <1>6 DEF JoinRestart
  <2>2. /\ expires' = 0 /\ commands' = << >> /\ until' = 0 /\ now' = now
      BY <1>6 DEF JoinRestart
  <2> QED
      BY <1>0, <2>1, <2>2
<1>7. CASE UNCHANGED joinVars
    BY <1>7 DEF joinVars
<1> HIDE DEF JoinInv
<1>8. CASE \E d \in DURATION : ApiPermitJoin(d)
    BY <1>1, <1>8 DEF ApiPermitJoin
<1>9. CASE ApiPermitJoinStop
    BY <1>1, <1>9 DEF ApiPermitJoinStop
<1> QED
    BY <1>2, <1>3, <1>4, <1>5, <1>6, <1>7, <1>8, <1>9 DEF JoinNext

\* However many ask for the window and close it: what the pages show of it, when
\* no command is on its way and the newest was not lost, is the bridge's window
\* (zigbee_integration.rs, permit_join).
THEOREM PagesAreRight == JoinSpec => []PagesShowTheWindow
<1>1. JoinInit => JoinInv
  <2> SUFFICES ASSUME JoinInit PROVE JoinInv
      OBVIOUS
  <2>1. << >> \in Seq(Nat)
      OBVIOUS
  <2>2. running \in BOOLEAN /\ lost \in BOOLEAN
      BY DEF JoinInit
  <2>3. expires = 0 /\ commands = << >> /\ until = 0 /\ now = 1
      BY DEF JoinInit
  <2> QED
      BY <2>1, <2>2, <2>3 DEF JoinInv, JoinTypeOK, NewestEndsTheWindow
<1>2. JoinInv => PagesShowTheWindow
    BY DEF JoinInv, JoinTypeOK, NewestEndsTheWindow, PagesShowTheWindow,
           PermitJoinStatus, Remaining
<1> QED
    BY <1>1, <1>2, JoinStep, PTL DEF JoinSpec
-----------------------------------------------------------------------------
(***************************************************************************)
(* Login flows.  A step that got past the lookup, the code it is about to  *)
(* issue, the codes issued and the flow itself are all of one client: the  *)
(* lookup is the only way in, and a flow's id is never used again.         *)
(***************************************************************************)
LoginRequest == [at : {"find", "load", "verify", "finish"}, flow : FLOW, client : CLIENT,
                 given : PASSWORD, seen : PASSWORD]

LoginTypeOK ==
    /\ begun \in Nat /\ begun <= MaxFlows
    /\ flows \in [FLOW -> CLIENT \cup {NoClient}]
    /\ password \in PASSWORD
    /\ step \in [STEP -> LoginRequest \cup {Idle}]
    /\ codes \subseteq [flow : FLOW, client : CLIENT]
    /\ answered \in [FLOW -> Nat] /\ overlapped \subseteq FLOW

FoundFlow(s) == Busy(s) /\ step[s].at # "find"

\* Nothing is known of a flow that nobody began.
OnlyBegunFlows ==
    /\ \A f \in FLOW : f > begun => flows[f] = NoClient /\ answered[f] = 0
    /\ \A s \in STEP : Busy(s) => step[s].flow <= begun
    /\ \A c \in codes : c.flow <= begun

\* Steps past the lookup agree on the client with each other and with the codes.
StepsAreOneClients ==
    \A s \in STEP : FoundFlow(s) =>
        /\ \A t \in STEP : FoundFlow(t) /\ step[t].flow = step[s].flow => step[t].client = step[s].client
        /\ \A c \in codes : c.flow = step[s].flow => c.client = step[s].client

\* A step still at work on a flow that was answered overlapped with the other.
LateStepsOverlapped ==
    \A s \in STEP : Busy(s) =>
        /\ FoundFlow(s) /\ answered[step[s].flow] > 0 => step[s].flow \in overlapped
        /\ \A t \in STEP \ {s} : Busy(t) /\ step[t].flow = step[s].flow => step[s].flow \in overlapped

LoginInv == /\ LoginTypeOK /\ OnlyBegunFlows /\ StepsAreOneClients /\ LateStepsOverlapped
            /\ CodesAreTheClients /\ AFlowEndsWithItsCode

\* What is at a request, and what moving it on changes.
LEMMA RequestsMoveOn ==
    ASSUME LoginTypeOK, NEW s \in STEP
    PROVE  /\ Busy(s) <=> step[s] \in LoginRequest
           /\ step[s].at # "idle" => Busy(s)
           /\ \A at \in {"load", "verify", "finish"} :
                 Busy(s) => LET r == [step[s] EXCEPT !.at = at]
                            IN  /\ r \in LoginRequest /\ r # Idle /\ r.at = at
                                /\ r.flow = step[s].flow /\ r.client = step[s].client
<1>1. \A r \in LoginRequest : r # Idle
    BY DEF LoginRequest, Idle
<1>2. step[s] \in LoginRequest \/ step[s] = Idle
    BY DEF LoginTypeOK
<1>3. step[s] = Idle => step[s].at = "idle"
    BY DEF Idle
<1>4. ASSUME NEW r \in LoginRequest, NEW at \in {"load", "verify", "finish"}
      PROVE  LET n == [r EXCEPT !.at = at]
             IN  n \in LoginRequest /\ n.at = at /\ n.flow = r.flow /\ n.client = r.client
    BY DEF LoginRequest
<1> QED
    BY <1>1, <1>2, <1>3, <1>4 DEF Busy

\* A new flow has an id nobody had before.
LEMMA LoginFlowBegins ==
    ASSUME LoginInv, NEW c \in CLIENT, LoginFlowInit(c)
    PROVE  LoginInv'
<1> USE LoginFlowsAssumption DEF LoginInv
<1>1. /\ begun' = begun + 1 /\ begun + 1 \in FLOW
      /\ flows' = [flows EXCEPT ![begun + 1] = c]
      /\ UNCHANGED <<password, step, codes, answered, overlapped>>
    BY DEF LoginFlowInit, LoginTypeOK, FLOW
<1>2. LoginTypeOK'
    BY <1>1 DEF LoginTypeOK, FLOW
<1>3. \A f \in FLOW : f \in Nat /\ (f # begun + 1 => flows'[f] = flows[f])
    BY <1>1 DEF LoginTypeOK, FLOW
<1>4. \A s \in STEP : Busy(s) => step[s].flow # begun + 1
    BY DEF OnlyBegunFlows, LoginTypeOK
<1>5. \A d \in codes : d.flow # begun + 1
    BY DEF OnlyBegunFlows, LoginTypeOK
<1>6. OnlyBegunFlows'
  <2>1. \A s \in STEP : Busy(s)' => step[s].flow <= begun
      BY <1>1 DEF OnlyBegunFlows, Busy
  <2>2. \A s \in STEP : Busy(s)' => step[s].flow \in Nat
    <3>1. \A s \in STEP : Busy(s) => step[s] \in LoginRequest
        BY RequestsMoveOn
    <3>2. \A r \in LoginRequest : r.flow \in Nat
        BY DEF LoginRequest, FLOW
    <3> QED
        BY <1>1, <3>1, <3>2 DEF Busy
  <2>3. \A d \in codes : d.flow \in Nat /\ d.flow <= begun
      BY DEF OnlyBegunFlows, LoginTypeOK, FLOW
  <2>4. \A f \in FLOW : f > begun' => flows'[f] = NoClient /\ answered'[f] = 0
      BY <1>1, <1>3 DEF OnlyBegunFlows, LoginTypeOK
  <2> QED
      BY <1>1, <2>1, <2>2, <2>3, <2>4 DEF OnlyBegunFlows, LoginTypeOK
<1>7. StepsAreOneClients' /\ LateStepsOverlapped'
    BY <1>1 DEF StepsAreOneClients, LateStepsOverlapped, FoundFlow, Busy
<1>8. CodesAreTheClients'
  <2>1. \A d \in codes : d.flow \in FLOW
      BY DEF LoginTypeOK
  <2>2. \A s \in STEP : Busy(s) => step[s].flow \in FLOW
      BY RequestsMoveOn DEF LoginRequest
  <2> QED
      BY <1>1, <1>3, <1>4, <1>5, <2>1, <2>2 DEF CodesAreTheClients, Busy
<1>9. AFlowEndsWithItsCode'
  <2>1. answered[begun + 1] = 0
      BY <1>1 DEF OnlyBegunFlows, LoginTypeOK
  <2> QED
      BY <1>1, <1>3, <2>1 DEF AFlowEndsWithItsCode
<1> QED
    BY <1>2, <1>6, <1>7, <1>8, <1>9

\* A submission to a flow begins.
LEMMA StepBegins ==
    ASSUME LoginInv, NEW s \in STEP, NEW f \in 1..begun, NEW c \in CLIENT, NEW p \in PASSWORD,
           Submit(s, f, c, p)
    PROVE  LoginInv'
<1> DEFINE r == [at |-> "find", flow |-> f, client |-> c, given |-> p, seen |-> p]
<1> USE LoginFlowsAssumption DEF LoginInv
<1>1. /\ ~Busy(s) /\ step' = [step EXCEPT ![s] = r]
      /\ overlapped' = IF StepsOf(f) = {} THEN overlapped ELSE overlapped \cup {f}
      /\ UNCHANGED <<flows, begun, password, codes, answered>>
    BY DEF Submit
<1>2. f \in FLOW /\ f <= begun /\ r \in LoginRequest /\ r # Idle /\ r.at = "find" /\ r.flow = f
    BY DEF LoginTypeOK, FLOW, LoginRequest, Idle
<1>3. step'[s] = r /\ \A t \in STEP \ {s} : step'[t] = step[t]
    BY <1>1 DEF LoginTypeOK
<1> HIDE DEF r
<1>4. overlapped \subseteq overlapped' /\ overlapped' \subseteq FLOW
    BY <1>1, <1>2 DEF LoginTypeOK
<1>5. LoginTypeOK'
    BY <1>1, <1>2, <1>4 DEF LoginTypeOK
<1>6. \A t \in STEP : FoundFlow(t)' => t # s /\ FoundFlow(t)
    BY <1>2, <1>3 DEF FoundFlow, Busy
<1>7. OnlyBegunFlows'
    BY <1>1, <1>2, <1>3 DEF OnlyBegunFlows, Busy
<1>8. StepsAreOneClients' /\ CodesAreTheClients' /\ AFlowEndsWithItsCode'
    BY <1>1, <1>2, <1>3, <1>4, <1>6
       DEF StepsAreOneClients, CodesAreTheClients, AFlowEndsWithItsCode, FoundFlow, Busy
<1>9. LateStepsOverlapped'
  <2>1. \A t \in STEP \ {s} : Busy(t) /\ step[t].flow = f => f \in overlapped'
      BY <1>1 DEF StepsOf
  <2> QED
      BY <1>1, <1>2, <1>3, <1>4, <1>6, <2>1 DEF LateStepsOverlapped, FoundFlow, Busy
<1> QED
    BY <1>5, <1>7, <1>8, <1>9

\* A step that ends leaves fewer to agree.
LEMMA StepEnds ==
    ASSUME LoginInv, NEW s \in STEP, Refuse(s),
           UNCHANGED <<flows, begun, password, codes, answered, overlapped>>
    PROVE  LoginInv'
<1> USE DEF LoginInv
<1>1. step'[s] = Idle /\ \A t \in STEP \ {s} : step'[t] = step[t]
    BY DEF Refuse, LoginTypeOK
<1>2. \A t \in STEP : Busy(t)' => t # s /\ Busy(t) /\ step'[t] = step[t]
    BY <1>1 DEF Busy
<1>3. LoginTypeOK'
    BY DEF Refuse, LoginTypeOK
<1>4. OnlyBegunFlows' /\ StepsAreOneClients' /\ CodesAreTheClients'
    BY <1>2 DEF OnlyBegunFlows, StepsAreOneClients, CodesAreTheClients, FoundFlow
<1>5. LateStepsOverlapped' /\ AFlowEndsWithItsCode'
    BY <1>2 DEF LateStepsOverlapped, AFlowEndsWithItsCode, FoundFlow
<1> QED
    BY <1>3, <1>4, <1>5

\* A step that moves on inside the same request, past the lookup already.
LEMMA StepGoesOn ==
    ASSUME LoginInv, NEW s \in STEP, FoundFlow(s), NEW r \in LoginRequest,
           r.at # "find", r.flow = step[s].flow, r.client = step[s].client,
           step' = [step EXCEPT ![s] = r],
           codes' \subseteq codes \cup {[flow |-> r.flow, client |-> r.client]},
           UNCHANGED <<flows, begun, password, answered, overlapped>>
    PROVE  LoginInv'
<1> USE DEF LoginInv
<1>1. step'[s] = r /\ \A t \in STEP \ {s} : step'[t] = step[t]
    BY DEF LoginTypeOK
<1>2. \A t \in STEP : /\ Busy(t)' <=> Busy(t)
                      /\ Busy(t) => step'[t].flow = step[t].flow /\ step'[t].client = step[t].client
                      /\ FoundFlow(t)' => FoundFlow(t)
  <2>1. r # Idle
      BY DEF LoginRequest, Idle
  <2> QED
      BY <1>1, <2>1 DEF Busy, FoundFlow
<1>3. LoginTypeOK'
  <2>1. [flow |-> r.flow, client |-> r.client] \in [flow : FLOW, client : CLIENT]
      BY DEF LoginRequest
  <2> QED
      BY <2>1 DEF LoginTypeOK
<1>4. \A c \in codes' : c \in codes \/ (c.flow = step[s].flow /\ c.client = step[s].client)
    OBVIOUS
<1>5. OnlyBegunFlows'
    BY <1>2, <1>4 DEF OnlyBegunFlows, FoundFlow
<1>6. StepsAreOneClients'
    BY <1>2, <1>4 DEF StepsAreOneClients, FoundFlow
<1>7. LateStepsOverlapped' /\ AFlowEndsWithItsCode'
    BY <1>2 DEF LateStepsOverlapped, AFlowEndsWithItsCode, FoundFlow
<1>8. CodesAreTheClients'
    BY <1>2, <1>4 DEF CodesAreTheClients, StepsAreOneClients, FoundFlow
<1> QED
    BY <1>3, <1>5, <1>6, <1>7, <1>8

\* The look-up: a flow of another client, or none, ends the request.
LEMMA FlowIsFound ==
    ASSUME LoginInv, NEW s \in STEP, FindFlow(s)
    PROVE  LoginInv'
<1> USE LoginFlowsAssumption DEF LoginInv
<1>1. CASE flows[step[s].flow] # step[s].client
    BY <1>1, StepEnds DEF FindFlow
<1>2. CASE flows[step[s].flow] = step[s].client
  <2> DEFINE r == [step[s] EXCEPT !.at = "load"]
             f == step[s].flow
  <2>1. Busy(s) /\ step[s] \in LoginRequest /\ step[s].at = "find"
      BY RequestsMoveOn DEF FindFlow
  <2>2. r \in LoginRequest /\ r # Idle /\ r.at = "load" /\ r.flow = f /\ r.client = step[s].client
      BY <2>1, RequestsMoveOn
  <2>3. /\ step' = [step EXCEPT ![s] = r]
        /\ UNCHANGED <<flows, begun, password, codes, answered, overlapped>>
      BY <1>2 DEF FindFlow, Goto
  <2>4. f \in FLOW /\ step[s].client \in CLIENT /\ flows[f] # NoClient /\ flows[f] = step[s].client
      BY <1>2, <2>1 DEF LoginRequest
  <2> HIDE DEF r, f
  <2>5. step'[s] = r /\ \A t \in STEP \ {s} : step'[t] = step[t]
      BY <2>3 DEF LoginTypeOK
  <2>6. \A t \in STEP : /\ Busy(t)' <=> Busy(t)
                        /\ Busy(t) => step'[t].flow = step[t].flow /\ step'[t].client = step[t].client
                        /\ FoundFlow(t)' => FoundFlow(t) \/ t = s
      BY <2>1, <2>2, <2>5 DEF Busy, FoundFlow, f
  <2>7. /\ \A t \in STEP : FoundFlow(t) /\ step[t].flow = f => step[t].client = step[s].client
        /\ \A c \in codes : c.flow = f => c.client = step[s].client
      BY <2>4 DEF CodesAreTheClients, FoundFlow
  <2>8. LoginTypeOK'
      BY <2>2, <2>3 DEF LoginTypeOK
  <2>9. OnlyBegunFlows' /\ AFlowEndsWithItsCode'
      BY <2>3, <2>6 DEF OnlyBegunFlows, AFlowEndsWithItsCode
  <2>10. StepsAreOneClients'
      BY <2>1, <2>3, <2>6, <2>7 DEF StepsAreOneClients, FoundFlow, f
  <2>11. LateStepsOverlapped'
    <3>1. answered[f] = 0
        BY <2>4 DEF AFlowEndsWithItsCode, LoginTypeOK
    <3> QED
        BY <2>1, <2>3, <2>6, <3>1 DEF LateStepsOverlapped, FoundFlow, f
  <2>12. CodesAreTheClients'
      BY <2>1, <2>3, <2>4, <2>6, <2>7 DEF CodesAreTheClients, FoundFlow, f
  <2> QED
      BY <2>8, <2>9, <2>10, <2>11, <2>12
<1> QED
    BY <1>1, <1>2

\* A correct password ends the flow with a code of its client.
LEMMA StepFinishes ==
    ASSUME LoginInv, NEW s \in STEP, Finish(s)
    PROVE  LoginInv'
<1> DEFINE f == step[s].flow
<1> USE LoginFlowsAssumption DEF LoginInv
<1>1. FoundFlow(s) /\ f \in FLOW /\ step[s] \in LoginRequest
    BY RequestsMoveOn DEF Finish, FoundFlow, LoginRequest
<1>2. /\ flows' = [flows EXCEPT ![f] = NoClient] /\ step' = [step EXCEPT ![s] = Idle]
      /\ answered' = [answered EXCEPT ![f] = @ + 1]
      /\ UNCHANGED <<begun, password, codes, overlapped>>
    BY DEF Finish, Refuse
<1>3. \A t \in STEP : Busy(t)' => t # s /\ Busy(t) /\ step'[t] = step[t]
    BY <1>2 DEF Busy, LoginTypeOK
<1>4. f <= begun
    BY <1>1 DEF OnlyBegunFlows, FoundFlow
<1> HIDE DEF f
<1>5. /\ flows'[f] = NoClient /\ answered'[f] = answered[f] + 1 /\ answered[f] \in Nat
      /\ \A g \in FLOW \ {f} : flows'[g] = flows[g] /\ answered'[g] = answered[g]
    BY <1>1, <1>2 DEF LoginTypeOK
<1>6. LoginTypeOK'
    BY <1>1, <1>2 DEF LoginTypeOK
<1>7. OnlyBegunFlows'
    BY <1>1, <1>2, <1>3, <1>4, <1>5 DEF OnlyBegunFlows, LoginTypeOK, FLOW
<1>8. StepsAreOneClients'
    BY <1>2, <1>3 DEF StepsAreOneClients, FoundFlow
<1>9. LateStepsOverlapped'
  <2>1. \A t \in STEP : Busy(t)' => step[t].flow \in FLOW
    <3>1. \A t \in STEP : Busy(t) => step[t] \in LoginRequest
        BY RequestsMoveOn
    <3> QED
        BY <1>3, <3>1 DEF LoginRequest
  <2> QED
      BY <1>1, <1>2, <1>3, <1>5, <2>1 DEF LateStepsOverlapped, FoundFlow, f
<1>10. CodesAreTheClients'
  <2>1. \A c \in codes : c.flow \in FLOW
      BY DEF LoginTypeOK
  <2>2. \A t \in STEP : Busy(t) => step[t].flow \in FLOW
    <3>1. \A t \in STEP : Busy(t) => step[t] \in LoginRequest
        BY RequestsMoveOn
    <3> QED
        BY <3>1 DEF LoginRequest
  <2> QED
      BY <1>2, <1>3, <1>5, <2>1, <2>2 DEF CodesAreTheClients
<1>11. AFlowEndsWithItsCode'
  <2>1. answered[f] > 0 => f \in overlapped
      BY <1>1 DEF LateStepsOverlapped, FoundFlow, f
  <2> QED
      BY <1>2, <1>5, <2>1 DEF AFlowEndsWithItsCode
<1> QED
    BY <1>6, <1>7, <1>8, <1>9, <1>10, <1>11

\* Every step of the login flows preserves the invariant.
LEMMA LoginStep == LoginInv /\ [LoginNext]_loginVars => LoginInv'
<1> SUFFICES ASSUME LoginInv, [LoginNext]_loginVars
             PROVE  LoginInv'
    OBVIOUS
<1>1. ASSUME NEW s \in STEP, LoadAccount(s)
      PROVE  LoginInv'
  <2> DEFINE r == [step[s] EXCEPT !.at = "verify", !.seen = password]
  <2>1. FoundFlow(s) /\ step[s] \in LoginRequest
      BY <1>1, RequestsMoveOn DEF LoadAccount, LoginInv, FoundFlow
  <2>2. r \in LoginRequest /\ r.at = "verify" /\ r.flow = step[s].flow /\ r.client = step[s].client
      BY <2>1 DEF LoginInv, LoginTypeOK, LoginRequest
  <2>3. /\ step' = [step EXCEPT ![s] = r]
        /\ UNCHANGED <<flows, begun, password, codes, answered, overlapped>>
      BY <1>1 DEF LoadAccount
  <2> HIDE DEF r
  <2> QED
      BY <2>1, <2>2, <2>3, StepGoesOn
<1>2. ASSUME NEW s \in STEP, VerifyAndIssue(s)
      PROVE  LoginInv'
  <2>1. CASE step[s].given # step[s].seen
      BY <1>2, <2>1, StepEnds DEF VerifyAndIssue
  <2>2. CASE step[s].given = step[s].seen
    <3> DEFINE r == [step[s] EXCEPT !.at = "finish"]
    <3>1. FoundFlow(s) /\ step[s] \in LoginRequest
        BY <1>2, RequestsMoveOn DEF VerifyAndIssue, LoginInv, FoundFlow
    <3>2. r \in LoginRequest /\ r.at = "finish" /\ r.flow = step[s].flow /\ r.client = step[s].client
        BY <3>1 DEF LoginRequest
    <3>3. /\ step' = [step EXCEPT ![s] = r]
          /\ codes' = codes \cup {[flow |-> step[s].flow, client |-> step[s].client]}
          /\ UNCHANGED <<flows, begun, password, answered, overlapped>>
        BY <1>2, <2>2 DEF VerifyAndIssue, Goto
    <3> HIDE DEF r
    <3>4. codes' \subseteq codes \cup {[flow |-> r.flow, client |-> r.client]} /\ r.at # "find"
        BY <3>2, <3>3
    <3> QED
        BY <3>1, <3>2, <3>3, <3>4, StepGoesOn
  <2> QED
      BY <2>1, <2>2
<1>3. ASSUME NEW s \in STEP, Abandon(s)
      PROVE  LoginInv'
    BY <1>3, StepEnds DEF Abandon
<1>4. ASSUME NEW p \in PASSWORD, ChangePassword(p)
      PROVE  LoginInv'
    BY <1>4 DEF ChangePassword, LoginInv, LoginTypeOK, OnlyBegunFlows, StepsAreOneClients,
                LateStepsOverlapped, CodesAreTheClients, AFlowEndsWithItsCode, FoundFlow, Busy
<1>5. CASE LoginRestart
  <2>1. (\A s \in STEP : ~Busy(s)') /\ codes' = {} /\ \A f \in FLOW : flows'[f] = NoClient
      BY <1>5 DEF LoginRestart, Busy
  <2>2. LoginTypeOK'
      BY <1>5 DEF LoginRestart, LoginInv, LoginTypeOK
  <2> QED
      BY <1>5, <2>1, <2>2 DEF LoginRestart, LoginInv, OnlyBegunFlows, StepsAreOneClients,
         LateStepsOverlapped, CodesAreTheClients, AFlowEndsWithItsCode, FoundFlow
<1>6. CASE UNCHANGED loginVars
    BY <1>6 DEF loginVars, LoginInv, LoginTypeOK, OnlyBegunFlows, StepsAreOneClients,
                LateStepsOverlapped, CodesAreTheClients, AFlowEndsWithItsCode, FoundFlow, Busy
<1> QED
    BY <1>1, <1>2, <1>3, <1>4, <1>5, <1>6, LoginFlowBegins, StepBegins, FlowIsFound, StepFinishes
       DEF LoginNext

\* However many steps work on a flow at once: it and its codes are one client's,
\* and its first answer with a code is its end (ha_auth.rs, login_flow_step).
THEOREM LoginFlowsAreOneClients == LoginSpec => []FlowsAreOneClients
<1>1. LoginInit => LoginInv
  <2> SUFFICES ASSUME LoginInit PROVE LoginInv
      OBVIOUS
  <2>1. (\A s \in STEP : ~Busy(s)) /\ codes = {}
      BY DEF LoginInit, Busy
  <2> QED
      BY <2>1, LoginFlowsAssumption
         DEF LoginInit, LoginInv, LoginTypeOK, OnlyBegunFlows, StepsAreOneClients,
             LateStepsOverlapped, CodesAreTheClients, AFlowEndsWithItsCode, FoundFlow
<1>2. LoginInv => FlowsAreOneClients
    BY DEF LoginInv, FlowsAreOneClients
<1> QED
    BY <1>1, <1>2, LoginStep, PTL DEF LoginSpec
-----------------------------------------------------------------------------
(***************************************************************************)
(* Long-lived tokens.  While no write is abandoned, cut off or failed,     *)
(* every job belongs to a request that holds a read guard, so it writes    *)
(* the list of now, and a file that is being written is either truncated   *)
(* or holds that list already.                                             *)
(***************************************************************************)
TokenRequest == [at : {"changed", "persist"}, does : {"create", "revoke"}, token : TOKEN]
TokenJob == [at : {"open", "write"}, data : SUBSET TOKEN]

TokensTypeOK ==
    /\ live \subseteq TOKEN /\ tokenFile \in (SUBSET TOKEN) \cup {Broken}
    /\ request \in [REQUEST -> TokenRequest \cup {Free}]
    /\ job \in [REQUEST -> TokenJob \cup {NoJob}]
    /\ made \subseteq TOKEN /\ kept \subseteq TOKEN /\ gone \subseteq TOKEN
    /\ disturbed \in BOOLEAN

\* A job writes the list of now, under its request's guard.
JobsAreGuarded ==
    /\ \A r \in REQUEST : /\ job[r] # NoJob <=> request[r].at = "persist"
                          /\ job[r] # NoJob => job[r].data = live
    /\ (\E r \in REQUEST : job[r].at = "write") => tokenFile \in {Broken, live}

\* A token that was revoked does not come back: ids are never used again.
RevokedIsGone ==
    /\ live \cup gone \subseteq made
    /\ tokenFile # Broken => tokenFile \subseteq made
    /\ \A r \in REQUEST :
          request[r] # Free /\ request[r].does = "revoke" => request[r].token \in made \ live

TokensInv == /\ TokensTypeOK
             /\ ~disturbed => JobsAreGuarded /\ RevokedIsGone /\ TokensAreAsAnswered

\* A request at work and a job at work are of their kinds.
LEMMA TokensAtWork ==
    ASSUME TokensTypeOK, NEW r \in REQUEST
    PROVE  /\ request[r] # Free <=> request[r] \in TokenRequest
           /\ request[r].at # "free" => request[r] \in TokenRequest
           /\ job[r] # NoJob <=> job[r] \in TokenJob
           /\ job[r].at # "none" => job[r] \in TokenJob
<1>1. (\A q \in TokenRequest : q # Free) /\ Free.at = "free"
    BY DEF TokenRequest, Free
<1>2. (\A j \in TokenJob : j # NoJob) /\ NoJob.at = "none"
    BY DEF TokenJob, NoJob
<1> QED
    BY <1>1, <1>2 DEF TokensTypeOK

\* create and revoke change the list in memory before they write.
LEMMA ListChanges ==
    ASSUME TokensInv, NEW r \in REQUEST, NEW t \in TOKEN, CreateToken(r, t) \/ RevokeToken(r, t)
    PROVE  TokensInv'
<1> PICK does \in {"create", "revoke"} :
        /\ request[r] = Free /\ job[r] = NoJob /\ Readers = {}
        /\ request' = [request EXCEPT ![r] = [at |-> "changed", does |-> does, token |-> t]]
        /\ does = "create" => /\ t \notin made /\ live' = live \cup {t} /\ made' = made \cup {t}
                              /\ kept' = kept
        /\ does = "revoke" => /\ t \in live /\ live' = live \ {t} /\ made' = made
                              /\ kept' = kept \ {t}
        /\ UNCHANGED <<tokenFile, job, gone, disturbed>>
    BY DEF CreateToken, RevokeToken
<1> DEFINE q == [at |-> "changed", does |-> does, token |-> t]
<1>1. q \in TokenRequest /\ q.at = "changed" /\ q.does = does /\ q.token = t
    BY DEF TokenRequest
<1>2. /\ TokensTypeOK /\ request' = [request EXCEPT ![r] = q]
      /\ request'[r] = q /\ \A s \in REQUEST \ {r} : request'[s] = request[s]
    BY DEF TokensInv, TokensTypeOK
<1> HIDE DEF q
<1>3. TokensTypeOK'
    BY <1>1, <1>2 DEF TokensTypeOK
<1>4. ASSUME ~disturbed
      PROVE  JobsAreGuarded' /\ RevokedIsGone' /\ TokensAreAsAnswered'
  <2>1. JobsAreGuarded /\ RevokedIsGone /\ TokensAreAsAnswered
      BY <1>4 DEF TokensInv
  <2>2. \A s \in REQUEST : job[s] = NoJob /\ request[s].at # "persist"
      BY <2>1 DEF JobsAreGuarded, Readers
  <2>3. NoJob.at # "write"
      BY DEF NoJob
  <2>4. JobsAreGuarded'
      BY <1>1, <1>2, <2>2, <2>3 DEF JobsAreGuarded
  <2>5. RevokedIsGone'
    <3>1. live' \cup gone' \subseteq made' /\ (tokenFile' # Broken => tokenFile' \subseteq made')
        BY <2>1 DEF RevokedIsGone
    <3>2. \A s \in REQUEST \ {r} : request[s] # Free /\ request[s].does = "revoke"
                                => request[s].token \in made' \ live'
        BY <2>1 DEF RevokedIsGone
    <3>3. q.does = "revoke" => q.token \in made' \ live'
        BY <1>1, <2>1 DEF RevokedIsGone
    <3> QED
        BY <1>2, <3>1, <3>2, <3>3 DEF RevokedIsGone
  <2>6. TokensAreAsAnswered'
      BY <1>4, <2>1, <2>2, <2>3 DEF TokensAreAsAnswered, RevokedIsGone
  <2> QED
      BY <2>4, <2>5, <2>6
<1> QED
    BY <1>3, <1>4 DEF TokensInv

\* persist copies the list and spawns the blocking write.
LEMMA JobStarts ==
    ASSUME TokensInv, NEW r \in REQUEST, Persist(r)
    PROVE  TokensInv'
<1> DEFINE q == [request[r] EXCEPT !.at = "persist"]
           j == [at |-> "open", data |-> live]
<1>1. TokensTypeOK /\ request[r] \in TokenRequest /\ request[r].at = "changed"
    BY TokensAtWork DEF TokensInv, Persist
<1>2. /\ q \in TokenRequest /\ q.at = "persist" /\ q.does = request[r].does /\ q.token = request[r].token
      /\ request[r] # Free
  <2>1. \A f \in TokenRequest : f # Free
      BY DEF TokenRequest, Free
  <2> QED
      BY <1>1, <2>1 DEF TokenRequest
<1>3. j \in TokenJob /\ j # NoJob /\ j.at = "open" /\ j.data = live
    BY <1>1 DEF TokenJob, NoJob, TokensTypeOK
<1>4. /\ request' = [request EXCEPT ![r] = q] /\ job' = [job EXCEPT ![r] = j]
      /\ UNCHANGED <<live, tokenFile, made, kept, gone, disturbed>>
    BY DEF Persist
<1> HIDE DEF q, j
<1>5. /\ request'[r] = q /\ \A s \in REQUEST \ {r} : request'[s] = request[s]
      /\ job'[r] = j /\ \A s \in REQUEST \ {r} : job'[s] = job[s]
    BY <1>1, <1>4 DEF TokensTypeOK
<1>6. TokensTypeOK'
    BY <1>1, <1>2, <1>3, <1>4 DEF TokensTypeOK
<1>7. ASSUME ~disturbed
      PROVE  JobsAreGuarded' /\ RevokedIsGone' /\ TokensAreAsAnswered'
  <2>1. JobsAreGuarded /\ RevokedIsGone /\ TokensAreAsAnswered
      BY <1>7 DEF TokensInv
  <2>2. job[r] = NoJob /\ NoJob.at # "write"
      BY <1>1, <2>1 DEF JobsAreGuarded, NoJob
  <2>3. \A s \in REQUEST : job'[s].at = "write" <=> job[s].at = "write"
      BY <1>3, <1>5, <2>2
  <2>4. JobsAreGuarded'
      BY <1>2, <1>3, <1>4, <1>5, <2>1, <2>3 DEF JobsAreGuarded
  <2>5. RevokedIsGone'
      BY <1>2, <1>4, <1>5, <2>1 DEF RevokedIsGone
  <2>6. TokensAreAsAnswered'
      BY <1>4, <1>7, <2>1, <2>3 DEF TokensAreAsAnswered
  <2> QED
      BY <2>4, <2>5, <2>6
<1> QED
    BY <1>4, <1>6, <1>7 DEF TokensInv

\* The blocking write opens the file, which empties it.
LEMMA JobTruncates ==
    ASSUME TokensInv, NEW r \in REQUEST, Truncate(r)
    PROVE  TokensInv'
<1> DEFINE j == [job[r] EXCEPT !.at = "write"]
<1>1. TokensTypeOK /\ job[r] \in TokenJob /\ job[r].at = "open"
    BY TokensAtWork DEF TokensInv, Truncate
<1>2. j \in TokenJob /\ j # NoJob /\ j.at = "write" /\ j.data = job[r].data /\ job[r] # NoJob
  <2>1. \A i \in TokenJob : i # NoJob
      BY DEF TokenJob, NoJob
  <2>2. j \in TokenJob /\ j.at = "write" /\ j.data = job[r].data
      BY <1>1 DEF TokenJob
  <2> QED
      BY <1>1, <2>1, <2>2
<1>3. /\ job' = [job EXCEPT ![r] = j] /\ tokenFile' = Broken
      /\ UNCHANGED <<live, request, made, kept, gone, disturbed>>
    BY DEF Truncate
<1> HIDE DEF j
<1>4. job'[r] = j /\ \A s \in REQUEST \ {r} : job'[s] = job[s]
    BY <1>1, <1>3 DEF TokensTypeOK
<1>5. TokensTypeOK'
    BY <1>1, <1>2, <1>3 DEF TokensTypeOK
<1>6. ASSUME ~disturbed
      PROVE  JobsAreGuarded' /\ RevokedIsGone' /\ TokensAreAsAnswered'
  <2>1. JobsAreGuarded /\ RevokedIsGone /\ TokensAreAsAnswered
      BY <1>6 DEF TokensInv
  <2>2. JobsAreGuarded'
      BY <1>2, <1>3, <1>4, <2>1 DEF JobsAreGuarded
  <2>3. RevokedIsGone'
      BY <1>3, <2>1 DEF RevokedIsGone
  <2>4. TokensAreAsAnswered'
      BY <1>2, <1>3, <1>4, <1>6, <2>1 DEF TokensAreAsAnswered
  <2> QED
      BY <2>2, <2>3, <2>4
<1> QED
    BY <1>3, <1>5, <1>6 DEF TokensInv

\* The blocking write ends, and the file is what the list was.
LEMMA JobWrites ==
    ASSUME TokensInv, NEW r \in REQUEST, Write(r)
    PROVE  TokensInv'
<1>1. TokensTypeOK /\ job[r] \in TokenJob /\ job[r] # NoJob /\ job[r].at = "write"
      /\ job[r].data \in SUBSET TOKEN
  <2>1. job[r] \in TokenJob /\ job[r] # NoJob
      BY TokensAtWork DEF TokensInv, Write
  <2> QED
      BY <2>1 DEF TokensInv, Write, TokenJob
<1>2. /\ job' = [job EXCEPT ![r] = NoJob] /\ tokenFile' \in {job[r].data, Broken}
      /\ tokenFile \in {Broken, job[r].data} => tokenFile' = job[r].data
      /\ UNCHANGED <<live, made, disturbed>>
    BY DEF Write
<1>3. job'[r] = NoJob /\ \A s \in REQUEST \ {r} : job'[s] = job[s]
    BY <1>1, <1>2 DEF TokensTypeOK
<1>4. CASE request[r].at # "persist"
  <2>1. UNCHANGED <<request, kept, gone>>
      BY <1>4 DEF Write
  <2>2. TokensTypeOK'
      BY <1>1, <1>2, <2>1 DEF TokensTypeOK
  <2>3. disturbed
      BY <1>1, <1>4 DEF TokensInv, JobsAreGuarded
  <2> QED
      BY <1>2, <2>2, <2>3 DEF TokensInv
<1>5. CASE request[r].at = "persist"
  <2>1. request[r] \in TokenRequest /\ request[r] # Free
      BY <1>1, <1>5, TokensAtWork
  <2>2. /\ request' = [request EXCEPT ![r] = Free]
        /\ kept' \subseteq kept \cup (live \cap {request[r].token})
        /\ gone' = IF request[r].does = "revoke" THEN gone \cup {request[r].token} ELSE gone
      BY <1>5 DEF Write
  <2>3. request[r].token \in TOKEN
      BY <2>1 DEF TokenRequest
  <2>4. request'[r] = Free /\ \A s \in REQUEST \ {r} : request'[s] = request[s]
      BY <1>1, <2>2 DEF TokensTypeOK
  <2>5. TokensTypeOK'
      BY <1>1, <1>2, <2>2, <2>3 DEF TokensTypeOK
  <2>6. ASSUME ~disturbed
        PROVE  JobsAreGuarded' /\ RevokedIsGone' /\ TokensAreAsAnswered'
    <3>1. JobsAreGuarded /\ RevokedIsGone /\ TokensAreAsAnswered
        BY <2>6 DEF TokensInv
    <3>2. job[r].data = live /\ tokenFile' = live
        BY <1>1, <1>2, <3>1 DEF JobsAreGuarded
    <3>3. Free.at # "persist" /\ NoJob.at # "write" /\ live # Broken
        BY <1>1, TokensAssumption DEF Free, NoJob, TokensTypeOK
    <3>4. JobsAreGuarded'
        BY <1>2, <1>3, <2>4, <3>1, <3>2, <3>3 DEF JobsAreGuarded
    <3>5. kept' \subseteq live /\ gone' \cap live = {} /\ gone' \subseteq made
        BY <2>1, <2>2, <2>6, <3>1 DEF TokensAreAsAnswered, RevokedIsGone
    <3>6. RevokedIsGone'
        BY <1>2, <2>4, <3>1, <3>2, <3>5 DEF RevokedIsGone
    <3>7. TokensAreAsAnswered'
        BY <1>2, <3>2, <3>3, <3>5 DEF TokensAreAsAnswered
    <3> QED
        BY <3>4, <3>6, <3>7
  <2> QED
      BY <1>2, <2>5, <2>6 DEF TokensInv
<1> QED
    BY <1>4, <1>5

\* Every step of the long-lived tokens preserves the invariant.
LEMMA TokensStep == TokensInv /\ [TokensNext]_tokenVars => TokensInv'
<1> SUFFICES ASSUME TokensInv, [TokensNext]_tokenVars
             PROVE  TokensInv'
    OBVIOUS
<1>1. ASSUME NEW r \in REQUEST, WriteFails(r) \/ Dropped(r)
      PROVE  TokensInv'
  <2>1. disturbed' = TRUE /\ TokensTypeOK
      BY <1>1 DEF WriteFails, Dropped, TokensInv
  <2>2. TokensTypeOK'
      BY <1>1, <2>1 DEF WriteFails, Dropped, TokensTypeOK
  <2> QED
      BY <2>1, <2>2 DEF TokensInv
<1>2. CASE TokensRestart
  <2>1. /\ live' = IF tokenFile = Broken THEN {} ELSE tokenFile
        /\ \A r \in REQUEST : request'[r] = Free /\ job'[r] = NoJob
        /\ UNCHANGED <<tokenFile, made, kept, gone>>
      BY <1>2 DEF TokensRestart, Load
  <2>2. disturbed' \in BOOLEAN
      BY <1>2 DEF TokensRestart
  <2>3. TokensTypeOK'
      BY <1>2, <2>1, <2>2 DEF TokensRestart, TokensInv, TokensTypeOK
  <2>4. ASSUME ~disturbed'
        PROVE  JobsAreGuarded' /\ RevokedIsGone' /\ TokensAreAsAnswered'
    <3>1. ~disturbed /\ \A r \in REQUEST : job[r].at # "write"
        BY <1>2, <2>4 DEF TokensRestart
    <3>2. JobsAreGuarded /\ RevokedIsGone /\ TokensAreAsAnswered
        BY <3>1 DEF TokensInv
    <3>3. Free.at # "persist" /\ NoJob.at # "write"
        BY DEF Free, NoJob
    <3>4. live' = tokenFile /\ tokenFile # Broken /\ gone \cap tokenFile = {} /\ kept \subseteq tokenFile
        BY <2>1, <3>1, <3>2 DEF TokensAreAsAnswered
    <3>5. JobsAreGuarded'
        BY <2>1, <3>3 DEF JobsAreGuarded
    <3>6. RevokedIsGone'
        BY <2>1, <3>2, <3>4 DEF RevokedIsGone
    <3>7. TokensAreAsAnswered'
        BY <2>1, <3>4 DEF TokensAreAsAnswered
    <3> QED
        BY <3>5, <3>6, <3>7
  <2> QED
      BY <2>3, <2>4 DEF TokensInv
<1>3. CASE UNCHANGED tokenVars
    BY <1>3 DEF tokenVars, TokensInv, TokensTypeOK, JobsAreGuarded, RevokedIsGone, TokensAreAsAnswered
<1> QED
    BY <1>1, <1>2, <1>3, ListChanges, JobStarts, JobTruncates, JobWrites
       DEF TokensNext, ApiTokenCreate, ApiTokenRevoke

\* However many forms are sent at once and whenever the process starts again,
\* unless a write was abandoned, cut off or failed: the tokens in memory and in
\* the file are those that were answered (long_lived_token_store.rs, create,
\* revoke and persist).
THEOREM LongLivedTokensAreKept == TokensSpec => []TokensAreAsAnswered
<1>1. TokensInit => TokensInv
  <2> SUFFICES ASSUME TokensInit PROVE TokensInv
      OBVIOUS
  <2>1. Free.at # "persist" /\ NoJob.at # "write" /\ {} # Broken
      BY TokensAssumption DEF Free, NoJob
  <2>2. \A r \in REQUEST : request[r] = Free /\ job[r] = NoJob
      BY DEF TokensInit
  <2>3. TokensTypeOK
      BY DEF TokensInit, TokensTypeOK
  <2> QED
      BY <2>1, <2>2, <2>3 DEF TokensInit, TokensInv, JobsAreGuarded, RevokedIsGone, TokensAreAsAnswered
<1>2. TokensInv => TokensAreAsAnswered
    BY DEF TokensInv, TokensAreAsAnswered
<1> QED
    BY <1>1, <1>2, TokensStep, PTL DEF TokensSpec
===============================================================================
