------------------------------- MODULE Overview --------------------------------
(***************************************************************************)
(* The cards of the overview and of the area pages (http.rs): one view per *)
(* entity, of a mobile app (entity_to_view) or of a Zigbee device          *)
(* (zigbee_integration.rs, entity_view_for), grouped by area.  Functions   *)
(* of the registries and the states, with the areas of Places; icons,      *)
(* colours and the other attributes a view copies are left out.            *)
(*                                                                         *)
(* What the stores hold is one record, which changes as a whole:          *)
(*   mobile    sequence of entities [id, type, class, name, area, off];    *)
(*             two may have one id, which is made of a slug                *)
(*   zigbee    the same, with the field device                             *)
(*   devices   Zigbee device |-> [name, area]                              *)
(*   states    entity id |-> value; an entity without a state is missing   *)
(***************************************************************************)
EXTENDS Places

CONSTANTS
    NAME,          \* names of areas, devices and entities
    Alphabet,      \* pairs of names, the first before the second
    HOMES          \* what the stores may hold

ASSUME OverviewAssumption ==
    /\ AREANAME \cup {"Unassigned"} \subseteq NAME /\ TotallyOrders(Alphabet, NAME)
    /\ None \notin AREANAME \X Nat
    /\ \A h \in HOMES :
          /\ h.mobile \in Seq(ToSet(h.mobile)) /\ h.zigbee \in Seq(ToSet(h.zigbee))
          /\ \A e \in ToSet(h.mobile) \cup ToSet(h.zigbee) : e.name \in NAME /\ e.off \in BOOLEAN
          /\ \A d \in DOMAIN h.devices : h.devices[d].name \in NAME
          /\ \A id \in DOMAIN h.states : h.states[id] # None

VARIABLE home      \* what the stores hold, the areas apart

Values(e) == IF e \in DOMAIN home.states THEN home.states[e] ELSE "unavailable"
Unavailable(value) == value \in {"unavailable", "unknown"}

\* entity_to_view.
MobileView(e) ==
    LET value == Values(e.id)
    IN  [id |-> e.id, type |-> e.type, class |-> e.class, name |-> e.name,
         area |-> e.area, off |-> e.off, value |-> value,
         unavailable |-> Unavailable(value), device |-> None]

\* Mutant: an entity does not follow its device into an area.
ZigbeeViewAlone(e) ==
    LET value == Values(e.id)
        known == e.device \in DOMAIN home.devices
    IN  [id |-> e.id, type |-> e.type, class |-> e.class, name |-> e.name,
         area |-> e.area, off |-> e.off, value |-> value,
         unavailable |-> Unavailable(value),
         device |-> IF known THEN home.devices[e.device].name ELSE None]

\* entity_view_for; without an area of its own an entity is in its device's.
ZigbeeView(e) ==
    LET value == Values(e.id)
        known == e.device \in DOMAIN home.devices
    IN  [id |-> e.id, type |-> e.type, class |-> e.class, name |-> e.name,
         area |-> IF e.area = None /\ known THEN home.devices[e.device].area ELSE e.area,
         off |-> e.off, value |-> value,
         unavailable |-> Unavailable(value),
         device |-> IF known THEN home.devices[e.device].name ELSE None]

\* collect_all_entity_views.
AllViews ==
    [i \in DOMAIN home.mobile |-> MobileView(home.mobile[i])] \o
    [i \in DOMAIN home.zigbee |-> ZigbeeView(home.zigbee[i])]

\* The name of the card a view goes to: of two areas with one id the last.
AreaName(area) ==
    LET found == {i \in DOMAIN areas : areas[i].id = area}
    IN  IF found = {} THEN "Unassigned"
        ELSE areas[CHOOSE i \in found : \A j \in found : j <= i].name
CardOf(view) ==
    IF view.area # None THEN AreaName(view.area)
    ELSE IF view.device # None THEN view.device ELSE "Unassigned"

Order == <<"light", "switch", "climate", "cover", "lock", "fan", "media_player",
           "binary_sensor", "sensor">>
DomainSortKey(type) ==
    IF type \in {Order[i] : i \in DOMAIN Order}
    THEN CHOOSE i \in DOMAIN Order : Order[i] = type ELSE Len(Order) + 1

\* By domain, then by name; sort_by is stable, so that entities of one domain
\* and name stay as they were.
ComesBefore(views, i, j) ==
    LET a == DomainSortKey(views[i].type)
        b == DomainSortKey(views[j].type)
    IN  \/ a < b
        \/ a = b /\ <<views[i].name, views[j].name>> \in Alphabet
        \/ a = b /\ views[i].name = views[j].name /\ i < j
SortedViews(views) ==
    LET I == DOMAIN views
        order == Sorted(I, {p \in I \X I : ComesBefore(views, p[1], p[2])})
    IN  [i \in I |-> views[order[i]]]

\* The badge of a card: the first reading of its class that is there.
Badge(views, class) ==
    LET found == {i \in DOMAIN views : /\ views[i].type = "sensor"
                                       /\ views[i].class = class
                                       /\ ~views[i].unavailable}
    IN  IF found = {} THEN None
        ELSE views[CHOOSE i \in found : \A j \in found : i <= j].value
On(views, type) ==
    Cardinality({i \in DOMAIN views : views[i].type = type /\ views[i].value = "on"})

Card(name, views) ==
    [name |-> name, entities |-> SortedViews(views),
     temperature |-> Badge(views, "temperature"), humidity |-> Badge(views, "humidity"),
     lights |-> On(views, "light"), switches |-> On(views, "switch")]

\* The views that go to the card of this name: none that is disabled.
OnCard(name, views) == {i \in DOMAIN views : ~views[i].off /\ CardOf(views[i]) = name}

\* build_area_cards: "Unassigned" is the last card.
CardNames(views) == {CardOf(views[i]) : i \in {j \in DOMAIN views : ~views[j].off}}
CardsBefore(names) == {p \in names \X names :
                        /\ p[1] # "Unassigned"
                        /\ p[2] = "Unassigned" \/ p \in Alphabet}
AreaCards(views) ==
    LET names == CardNames(views)
        order == Sorted(names, CardsBefore(names))
    IN  [c \in DOMAIN order |-> Card(order[c], Pick(views, OnCard(order[c], views)))]

\* area_detail_page: the cards with the area's name.
AreaPage(area, views) ==
    LET cards == AreaCards(views)
    IN  Pick(cards, {c \in DOMAIN cards : cards[c].name = area.name})

\* fetch_entity_view: the details of one entity, the apps' first; its device
\* and area are left out there.
EntityDetails(id) ==
    LET mobile == {i \in DOMAIN home.mobile : home.mobile[i].id = id}
        zigbee == {i \in DOMAIN home.zigbee : home.zigbee[i].id = id}
        first(S) == CHOOSE i \in S : \A j \in S : i <= j
    IN  IF mobile # {} THEN MobileView(home.mobile[first(mobile)])
        ELSE IF zigbee # {}
        THEN ZigbeeView(home.zigbee[first(zigbee)])
        ELSE None

\* Areas are made, renamed and deleted, and the stores come to hold anything.
OverviewInit == PlacesInit /\ home \in HOMES
OverviewNext ==
    /\ home' \in HOMES
    /\ \/ ZonesNext \/ AreasNext \/ UNCHANGED places
       \/ areas' = Seeded(areas) /\ UNCHANGED zones
OverviewSpec == OverviewInit /\ [][OverviewNext]_<<places, home>>

(***************************************************************************)
(* Properties.                                                             *)
(***************************************************************************)
\* What is shown in which place: the card, the position on it and the view.
OnOne(c, card) == {<<c, i, card.entities[i]>> : i \in DOMAIN card.entities}
Shown(cards) == UNION {OnOne(c, cards[c]) : c \in DOMAIN cards}

\* A badge is a reading of its class on the card, and missing only if there is none.
BadgeIsOf(badge, entities, class) ==
    LET readings == {v \in ToSet(entities) : /\ v.type = "sensor" /\ v.class = class
                                              /\ ~v.unavailable}
    IN  IF badge = None THEN readings = {} ELSE \E v \in readings : v.value = badge

CardIsRight(card) ==
    LET on(type) == {i \in DOMAIN card.entities : /\ card.entities[i].type = type
                                                   /\ card.entities[i].value = "on"}
    IN  /\ BadgeIsOf(card.temperature, card.entities, "temperature")
        /\ BadgeIsOf(card.humidity, card.entities, "humidity")
        /\ card.lights = Cardinality(on("light"))
        /\ card.switches = Cardinality(on("switch"))

\* Cards are in the order of their names, "Unassigned" at the end, and what is on
\* one is in the order of the domains and of the names (http.rs,
\* build_area_cards and domain_sort_key).
InOrder(entities) ==
    \A i, j \in DOMAIN entities : i < j =>
        LET a == entities[i]
            b == entities[j]
        IN  \/ DomainSortKey(a.type) < DomainSortKey(b.type)
            \/ /\ DomainSortKey(a.type) = DomainSortKey(b.type)
               /\ a.name = b.name \/ <<a.name, b.name>> \in Alphabet
CardsAreInOrder ==
    LET cards == AreaCards(AllViews)
    IN  /\ \A c, d \in DOMAIN cards : c < d => \/ cards[d].name = "Unassigned"
                                               \/ <<cards[c].name, cards[d].name>> \in Alphabet
        /\ \A c \in DOMAIN cards : InOrder(cards[c].entities)

\* Whatever areas were made, renamed and deleted since entities were put into
\* them: each enabled entity is in one place of the cards (entities of one look,
\* together, in as many places as they are), a disabled one in none, the cards'
\* badges and counts are of what is on them, and no two cards have one name
\* (http.rs, build_area_cards).
OverviewIsComplete ==
    LET views == AllViews
        cards == AreaCards(views)
        shown == Shown(cards)
        at(v) == {p \in shown : p[3] = v}
        alike(v) == {i \in DOMAIN views : views[i] = v}
    IN  /\ \A i \in DOMAIN views :
              Cardinality(at(views[i])) = IF views[i].off THEN 0 ELSE Cardinality(alike(views[i]))
        /\ \A c, d \in DOMAIN cards : cards[c].name = cards[d].name => c = d
        /\ \A c \in DOMAIN cards : CardIsRight(cards[c])

\* The page of an area shows the enabled entities that are in it, a Zigbee
\* entity also when its device is and it is in no area itself; and an entity
\* shows there what its details show (http.rs, area_detail_page,
\* collect_all_entity_views and fetch_entity_view).
AreaPagesAreComplete ==
    \A a \in DOMAIN areas :
        LET page == Shown(AreaPage(areas[a], AllViews))
            on(id) == \E p \in page : p[3].id = id /\ p[3].value = EntityDetails(id).value
            within(e) == ~e.off /\ e.area = areas[a].id
            moved(e) == /\ ~e.off /\ e.area = None /\ e.device \in DOMAIN home.devices
                        /\ home.devices[e.device].area = areas[a].id
        IN  /\ \A i \in DOMAIN home.mobile : within(home.mobile[i]) => on(home.mobile[i].id)
            /\ \A i \in DOMAIN home.zigbee :
                  within(home.zigbee[i]) \/ moved(home.zigbee[i]) => on(home.zigbee[i].id)

\* No entity is lost from the dashboard or shown twice on it, it is in order, and
\* the pages agree with each other (http.rs, build_area_cards, area_detail_page).
DashboardIsComplete == OverviewIsComplete /\ CardsAreInOrder /\ AreaPagesAreComplete
===============================================================================
