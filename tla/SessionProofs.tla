----------------------------- MODULE SessionProofs -----------------------------
(***************************************************************************)
(* Proofs about WsSessions: the store of the states and its events, and    *)
(* what its listeners make of them.                                        *)
(*                                                                         *)
(* A service call is a run over its targets, whose stores StateStore's set *)
(* makes one after the other; what holds of a store (SoundStore) holds of  *)
(* all of them, by induction over the targets, and so does which of the    *)
(* targets a call has written (Wrote).  A listener's part is said          *)
(* of one task at a time: the messages on their way to its client are in   *)
(* order and not ahead of the task (InLine), and together with what the    *)
(* client was told and what was lost they are all events there were since  *)
(* the subscription (Follows).  A step touches one task, or only adds      *)
(* events at the end of the channel.                                       *)
(***************************************************************************)
EXTENDS WsSessions, ListLemmas

EventRecord == [entity : ENTITY, new : StateRecord, old : StateRecord \cup {None}]
-----------------------------------------------------------------------------
(* The store and its events. *)

EventsIn(b, e) == {n \in DOMAIN b : b[n].entity = e}

(* k is the largest member of S. *)
IsLast(S, k) == k \in S /\ \A j \in S : j <= k

(* v is the state of e before event n: that of the event before it, or none. *)
Says(b, gone, e, n, v) ==
    \/ /\ v = None
       /\ \A k \in EventsIn(b, e) : k < n => \E j \in k..(n - 1) : <<e, j>> \in gone
    \/ \E k \in EventsIn(b, e) :
          /\ k < n /\ v = b[k].new
          /\ \A j \in EventsIn(b, e) : j < n => j <= k
          /\ \A j \in k..(n - 1) : <<e, j>> \notin gone

(* The events at which the value of e became another one. *)
Turns(b, e) == {n \in EventsIn(b, e) : b[n].old = None \/ b[n].old.value # b[n].new.value}

StoreRecord == [states : [ENTITY -> StateRecord \cup {None}], bus : Seq(EventRecord)]

SoundStore(store, gone) ==
    /\ store \in StoreRecord
    /\ gone \subseteq ENTITY \X (0..Len(store.bus))
    /\ \A e \in ENTITY : Says(store.bus, gone, e, Len(store.bus) + 1, store.states[e])
    /\ \A n \in DOMAIN store.bus :
          Says(store.bus, gone, store.bus[n].entity, n, store.bus[n].old)
    /\ \A e \in ENTITY : store.states[e] # None =>
          IsLast(Turns(store.bus, e), store.states[e].changed)

(* c goes on where b ends. *)
Extends(b, c) ==
    /\ b \in Seq(EventRecord) /\ c \in Seq(EventRecord) /\ Len(b) <= Len(c)
    /\ \A n \in 1..Len(b) : c[n] = b[n]

\* The largest of some numbers is the one Latest chooses.
LEMMA LatestIsLast ==
    ASSUME NEW S \in SUBSET Nat, NEW k, IsLast(S, k)
    PROVE  Latest(S) = k
<1>1. \E n \in S : \A j \in S : j <= n
    BY DEF IsLast
<1>2. Latest(S) \in S /\ \A j \in S : j <= Latest(S)
    BY <1>1 DEF Latest
<1> DEFINE l == Latest(S)
<1>3. l \in Nat /\ k \in Nat /\ l <= k /\ k <= l
    BY <1>2 DEF IsLast
<1> HIDE DEF l
<1>4. l = k
    BY <1>3
<1> QED
    BY <1>4 DEF l

\* Of finitely many numbers, not none, there is a largest.
LEMMA LastExists ==
    ASSUME NEW N \in Nat, NEW S \in SUBSET 1..N, S # {}
    PROVE  IsLast(S, Latest(S)) /\ Latest(S) \in 1..N
<1> DEFINE T == {N - k : k \in S}
<1>1. T \in SUBSET Nat /\ T # {}
    OBVIOUS
<1>2. PICK i \in T : \A j \in T : i <= j
  <2> HIDE DEF T
  <2> QED
      BY <1>1, SmallestExists
<1>3. PICK k \in S : i = N - k
    OBVIOUS
<1>4. \A j \in S : j <= k
  <2> TAKE j \in S
  <2>1. N - j \in T
      OBVIOUS
  <2>2. N - k <= N - j
      BY <1>2, <1>3, <2>1
  <2>3. j \in Nat /\ k \in Nat
      OBVIOUS
  <2> QED
      BY <2>2, <2>3
<1>5. IsLast(S, k)
    BY <1>4 DEF IsLast
<1>6. Latest(S) = k
    BY <1>5, LatestIsLast
<1> QED
    BY <1>5, <1>6

\* What Says says is what StateBefore computes.
LEMMA SaysStateBefore ==
    ASSUME bus \in Seq(EventRecord), NEW e \in ENTITY, NEW n \in 1..(Len(bus) + 1), NEW v,
           Says(bus, removed, e, n, v)
    PROVE  v = StateBefore(e, n)
<1> DEFINE before == {k \in EventsOf(e) : k < n}
<1>1. EventsOf(e) = EventsIn(bus, e) /\ before \in SUBSET 1..Len(bus) /\ Len(bus) \in Nat
    BY DEF EventsOf, EventsIn
<1>2. StateBefore(e, n) = IF \/ before = {}
                             \/ \E k \in Latest(before)..(n - 1) : <<e, k>> \in removed
                          THEN None ELSE bus[Latest(before)].new
    BY DEF StateBefore
<1>3. before # {} => IsLast(before, Latest(before)) /\ Latest(before) \in before
  <2> HIDE DEF before
  <2> QED
      BY <1>1, LastExists DEF IsLast
<1>4. CASE /\ v = None
           /\ \A k \in EventsIn(bus, e) : k < n => \E j \in k..(n - 1) : <<e, j>> \in removed
  <2>1. before # {} => \E j \in Latest(before)..(n - 1) : <<e, j>> \in removed
      BY <1>1, <1>3, <1>4
  <2> QED
      BY <1>2, <1>4, <2>1
<1>5. ASSUME NEW k \in EventsIn(bus, e),
             /\ k < n /\ v = bus[k].new
             /\ \A j \in EventsIn(bus, e) : j < n => j <= k
             /\ \A j \in k..(n - 1) : <<e, j>> \notin removed
      PROVE  v = StateBefore(e, n)
  <2>1. IsLast(before, k) /\ before # {}
      BY <1>1, <1>5 DEF IsLast
  <2>2. Latest(before) = k
    <3>1. before \in SUBSET Nat
        BY <1>1
    <3> HIDE DEF before
    <3> QED
        BY <2>1, <3>1, LatestIsLast
  <2> HIDE DEF before
  <2> QED
      BY <1>2, <1>5, <2>1, <2>2
<1> QED
    BY <1>4, <1>5 DEF Says

\* Events added at the end, and removals from there on, change nothing before.
LEMMA SaysStays ==
    ASSUME NEW b, NEW c, Extends(b, c), NEW gone, NEW more, gone \subseteq more,
           NEW e, NEW n \in 1..(Len(b) + 1),
           \A j \in 0..(n - 1) : <<e, j>> \in more => <<e, j>> \in gone,
           NEW v, Says(b, gone, e, n, v)
    PROVE  Says(c, more, e, n, v)
<1>1. /\ Len(b) \in Nat /\ Len(c) \in Nat /\ Len(b) <= Len(c)
      /\ DOMAIN b = 1..Len(b) /\ DOMAIN c = 1..Len(c)
      /\ \A k \in 1..Len(b) : c[k] = b[k]
    BY DEF Extends
<1>2. \A k \in EventsIn(c, e) : k < n => k \in EventsIn(b, e)
    BY <1>1 DEF EventsIn
<1>3. \A k \in EventsIn(b, e) : k \in EventsIn(c, e) /\ c[k] = b[k] /\ k \in Nat
    BY <1>1 DEF EventsIn
<1>4. \A k \in Nat : \A j \in k..(n - 1) : j \in 0..(n - 1)
    OBVIOUS
<1>5. CASE /\ v = None
           /\ \A k \in EventsIn(b, e) : k < n => \E j \in k..(n - 1) : <<e, j>> \in gone
    BY <1>2, <1>5 DEF Says
<1>6. ASSUME NEW k \in EventsIn(b, e),
             /\ k < n /\ v = b[k].new
             /\ \A j \in EventsIn(b, e) : j < n => j <= k
             /\ \A j \in k..(n - 1) : <<e, j>> \notin gone
      PROVE  Says(c, more, e, n, v)
  <2>1. \A j \in k..(n - 1) : <<e, j>> \notin more
      BY <1>3, <1>4, <1>6
  <2> QED
      BY <1>2, <1>3, <1>6, <2>1 DEF Says
<1> QED
    BY <1>5, <1>6 DEF Says

\* What set appends and puts in place is as sound as what was there, whatever
\* the value (StateStore::set).
LEMMA SetKeeps ==
    ASSUME NEW store, NEW gone, SoundStore(store, gone), NEW e \in ENTITY,
           NEW value \in Texts, NEW attrs \in Attributes
    PROVE  LET s == Set(store, e, value, attrs, Now(store))
           IN  SoundStore(s, gone) /\ Extends(store.bus, s.bus)
<1> DEFINE old == store.states[e]
           kept == old # None /\ old.value = value
           N == Len(store.bus)
           at == IF kept THEN old.changed ELSE N + 1
           new == [value |-> value, attrs |-> attrs, changed |-> at]
           event == [entity |-> e, new |-> new, old |-> old]
           b == store.bus
           c == Append(b, event)
           m == [store.states EXCEPT ![e] = new]
           s == Set(store, e, value, attrs, Now(store))
<1>1. /\ store.states \in [ENTITY -> StateRecord \cup {None}] /\ b \in Seq(EventRecord)
      /\ N \in Nat /\ N + 1 \in Nat
    BY DEF SoundStore, StoreRecord
<1>2. s = [states |-> m, bus |-> c]
    BY DEF Set, Now
<1>3. old \in StateRecord \cup {None} /\ (old # None => old \in StateRecord)
    BY <1>1
<1>4. at \in Nat
    BY <1>1, <1>3 DEF StateRecord
<1>5. new \in StateRecord /\ new # None /\ new.changed = at /\ new.value = value
  <2>1. new \in StateRecord
      BY <1>4 DEF StateRecord
  <2> HIDE DEF at
  <2> QED
      BY <2>1, NoneAssumption
<1> HIDE DEF at
<1> HIDE DEF new
<1>6. event \in EventRecord /\ event.entity = e /\ event.new = new /\ event.old = old
    BY <1>3, <1>5 DEF EventRecord
<1>7. m \in [ENTITY -> StateRecord \cup {None}] /\ m[e] = new /\ \A f \in ENTITY : f # e => m[f] = store.states[f]
    BY <1>1, <1>5
<1> HIDE DEF event, m
<1>8. /\ c \in Seq(EventRecord) /\ Len(c) = N + 1 /\ DOMAIN c = 1..(N + 1) /\ DOMAIN b = 1..N
      /\ c[N + 1] = event /\ \A n \in 1..N : c[n] = b[n]
    BY <1>1, <1>6
<1> HIDE DEF c
<1>9. Extends(b, c)
    BY <1>1, <1>8 DEF Extends
<1>10. gone \subseteq ENTITY \X (0..N) /\ gone \subseteq ENTITY \X (0..(N + 1))
  <2>1. gone \subseteq ENTITY \X (0..N)
      BY DEF SoundStore
  <2>2. 0..N \subseteq 0..(N + 1)
      BY <1>1
  <2> QED
      BY <2>1, <2>2
<1>11. N + 2 \in Nat /\ N + 1 + 1 = N + 2 /\ N + 2 - 1 = N + 1
    BY <1>1
<1>12. \A f \in ENTITY : Says(c, gone, f, N + 2, m[f])
  <2>1. Says(c, gone, e, N + 2, m[e])
    <3>1. N + 1 \in EventsIn(c, e) /\ \A j \in EventsIn(c, e) : j <= N + 1
        BY <1>1, <1>6, <1>8 DEF EventsIn
    <3>2. \A j \in (N + 1)..(N + 1) : <<e, j>> \notin gone
        BY <1>1, <1>10
    <3>3. c[N + 1].new = m[e] /\ N + 1 < N + 2
        BY <1>1, <1>6, <1>7, <1>8
    <3> QED
        BY <1>11, <3>1, <3>2, <3>3 DEF Says
  <2>2. ASSUME NEW f \in ENTITY, f # e
        PROVE  Says(c, gone, f, N + 2, m[f])
    <3>1. Says(b, gone, f, N + 1, m[f])
        BY <1>7, <2>2 DEF SoundStore
    <3>2. Says(c, gone, f, N + 1, m[f])
        BY <1>1, <1>9, <3>1, SaysStays
    <3>3. EventsIn(c, f) \subseteq 1..N
        BY <1>1, <1>6, <1>8, <2>2 DEF EventsIn
    <3>4. \A k \in 1..N : k < N + 1 /\ k < N + 2
        BY <1>1
    <3>5. CASE /\ m[f] = None
               /\ \A k \in EventsIn(c, f) : k < N + 1 => \E j \in k..(N + 1 - 1) : <<f, j>> \in gone
      <4>1. \A k \in 1..N : \A j \in k..(N + 1 - 1) : j \in k..(N + 2 - 1)
          BY <1>1
      <4> QED
          BY <3>3, <3>4, <3>5, <4>1 DEF Says
    <3>6. ASSUME NEW k \in EventsIn(c, f),
                 /\ k < N + 1 /\ m[f] = c[k].new
                 /\ \A j \in EventsIn(c, f) : j < N + 1 => j <= k
                 /\ \A j \in k..(N + 1 - 1) : <<f, j>> \notin gone
          PROVE  Says(c, gone, f, N + 2, m[f])
      <4>1. \A j \in k..(N + 2 - 1) : j \in k..(N + 1 - 1) \/ j = N + 1
          BY <1>1, <3>3
      <4>2. <<f, N + 1>> \notin gone
          BY <1>1, <1>10
      <4> QED
          BY <3>3, <3>4, <3>6, <4>1, <4>2 DEF Says
    <3> QED
        BY <3>2, <3>5, <3>6 DEF Says
  <2> QED
      BY <2>1, <2>2
<1>13. \A n \in DOMAIN c : Says(c, gone, c[n].entity, n, c[n].old)
  <2>1. ASSUME NEW n \in 1..N
        PROVE  Says(c, gone, c[n].entity, n, c[n].old)
    <3>1. Says(b, gone, b[n].entity, n, b[n].old) /\ c[n] = b[n] /\ n \in 1..(N + 1)
        BY <1>1, <1>8, SMTT(30) DEF SoundStore
    <3> QED
        BY <1>9, <3>1, SaysStays
  <2>2. Says(c, gone, e, N + 1, old)
    <3>1. Says(b, gone, e, N + 1, old) /\ N + 1 \in 1..(N + 1)
        BY <1>1 DEF SoundStore
    <3> HIDE DEF old
    <3> QED
        BY <1>9, <3>1, SaysStays
  <2>3. \A n \in DOMAIN c : n \in 1..N \/ n = N + 1
      BY <1>1, <1>8
  <2> HIDE DEF old
  <2> QED
      BY <1>6, <1>8, <2>1, <2>2, <2>3
<1>14. ASSUME NEW f \in ENTITY, m[f] # None
       PROVE  IsLast(Turns(c, f), m[f].changed)
  <2>1. \A n \in 1..N : n \in Turns(c, f) <=> n \in Turns(b, f)
      BY <1>8 DEF Turns, EventsIn
  <2>2. Turns(c, f) \subseteq 1..(N + 1) /\ Turns(b, f) \subseteq 1..N
      BY <1>8 DEF Turns, EventsIn
  <2>3. N + 1 \in Turns(c, f) <=> f = e /\ (old = None \/ old.value # value)
      BY <1>1, <1>5, <1>6, <1>8 DEF Turns, EventsIn
  <2>4. \A j \in 1..(N + 1) : j \in 1..N \/ j = N + 1
      BY <1>1
  <2>5. CASE f = e /\ ~kept
    <3>1. at = N + 1
        BY <2>5 DEF at
    <3>2. \A j \in 1..(N + 1) : j <= N + 1
        BY <1>1
    <3> QED
        BY <1>5, <1>7, <2>2, <2>3, <2>5, <3>1, <3>2 DEF IsLast
  <2>6. CASE f # e \/ kept
    <3>1. Turns(c, f) = Turns(b, f)
        BY <2>1, <2>2, <2>3, <2>4, <2>6
    <3>2. store.states[f] # None /\ m[f].changed = store.states[f].changed
      <4>1. CASE f = e
          BY <1>5, <1>7, <2>6, <4>1 DEF at
      <4>2. CASE f # e
          BY <1>7, <1>14, <4>2
      <4> QED
          BY <4>1, <4>2
    <3>3. IsLast(Turns(b, f), store.states[f].changed)
        BY <3>2 DEF SoundStore
    <3> QED
        BY <3>1, <3>2, <3>3
  <2> QED
      BY <2>5, <2>6
<1>15. SoundStore([states |-> m, bus |-> c], gone)
  <2> DEFINE r == [states |-> m, bus |-> c]
  <2>1. r.states = m /\ r.bus = c /\ r \in StoreRecord
      BY <1>7, <1>8 DEF StoreRecord
  <2> HIDE DEF r
  <2>2. Len(r.bus) = N + 1 /\ Len(r.bus) + 1 = N + 2
      BY <1>8, <1>11, <2>1
  <2>3. gone \subseteq ENTITY \X (0..Len(r.bus))
      BY <1>10, <2>2
  <2>4. \A f \in ENTITY : Says(r.bus, gone, f, Len(r.bus) + 1, r.states[f])
      BY <1>12, <2>1, <2>2
  <2>5. \A n \in DOMAIN r.bus : Says(r.bus, gone, r.bus[n].entity, n, r.bus[n].old)
      BY <1>13, <2>1
  <2>6. \A f \in ENTITY : r.states[f] # None => IsLast(Turns(r.bus, f), r.states[f].changed)
      BY <1>14, <2>1
  <2>7. SoundStore(r, gone)
      BY <2>1, <2>3, <2>4, <2>5, <2>6 DEF SoundStore
  <2> QED
      BY <2>7 DEF r
<1> QED
    BY <1>2, <1>9, <1>15

\* What goes on where something ends that goes on ...
LEMMA ExtendsOn ==
    ASSUME NEW a, NEW b, NEW c, Extends(a, b), Extends(b, c)
    PROVE  Extends(a, c)
<1>1. /\ Len(a) \in Nat /\ Len(b) \in Nat /\ Len(c) \in Nat
      /\ \A n \in 1..Len(a) : n \in 1..Len(b)
    BY DEF Extends
<1> QED
    BY <1>1 DEF Extends

\* A channel nothing was sent to since is such a channel.
LEMMA ExtendsItself ==
    ASSUME NEW b \in Seq(EventRecord) PROVE Extends(b, b)
<1>1. Len(b) \in Nat
    OBVIOUS
<1> QED
    BY <1>1 DEF Extends

(* The fields of a call's data are of the kinds that states are made of. *)
DataIsTyped(data) ==
    /\ \A f \in {"option", "hvac_mode"} \cap DOMAIN data : data[f] \in Texts
    /\ \A f \in Numbers \cap DOMAIN data : data[f] \in Settings

\* What ServiceData::from_json keeps of the fields, and of their values.
LEMMA ParsedIs ==
    ASSUME NEW data
    PROVE  /\ DOMAIN Parsed(data) = FieldsRead(data) /\ FieldsRead(data) \subseteq DOMAIN data
           /\ \A f \in FieldsRead(data) :
                 Parsed(data)[f] = IF f \in Percentages /\ data[f] > 100 THEN 100 ELSE data[f]
           /\ \A f \in {"option", "hvac_mode"} :
                 /\ f \in DOMAIN Parsed(data) <=> f \in DOMAIN data
                 /\ f \in DOMAIN data => Parsed(data)[f] = data[f]
<1>1. DOMAIN Parsed(data) = FieldsRead(data) /\ FieldsRead(data) \subseteq DOMAIN data
    BY DEF Parsed, FieldsRead
<1>2. \A f \in FieldsRead(data) :
          Parsed(data)[f] = IF f \in Percentages /\ data[f] > 100 THEN 100 ELSE data[f]
    BY DEF Parsed, FieldsRead
<1>3. ASSUME NEW f \in {"option", "hvac_mode"}
      PROVE  f \notin Percentages /\ (f \in FieldsRead(data) <=> f \in DOMAIN data)
    BY DEF FieldsRead, IsRead, Percentages
<1> QED
    BY <1>1, <1>2, <1>3

\* What ServiceData::from_json makes of a call's data is of those kinds.
LEMMA ParsedIsTyped ==
    ASSUME NEW call \in CALL
    PROVE  DataIsTyped(Parsed(call.data))
<1> DEFINE d == call.data
<1>1. DOMAIN Parsed(d) \subseteq DOMAIN d
    BY ParsedIs
<1>2. ASSUME NEW f \in DOMAIN Parsed(d)
      PROVE  d[f] \in Given(f) /\ Parsed(d)[f] \in {100, d[f]}
             /\ (f \notin Percentages => Parsed(d)[f] = d[f])
  <2>1. d[f] \in Given(f)
      BY <1>1, <1>2 DEF Given
  <2>2. Parsed(d)[f] = IF f \in Percentages /\ d[f] > 100 THEN 100 ELSE d[f]
      BY <1>2, ParsedIs
  <2> QED
      BY <2>1, <2>2
<1> HIDE DEF d
<1>3. ASSUME NEW f \in {"option", "hvac_mode"} \cap DOMAIN Parsed(d)
      PROVE  Parsed(d)[f] \in Texts
  <2>1. f \notin Percentages
      BY <1>3 DEF Percentages
  <2> QED
      BY <1>2, <1>3, <2>1 DEF Texts
<1>4. ASSUME NEW f \in Numbers \cap DOMAIN Parsed(d)
      PROVE  Parsed(d)[f] \in Settings
    BY <1>2, <1>4 DEF Settings
<1> QED
    BY <1>3, <1>4 DEF DataIsTyped, d

\* A service that has the fields it needs knows a value for every target.
LEMMA NewValueIsText ==
    ASSUME NEW service \in SERVICE, service # "cover.stop_cover",
           NEW data, DataIsTyped(data), NeededFields(service) \subseteq DOMAIN data,
           NEW m \in [ENTITY -> StateRecord \cup {None}], NEW e, NEW was
    PROVE  NewValue(service, data, was, m, e) \in Texts
<1>1. {"on", "off", "open", "closed"} \subseteq Texts
    BY DEF Texts
<1>2. \A v \in {"on", "off"} : ValueOf(m, e, v) \in Texts
  <2> TAKE v \in {"on", "off"}
  <2>1. CASE Get(m, e) = None
      BY <1>1, <2>1 DEF ValueOf
  <2>2. CASE Get(m, e) # None
    <3>1. m[e] \in StateRecord
        BY <2>2 DEF Get
    <3> QED
        BY <2>2, <3>1 DEF ValueOf, StateRecord
  <2> QED
      BY <2>1, <2>2
<1>3. service = "select.select_option" => data["option"] \in Texts
    BY DEF NeededFields, DataIsTyped
<1>4. service = "climate.set_hvac_mode" => data["hvac_mode"] \in Texts
    BY DEF NeededFields, DataIsTyped
<1> DEFINE on == ValueOf(m, e, "on")
           off == ValueOf(m, e, "off")
<1>5. on \in Texts /\ off \in Texts
    BY <1>2
<1> HIDE DEF on, off
<1> QED
    BY <1>1, <1>3, <1>4, <1>5 DEF NewValue, SERVICE, InDomain, Covers, on, off

\* What one turn adds to a target's attributes, and what it leaves of them.
LEMMA NewAttributesAreTyped ==
    ASSUME NEW service, NEW data, DataIsTyped(data), NEW value,
           NeededFields(service) \subseteq DOMAIN data,
           NEW m \in [ENTITY -> StateRecord \cup {None}], NEW e
    PROVE  With(AttributesOf(m, e), NewAttributes(service, data, value)) \in Attributes
<1> DEFINE n == NewAttributes(service, data, value)
           a == AttributesOf(m, e)
<1>1. n \in Attributes
  <2>1. \A F \in SUBSET (AttributeNames \cap Numbers) : Chosen(data, F) \in Attributes
    <3> TAKE F \in SUBSET (AttributeNames \cap Numbers)
    <3>1. Chosen(data, F) \in [F \cap DOMAIN data -> Settings]
        BY DEF Chosen, DataIsTyped
    <3> QED
        BY <3>1 DEF Attributes
  <2>2. \A v \in Settings : Only("current_position", v) \in Attributes
    <3> TAKE v \in Settings
    <3>1. Only("current_position", v) \in [{"current_position"} -> Settings]
        BY DEF Only
    <3>2. {"current_position"} \in SUBSET AttributeNames
        BY DEF AttributeNames
    <3> QED
        BY <3>1, <3>2 DEF Attributes
  <2>3. \A f \in {"percentage", "temperature", "color"} : {f} \in SUBSET (AttributeNames \cap Numbers)
      BY DEF AttributeNames, Numbers
  <2>4. /\ Chosen(data, {"percentage"}) \in Attributes /\ Chosen(data, {"temperature"}) \in Attributes
        /\ Chosen(data, {"color"}) \in Attributes
      BY <2>1, <2>3
  <2>5. 0 \in Settings /\ 100 \in Settings
      BY DEF Settings
  <2>6. service = "cover.set_cover_position" => data["position"] \in Settings
      BY DEF NeededFields, DataIsTyped, Numbers
  <2> QED
      BY <2>2, <2>4, <2>5, <2>6 DEF NewAttributes
<1>2. a \in Attributes
  <2>1. NoAttributes \in Attributes
    <3>1. << >> \in [{} -> Settings]
        OBVIOUS
    <3> QED
        BY <3>1 DEF NoAttributes, Attributes
  <2>2. CASE Get(m, e) = None
      BY <2>1, <2>2 DEF AttributesOf
  <2>3. CASE Get(m, e) # None
    <3>1. m[e] \in StateRecord
        BY <2>3 DEF Get
    <3> QED
        BY <2>3, <3>1 DEF AttributesOf, StateRecord
  <2> QED
      BY <2>2, <2>3
<1> HIDE DEF n, a
<1>3. PICK S \in SUBSET AttributeNames : n \in [S -> Settings]
    BY <1>1 DEF Attributes
<1>4. PICK R \in SUBSET AttributeNames : a \in [R -> Settings]
    BY <1>2 DEF Attributes
<1>5. With(a, n) \in [S \cup R -> Settings]
    BY <1>3, <1>4 DEF With
<1> QED
    BY <1>5 DEF Attributes, n, a

(* What a run of invoke may have come to: a sound store that goes on. *)
RunsFrom(store, gone) ==
    {run \in [store : StoreRecord, failed : BOOLEAN] :
        SoundStore(run.store, gone) /\ Extends(store.bus, run.store.bus)}

\* One turn of invoke's loop: sets a sound state, or ends the loop.
LEMMA WriteKeeps ==
    ASSUME NEW service \in SERVICE, service # "cover.stop_cover",
           NEW data, DataIsTyped(data), NeededFields(service) \subseteq DOMAIN data,
           NEW was, NEW e, NEW store, NEW gone, NEW run \in RunsFrom(store, gone)
    PROVE  Write(service, data, was, run, e) \in RunsFrom(store, gone)
<1> DEFINE m == run.store.states
           value == NewValue(service, data, was, m, e)
           attrs == With(AttributesOf(m, e), NewAttributes(service, data, value))
           next == Set(run.store, e, value, attrs, Now(run.store))
<1>1. /\ run \in [store : StoreRecord, failed : BOOLEAN]
      /\ SoundStore(run.store, gone) /\ Extends(store.bus, run.store.bus)
      /\ m \in [ENTITY -> StateRecord \cup {None}]
    BY DEF RunsFrom, StoreRecord
<1>2. value \in Texts
    BY <1>1, NewValueIsText
<1>3. attrs \in Attributes
    BY <1>1, NewAttributesAreTyped
<1>4. Write(service, data, was, run, e) =
          IF run.failed THEN run
          ELSE IF ~Accepts(e, value) THEN [run EXCEPT !.failed = TRUE]
          ELSE [run EXCEPT !.store = next]
    BY DEF Write
<1> HIDE DEF m, value, attrs
<1>5. [run EXCEPT !.failed = TRUE] \in RunsFrom(store, gone)
    BY <1>1 DEF RunsFrom
<1>6. ASSUME Accepts(e, value)
      PROVE  [run EXCEPT !.store = next] \in RunsFrom(store, gone)
  <2>1. SoundStore(next, gone) /\ Extends(run.store.bus, next.bus)
      BY <1>1, <1>2, <1>3, <1>6, SetKeeps DEF Accepts
  <2> HIDE DEF next
  <2>2. Extends(store.bus, next.bus)
      BY <1>1, <2>1, ExtendsOn
  <2>3. next \in StoreRecord
      BY <2>1 DEF SoundStore
  <2>4. [run EXCEPT !.store = next] \in [store : StoreRecord, failed : BOOLEAN]
        /\ [run EXCEPT !.store = next].store = next
      BY <1>1, <2>3
  <2> QED
      BY <2>1, <2>2, <2>4 DEF RunsFrom
<1> HIDE DEF next
<1> QED
    BY <1>4, <1>5, <1>6

\* The runs after each of the targets exist, and each is the one before it and
\* one turn more.
LEMMA RunsUnfold ==
    ASSUME NEW service \in SERVICE, service # "cover.stop_cover",
           NEW data, DataIsTyped(data), NeededFields(service) \subseteq DOMAIN data,
           NEW T, NEW targets \in Seq(T), NEW store, NEW gone, SoundStore(store, gone)
    PROVE  LET after == Runs(service, data, targets, store)
               was == ValueOf(store.states, targets[1], None)
           IN  /\ after \in [0..Len(targets) -> RunsFrom(store, gone)]
               /\ after[0] = [store |-> store, failed |-> FALSE]
               /\ \A n \in 1..Len(targets) :
                     after[n] = Write(service, data, was, after[n - 1], targets[n])
<1> DEFINE L == Len(targets)
           S == RunsFrom(store, gone)
           was == ValueOf(store.states, targets[1], None)
           start == [store |-> store, failed |-> FALSE]
           F == [n \in 1..L |-> [run \in S |-> Write(service, data, was, run, targets[n])]]
           Eqn(u) == u = [n \in 0..L |-> IF n = 0 THEN start
                              ELSE Write(service, data, was, u[n - 1], targets[n])]
           after == CHOOSE u : Eqn(u)
<1>1. L \in Nat
    OBVIOUS
<1>2. start \in S
  <2>1. store \in StoreRecord /\ store.bus \in Seq(EventRecord)
      BY DEF SoundStore, StoreRecord
  <2>2. Extends(store.bus, store.bus)
      BY <2>1, ExtendsItself
  <2> QED
      BY <2>1, <2>2 DEF RunsFrom
<1>3. \A run \in S, n \in 1..L : Write(service, data, was, run, targets[n]) \in S
  <2> HIDE DEF was
  <2> QED
      BY WriteKeeps
<1>4. F \in [1..L -> [S -> S]] /\ \A run \in S, n \in 1..L : F[n][run] = Write(service, data, was, run, targets[n])
    BY <1>3
<1>5. Runs(service, data, targets, store) = after
    BY DEF Runs
<1> HIDE DEF F, L, S, was, start
<1>6. PICK g : Recurs(g, S, start, L, F)
    BY <1>1, <1>2, <1>4, StepsExist
<1>7. Eqn(g)
  <2> DEFINE h == [n \in 0..L |-> IF n = 0 THEN start ELSE Write(service, data, was, g[n - 1], targets[n])]
  <2>1. ASSUME NEW n \in 0..L
        PROVE  g[n] = h[n]
    <3>1. CASE n = 0
        BY <1>6, <3>1 DEF Recurs
    <3>2. CASE n # 0
      <4>1. n \in 1..L /\ g[n - 1] \in S
          BY <1>1, <1>6, <3>2 DEF Recurs
      <4>2. g[n] = Write(service, data, was, g[n - 1], targets[n])
          BY <1>4, <1>6, <4>1 DEF Recurs
      <4> QED
          BY <3>2, <4>2
    <3> QED
        BY <3>1, <3>2
  <2>2. g = [n \in 0..L |-> g[n]]
      BY <1>6 DEF Recurs
  <2> QED
      BY <2>1, <2>2
<1>8. Eqn(after)
  <2> HIDE DEF Eqn
  <2> QED
      BY <1>7
<1> HIDE DEF after
<1>9. /\ after = [n \in 0..L |-> after[n]] /\ after[0] = start
      /\ \A n \in 1..L : after[n] = Write(service, data, was, after[n - 1], targets[n])
  <2> DEFINE u == after
  <2>1. Eqn(u)
      BY <1>8
  <2> HIDE DEF u
  <2>2. /\ \A n \in 0..L : u[n] = IF n = 0 THEN start ELSE Write(service, data, was, u[n - 1], targets[n])
        /\ u = [n \in 0..L |-> u[n]]
      BY <2>1
  <2>3. 0 \in 0..L /\ \A n \in 1..L : n \in 0..L /\ n # 0
      BY <1>1
  <2> QED
      BY <2>2, <2>3 DEF u
<1>10. \A n \in 1..L : after[n - 1] \in S => after[n] \in S
    BY <1>3, <1>9
<1>11. \A n \in 0..L : after[n] \in S
    BY <1>1, <1>2, <1>9, <1>10, StaysIn
<1>12. after \in [0..L -> S]
    BY <1>9, <1>11
<1> QED
    BY <1>5, <1>9, <1>12 DEF L, S, start, was

\* Whatever call a client makes, the store it leaves is sound and its events go
\* on where the others ended (ServiceRegistry::call).
LEMMA CallKeeps ==
    ASSUME NEW call \in CALL, NEW store, NEW gone, SoundStore(store, gone)
    PROVE  /\ SoundStore(CallService(call, store).store, gone)
           /\ Extends(store.bus, CallService(call, store).store.bus)
<1> DEFINE data == Parsed(call.data)
           targets == Targets(call)
           run == Invoke(call.service, data, targets, store)
           start == [store |-> store, failed |-> FALSE]
<1>1. store \in StoreRecord /\ Extends(store.bus, store.bus)
  <2>1. store \in StoreRecord /\ store.bus \in Seq(EventRecord)
      BY DEF SoundStore, StoreRecord
  <2> QED
      BY <2>1, ExtendsItself
<1>2. DataIsTyped(data)
    BY ParsedIsTyped
<1>3. ASSUME Malformed \notin {call.target, call.ids}
      PROVE  targets \in Seq(ENTITY \cup {BadId})
  <2>1. << >> \in Seq(ENTITY \cup {BadId})
      OBVIOUS
  <2> QED
      BY <1>3, <2>1, WsSessionsAssumption DEF Targets
<1>4. ASSUME Malformed \notin {call.target, call.ids}, call.service \in SERVICE
      PROVE  SoundStore(run.store, gone) /\ Extends(store.bus, run.store.bus)
  <2>1. start.store = store /\ [start EXCEPT !.failed = TRUE].store = store
      OBVIOUS
  <2>2. CASE call.service = "cover.stop_cover"
      BY <1>1, <2>1, <2>2 DEF Invoke
  <2>3. CASE call.service # "cover.stop_cover" /\ ~(NeededFields(call.service) \subseteq DOMAIN data)
      BY <1>1, <2>1, <2>3 DEF Invoke
  <2>4. CASE call.service # "cover.stop_cover" /\ NeededFields(call.service) \subseteq DOMAIN data
    <3>1. targets \in Seq(ENTITY \cup {BadId})
        BY <1>3, <1>4
    <3>2. run = Runs(call.service, data, targets, store)[Len(targets)]
        BY <2>4 DEF Invoke
    <3> HIDE DEF data, targets, run
    <3>3. Runs(call.service, data, targets, store) \in [0..Len(targets) -> RunsFrom(store, gone)]
        BY <1>2, <1>4, <2>4, <3>1, RunsUnfold
    <3>4. Len(targets) \in 0..Len(targets)
        BY <3>1
    <3>5. run \in RunsFrom(store, gone)
        BY <3>2, <3>3, <3>4
    <3> QED
        BY <3>5 DEF RunsFrom
  <2> QED
      BY <2>2, <2>3, <2>4
<1>5. \/ CallService(call, store).store = store
      \/ /\ Malformed \notin {call.target, call.ids} /\ call.service \in SERVICE
         /\ CallService(call, store).store = run.store
  <2> HIDE DEF run
  <2> QED
      BY DEF CallService, run, data, targets
<1> QED
    BY <1>1, <1>4, <1>5

StoreInv == SoundStore(Store, removed)

\* What the invariant says of the types of the store and of what is told of it.
LEMMA StoreTyped ==
    ASSUME StoreInv
    PROVE  /\ Store.states = states /\ Store.bus = bus
           /\ states \in [ENTITY -> StateRecord \cup {None}]
           /\ bus \in Seq(EventRecord) /\ Len(bus) \in Nat
           /\ Dump \in Changes
           /\ \A n \in DOMAIN bus : /\ bus[n] \in EventRecord
                                  /\ Only(bus[n].entity, bus[n].new) \in Changes
<1>1. Store.states = states /\ Store.bus = bus
    BY DEF Store
<1>2. states \in [ENTITY -> StateRecord \cup {None}] /\ bus \in Seq(EventRecord)
    BY <1>1 DEF StoreInv, SoundStore, StoreRecord
<1>3. Dump \in Changes
  <2>1. Dump \in [{d \in ENTITY : states[d] # None} -> StateRecord]
      BY <1>2 DEF Dump, GetStates
  <2> QED
      BY <2>1 DEF Changes
<1>4. ASSUME NEW n \in DOMAIN bus
      PROVE  bus[n] \in EventRecord /\ Only(bus[n].entity, bus[n].new) \in Changes
  <2>1. bus[n] \in EventRecord
      BY <1>2
  <2>2. bus[n].entity \in ENTITY /\ bus[n].new \in StateRecord
      BY <2>1 DEF EventRecord
  <2>3. Only(bus[n].entity, bus[n].new) \in [{bus[n].entity} -> StateRecord]
      BY <2>2 DEF Only
  <2> QED
      BY <2>1, <2>2, <2>3 DEF Changes
<1> QED
    BY <1>1, <1>2, <1>3, <1>4

\* A removal is noted after the events there are, so it says none of the entity
\* from there on and nothing else (StateStore::remove).
LEMMA RemovalKeeps ==
    ASSUME StoreInv, NEW e \in ENTITY, RemoveState(e)
    PROVE  StoreInv' /\ Extends(bus, bus')
<1> DEFINE N == Len(bus)
<1>1. /\ states \in [ENTITY -> StateRecord \cup {None}] /\ bus \in Seq(EventRecord)
      /\ N \in Nat /\ N + 1 \in 1..(N + 1) /\ N + 1 - 1 = N /\ DOMAIN bus = 1..N
      /\ removed \subseteq ENTITY \X (0..N)
      /\ \A f \in ENTITY : Says(bus, removed, f, N + 1, states[f])
      /\ \A n \in DOMAIN bus : Says(bus, removed, bus[n].entity, n, bus[n].old)
      /\ \A f \in ENTITY : states[f] # None => IsLast(Turns(bus, f), states[f].changed)
    BY StoreTyped DEF StoreInv, SoundStore
<1>2. /\ states' = [states EXCEPT ![e] = None] /\ bus' = bus
      /\ removed' = removed \cup {<<e, N>>}
    BY DEF RemoveState
<1>3. Extends(bus, bus)
    BY <1>1, ExtendsItself
<1>4. removed \subseteq removed' /\ removed' \subseteq ENTITY \X (0..N)
    BY <1>1, <1>2
<1>5. \A f \in ENTITY : Says(bus, removed', f, N + 1, states'[f])
  <2>1. Says(bus, removed', e, N + 1, None)
    <3>1. \A k \in EventsIn(bus, e) : N \in k..(N + 1 - 1)
        BY <1>1 DEF EventsIn
    <3>2. <<e, N>> \in removed'
        BY <1>2
    <3> QED
        BY <3>1, <3>2 DEF Says
  <2>2. ASSUME NEW f \in ENTITY, f # e
        PROVE  Says(bus, removed', f, N + 1, states[f])
    <3>1. \A j \in 0..(N + 1 - 1) : <<f, j>> \in removed' => <<f, j>> \in removed
        BY <1>2, <2>2
    <3> QED
        BY <1>1, <1>3, <1>4, <3>1, SaysStays
  <2> QED
      BY <1>1, <1>2, <2>1, <2>2
<1>6. ASSUME NEW n \in DOMAIN bus
      PROVE  Says(bus, removed', bus[n].entity, n, bus[n].old)
  <2>1. n \in 1..(N + 1) /\ N \notin 0..(n - 1)
      BY <1>1
  <2>2. \A j \in 0..(n - 1) : <<bus[n].entity, j>> \in removed' => <<bus[n].entity, j>> \in removed
      BY <1>2, <2>1
  <2> QED
      BY <1>1, <1>3, <1>4, <2>1, <2>2, SaysStays
<1>7. \A f \in ENTITY : states'[f] # None => IsLast(Turns(bus, f), states'[f].changed)
    BY <1>1, <1>2
<1>8. states' \in [ENTITY -> StateRecord \cup {None}]
    BY <1>1, <1>2
<1>9. Store' \in StoreRecord /\ Store'.states = states' /\ Store'.bus = bus
    BY <1>1, <1>2, <1>8 DEF Store, StoreRecord
<1> QED
    BY <1>2, <1>3, <1>4, <1>5, <1>6, <1>7, <1>9 DEF StoreInv, SoundStore

\* The store after a write is what set or a call made of it.
LEMMA BecomesKeeps ==
    ASSUME NEW store, SoundStore(store, removed), Extends(bus, store.bus), Becomes(store)
    PROVE  StoreInv' /\ Extends(bus, bus')
<1>1. store \in StoreRecord
    BY DEF SoundStore
<1>2. store = [states |-> store.states, bus |-> store.bus]
    BY <1>1 DEF StoreRecord
<1>3. Store' = store /\ removed' = removed
    BY <1>2 DEF Becomes, Store
<1> QED
    BY <1>3 DEF StoreInv, Becomes

\* No step leaves a state that its events do not tell, or changes an event that
\* was sent.
LEMMA StoreStep == StoreInv /\ [Next]_vars => StoreInv' /\ Extends(bus, bus')
<1> SUFFICES ASSUME StoreInv, [Next]_vars PROVE StoreInv' /\ Extends(bus, bus')
    OBVIOUS
<1>1. Store.bus = bus /\ bus \in Seq(EventRecord)
    BY StoreTyped
<1>2. ASSUME NEW e \in ENTITY, NEW v \in VALUE \cup REPORTED,
             SetEntityState(e, v) \/ Report(e, v)
      PROVE  StoreInv' /\ Extends(bus, bus')
  <2>1. v \in Texts
      BY DEF Texts
  <2>2. NoAttributes \in Attributes
    <3>1. << >> \in [{} -> Settings]
        OBVIOUS
    <3> QED
        BY <3>1 DEF NoAttributes, Attributes
  <2> DEFINE next == Set(Store, e, v, NoAttributes, Now(Store))
  <2>3. SoundStore(next, removed) /\ Extends(bus, next.bus)
      BY <1>1, <2>1, <2>2, SetKeeps DEF StoreInv
  <2>4. Becomes(next)
      BY <1>2 DEF SetEntityState, Report
  <2> HIDE DEF next
  <2> QED
      BY <2>3, <2>4, BecomesKeeps
<1>3. ASSUME NEW e \in ZIGBEE, DeleteEntity(e)
      PROVE  StoreInv' /\ Extends(bus, bus')
    BY <1>3, RemovalKeeps, WsSessionsAssumption DEF DeleteEntity
<1>4. ASSUME NEW call \in MADE, Call(call)
      PROVE  StoreInv' /\ Extends(bus, bus')
  <2> DEFINE next == CallService(call, Store).store
  <2>1. call \in CALL
      BY WsSessionsAssumption
  <2>2. SoundStore(next, removed) /\ Extends(bus, next.bus)
      BY <1>1, <2>1, CallKeeps DEF StoreInv
  <2>3. Becomes(next)
      BY <1>4 DEF Call
  <2> HIDE DEF next
  <2> QED
      BY <2>2, <2>3, BecomesKeeps
<1>5. CASE UNCHANGED storeVars
  <2>1. Store' = Store /\ removed' = removed /\ bus' = bus
      BY <1>5 DEF storeVars, Store
  <2> QED
      BY <1>1, <2>1, ExtendsItself DEF StoreInv
<1>6. \/ \E e \in ENTITY, v \in VALUE \cup REPORTED : SetEntityState(e, v) \/ Report(e, v)
      \/ \E e \in ZIGBEE : DeleteEntity(e)
      \/ \E call \in MADE : Call(call)
      \/ UNCHANGED storeVars
    BY WsSessionsAssumption
       DEF Next, vars, Connect, Authenticate, Deliver, Close, Unsubscribe, Subscribe,
           Receive, Lag, Push, PushFails, Record, RecorderLags, RecordReport
<1> QED
    BY <1>2, <1>3, <1>4, <1>5, <1>6

\* A store without states and events is sound.
LEMMA StoreInitially == Init => StoreInv
<1> SUFFICES ASSUME Init PROVE StoreInv
    OBVIOUS
<1>1. /\ states = [e \in ENTITY |-> None] /\ bus = << >> /\ removed = {}
      /\ Store.states = states /\ Store.bus = bus /\ Store \in StoreRecord
    BY DEF Init, StateInit, Store, StoreRecord
<1>2. DOMAIN bus = {} /\ Len(bus) = 0
    BY <1>1
<1>3. \A e \in ENTITY : Says(bus, removed, e, 0 + 1, None)
    BY <1>2 DEF Says, EventsIn
<1> QED
    BY <1>1, <1>2, <1>3 DEF StoreInv, SoundStore

\* A sound store is as it is told.
LEMMA SoundIsAsTold == StoreInv => StatesAreAsTold
<1> SUFFICES ASSUME StoreInv PROVE StatesAreAsTold
    OBVIOUS
<1>1. /\ Store.states = states /\ Store.bus = bus /\ bus \in Seq(EventRecord)
      /\ Now(Store) = Len(bus) + 1 /\ Len(bus) \in Nat /\ DOMAIN bus = 1..Len(bus)
    BY StoreTyped DEF Now
<1>2. ASSUME NEW e \in ENTITY
      PROVE  states[e] = StateBefore(e, Now(Store))
  <2> DEFINE n == Len(bus) + 1
  <2>1. n \in 1..(Len(bus) + 1) /\ Says(bus, removed, e, n, states[e])
      BY <1>1 DEF StoreInv, SoundStore
  <2> HIDE DEF n
  <2>2. states[e] = StateBefore(e, n)
      BY <1>1, <2>1, SaysStateBefore
  <2> QED
      BY <1>1, <2>2 DEF n
<1>3. ASSUME NEW e \in ENTITY, NEW n \in EventsOf(e)
      PROVE  bus[n].old = StateBefore(e, n)
  <2>1. n \in 1..(Len(bus) + 1) /\ n \in DOMAIN bus /\ bus[n].entity = e
      BY <1>1 DEF EventsOf
  <2>2. Says(bus, removed, e, n, bus[n].old)
      BY <1>1, <2>1 DEF StoreInv, SoundStore
  <2> QED
      BY <1>1, <2>1, <2>2, SaysStateBefore
<1>4. ASSUME NEW e \in ENTITY, states[e] # None
      PROVE  states[e].changed = Latest({n \in EventsOf(e) :
                 \/ bus[n].old = None
                 \/ bus[n].old.value # bus[n].new.value})
  <2> DEFINE T == {n \in EventsOf(e) : \/ bus[n].old = None
                                       \/ bus[n].old.value # bus[n].new.value}
  <2>1. T = Turns(bus, e)
      BY DEF Turns, EventsIn, EventsOf
  <2>2. IsLast(T, states[e].changed)
      BY <1>1, <1>4, <2>1 DEF StoreInv, SoundStore
  <2>3. T \in SUBSET Nat
      BY <1>1 DEF EventsOf
  <2> HIDE DEF T
  <2>4. Latest(T) = states[e].changed
      BY <2>2, <2>3, LatestIsLast
  <2> QED
      BY <2>4 DEF T
<1> QED
    BY <1>2, <1>3, <1>4 DEF StatesAreAsTold, EventsChain, ChangedIsWhenTheValueChanged

\* What the channel tells is what happened to the states, for any entities,
\* values, calls and listeners (state_store.rs, set and remove; service.rs).
THEOREM StatesAlwaysAsTold == Spec => []StatesAreAsTold
<1>1. Init => StoreInv
    BY StoreInitially
<1>2. StoreInv /\ [Next]_vars => StoreInv'
    BY StoreStep
<1>3. StoreInv => StatesAreAsTold
    BY SoundIsAsTold
<1> QED
    BY <1>1, <1>2, <1>3, PTL DEF Spec
-----------------------------------------------------------------------------
(* What a service call does. *)

(* No state shows a value that set refuses. *)
Fits(m) == \A e \in ENTITY : m[e] # None => m[e].value # TooLong

(* What a call makes of every target, unless it leaves them their values. *)
Meant(service, data, was) == NewValue(service, data, was, [e \in ENTITY |-> None], BadId)

(* The store a is b after a call has written the first k of its targets. *)
Wrote(service, data, was, targets, b, a, k) ==
    /\ Len(a.bus) = Len(b.bus) + k /\ Fits(a.states)
    /\ k = 0 => a = b
    /\ \A i \in 1..k :
          /\ targets[i] \in ENTITY /\ a.bus[Len(b.bus) + i].entity = targets[i]
          /\ service \notin KeepsValue =>
                a.states[targets[i]].value = Meant(service, data, was)
          /\ service \in Covers =>
                (a.states[targets[i]].value = "closed") <=>
                (a.states[targets[i]].attrs["current_position"] = 0)

(* What makes set refuse a target e. *)
Offends(data, e) ==
    e \notin ENTITY \/ \E f \in {"option", "hvac_mode"} \cap DOMAIN data : data[f] = TooLong

\* Which value a call means does not depend on the target, but for the services
\* that leave each the value it has.
LEMMA MeantForAll ==
    ASSUME NEW service \in SERVICE \ KeepsValue, NEW data, NEW was, NEW m, NEW e
    PROVE  NewValue(service, data, was, m, e) = Meant(service, data, was)
BY DEF Meant, NewValue, SERVICE, InDomain, Covers, KeepsValue

\* A cover's value and its position are set together (set_cover_state).
LEMMA ClosedAtZero ==
    ASSUME NEW service \in Covers, service # "cover.stop_cover",
           NEW data, NeededFields(service) \subseteq DOMAIN data,
           NEW was, NEW m, NEW e, NEW old
    PROVE  LET value == NewValue(service, data, was, m, e)
               attrs == With(old, NewAttributes(service, data, value))
           IN  value = "closed" <=> attrs["current_position"] = 0
<1> DEFINE value == NewValue(service, data, was, m, e)
           new == NewAttributes(service, data, value)
<1>1. "current_position" \in DOMAIN new /\ (value = "closed" <=> new["current_position"] = 0)
  <2>1. CASE service = "cover.set_cover_position"
    <3>2. value = IF data["position"] = 0 THEN "closed" ELSE "open"
        BY <2>1 DEF NewValue
    <3> HIDE DEF value
    <3>3. new = Only("current_position", data["position"])
        BY <2>1 DEF NewAttributes
    <3> QED
        BY <3>2, <3>3 DEF Only
  <2>2. CASE service # "cover.set_cover_position"
    <3>1. value \in {"open", "closed"}
        BY <2>2 DEF NewValue, Covers
    <3> HIDE DEF value
    <3>2. new = Only("current_position", IF value = "open" THEN 100 ELSE 0)
        BY <2>2 DEF NewAttributes, Covers
    <3> QED
        BY <3>1, <3>2 DEF Only
  <2> QED
      BY <2>1, <2>2
<1> HIDE DEF value, new
<1>2. With(old, new)["current_position"] = new["current_position"]
    BY <1>1 DEF With
<1> QED
    BY <1>1, <1>2 DEF value, new

\* Only a value the caller chose can be too long.
LEMMA TooLongIsGiven ==
    ASSUME NEW service \in SERVICE, service # "cover.stop_cover",
           NEW data, NeededFields(service) \subseteq DOMAIN data,
           NEW m, Fits(m), NEW was, NEW e \in ENTITY,
           NewValue(service, data, was, m, e) = TooLong
    PROVE  Offends(data, e)
<1>1. \A v \in {"on", "off"} : ValueOf(m, e, v) # TooLong
  <2> TAKE v \in {"on", "off"}
  <2>1. Get(m, e) = m[e]
      BY DEF Get
  <2>2. ValueOf(m, e, v) = IF m[e] = None THEN v ELSE m[e].value
      BY <2>1 DEF ValueOf
  <2>3. v # TooLong
      BY ServicesAssumption
  <2> QED
      BY <2>2, <2>3 DEF Fits
<1> DEFINE on == ValueOf(m, e, "on")
           off == ValueOf(m, e, "off")
<1>2. on # TooLong /\ off # TooLong
    BY <1>1
<1> HIDE DEF on, off
<1>3. \/ service = "select.select_option" /\ data["option"] = TooLong
      \/ service = "climate.set_hvac_mode" /\ data["hvac_mode"] = TooLong
    BY <1>2, ServicesAssumption DEF NewValue, SERVICE, InDomain, Covers, on, off
<1> QED
    BY <1>3 DEF Offends, NeededFields

\* One turn of the loop writes one target more, or meets one that set refuses.
LEMMA WroteNext ==
    ASSUME NEW service \in SERVICE, service # "cover.stop_cover",
           NEW data, DataIsTyped(data), NeededFields(service) \subseteq DOMAIN data,
           NEW T, NEW targets \in Seq(T), NEW store, NEW gone, NEW was,
           store \in StoreRecord,
           NEW run \in RunsFrom(store, gone), ~run.failed,
           NEW n \in 1..Len(targets),
           Wrote(service, data, was, targets, store, run.store, n - 1)
    PROVE  LET next == Write(service, data, was, run, targets[n])
           IN  \/ ~next.failed /\ Wrote(service, data, was, targets, store, next.store, n)
               \/ next.failed /\ next.store = run.store /\ Offends(data, targets[n])
<1> DEFINE e == targets[n]
           m == run.store.states
           value == NewValue(service, data, was, m, e)
           attrs == With(AttributesOf(m, e), NewAttributes(service, data, value))
           s == Set(run.store, e, value, attrs, Now(run.store))
           k == n - 1
           B == Len(store.bus)
<1>1. /\ run \in [store : StoreRecord, failed : BOOLEAN] /\ SoundStore(run.store, gone)
      /\ m \in [ENTITY -> StateRecord \cup {None}] /\ run.store.bus \in Seq(EventRecord)
      /\ store.bus \in Seq(EventRecord) /\ B \in Nat
    BY DEF RunsFrom, StoreRecord
<1>2. Write(service, data, was, run, e) =
          IF ~Accepts(e, value) THEN [run EXCEPT !.failed = TRUE] ELSE [run EXCEPT !.store = s]
    BY DEF Write
<1>3. value \in Texts
    BY <1>1, NewValueIsText
<1>4. attrs \in Attributes
    BY <1>1, NewAttributesAreTyped
<1>5. Fits(m)
    BY DEF Wrote
<1>6. value = TooLong /\ e \in ENTITY => Offends(data, e)
    BY <1>5, TooLongIsGiven
<1>7. service \notin KeepsValue => value = Meant(service, data, was)
    BY MeantForAll
<1>8. service \in Covers => (value = "closed" <=> attrs["current_position"] = 0)
    BY ClosedAtZero
<1> HIDE DEF value, attrs, m
<1>9. CASE ~Accepts(e, value)
  <2>1. e \notin ENTITY \/ value = TooLong
      BY <1>9 DEF Accepts
  <2>2. Offends(data, e)
      BY <1>6, <2>1 DEF Offends
  <2>3. Write(service, data, was, run, e) = [run EXCEPT !.failed = TRUE]
      BY <1>2, <1>9
  <2> QED
      BY <1>1, <2>2, <2>3
<1>10. CASE Accepts(e, value)
  <2> DEFINE new == s.states[e]
             c == s.bus
  <2>1. e \in ENTITY /\ value # TooLong
      BY <1>10 DEF Accepts
  <2>2. /\ new.value = value /\ new.attrs = attrs
        /\ \A d \in ENTITY : d # e => s.states[d] = m[d]
        /\ \E x : x.entity = e /\ c = Append(run.store.bus, x) /\ x \in EventRecord
    <3>1. SoundStore(s, gone)
        BY <1>1, <1>3, <1>4, <2>1, SetKeeps
    <3> DEFINE old == m[e]
               kept == old # None /\ old.value = value
               at == IF kept THEN old.changed ELSE Now(run.store)
               put == [value |-> value, attrs |-> attrs, changed |-> at]
               x == [entity |-> e, new |-> put, old |-> old]
    <3>2. s.states = [m EXCEPT ![e] = put] /\ c = Append(run.store.bus, x)
        BY DEF Set, m
    <3>3. put.value = value /\ put.attrs = attrs /\ x.entity = e
        OBVIOUS
    <3>4. s.states[e] = put /\ \A d \in ENTITY : d # e => s.states[d] = m[d]
      <4> HIDE DEF put, s
      <4> QED
          BY <1>1, <2>1, <3>2
    <3>5. x \in EventRecord
      <4>1. s.states \in [ENTITY -> StateRecord \cup {None}] /\ c \in Seq(EventRecord)
          BY <3>1 DEF SoundStore, StoreRecord
      <4> DEFINE w == Len(run.store.bus) + 1
      <4>2. w \in DOMAIN c /\ c[w] = x
        <5> HIDE DEF x, s
        <5> QED
            BY <1>1, <3>2
      <4> HIDE DEF x, c
      <4> QED
          BY <4>1, <4>2
    <3> HIDE DEF put, x, s
    <3> QED
        BY <3>2, <3>3, <3>4, <3>5
  <2> HIDE DEF s
  <2>3. PICK x \in EventRecord : x.entity = e /\ c = Append(run.store.bus, x)
      BY <2>2
  <2>4. /\ k \in Nat /\ n = k + 1 /\ k <= Len(targets) /\ Len(run.store.bus) = B + k
        /\ \A i \in 1..n : i = n \/ i \in 1..k
      BY <1>1 DEF Wrote
  <2>5. Len(c) = B + n /\ c[B + n] = x
      BY <1>1, <2>3, <2>4
  <2>6. \A i \in 1..k : c[B + i] = run.store.bus[B + i]
      BY <1>1, <2>3, <2>4, SMTT(30)
  <2>7. Fits(s.states)
      BY <1>5, <2>1, <2>2 DEF Fits
  <2>8. ASSUME NEW i \in 1..n
        PROVE  /\ targets[i] \in ENTITY /\ c[B + i].entity = targets[i]
               /\ service \notin KeepsValue =>
                     s.states[targets[i]].value = Meant(service, data, was)
               /\ service \in Covers =>
                     (s.states[targets[i]].value = "closed") <=>
                     (s.states[targets[i]].attrs["current_position"] = 0)
    <3>1. CASE targets[i] = e
      <4>1. c[B + i].entity = e
        <5>1. CASE i = n
            BY <2>3, <2>5, <5>1
        <5>2. CASE i # n
            BY <2>4, <2>6, <3>1, <5>2 DEF Wrote
        <5> QED
            BY <5>1, <5>2
      <4> QED
          BY <1>7, <1>8, <2>1, <2>2, <3>1, <4>1
    <3>2. CASE targets[i] # e
      <4>1. i \in 1..k
          BY <2>4, <3>2
      <4>2. targets[i] \in ENTITY /\ s.states[targets[i]] = m[targets[i]]
          BY <2>2, <3>2, <4>1 DEF Wrote
      <4> QED
          BY <2>6, <4>1, <4>2 DEF Wrote, m
    <3> QED
        BY <3>1, <3>2
  <2>9. Write(service, data, was, run, e) = [run EXCEPT !.store = s]
      BY <1>2, <1>10
  <2>10. /\ ~Write(service, data, was, run, e).failed
         /\ Write(service, data, was, run, e).store = s
      BY <1>1, <2>9
  <2>11. Wrote(service, data, was, targets, store, s, n)
      BY <2>4, <2>5, <2>7, <2>8 DEF Wrote
  <2> QED
      BY <2>10, <2>11
<1> QED
    BY <1>9, <1>10

\* A loop over the targets writes all of them, or those before one that offends.
LEMMA RunsWrite ==
    ASSUME NEW service \in SERVICE, service # "cover.stop_cover",
           NEW data, DataIsTyped(data), NeededFields(service) \subseteq DOMAIN data,
           NEW T, NEW targets \in Seq(T),
           NEW store, NEW gone, SoundStore(store, gone), Fits(store.states)
    PROVE  LET was == ValueOf(store.states, targets[1], None)
               run == Runs(service, data, targets, store)[Len(targets)]
           IN  /\ run \in RunsFrom(store, gone)
               /\ \/ /\ ~run.failed
                     /\ Wrote(service, data, was, targets, store, run.store, Len(targets))
                  \/ /\ run.failed
                     /\ \E n \in 1..Len(targets) :
                           /\ Wrote(service, data, was, targets, store, run.store, n - 1)
                           /\ Offends(data, targets[n])
<1> DEFINE L == Len(targets)
           was == ValueOf(store.states, targets[1], None)
           after == Runs(service, data, targets, store)
           Wrote1(s, k) == Wrote(service, data, was, targets, store, s, k)
           Ends(run, n) ==
               \/ ~run.failed /\ Wrote1(run.store, n)
               \/ /\ run.failed
                  /\ \E j \in 1..n : Wrote1(run.store, j - 1) /\ Offends(data, targets[j])
           Good == {n \in Nat : n <= L => Ends(after[n], n)}
<1>1. L \in Nat /\ store \in StoreRecord
    BY DEF SoundStore
<1>2. /\ after \in [0..L -> RunsFrom(store, gone)]
      /\ after[0] = [store |-> store, failed |-> FALSE]
      /\ \A n \in 1..L : after[n] = Write(service, data, was, after[n - 1], targets[n])
    BY RunsUnfold
<1> HIDE DEF after, was
<1>3. 0 \in Good
  <2>1. Wrote1(store, 0)
    <3>1. Len(store.bus) \in Nat
        BY <1>1 DEF StoreRecord
    <3> QED
        BY <3>1 DEF Wrote
  <2>2. Ends(after[0], 0)
      BY <1>2, <2>1
  <2> HIDE DEF Ends
  <2> QED
      BY <2>2
<1>4. ASSUME NEW n \in Good
      PROVE  n + 1 \in Good
  <2>1. n \in Nat /\ (n <= L => Ends(after[n], n))
      OBVIOUS
  <2>2. SUFFICES ASSUME n + 1 <= L PROVE Ends(after[n + 1], n + 1)
    <3> HIDE DEF Ends
    <3> QED
        BY <2>1
  <2> DEFINE m == n + 1
             run == after[n]
             next == after[m]
  <2>3. /\ m \in 1..L /\ m - 1 = n /\ run \in RunsFrom(store, gone)
        /\ next = Write(service, data, was, run, targets[m])
    <3>1. m \in 1..L /\ m - 1 = n /\ n \in 0..L
        BY <1>1, <2>1, <2>2
    <3> HIDE DEF m
    <3> QED
        BY <1>2, <3>1
  <2>4. Ends(run, n)
      BY <1>1, <2>1, <2>2
  <2> HIDE DEF run, m
  <2>5. CASE ~run.failed
    <3>1. Wrote(service, data, was, targets, store, run.store, m - 1)
        BY <2>3, <2>4, <2>5
    <3> HIDE DEF L, next
    <3>2. \/ ~next.failed /\ Wrote(service, data, was, targets, store, next.store, m)
          \/ next.failed /\ next.store = run.store /\ Offends(data, targets[m])
      <4>1. m \in 1..Len(targets)
          BY <2>3 DEF L
      <4>2. LET w == Write(service, data, was, run, targets[m])
            IN  \/ ~w.failed /\ Wrote(service, data, was, targets, store, w.store, m)
                \/ w.failed /\ w.store = run.store /\ Offends(data, targets[m])
          BY <1>1, <2>3, <2>5, <3>1, <4>1, WroteNext
      <4> QED
          BY <2>3, <4>2
    <3>3. m \in 1..m
        BY <2>3
    <3>4. Ends(next, m)
        BY <3>1, <3>2, <3>3
    <3> QED
        BY <3>4 DEF next, m
  <2>6. CASE run.failed
    <3>1. next = run
        BY <2>3, <2>6 DEF Write
    <3>2. 1..n \subseteq 1..m
        BY <2>1, <2>3
    <3> HIDE DEF next
    <3>3. Ends(next, m)
        BY <2>4, <2>6, <3>1, <3>2
    <3> QED
        BY <3>3 DEF next, m
  <2> QED
      BY <2>5, <2>6
<1>5. Good = Nat
  <2>1. Good \in SUBSET Nat
      OBVIOUS
  <2> HIDE DEF Good
  <2> QED
      BY <1>3, <1>4, <2>1, SetInduction
<1>6. Ends(after[L], L)
  <2>1. L \in Good /\ L <= L
    <3> HIDE DEF Good
    <3> QED
        BY <1>1, <1>5
  <2> HIDE DEF Ends
  <2> QED
      BY <2>1
<1>7. after[L] \in RunsFrom(store, gone)
    BY <1>1, <1>2
<1> QED
    BY <1>6, <1>7 DEF after, was

(* A call, or the same call in another form, whose targets and data are read. *)
Readable(call) ==
    /\ DataIsTyped(Parsed(call.data))
    /\ Malformed \notin {call.target, call.ids} => Targets(call) \in Seq(ENTITY \cup {BadId})

(* What a call is refused for before it writes anything. *)
Refused(call) ==
    \/ Malformed \in {call.target, call.ids}
    \/ \E f \in DOMAIN call.data : call.data[f] = Malformed
    \/ call.service \notin SERVICE \/ call.response \/ Targets(call) = << >>
    \/ /\ call.service # "cover.stop_cover"
       /\ ~(NeededFields(call.service) \subseteq FieldsRead(call.data))

(* The store a is b after the call has written the first k of its targets. *)
CallWrote(call, b, a, k) ==
    Wrote(call.service, Parsed(call.data), ValueOf(b.states, Targets(call)[1], None),
          Targets(call), b, a, k)

\* A call that is refused changes nothing, and one that is not either writes all
\* of its targets or those before one that set refuses (ServiceRegistry::call).
LEMMA CallEnds ==
    ASSUME NEW call, Readable(call),
           NEW store, NEW gone, SoundStore(store, gone), Fits(store.states)
    PROVE  LET done == CallService(call, store)
               targets == Targets(call)
           IN  /\ Refused(call) => /\ done.store = store
                                   /\ done.answer \in {"invalid_format", "not_found"}
               /\ ~Refused(call) /\ call.service = "cover.stop_cover" =>
                     done.store = store /\ done.answer = "ok"
               /\ ~Refused(call) /\ call.service # "cover.stop_cover" =>
                     /\ done.store \in StoreRecord
                     /\ \/ done.answer = "ok" /\ CallWrote(call, store, done.store, Len(targets))
                        \/ /\ done.answer = "invalid_format"
                           /\ \E n \in 1..Len(targets) :
                                 /\ CallWrote(call, store, done.store, n - 1)
                                 /\ Offends(Parsed(call.data), targets[n])
<1> DEFINE data == Parsed(call.data)
           targets == Targets(call)
           run == Invoke(call.service, data, targets, store)
           done == CallService(call, store)
           early == \/ Malformed \in {call.target, call.ids}
                    \/ \E f \in DOMAIN call.data : call.data[f] = Malformed
                    \/ call.service \notin SERVICE \/ call.response \/ targets = << >>
<1>1. DOMAIN data = FieldsRead(call.data)
    BY ParsedIs
<1>2. early => done.store = store /\ done.answer \in {"invalid_format", "not_found"}
    BY DEF CallService
<1>3. ~early => done.store = run.store /\ done.answer = IF run.failed THEN "invalid_format" ELSE "ok"
  <2> HIDE DEF run
  <2> QED
      BY DEF CallService, run
<1>4. CASE early
    BY <1>2, <1>4 DEF Refused
<1>5. CASE ~early /\ call.service = "cover.stop_cover"
  <2>1. run = [store |-> store, failed |-> FALSE]
      BY <1>5 DEF Invoke
  <2>2. ~Refused(call)
      BY <1>5 DEF Refused
  <2> HIDE DEF run, done
  <2> QED
      BY <1>3, <1>5, <2>1, <2>2 DEF done
<1>6. CASE ~early /\ call.service # "cover.stop_cover" /\ ~(NeededFields(call.service) \subseteq DOMAIN data)
  <2>1. run = [[store |-> store, failed |-> FALSE] EXCEPT !.failed = TRUE]
      BY <1>6 DEF Invoke
  <2>2. Refused(call)
      BY <1>1, <1>6 DEF Refused
  <2>3. run.store = store /\ run.failed
      BY <2>1
  <2> HIDE DEF run, done, early
  <2> QED
      BY <1>3, <1>6, <2>2, <2>3 DEF done
<1>7. CASE ~early /\ call.service # "cover.stop_cover" /\ NeededFields(call.service) \subseteq DOMAIN data
  <2>1. run = Runs(call.service, data, targets, store)[Len(targets)]
      BY <1>7 DEF Invoke
  <2>2. ~Refused(call)
      BY <1>1, <1>7 DEF Refused
  <2>3. targets \in Seq(ENTITY \cup {BadId}) /\ DataIsTyped(data) /\ call.service \in SERVICE
      BY <1>7 DEF Readable
  <2> DEFINE n == Len(targets)
  <2>4. /\ run \in RunsFrom(store, gone)
        /\ \/ ~run.failed /\ CallWrote(call, store, run.store, n)
           \/ /\ run.failed
              /\ \E j \in 1..n : /\ CallWrote(call, store, run.store, j - 1)
                                 /\ Offends(data, targets[j])
    <3> HIDE DEF run, data, targets
    <3> DEFINE was == ValueOf(store.states, targets[1], None)
    <3>1. /\ run \in RunsFrom(store, gone)
          /\ \/ ~run.failed /\ Wrote(call.service, data, was, targets, store, run.store, n)
             \/ /\ run.failed
                /\ \E j \in 1..n : /\ Wrote(call.service, data, was, targets, store, run.store, j - 1)
                                   /\ Offends(data, targets[j])
        BY <1>7, <2>1, <2>3, RunsWrite
    <3> QED
        BY <3>1 DEF CallWrote, data, targets
  <2> HIDE DEF run, done, early
  <2>5. run.store \in StoreRecord
      BY <2>4 DEF RunsFrom
  <2> QED
      BY <1>3, <1>7, <2>2, <2>4, <2>5 DEF done
<1> QED
    BY <1>4, <1>5, <1>6, <1>7

\* No call leaves a state that shows what set refuses.
LEMMA CallFits ==
    ASSUME NEW call, Readable(call),
           NEW store, NEW gone, SoundStore(store, gone), Fits(store.states)
    PROVE  Fits(CallService(call, store).store.states)
<1> DEFINE done == CallService(call, store)
<1>1. \/ done.store = store
      \/ \E k : CallWrote(call, store, done.store, k)
    BY CallEnds
<1> HIDE DEF done
<1> QED
    BY <1>1 DEF CallWrote, Wrote, done

\* What was written is what the channel carries since the call began.
LEMMA WrittenIs ==
    ASSUME NEW call, NEW T, Targets(call) \in Seq(T), NEW b \in StoreRecord, NEW a \in StoreRecord,
           NEW k \in Nat, k <= Len(Targets(call)), CallWrote(call, b, a, k)
    PROVE  /\ Written(b, a) = [i \in 1..k |-> Targets(call)[i]]
           /\ DOMAIN Written(b, a) = 1..k /\ Len(Written(b, a)) = k
<1> DEFINE B == Len(b.bus)
           A == Len(a.bus)
           targets == Targets(call)
<1>1. B \in Nat /\ A = B + k
    BY DEF StoreRecord, CallWrote, Wrote
<1>2. \A i \in 1..k : a.bus[B + i].entity = targets[i]
    BY DEF CallWrote, Wrote
<1>3. Written(b, a) = [i \in 1..(A - B) |-> a.bus[B + i].entity]
    BY DEF Written
<1>4. A - B = k
    BY <1>1
<1> HIDE DEF A, B, targets
<1>5. Written(b, a) = [i \in 1..k |-> targets[i]]
    BY <1>2, <1>3, <1>4
<1> QED
    BY <1>5 DEF targets

\* Of the three ways a call may go, each is as its answer says.
LEMMA CallDoes ==
    ASSUME NEW call, Readable(call),
           NEW store, NEW gone, SoundStore(store, gone), Fits(store.states)
    PROVE  DoesAsAnswered(call, store)
<1> DEFINE done == CallService(call, store)
           targets == Targets(call)
           written == Written(store, done.store)
           service == call.service
           L == Len(targets)
           m == done.store.states
<1>1. store \in StoreRecord /\ Len(store.bus) \in Nat
    BY DEF SoundStore, StoreRecord
<1>2. ASSUME done.store = store
      PROVE  DOMAIN written = {} /\ Len(written) = 0
  <2>1. written = [i \in 1..0 |-> store.bus[Len(store.bus) + i].entity]
      BY <1>1, <1>2 DEF Written
  <2> QED
      BY <2>1
<1>3. CASE Refused(call)
  <2>1. done.store = store /\ done.answer # "ok"
      BY <1>3, CallEnds
  <2> HIDE DEF done
  <2> QED
      BY <1>2, <2>1 DEF DoesAsAnswered, done
<1>4. CASE ~Refused(call) /\ service = "cover.stop_cover"
  <2>1. done.store = store /\ done.answer = "ok"
      BY <1>4, CallEnds
  <2>2. DOMAIN written = {}
      BY <1>2, <2>1
  <2> HIDE DEF done, written
  <2> QED
      BY <1>4, <2>1, <2>2 DEF DoesAsAnswered, KeepsValue, done, written
<1>5. CASE ~Refused(call) /\ service # "cover.stop_cover"
  <2>1. targets \in Seq(ENTITY \cup {BadId}) /\ L \in Nat
      BY <1>5 DEF Readable, Refused
  <2>2. /\ done.store \in StoreRecord
        /\ \/ done.answer = "ok" /\ CallWrote(call, store, done.store, L)
           \/ /\ done.answer = "invalid_format"
              /\ \E n \in 1..L : /\ CallWrote(call, store, done.store, n - 1)
                                 /\ Offends(Parsed(call.data), targets[n])
      BY <1>5, CallEnds
  <2>3. CASE done.answer = "ok" /\ CallWrote(call, store, done.store, L)
    <3>1. /\ written = [i \in 1..L |-> targets[i]] /\ DOMAIN written = 1..L
      <4> HIDE DEF done
      <4> QED
          BY <1>1, <2>1, <2>2, <2>3, WrittenIs
    <3>2. written = targets
        BY <2>1, <3>1
    <3> DEFINE was == ValueOf(store.states, targets[1], None)
    <3>3. \A i \in 1..L :
              /\ service \notin KeepsValue =>
                    m[targets[i]].value = Meant(service, Parsed(call.data), was)
              /\ service \in Covers =>
                    (m[targets[i]].value = "closed") <=> (m[targets[i]].attrs["current_position"] = 0)
      <4> HIDE DEF done
      <4> QED
          BY <2>3 DEF CallWrote, Wrote
    <3> HIDE DEF was, m, written, targets, service
    <3>4. /\ service \notin KeepsValue =>
                \A i, j \in DOMAIN written : m[written[i]].value = m[written[j]].value
          /\ service \in Covers =>
                \A i \in DOMAIN written :
                    (m[written[i]].value = "closed") <=> (m[written[i]].attrs["current_position"] = 0)
        BY <3>1, <3>2, <3>3
    <3> HIDE DEF done
    <3> QED
        BY <2>3, <3>2, <3>4 DEF DoesAsAnswered, m, written, targets, service, done
  <2>4. CASE /\ done.answer = "invalid_format"
             /\ \E n \in 1..L : /\ CallWrote(call, store, done.store, n - 1)
                                /\ Offends(Parsed(call.data), targets[n])
    <3>1. PICK n \in 1..L : /\ CallWrote(call, store, done.store, n - 1)
                            /\ Offends(Parsed(call.data), targets[n])
        BY <2>4
    <3> DEFINE k == n - 1
    <3>2. k \in Nat /\ k <= L /\ k < L /\ k + 1 = n
        BY <2>1
    <3>3. /\ written = [i \in 1..k |-> targets[i]] /\ Len(written) = k
      <4> HIDE DEF done
      <4> QED
          BY <1>1, <2>1, <2>2, <3>1, <3>2, WrittenIs, SMTT(30)
    <3>4. SubSeq(targets, 1, k) = [i \in 1..k |-> targets[i]]
        BY <2>1, <3>2
    <3>5. targets[k + 1] \notin ENTITY \/ TooLong \in {call.data[f] : f \in DOMAIN call.data}
      <4>1. \A f \in {"option", "hvac_mode"} \cap DOMAIN Parsed(call.data) :
                f \in DOMAIN call.data /\ Parsed(call.data)[f] = call.data[f]
          BY ParsedIs
      <4> QED
          BY <3>1, <3>2, <4>1 DEF Offends
    <3> HIDE DEF written, k, targets, done
    <3>6. Len(written) < Len(targets) /\ written = SubSeq(targets, 1, Len(written))
        BY <3>2, <3>3, <3>4
    <3> QED
        BY <2>4, <3>3, <3>5, <3>6 DEF DoesAsAnswered, written, targets, done
  <2> QED
      BY <2>2, <2>3, <2>4
<1> QED
    BY <1>3, <1>4, <1>5

\* The two forms in which a client's call comes by the other ways, field by field.
LEMMA OtherForms ==
    ASSUME NEW call \in CALL
    PROVE  LET d == InData(call)
               api == [d EXCEPT !.target = None]
               form == [d EXCEPT !.target = None, !.response = FALSE, !.data = FormData(d.data)]
               told == [d EXCEPT !.data = FormData(@)]
           IN  /\ \A c \in {d, api, form, told} : /\ c.service = call.service
                                                  /\ c.target = None /\ c.ids = Targets(call)
               /\ \A c \in {d, api} : c.data = call.data /\ c.response = call.response
               /\ form.data = FormData(call.data) /\ form.response = FALSE
               /\ told.data = FormData(call.data) /\ told.response = call.response
<1>1. DOMAIN call = {"service", "target", "ids", "data", "response"}
    BY WsSessionsAssumption
<1> QED
    BY <1>1 DEF InData

\* A call's targets are the same wherever they are.
LEMMA SameTargets ==
    ASSUME NEW call, NEW c, c.target = None, c.ids = Targets(call)
    PROVE  Targets(c) = Targets(call)
BY DEF Targets

\* The registry looks at nothing else of a call (ServiceRegistry::call).
LEMMA SameCall ==
    ASSUME NEW c, NEW d, NEW store, c.service = d.service, Parsed(c.data) = Parsed(d.data),
           (\E f \in DOMAIN c.data : c.data[f] = Malformed)
              <=> (\E f \in DOMAIN d.data : d.data[f] = Malformed),
           c.response = d.response, Targets(c) = Targets(d),
           Malformed \notin {c.target, c.ids}, Malformed \notin {d.target, d.ids}
    PROVE  CallService(c, store) = CallService(d, store)
BY DEF CallService

\* Where a form leaves out only what is not read, its data mean the same.
LEMMA FormsReadTheSame ==
    ASSUME NEW data, IsReadByForms(data)
    PROVE  /\ Parsed(FormData(data)) = Parsed(data)
           /\ ~\E f \in DOMAIN FormData(data) : FormData(data)[f] = Malformed
           /\ ~\E f \in DOMAIN data : data[f] = Malformed
<1> DEFINE r == FormData(data)
<1>1. /\ DOMAIN r \subseteq DOMAIN data /\ \A f \in DOMAIN r : r[f] = data[f] /\ r[f] # Malformed
    BY DEF FormData
<1>2. FieldsRead(data) \subseteq DOMAIN r /\ \A f \in DOMAIN data : data[f] # Malformed
    BY DEF IsReadByForms
<1> HIDE DEF r
<1>3. FieldsRead(r) = FieldsRead(data)
    BY <1>1, <1>2 DEF FieldsRead
<1>4. /\ Parsed(r) = [f \in FieldsRead(data) |-> Parsed(r)[f]]
      /\ Parsed(data) = [f \in FieldsRead(data) |-> Parsed(data)[f]]
  <2>1. /\ Parsed(r) = [f \in FieldsRead(r) |-> Parsed(r)[f]]
        /\ Parsed(data) = [f \in FieldsRead(data) |-> Parsed(data)[f]]
      BY DEF Parsed, FieldsRead
  <2> QED
      BY <1>3, <2>1
<1>5. \A f \in FieldsRead(data) : Parsed(r)[f] = Parsed(data)[f]
  <2> TAKE f \in FieldsRead(data)
  <2>1. r[f] = data[f]
      BY <1>1, <1>2
  <2> QED
      BY <1>3, <2>1, ParsedIs
<1>6. Parsed(r) = Parsed(data)
    BY <1>4, <1>5
<1> QED
    BY <1>1, <1>2, <1>6 DEF r

\* A client's call can be read, also without the fields a form leaves out.
LEMMA CallsAreReadable ==
    ASSUME NEW call \in CALL, NEW c, Targets(c) = Targets(call),
           c.data \in {call.data, FormData(call.data)},
           Malformed \notin {c.target, c.ids} => Malformed \notin {call.target, call.ids}
    PROVE  Readable(c)
<1>1. DataIsTyped(Parsed(call.data))
    BY ParsedIsTyped
<1>2. DataIsTyped(Parsed(FormData(call.data)))
  <2> DEFINE d == call.data
             r == FormData(d)
  <2>1. /\ DOMAIN r \subseteq DOMAIN d /\ \A f \in DOMAIN r : r[f] = d[f]
      BY DEF FormData
  <2>2. \A f \in DOMAIN Parsed(r) : f \in DOMAIN Parsed(d) /\ Parsed(r)[f] = Parsed(d)[f]
    <3> HIDE DEF r, d
    <3>1. FieldsRead(r) \subseteq FieldsRead(d)
        BY <2>1 DEF FieldsRead
    <3>2. /\ DOMAIN Parsed(r) = FieldsRead(r) /\ DOMAIN Parsed(d) = FieldsRead(d)
          /\ FieldsRead(r) \subseteq DOMAIN r
        BY ParsedIs
    <3> TAKE f \in DOMAIN Parsed(r)
    <3>3. f \in FieldsRead(r) /\ f \in FieldsRead(d) /\ r[f] = d[f]
        BY <2>1, <3>1, <3>2
    <3>4. Parsed(r)[f] = IF f \in Percentages /\ r[f] > 100 THEN 100 ELSE r[f]
        BY <3>3, ParsedIs
    <3>5. Parsed(d)[f] = IF f \in Percentages /\ d[f] > 100 THEN 100 ELSE d[f]
        BY <3>3, ParsedIs
    <3> QED
        BY <3>2, <3>3, <3>4, <3>5
  <2> HIDE DEF r, d
  <2>3. DataIsTyped(Parsed(d))
      BY <1>1 DEF d
  <2> QED
      BY <2>1, <2>2, <2>3 DEF DataIsTyped, r, d
<1>3. Malformed \notin {call.target, call.ids} => Targets(call) \in Seq(ENTITY \cup {BadId})
  <2>1. << >> \in Seq(ENTITY \cup {BadId})
      OBVIOUS
  <2> QED
      BY <2>1, WsSessionsAssumption DEF Targets
<1> QED
    BY <1>1, <1>2, <1>3 DEF Readable

\* A call by WebSocket, by REST and by a form is one call, but for the fields
\* that a form leaves out (ha_ws.rs, api_service_call, ui_service_call).
LEMMA WaysAgree ==
    ASSUME NEW call \in CALL, Malformed \notin {call.target, call.ids},
           NEW store, NEW gone, SoundStore(store, gone), Fits(store.states)
    PROVE  SameByEveryWay(call, store)
<1> DEFINE d == InData(call)
           viaApi == [d EXCEPT !.target = None]
           viaForm == [d EXCEPT !.target = None, !.response = FALSE, !.data = FormData(d.data)]
           told == [d EXCEPT !.data = FormData(@)]
           done == CallService(call, store)
           formed == CallService(viaForm, store)
           ws == WsCallService(call, store)
           api == ApiServiceCall(d, store)
           page == UiServiceCall(d, store)
           isForm == Len(Targets(call)) = 1 /\ ~call.response
<1>1. /\ \A c \in {d, viaApi, viaForm, told} : /\ c.service = call.service
                                               /\ c.target = None /\ c.ids = Targets(call)
      /\ \A c \in {d, viaApi} : c.data = call.data /\ c.response = call.response
      /\ viaForm.data = FormData(call.data) /\ viaForm.response = FALSE
      /\ told.data = FormData(call.data) /\ told.response = call.response
    BY OtherForms
<1>2. Malformed \notin {None, Targets(call)}
    BY ServicesAssumption DEF Targets
<1>3. Readable(call)
    BY CallsAreReadable
<1> HIDE DEF d, viaApi, viaForm, told
<1>4. \A c \in {d, viaApi, viaForm, told} :
          Targets(c) = Targets(call) /\ Malformed \notin {c.target, c.ids}
    BY <1>1, <1>2, SameTargets
<1>5. CallService(viaApi, store) = done
    BY <1>1, <1>4, SameCall
<1>6. IsReadByForms(call.data) /\ ~call.response => formed = done
  <2> SUFFICES ASSUME IsReadByForms(call.data), ~call.response PROVE formed = done
      OBVIOUS
  <2>1. call.response \in BOOLEAN
      BY WsSessionsAssumption
  <2>2. viaForm.response = call.response
      BY <1>1, <2>1
  <2>3. /\ viaForm.service = call.service /\ Parsed(viaForm.data) = Parsed(call.data)
        /\ (\E f \in DOMAIN viaForm.data : viaForm.data[f] = Malformed)
              <=> (\E f \in DOMAIN call.data : call.data[f] = Malformed)
      BY <1>1, FormsReadTheSame
  <2>4. Targets(viaForm) = Targets(call) /\ Malformed \notin {viaForm.target, viaForm.ids}
      BY <1>4
  <2> QED
      BY <2>2, <2>3, <2>4, SameCall
<1>7. done.answer \in {"ok", "invalid_format", "not_found"}
    BY <1>3, CallEnds
<1>8. isForm /\ done.answer # "ok" => done.store = store
  <2> SUFFICES ASSUME isForm, done.answer # "ok" PROVE done.store = store
      OBVIOUS
  <2>1. \/ done.store = store
        \/ \E n \in 1..Len(Targets(call)) : CallWrote(call, store, done.store, n - 1)
      BY <1>3, CallEnds
  <2>2. ASSUME NEW n \in 1..Len(Targets(call)), CallWrote(call, store, done.store, n - 1)
        PROVE  done.store = store
    <3>1. n - 1 = 0
        OBVIOUS
    <3> HIDE DEF done
    <3> QED
        BY <2>2, <3>1 DEF CallWrote, Wrote
  <2> QED
      BY <2>1, <2>2
<1>9. DoesAsAnswered(told, store)
  <2>1. Readable(told)
      BY <1>1, <1>4, CallsAreReadable
  <2> QED
      BY <2>1, CallDoes
<1>10. /\ ws.store = done.store /\ api.store = done.store /\ page.store = formed.store
       /\ ws.answer = "result" <=> done.answer = "ok"
       /\ api.answer = 200 <=> done.answer = "ok"
       /\ page.answer = 204 <=> formed.answer = "ok"
  <2>1. ws.store = done.store /\ (ws.answer = "result" <=> done.answer = "ok")
    <3> HIDE DEF done
    <3>1. CallService(call, store) = done
        BY DEF done
    <3> QED
        BY <3>1 DEF WsCallService
  <2>2. api.store = done.store /\ (api.answer = 200 <=> done.answer = "ok")
    <3> HIDE DEF done
    <3>1. CallService([d EXCEPT !.target = None], store) = done
        BY <1>5 DEF viaApi
    <3> QED
        BY <3>1 DEF ApiServiceCall
  <2>3. page.store = formed.store /\ (page.answer = 204 <=> formed.answer = "ok")
    <3> HIDE DEF formed
    <3>1. CallService([d EXCEPT !.target = None, !.response = FALSE, !.data = FormData(d.data)], store)
            = formed
        BY DEF formed, viaForm
    <3> QED
        BY <3>1 DEF UiServiceCall
  <2> QED
      BY <2>1, <2>2, <2>3
<1> DEFINE Agrees ==
        /\ ws.store = api.store /\ (ws.answer = "result" <=> api.answer = 200)
        /\ isForm /\ ws.answer # "result" => ws.store = store
        /\ isForm /\ IsReadByForms(call.data) =>
              page.store = ws.store /\ (page.answer = 204 <=> api.answer = 200)
        /\ isForm /\ page.answer = 204 => DoesAsAnswered(told, store)
<1>11. Agrees
  <2> HIDE DEF ws, api, page, done, formed
  <2> QED
      BY <1>6, <1>8, <1>9, <1>10
<1> QED
    BY <1>11 DEF SameByEveryWay, d, told

\* The catalogues list every service once, with the fields invoke needs
\* (BUILTIN_SERVICES, description and invoke).
LEMMA CatalogueLists ==
    ASSUME NEW service, NEW fields
    PROVE  /\ (\E d \in DOMAIN GetServices :
                  service \in DOMAIN GetServices[d] /\ GetServices[d][service] \subseteq fields)
              <=> service \in SERVICE /\ NeededFields(service) \subseteq fields
           /\ (\E entry \in ApiServicesList :
                  service \in DOMAIN entry.services /\ entry.services[service] \subseteq fields)
              <=> service \in SERVICE /\ NeededFields(service) \subseteq fields
<1>1. DescribedFields(service) = NeededFields(service)
    BY DEF DescribedFields, NeededFields
<1>2. /\ DOMAIN GetServices = DOMAIN InDomain
      /\ \A d \in DOMAIN InDomain :
            /\ DOMAIN GetServices[d] = InDomain[d]
            /\ service \in InDomain[d] => GetServices[d][service] = DescribedFields(service)
    BY DEF GetServices
<1>3. service \in SERVICE <=> \E d \in DOMAIN InDomain : service \in InDomain[d]
    BY DEF SERVICE
<1>4. ASSUME NEW d \in DOMAIN InDomain
      PROVE  LET entry == [domain |-> d, services |-> [s \in InDomain[d] |-> DescribedFields(s)]]
             IN  /\ DOMAIN entry.services = InDomain[d]
                 /\ service \in InDomain[d] => entry.services[service] = DescribedFields(service)
    OBVIOUS
<1>5. (\E entry \in ApiServicesList :
          service \in DOMAIN entry.services /\ entry.services[service] \subseteq fields)
      <=> \E d \in DOMAIN InDomain : service \in InDomain[d] /\ DescribedFields(service) \subseteq fields
    BY <1>4 DEF ApiServicesList
<1> QED
    BY <1>1, <1>2, <1>3, <1>5

\* A well-formed call works exactly when it has the fields the catalogues say.
LEMMA CallWorks ==
    ASSUME NEW call \in CALL,
           NEW store, NEW gone, SoundStore(store, gone), Fits(store.states)
    PROVE  WorksAsDescribed(call, store)
<1> DEFINE done == CallService(call, store)
           has == call.service \in SERVICE /\ NeededFields(call.service) \subseteq FieldsRead(call.data)
<1>1. SUFFICES ASSUME ~call.response, IsWellFormed(call)
               PROVE  done.answer = "ok" <=> has
  <2> HIDE DEF done
  <2>1. CallService(call, store) = done
      BY DEF done
  <2> QED
      BY <2>1, CatalogueLists DEF WorksAsDescribed
<1>2. Readable(call)
    BY CallsAreReadable
<1>3. Refused(call) <=> ~has
  <2>1. NeededFields("cover.stop_cover") = {}
      BY DEF NeededFields
  <2> QED
      BY <1>1, <2>1 DEF Refused, IsWellFormed
<1>4. ASSUME NEW n \in 1..Len(Targets(call))
      PROVE  ~Offends(Parsed(call.data), Targets(call)[n])
  <2>1. Targets(call) \in Seq(ENTITY \cup {BadId})
      BY <1>1, <1>2 DEF Readable, IsWellFormed
  <2>2. Targets(call)[n] \in ENTITY
      BY <1>1, <2>1 DEF IsWellFormed
  <2>3. \A f \in {"option", "hvac_mode"} \cap DOMAIN Parsed(call.data) :
            Parsed(call.data)[f] = call.data[f] /\ f \in DOMAIN call.data
      BY ParsedIs
  <2> QED
      BY <1>1, <2>2, <2>3 DEF Offends, IsWellFormed
<1>5. /\ Refused(call) => done.answer \in {"invalid_format", "not_found"}
      /\ ~Refused(call) => done.answer = "ok"
    BY <1>2, <1>4, CallEnds
<1> QED
    BY <1>3, <1>5

\* No step leaves a state that shows what set refuses (State::set's two checks).
LEMMA FitsStep == StoreInv /\ Fits(states) /\ [Next]_vars => Fits(states)'
<1> SUFFICES ASSUME StoreInv, Fits(states), [Next]_vars PROVE Fits(states')
    OBVIOUS
<1>1. Store.states = states /\ states \in [ENTITY -> StateRecord \cup {None}]
    BY StoreTyped
<1>2. ASSUME NEW e \in ENTITY, NEW v \in VALUE \cup REPORTED,
             SetEntityState(e, v) \/ Report(e, v)
      PROVE  Fits(states')
  <2>1. v # TooLong
      BY <1>2 DEF SetEntityState, Report, Accepts
  <2> DEFINE old == states[e]
             at == IF old # None /\ old.value = v THEN old.changed ELSE Now(Store)
             x == [value |-> v, attrs |-> NoAttributes, changed |-> at]
  <2>2. states' = [states EXCEPT ![e] = x]
      BY <1>1, <1>2 DEF SetEntityState, Report, Becomes, Set
  <2>3. x.value = v
      OBVIOUS
  <2> HIDE DEF x
  <2> QED
      BY <1>1, <2>1, <2>2, <2>3 DEF Fits
<1>3. ASSUME NEW e \in ZIGBEE, DeleteEntity(e)
      PROVE  Fits(states')
  <2>1. states' = [states EXCEPT ![e] = None]
      BY <1>3 DEF DeleteEntity, RemoveState
  <2> QED
      BY <1>1, <2>1 DEF Fits
<1>4. ASSUME NEW call \in MADE, Call(call)
      PROVE  Fits(states')
  <2> DEFINE next == CallService(call, Store).store
  <2>1. call \in CALL
      BY WsSessionsAssumption
  <2>2. Readable(call)
      BY <2>1, CallsAreReadable
  <2>3. Fits(next.states)
      BY <1>1, <2>2, CallFits DEF StoreInv
  <2>4. states' = next.states
      BY <1>4 DEF Call, Becomes
  <2> HIDE DEF next
  <2> QED
      BY <2>3, <2>4
<1>5. CASE UNCHANGED states
    BY <1>5 DEF Fits
<1>6. \/ \E e \in ENTITY, v \in VALUE \cup REPORTED : SetEntityState(e, v) \/ Report(e, v)
      \/ \E e \in ZIGBEE : DeleteEntity(e)
      \/ \E call \in MADE : Call(call)
      \/ UNCHANGED states
    BY WsSessionsAssumption
       DEF Next, vars, storeVars, Connect, Authenticate, Deliver, Close, Unsubscribe, Subscribe,
           Receive, Lag, Push, PushFails, Record, RecorderLags, RecordReport
<1> QED
    BY <1>2, <1>3, <1>4, <1>5, <1>6

\* What a caller may rely on, whoever listens meanwhile.
CallsArePromised == \A call \in CALL :
    /\ DoesAsAnswered(call, Store) /\ WorksAsDescribed(call, Store)
    /\ Malformed \notin {call.target, call.ids} => SameByEveryWay(call, Store)

\* A call does what it answers, by every transport and as the catalogues say:
\* for any calls, on every store that requests can make, and not only while
\* nobody listens, where the run looks (service.rs).
THEOREM CallsAreEverAsPromised == Spec => [](CallsAreAsPromised /\ CallsArePromised)
<1>1. Init => StoreInv /\ Fits(states)
  <2>1. Init => Fits(states)
      BY DEF Init, StateInit, Fits
  <2> QED
      BY <2>1, StoreInitially
<1>2. StoreInv /\ Fits(states) /\ [Next]_vars => StoreInv' /\ Fits(states)'
    BY StoreStep, FitsStep
<1>3. ASSUME StoreInv, Fits(states)
      PROVE  CallsAreAsPromised /\ CallsArePromised
  <2>1. SoundStore(Store, removed) /\ Fits(Store.states)
      BY <1>3, StoreTyped DEF StoreInv
  <2>2. ASSUME NEW call \in CALL
        PROVE  /\ DoesAsAnswered(call, Store) /\ WorksAsDescribed(call, Store)
               /\ Malformed \notin {call.target, call.ids} => SameByEveryWay(call, Store)
    <3>1. Readable(call)
        BY CallsAreReadable
    <3> QED
        BY <2>1, <3>1, CallDoes, CallWorks, WaysAgree
  <2> QED
      BY <2>2 DEF CallsAreAsPromised, CallsDoAsAnswered, TransportsAgree, CatalogueHolds,
         CallsArePromised
<1> QED
    BY <1>1, <1>2, <1>3, PTL DEF Spec
-----------------------------------------------------------------------------
(* The listeners. *)

TaskRecord == [socket : SOCKET, id : SUBID, kind : ASKED, running : BOOLEAN,
               from : Nat, pos : Nat, hold : MessageRecord \cup {None}]
HeardRecord == [told : Nat \cup {-1}, mirror : Changes, lost : SUBSET Nat]
EntryRecord == [by : {"listener", "loop"}, entity : ENTITY, old : Texts \cup {None},
                new : Texts, event : Nat \ {0}, upto : Nat]
LogbookRecord == [pos : Nat, entries : Seq(EntryRecord), lost : SUBSET Nat,
                  report : ReportRecord \cup {None}]

(* What the sessions, their tasks and queues look like. *)
Shaped ==
    /\ phase \in [SOCKET -> {"new", "auth", "active", "closed"}]
    /\ tasks \in Seq(TaskRecord) /\ heard \in Seq(HeardRecord) /\ Len(heard) = Len(tasks)
    /\ subs \in [SOCKET -> [SUBID -> 0..Len(tasks)]]
    /\ queue \in [SOCKET -> Seq(MessageRecord)]

(* A session's map names its own tasks, by the ids they were asked for. *)
Named == \A s \in SOCKET, i \in SUBID :
    subs[s][i] # 0 => tasks[subs[s][i]].socket = s /\ tasks[subs[s][i]].id = i

(* A session's queue has room for what it holds, from its own tasks. *)
Placed == \A s \in SOCKET :
    /\ Len(queue[s]) <= QUEUE
    /\ \A n \in DOMAIN queue[s] : /\ queue[s][n].task \in DOMAIN tasks
                                  /\ tasks[queue[s][n].task].socket = s

(* Where in queue q the messages of task t are, and all of them on their way. *)
Mine(t, q) == {n \in DOMAIN q : q[n].task = t}
OnWay(t, r, q) == {q[n] : n \in Mine(t, q)} \cup ({r.hold} \ {None})

(* The messages of task t, whose record is r, are in line between what its    *)
(* client was told and where the task is in the channel.                      *)
InLine(t, r, told, q) ==
    /\ r.from <= r.pos /\ told <= r.pos
    /\ \A m \in OnWay(t, r, q) :
          m \in MessageRecord /\ m.task = t /\ told < m.at /\ m.at \in r.from..r.pos
    /\ \A i, j \in Mine(t, q) : i < j => q[i].at < q[j].at
    /\ r.hold # None => \A i \in Mine(t, q) : q[i].at < r.hold.at

Lined == \A t \in DOMAIN tasks :
    /\ InLine(t, tasks[t], heard[t].told, queue[tasks[t].socket])
    /\ tasks[t].pos <= Len(bus)

(* What map f says of the entities is what the events up to n say, but for    *)
(* those in lost.                                                             *)
Mirrors(f, n, lost, b, gone) == \A e \in ENTITY :
    IF e \in DOMAIN f
    THEN \E k \in EventsIn(b, e) :
            /\ k <= n /\ f[e] = b[k].new
            /\ \A j \in EventsIn(b, e) : k < j /\ j <= n => j \in lost
    ELSE \A j \in EventsIn(b, e) :
            j <= n => j \in lost \/ \E i \in j..Len(b) : <<e, i>> \in gone

(* What a task of an entities subscription has told, has on its way (W) and   *)
(* has lost are the state when it was made and all events since.              *)
Follows(r, h, W, b, gone) ==
    /\ h.told = -1 => DOMAIN h.mirror = {} /\ \E m \in W : m.at = r.from
    /\ h.told # -1 => r.from <= h.told /\ Mirrors(h.mirror, h.told, h.lost, b, gone)
    /\ \A n \in (r.from + 1)..r.pos :
          n <= h.told \/ n \in h.lost \/ \E m \in W : m.at = n
    /\ \A m \in W :
          IF m.at = r.from THEN Mirrors(m.changes, r.from, {}, b, gone)
          ELSE m.changes = Only(b[m.at].entity, b[m.at].new)

WayOf(t) == OnWay(t, tasks[t], queue[tasks[t].socket])
Listens(t) ==
    tasks[t].running /\ tasks[t].kind = "entities" /\ phase[tasks[t].socket] = "active"
Followed == \A t \in DOMAIN tasks :
    /\ phase[tasks[t].socket] \in {"active", "closed"}
    /\ Listens(t) => Follows(tasks[t], heard[t], WayOf(t), bus, removed)

(* The entries l of the logbook, whose task has come to pos, are each        *)
(* writer's in order, and what is missing of the task's since the oldest of   *)
(* them was lost.                                                             *)
ByTask(l) == {j \in DOMAIN l : l[j].by = "listener"}
Kept(l, pos, lost) ==
    /\ l \in Seq(EntryRecord)
    /\ \A j \in ByTask(l) : l[j].event \in 1..pos /\ l[j].upto = l[j].event
    /\ \A j, k \in DOMAIN l : j < k /\ l[j].by = l[k].by => l[j].upto < l[k].event
    /\ \A j \in ByTask(l) : \A n \in l[j].event..pos :
          n \in lost \/ \E k \in ByTask(l) : l[k].event = n

(* The loop's entries tell of no more than the first n events. *)
LoopUpTo(l, n) == \A j \in DOMAIN l : l[j].by = "loop" => l[j].upto < n

(* EntryIsTrue, of the events b. *)
TrueOf(x, b) ==
    /\ b[x.event].entity = x.entity
    /\ x.event <= x.upto /\ x.upto <= Len(b)
    /\ x.old = IF b[x.event].old = None THEN None ELSE b[x.event].old.value
    /\ x.new = b[Latest({n \in EventsIn(b, x.entity) : n <= x.upto})].new.value
    /\ x.by = "listener" => x.upto = x.event
    /\ x.by = "loop" => x.old \notin {None, x.new}

(* The report r the event loop has in hand is of an event there was. *)
InHand(r, b) ==
    /\ r.event \in DOMAIN b /\ b[r.event].entity = r.entity
    /\ b[r.event].old # None /\ b[r.event].old.value = r.old

LogInv ==
    /\ logbook \in LogbookRecord /\ logbook.pos <= Len(bus) /\ Len(logbook.entries) <= LOGBOOK
    /\ Kept(logbook.entries, logbook.pos, logbook.lost)
    /\ \A j \in DOMAIN logbook.entries : TrueOf(logbook.entries[j], bus)
    /\ logbook.report # None =>
          InHand(logbook.report, bus) /\ LoopUpTo(logbook.entries, logbook.report.event)

SessionInv == Shaped /\ Named /\ Placed /\ OnlyReplacedTasksOutlive /\ Lined
-----------------------------------------------------------------------------
(* The messages on their way, as they are queued and delivered. *)

(* c is queue q with message m at its end. *)
Grown(q, m, c) ==
    /\ c \in Seq(MessageRecord) /\ Len(c) = Len(q) + 1 /\ Len(q) \in Nat
    /\ DOMAIN c = 1..(Len(q) + 1) /\ DOMAIN q = 1..Len(q)
    /\ c[Len(q) + 1] = m /\ \A n \in 1..Len(q) : c[n] = q[n]

\* Append makes such a queue.
LEMMA AppendGrows ==
    ASSUME NEW q \in Seq(MessageRecord), NEW m \in MessageRecord
    PROVE  Grown(q, m, Append(q, m))
BY DEF Grown

(* Which messages of queue c are those of task t then. *)
GrownFor(t, q, m, c) ==
    /\ m.task # t => Mine(t, c) = Mine(t, q)
    /\ m.task = t => Mine(t, c) = Mine(t, q) \cup {Len(q) + 1}
    /\ \A n \in Mine(t, q) : c[n] = q[n] /\ n \in Nat /\ n < Len(q) + 1
    /\ c[Len(q) + 1] = m /\ Len(q) + 1 \in Nat

\* A message that joins the queue is the last of its task's.
LEMMA QueueJoined ==
    ASSUME NEW q, NEW m, NEW t, NEW c, Grown(q, m, c)
    PROVE  GrownFor(t, q, m, c)
<1> DEFINE N == Len(q)
<1>1. /\ c \in Seq(MessageRecord) /\ Len(c) = N + 1 /\ N \in Nat
      /\ DOMAIN c = 1..(N + 1) /\ DOMAIN q = 1..N
      /\ c[N + 1] = m /\ N + 1 \in Nat /\ \A n \in 1..N : c[n] = q[n]
    BY DEF Grown
<1> HIDE DEF N
<1>2. \A n \in 1..(N + 1) : n \in 1..N \/ n = N + 1
    BY <1>1
<1>3. \A n \in 1..N : n \in 1..(N + 1) /\ n \in Nat /\ n < N + 1
    BY <1>1
<1>4. N + 1 \in 1..(N + 1)
    BY <1>1
<1>5. m.task # t => Mine(t, c) = Mine(t, q)
    BY <1>1, <1>2, <1>3 DEF Mine
<1>6. m.task = t => Mine(t, c) = Mine(t, q) \cup {N + 1}
    BY <1>1, <1>2, <1>3, <1>4 DEF Mine
<1>7. \A n \in Mine(t, q) : c[n] = q[n] /\ n \in Nat /\ n < N + 1
    BY <1>1, <1>3 DEF Mine
<1> QED
    BY <1>1, <1>5, <1>6, <1>7 DEF N, GrownFor

\* Another task's message in the queue changes nothing for task t.
LEMMA OthersPush ==
    ASSUME NEW q \in Seq(MessageRecord), NEW m \in MessageRecord, NEW t, m.task # t,
           NEW r, NEW told
    PROVE  /\ OnWay(t, r, Append(q, m)) = OnWay(t, r, q)
           /\ InLine(t, r, told, q) => InLine(t, r, told, Append(q, m))
<1> DEFINE c == Append(q, m)
<1>1. Grown(q, m, c)
    BY AppendGrows
<1> HIDE DEF c
<1>2. GrownFor(t, q, m, c)
    BY <1>1, QueueJoined
<1>3. Mine(t, c) = Mine(t, q) /\ \A n \in Mine(t, q) : c[n] = q[n]
    BY <1>2 DEF GrownFor
<1>4. OnWay(t, r, c) = OnWay(t, r, q)
    BY <1>1, <1>3 DEF OnWay
<1> QED
    BY <1>1, <1>3, <1>4 DEF InLine, c

\* What a task puts in the queue is still on its way, behind its other messages.
LEMMA OwnPush ==
    ASSUME NEW q \in Seq(MessageRecord), NEW t, NEW r \in TaskRecord, r.hold # None,
           NEW told, InLine(t, r, told, q)
    PROVE  LET d == [r EXCEPT !.hold = None]
               c == Append(q, r.hold)
           IN  OnWay(t, d, c) = OnWay(t, r, q) /\ InLine(t, d, told, c)
<1> DEFINE m == r.hold
           c == Append(q, m)
           d == [r EXCEPT !.hold = None]
           k == Len(q) + 1
<1>1. m \in MessageRecord /\ m # None
    BY DEF TaskRecord
<1>2. m \in OnWay(t, r, q) /\ m.task = t
  <2>1. m \in OnWay(t, r, q)
      BY <1>1 DEF OnWay
  <2> QED
      BY <2>1 DEF InLine
<1>3. d.hold = None /\ d.pos = r.pos /\ d.from = r.from
    BY DEF TaskRecord
<1>4. Grown(q, m, c)
    BY <1>1, AppendGrows
<1> HIDE DEF m, d, c
<1>5. GrownFor(t, q, m, c)
    BY <1>4, QueueJoined
<1>6. /\ Mine(t, c) = Mine(t, q) \cup {k} /\ c[k] = m /\ k \in Nat
      /\ \A n \in Mine(t, q) : c[n] = q[n] /\ n \in Nat /\ n < k
    BY <1>2, <1>5 DEF GrownFor
<1> HIDE DEF k
<1>7. OnWay(t, d, c) = OnWay(t, r, q)
    BY <1>1, <1>3, <1>6 DEF OnWay, m
<1>8. \A i, j \in Mine(t, c) : i < j => c[i].at < c[j].at
  <2> SUFFICES ASSUME NEW i \in Mine(t, c), NEW j \in Mine(t, c), i < j
               PROVE  c[i].at < c[j].at
      OBVIOUS
  <2>1. i \in Mine(t, q)
      BY <1>6
  <2>2. CASE j \in Mine(t, q)
      BY <1>6, <2>1, <2>2 DEF InLine
  <2>3. CASE j = k
      BY <1>1, <1>6, <2>1, <2>3 DEF InLine, m
  <2> QED
      BY <1>6, <2>2, <2>3
<1>9. InLine(t, d, told, c)
    BY <1>3, <1>7, <1>8 DEF InLine
<1> QED
    BY <1>7, <1>9 DEF m, c, d

\* The queue without its first message.
LEMMA QueueLeft ==
    ASSUME NEW q \in Seq(MessageRecord), q # << >>, NEW t
    PROVE  /\ Tail(q) \in Seq(MessageRecord) /\ Len(Tail(q)) = Len(q) - 1
           /\ Len(q) \in Nat \ {0} /\ 1 \in DOMAIN q /\ Head(q) = q[1]
           /\ \A n \in Mine(t, Tail(q)) :
                 n + 1 \in Mine(t, q) /\ Tail(q)[n] = q[n + 1] /\ n \in Nat \ {0}
           /\ \A k \in Mine(t, q) : k # 1 =>
                 k - 1 \in Mine(t, Tail(q)) /\ Tail(q)[k - 1] = q[k] /\ k \in Nat
<1> DEFINE N == Len(q)
           c == Tail(q)
<1>1. /\ c \in Seq(MessageRecord) /\ Len(c) = N - 1 /\ N \in Nat \ {0}
      /\ DOMAIN c = 1..(N - 1) /\ DOMAIN q = 1..N /\ Head(q) = q[1]
      /\ \A n \in 1..(N - 1) : c[n] = q[n + 1]
    OBVIOUS
<1> HIDE DEF c, N
<1>2. \A n \in 1..(N - 1) : n + 1 \in 1..N /\ n \in Nat \ {0}
    BY <1>1
<1>3. \A k \in 1..N : k # 1 => k - 1 \in 1..(N - 1) /\ c[k - 1] = q[k] /\ k \in Nat
  <2> TAKE k \in 1..N
  <2> DEFINE j == k - 1
  <2>1. k # 1 => j \in 1..(N - 1) /\ j + 1 = k /\ k \in Nat
      BY <1>1
  <2> HIDE DEF j
  <2>2. k # 1 => j \in 1..(N - 1) /\ c[j] = q[k] /\ k \in Nat
      BY <1>1, <2>1
  <2> QED
      BY <2>2 DEF j
<1>4. \A n \in Mine(t, c) : n + 1 \in Mine(t, q) /\ c[n] = q[n + 1] /\ n \in Nat \ {0}
    BY <1>1, <1>2 DEF Mine
<1>5. \A k \in Mine(t, q) : k # 1 => k - 1 \in Mine(t, c) /\ c[k - 1] = q[k] /\ k \in Nat
    BY <1>1, <1>3 DEF Mine
<1>6. 1 \in DOMAIN q
    BY <1>1
<1> QED
    BY <1>1, <1>4, <1>5, <1>6 DEF c, N

\* The client that is told the first message has those behind it before it; to
\* the other tasks nothing happens.
LEMMA HeadDelivered ==
    ASSUME NEW q \in Seq(MessageRecord), q # << >>, NEW t, NEW r \in TaskRecord,
           NEW told, InLine(t, r, told, q)
    PROVE  LET m == Head(q)
           IN  /\ m.task # t => /\ OnWay(t, r, Tail(q)) = OnWay(t, r, q)
                                /\ InLine(t, r, told, Tail(q))
               /\ m.task = t => /\ OnWay(t, r, q) = OnWay(t, r, Tail(q)) \cup {m}
                                /\ InLine(t, r, m.at, Tail(q))
<1> DEFINE m == Head(q)
           c == Tail(q)
<1>1. /\ c \in Seq(MessageRecord) /\ 1 \in DOMAIN q /\ m = q[1]
      /\ \A n \in Mine(t, c) : n + 1 \in Mine(t, q) /\ c[n] = q[n + 1] /\ n \in Nat \ {0}
      /\ \A k \in Mine(t, q) : k # 1 => k - 1 \in Mine(t, c) /\ c[k - 1] = q[k] /\ k \in Nat
    BY QueueLeft
<1> HIDE DEF m, c
<1>2. \A i, j \in Mine(t, c) : i < j => c[i].at < c[j].at
  <2> SUFFICES ASSUME NEW i \in Mine(t, c), NEW j \in Mine(t, c), i < j
               PROVE  c[i].at < c[j].at
      OBVIOUS
  <2> DEFINE a == i + 1
             b == j + 1
  <2>1. a \in Mine(t, q) /\ b \in Mine(t, q) /\ a < b /\ c[i] = q[a] /\ c[j] = q[b]
      BY <1>1
  <2> HIDE DEF a, b
  <2> QED
      BY <2>1 DEF InLine
<1>3. {c[n] : n \in Mine(t, c)} \subseteq {q[n] : n \in Mine(t, q)}
    BY <1>1
<1>4. \A k \in Mine(t, q) : k # 1 => q[k] \in {c[n] : n \in Mine(t, c)}
    BY <1>1
<1>5. r.hold # None => \A i \in Mine(t, c) : c[i].at < r.hold.at
  <2> SUFFICES ASSUME r.hold # None, NEW i \in Mine(t, c) PROVE c[i].at < r.hold.at
      OBVIOUS
  <2> DEFINE a == i + 1
  <2>1. a \in Mine(t, q) /\ c[i] = q[a]
      BY <1>1
  <2> HIDE DEF a
  <2> QED
      BY <2>1 DEF InLine
<1>6. ASSUME m.task # t
      PROVE  OnWay(t, r, c) = OnWay(t, r, q) /\ InLine(t, r, told, c)
  <2>1. 1 \notin Mine(t, q)
      BY <1>1, <1>6 DEF Mine
  <2>2. OnWay(t, r, c) = OnWay(t, r, q)
      BY <1>3, <1>4, <2>1 DEF OnWay
  <2> QED
      BY <1>2, <1>5, <2>2 DEF InLine
<1>7. ASSUME m.task = t
      PROVE  OnWay(t, r, q) = OnWay(t, r, c) \cup {m} /\ InLine(t, r, m.at, c)
  <2>1. 1 \in Mine(t, q)
      BY <1>1, <1>7 DEF Mine
  <2>2. OnWay(t, r, q) = OnWay(t, r, c) \cup {m}
      BY <1>1, <1>3, <1>4, <2>1 DEF OnWay
  <2>3. \A x \in OnWay(t, r, c) : m.at < x.at
    <3>1. ASSUME NEW i \in Mine(t, c)
          PROVE  m.at < c[i].at
      <4> DEFINE a == i + 1
      <4>1. a \in Mine(t, q) /\ c[i] = q[a] /\ 1 < a
          BY <1>1
      <4> HIDE DEF a
      <4> QED
          BY <1>1, <2>1, <4>1 DEF InLine
    <3>2. r.hold # None => m.at < r.hold.at
        BY <1>1, <2>1 DEF InLine
    <3> QED
        BY <3>1, <3>2 DEF OnWay
  <2>4. m.at <= r.pos
      BY <2>2 DEF InLine, TaskRecord
  <2> QED
      BY <1>2, <1>5, <2>2, <2>3, <2>4 DEF InLine
<1> QED
    BY <1>6, <1>7 DEF m, c

\* A task that moves on in the channel and takes the event it finds there is
\* still in line: the event is newer than what it has on its way.
LEMMA MovesOn ==
    ASSUME NEW q, NEW t, NEW r \in TaskRecord, r.hold = None, NEW told \in Nat \cup {-1},
           InLine(t, r, told, q), NEW n \in Nat, r.pos < n,
           NEW h \in MessageRecord \cup {None}, h # None => h.task = t /\ h.at = n
    PROVE  LET d == [r EXCEPT !.pos = n, !.hold = h]
           IN  /\ OnWay(t, d, q) = OnWay(t, r, q) \cup ({h} \ {None})
               /\ InLine(t, d, told, q)
<1> DEFINE d == [r EXCEPT !.pos = n, !.hold = h]
<1>1. d.hold = h /\ d.pos = n /\ d.from = r.from /\ r.from \in Nat /\ r.pos \in Nat
    BY DEF TaskRecord
<1> HIDE DEF d
<1>2. OnWay(t, d, q) = OnWay(t, r, q) \cup ({h} \ {None})
    BY <1>1 DEF OnWay
<1>3. \A i \in Mine(t, q) : q[i] \in OnWay(t, r, q)
    BY DEF OnWay
<1>4. ASSUME NEW m \in OnWay(t, d, q)
      PROVE  m \in MessageRecord /\ m.task = t /\ told < m.at /\ m.at \in d.from..d.pos
  <2>1. CASE m \in OnWay(t, r, q)
    <3>1. m \in MessageRecord /\ m.task = t /\ told < m.at /\ m.at \in r.from..r.pos
        BY <2>1 DEF InLine
    <3> QED
        BY <1>1, <3>1
  <2>2. CASE m = h /\ h # None
    <3>1. told <= r.pos /\ r.from <= r.pos
        BY DEF InLine
    <3> QED
        BY <1>1, <2>2, <3>1
  <2> QED
      BY <1>2, <1>4, <2>1, <2>2
<1>5. ASSUME d.hold # None, NEW i \in Mine(t, q)
      PROVE  q[i].at < d.hold.at
  <2>1. q[i].at \in r.from..r.pos
      BY <1>3 DEF InLine
  <2>2. d.hold.at = n
      BY <1>1, <1>5
  <2> QED
      BY <1>1, <2>1, <2>2
<1>6. d.from <= d.pos /\ told <= d.pos
    BY <1>1 DEF InLine
<1>7. InLine(t, d, told, q)
    BY <1>4, <1>5, <1>6 DEF InLine
<1> QED
    BY <1>2, <1>7 DEF d

\* What is dropped leaves the rest in line.
LEMMA StillInLine ==
    ASSUME NEW q, NEW t, NEW r, NEW d, NEW told, InLine(t, r, told, q),
           d.from = r.from, d.pos = r.pos, d.hold \in {r.hold, None}
    PROVE  InLine(t, d, told, q) /\ InLine(t, d, told, << >>)
<1>1. OnWay(t, d, q) \subseteq OnWay(t, r, q)
    BY DEF OnWay
<1>2. Mine(t, << >>) = {}
    BY DEF Mine
<1>3. OnWay(t, d, << >>) \subseteq OnWay(t, r, q)
    BY <1>2 DEF OnWay
<1> QED
    BY <1>1, <1>2, <1>3 DEF InLine
-----------------------------------------------------------------------------
(* Every step keeps the sessions in order. *)

\* A task, what its client was told and the queue it fills.
LEMMA TaskAt ==
    ASSUME Shaped, NEW t \in DOMAIN tasks
    PROVE  /\ tasks[t] \in TaskRecord /\ tasks[t].socket \in SOCKET /\ tasks[t].id \in SUBID
           /\ t \in DOMAIN heard /\ heard[t] \in HeardRecord
           /\ queue[tasks[t].socket] \in Seq(MessageRecord)
           /\ t \in Nat \ {0}
<1>1. tasks \in Seq(TaskRecord) /\ heard \in Seq(HeardRecord) /\ Len(heard) = Len(tasks)
    BY DEF Shaped
<1>2. tasks[t] \in TaskRecord /\ t \in DOMAIN heard /\ t \in Nat \ {0}
    BY <1>1
<1>3. heard[t] \in HeardRecord
    BY <1>1, <1>2
<1>4. tasks[t].socket \in SOCKET /\ tasks[t].id \in SUBID
    BY <1>2 DEF TaskRecord
<1> QED
    BY <1>2, <1>3, <1>4 DEF Shaped

(* The tasks are those there were, and none of them runs that did not. *)
Alike(r, d) == /\ d.socket = r.socket /\ d.id = r.id /\ d.kind = r.kind /\ d.from = r.from
               /\ d.running => r.running
Steady ==
    /\ tasks' \in Seq(TaskRecord) /\ Len(tasks') = Len(tasks) /\ DOMAIN tasks' = DOMAIN tasks
    /\ \A t \in DOMAIN tasks : Alike(tasks[t], tasks'[t])

\* The maps of the sessions name the tasks they named.
LEMMA SteadyTasks ==
    ASSUME SessionInv, Steady, subs' = subs
    PROVE  /\ subs' \in [SOCKET -> [SUBID -> 0..Len(tasks')]]
           /\ Named' /\ OnlyReplacedTasksOutlive'
<1>1. subs \in [SOCKET -> [SUBID -> 0..Len(tasks)]] /\ DOMAIN tasks = 1..Len(tasks) /\ Len(tasks) \in Nat
    BY DEF SessionInv, Shaped
<1>2. subs' \in [SOCKET -> [SUBID -> 0..Len(tasks')]]
    BY <1>1 DEF Steady
<1>3. Named'
  <2> SUFFICES ASSUME NEW s \in SOCKET, NEW i \in SUBID, subs[s][i] # 0
               PROVE  tasks'[subs[s][i]].socket = s /\ tasks'[subs[s][i]].id = i
      BY DEF Named
  <2>1. subs[s][i] \in DOMAIN tasks
      BY <1>1
  <2> QED
      BY <2>1 DEF SessionInv, Named, Steady, Alike
<1>4. OnlyReplacedTasksOutlive'
  <2> SUFFICES ASSUME NEW t \in DOMAIN tasks, tasks'[t].running
               PROVE  \/ subs[tasks'[t].socket][tasks'[t].id] = t
                      \/ \E u \in DOMAIN tasks : /\ u > t
                                                 /\ tasks'[u].socket = tasks'[t].socket
                                                 /\ tasks'[u].id = tasks'[t].id
      BY DEF OnlyReplacedTasksOutlive, Steady
  <2>1. \/ subs[tasks[t].socket][tasks[t].id] = t
        \/ \E u \in DOMAIN tasks : /\ u > t
                                   /\ tasks[u].socket = tasks[t].socket
                                   /\ tasks[u].id = tasks[t].id
      BY DEF SessionInv, OnlyReplacedTasksOutlive, Steady, Alike
  <2> QED
      BY <2>1 DEF Steady, Alike
<1> QED
    BY <1>2, <1>3, <1>4

\* One task's record changes.
LEMMA OneTaskSteady ==
    ASSUME Shaped, NEW t \in DOMAIN tasks, NEW d \in TaskRecord, Alike(tasks[t], d),
           tasks' = [tasks EXCEPT ![t] = d]
    PROVE  /\ Steady /\ tasks'[t] = d
           /\ \A u \in DOMAIN tasks : u # t => tasks'[u] = tasks[u]
<1>1. tasks \in Seq(TaskRecord)
    BY DEF Shaped
<1>2. /\ tasks' \in Seq(TaskRecord) /\ Len(tasks') = Len(tasks) /\ DOMAIN tasks' = DOMAIN tasks
      /\ tasks'[t] = d /\ \A u \in DOMAIN tasks : u # t => tasks'[u] = tasks[u]
    BY <1>1
<1>3. \A u \in DOMAIN tasks : Alike(tasks[u], tasks[u])
    BY DEF Alike
<1> QED
    BY <1>2, <1>3 DEF Steady

\* The tasks that are aborted stop, and nothing else changes about tasks.
LEMMA AbortedAreSteady ==
    ASSUME Shaped, NEW ts, tasks' = Aborted(ts)
    PROVE  /\ Steady
           /\ \A t \in DOMAIN tasks :
                 /\ tasks'[t].pos = tasks[t].pos /\ tasks'[t].hold = tasks[t].hold
                 /\ tasks'[t].running <=> tasks[t].running /\ t \notin ts
<1>1. tasks \in Seq(TaskRecord) /\ Len(tasks) \in Nat /\ DOMAIN tasks = 1..Len(tasks)
    BY DEF Shaped
<1>2. ASSUME NEW t \in DOMAIN tasks
      PROVE  /\ tasks'[t] \in TaskRecord /\ Alike(tasks[t], tasks'[t])
             /\ tasks'[t].pos = tasks[t].pos /\ tasks'[t].hold = tasks[t].hold
             /\ tasks'[t].running <=> tasks[t].running /\ t \notin ts
  <2>1. tasks[t] \in TaskRecord
      BY <1>1
  <2> DEFINE on == tasks[t].running /\ t \notin ts
  <2>2. tasks'[t] = [tasks[t] EXCEPT !.running = on]
      BY DEF Aborted
  <2>3. on \in BOOLEAN
      OBVIOUS
  <2>4. on => tasks[t].running
      OBVIOUS
  <2> HIDE DEF on
  <2>5. /\ tasks'[t] \in TaskRecord /\ tasks'[t].running = on
        /\ tasks'[t].pos = tasks[t].pos /\ tasks'[t].hold = tasks[t].hold
        /\ tasks'[t].socket = tasks[t].socket /\ tasks'[t].id = tasks[t].id
        /\ tasks'[t].kind = tasks[t].kind /\ tasks'[t].from = tasks[t].from
      BY <2>1, <2>2, <2>3 DEF TaskRecord
  <2> QED
      BY <2>4, <2>5 DEF Alike, on
<1>3. DOMAIN tasks' = 1..Len(tasks)
    BY <1>1 DEF Aborted
<1>4. tasks' \in [1..Len(tasks) -> TaskRecord]
  <2>1. tasks' = [t \in 1..Len(tasks) |-> tasks'[t]]
      BY <1>1 DEF Aborted
  <2> QED
      BY <1>1, <1>2, <2>1
<1>5. tasks' \in Seq(TaskRecord) /\ Len(tasks') = Len(tasks)
    BY <1>1, <1>3, <1>4
<1> QED
    BY <1>1, <1>2, <1>3, <1>5 DEF Steady

\* Requests that change states, the logbook and the phase of a connection leave
\* the tasks where they are.
LEMMA SessionsStay ==
    ASSUME SessionInv, phase' \in [SOCKET -> {"new", "auth", "active", "closed"}],
           UNCHANGED <<subs, queue, tasks, heard>>, Extends(bus, bus')
    PROVE  SessionInv'
<1>1. Shaped' /\ Named' /\ Placed' /\ OnlyReplacedTasksOutlive'
    BY DEF SessionInv, Shaped, Named, Placed, OnlyReplacedTasksOutlive
<1>2. Lined'
  <2>1. Len(bus) \in Nat /\ Len(bus') \in Nat /\ Len(bus) <= Len(bus')
      BY DEF Extends
  <2>2. \A t \in DOMAIN tasks : tasks[t].pos \in Nat
      BY TaskAt DEF SessionInv, TaskRecord
  <2> QED
      BY <2>1, <2>2 DEF SessionInv, Lined
<1> QED
    BY <1>1, <1>2 DEF SessionInv

\* subscribe_events and subscribe_entities: the new task replaces the one of its
\* id in the map, and its snapshot is all it has on its way.
LEMMA SubscribeKeeps ==
    ASSUME SessionInv, StoreInv, NEW s \in SOCKET, NEW i \in SUBID, NEW k \in ASKED,
           Subscribe(s, i, k)
    PROVE  SessionInv'
<1> DEFINE t == Len(tasks) + 1
           first == IF k = "entities" THEN Message(t, Len(bus), Dump) ELSE None
           r == [socket |-> s, id |-> i, kind |-> k, running |-> TRUE,
                 from |-> Len(bus), pos |-> Len(bus), hold |-> first]
           h == [told |-> -1, mirror |-> << >>, lost |-> {}]
<1>1. /\ phase[s] = "active" /\ tasks' = Append(tasks, r) /\ subs' = [subs EXCEPT ![s][i] = t]
      /\ heard' = Append(heard, h) /\ UNCHANGED <<storeVars, phase, queue, logbook>>
    BY DEF Subscribe
<1>2. /\ tasks \in Seq(TaskRecord) /\ heard \in Seq(HeardRecord) /\ Len(heard) = Len(tasks)
      /\ subs \in [SOCKET -> [SUBID -> 0..Len(tasks)]] /\ Len(tasks) \in Nat
    BY DEF SessionInv, Shaped
<1>3. Len(bus) \in Nat /\ states \in [ENTITY -> StateRecord \cup {None}]
    BY StoreTyped
<1>4. Dump \in Changes
    BY StoreTyped
<1>5. first \in MessageRecord \cup {None} /\ (first # None => first.task = t /\ first.at = Len(bus))
    BY <1>2, <1>3, <1>4 DEF Message, MessageRecord
<1>6. t \in Nat \ {0} /\ t = Len(tasks) + 1 /\ t \notin DOMAIN tasks
    BY <1>2
<1> HIDE DEF first, t
<1>7. /\ r \in TaskRecord /\ r.socket = s /\ r.id = i /\ r.from = Len(bus) /\ r.pos = Len(bus)
      /\ r.hold = first /\ r.running = TRUE /\ r.kind = k
    BY <1>3, <1>5 DEF TaskRecord
<1>8. h \in HeardRecord /\ h.told = -1
  <2>1. << >> \in [{} -> StateRecord]
      OBVIOUS
  <2>2. << >> \in Changes
      BY <2>1 DEF Changes
  <2> QED
      BY <2>2 DEF HeardRecord
<1> HIDE DEF r, h
<1>9. /\ tasks' \in Seq(TaskRecord) /\ Len(tasks') = t /\ tasks'[t] = r
      /\ DOMAIN tasks' = DOMAIN tasks \cup {t} /\ \A u \in DOMAIN tasks : tasks'[u] = tasks[u]
    BY <1>1, <1>2, <1>6, <1>7
<1>10. /\ heard' \in Seq(HeardRecord) /\ Len(heard') = t /\ heard'[t] = h
       /\ \A u \in DOMAIN tasks : heard'[u] = heard[u]
    BY <1>1, <1>2, <1>6, <1>8
<1>11. subs' \in [SOCKET -> [SUBID -> 0..t]]
  <2>1. 0..Len(tasks) \subseteq 0..t /\ t \in 0..t
      BY <1>2, <1>6
  <2> QED
      BY <1>1, <1>2, <2>1
<1>12. Shaped'
    BY <1>1, <1>9, <1>10, <1>11 DEF SessionInv, Shaped
<1>13. \A q \in SOCKET, j \in SUBID :
          subs'[q][j] = IF q = s /\ j = i THEN t ELSE subs[q][j]
    BY <1>1, <1>2
<1>14. Named'
  <2> SUFFICES ASSUME NEW q \in SOCKET, NEW j \in SUBID, subs'[q][j] # 0
               PROVE  tasks'[subs'[q][j]].socket = q /\ tasks'[subs'[q][j]].id = j
      BY DEF Named
  <2>1. CASE q = s /\ j = i
      BY <1>7, <1>9, <1>13, <2>1
  <2>2. CASE ~(q = s /\ j = i)
    <3>1. subs'[q][j] = subs[q][j] /\ subs[q][j] \in DOMAIN tasks
        BY <1>2, <1>13, <2>2
    <3> QED
        BY <1>9, <3>1 DEF SessionInv, Named
  <2> QED
      BY <2>1, <2>2
<1>15. Placed'
    BY <1>1, <1>9 DEF SessionInv, Placed
<1>16. OnlyReplacedTasksOutlive'
  <2> SUFFICES ASSUME NEW u \in DOMAIN tasks', tasks'[u].running
               PROVE  \/ subs'[tasks'[u].socket][tasks'[u].id] = u
                      \/ \E v \in DOMAIN tasks' : /\ v > u
                                                  /\ tasks'[v].socket = tasks'[u].socket
                                                  /\ tasks'[v].id = tasks'[u].id
      BY DEF OnlyReplacedTasksOutlive
  <2>1. CASE u = t
      BY <1>7, <1>9, <1>13, <2>1
  <2>2. CASE u \in DOMAIN tasks
    <3>1. /\ tasks'[u] = tasks[u] /\ tasks[u].socket \in SOCKET /\ tasks[u].id \in SUBID
          /\ t > u
        BY <1>2, <1>6, <1>9, <2>2, TaskAt DEF SessionInv
    <3>2. CASE tasks[u].socket = s /\ tasks[u].id = i
        BY <1>7, <1>9, <3>1, <3>2
    <3>3. CASE ~(tasks[u].socket = s /\ tasks[u].id = i)
      <4>1. subs'[tasks[u].socket][tasks[u].id] = subs[tasks[u].socket][tasks[u].id]
          BY <1>13, <3>1, <3>3
      <4>2. \/ subs[tasks[u].socket][tasks[u].id] = u
            \/ \E v \in DOMAIN tasks : /\ v > u
                                       /\ tasks[v].socket = tasks[u].socket
                                       /\ tasks[v].id = tasks[u].id
          BY <2>2, <3>1 DEF SessionInv, OnlyReplacedTasksOutlive
      <4> QED
          BY <1>9, <3>1, <4>1, <4>2
    <3> QED
        BY <3>2, <3>3
  <2> QED
      BY <1>9, <2>1, <2>2
<1>17. Lined'
  <2>1. bus' = bus /\ queue' = queue
      BY <1>1 DEF storeVars
  <2>2. ASSUME NEW u \in DOMAIN tasks
        PROVE  /\ InLine(u, tasks'[u], heard'[u].told, queue'[tasks'[u].socket])
               /\ tasks'[u].pos <= Len(bus')
      BY <1>9, <1>10, <2>1, <2>2 DEF SessionInv, Lined
  <2>3. InLine(t, r, -1, queue[s]) /\ r.pos <= Len(bus)
    <3>1. Mine(t, queue[s]) = {}
        BY <1>6 DEF SessionInv, Placed, Mine
    <3>2. OnWay(t, r, queue[s]) = {first} \ {None}
        BY <1>7, <3>1 DEF OnWay
    <3>3. -1 < Len(bus) /\ -1 <= Len(bus) /\ Len(bus) <= Len(bus) /\ Len(bus) \in Len(bus)..Len(bus)
        BY <1>3
    <3> QED
        BY <1>5, <1>7, <3>1, <3>2, <3>3 DEF InLine
  <2>4. \A u \in DOMAIN tasks' : u \in DOMAIN tasks \/ u = t
      BY <1>9
  <2> QED
      BY <1>7, <1>8, <1>9, <1>10, <2>1, <2>2, <2>3, <2>4 DEF Lined
<1> QED
    BY <1>12, <1>14, <1>15, <1>16, <1>17 DEF SessionInv

\* unsubscribe_events: the task in the map is aborted with its entry.
LEMMA UnsubscribeKeeps ==
    ASSUME SessionInv, NEW s \in SOCKET, NEW i \in SUBID, Unsubscribe(s, i)
    PROVE  SessionInv'
<1>1. /\ tasks' = Aborted({subs[s][i]}) /\ subs' = [subs EXCEPT ![s][i] = 0]
      /\ UNCHANGED <<storeVars, phase, queue, heard, logbook>>
    BY DEF Unsubscribe
<1>2. /\ Steady
      /\ \A t \in DOMAIN tasks :
            /\ tasks'[t].pos = tasks[t].pos /\ tasks'[t].hold = tasks[t].hold
            /\ tasks'[t].running <=> tasks[t].running /\ t # subs[s][i]
    BY <1>1, AbortedAreSteady DEF SessionInv
<1>3. /\ subs \in [SOCKET -> [SUBID -> 0..Len(tasks)]] /\ Len(tasks) \in Nat
      /\ DOMAIN tasks = 1..Len(tasks)
    BY DEF SessionInv, Shaped
<1>4. \A q \in SOCKET, j \in SUBID :
          subs'[q][j] = IF q = s /\ j = i THEN 0 ELSE subs[q][j]
    BY <1>1, <1>3
<1>5. Shaped'
  <2>1. Len(tasks') = Len(tasks) /\ 0 \in 0..Len(tasks)
      BY <1>2, <1>3 DEF Steady
  <2> DEFINE N == 0..Len(tasks)
  <2>2. subs \in [SOCKET -> [SUBID -> N]] /\ 0 \in N
      BY <1>3, <2>1
  <2> HIDE DEF N
  <2>3. subs' \in [SOCKET -> [SUBID -> N]]
      BY <1>1, <2>2
  <2> QED
      BY <1>1, <1>2, <2>1, <2>3 DEF SessionInv, Shaped, Steady, N
<1>6. Named'
  <2> SUFFICES ASSUME NEW q \in SOCKET, NEW j \in SUBID, subs'[q][j] # 0
               PROVE  tasks'[subs'[q][j]].socket = q /\ tasks'[subs'[q][j]].id = j
      BY DEF Named
  <2>1. subs'[q][j] = subs[q][j] /\ subs[q][j] \in DOMAIN tasks
      BY <1>3, <1>4
  <2> QED
      BY <1>2, <2>1 DEF SessionInv, Named, Steady, Alike
<1>7. Placed'
  <2> SUFFICES ASSUME NEW q \in SOCKET
               PROVE  /\ Len(queue[q]) <= QUEUE
                      /\ \A n \in DOMAIN queue[q] : /\ queue[q][n].task \in DOMAIN tasks
                                                    /\ tasks'[queue[q][n].task].socket = q
      BY <1>1, <1>2 DEF Placed, Steady
  <2> QED
      BY <1>2 DEF SessionInv, Placed, Steady, Alike
<1>8. OnlyReplacedTasksOutlive'
  <2> SUFFICES ASSUME NEW t \in DOMAIN tasks, tasks'[t].running
               PROVE  \/ subs'[tasks'[t].socket][tasks'[t].id] = t
                      \/ \E u \in DOMAIN tasks : /\ u > t
                                                 /\ tasks'[u].socket = tasks'[t].socket
                                                 /\ tasks'[u].id = tasks'[t].id
      BY <1>2 DEF OnlyReplacedTasksOutlive, Steady
  <2>1. tasks[t].running /\ t # subs[s][i] /\ tasks[t].socket \in SOCKET /\ tasks[t].id \in SUBID
      BY <1>2, TaskAt DEF SessionInv
  <2>2. \/ subs[tasks[t].socket][tasks[t].id] = t
        \/ \E u \in DOMAIN tasks : /\ u > t
                                   /\ tasks[u].socket = tasks[t].socket
                                   /\ tasks[u].id = tasks[t].id
      BY <2>1 DEF SessionInv, OnlyReplacedTasksOutlive
  <2>3. subs[tasks[t].socket][tasks[t].id] = t => subs'[tasks[t].socket][tasks[t].id] = t
      BY <1>4, <2>1
  <2> QED
      BY <1>2, <2>2, <2>3 DEF Steady, Alike
<1>9. Lined'
  <2> SUFFICES ASSUME NEW t \in DOMAIN tasks
               PROVE  /\ InLine(t, tasks'[t], heard[t].told, queue[tasks[t].socket])
                      /\ tasks'[t].pos <= Len(bus)
      BY <1>1, <1>2 DEF Lined, Steady, Alike, storeVars
  <2>1. InLine(t, tasks[t], heard[t].told, queue[tasks[t].socket]) /\ tasks[t].pos <= Len(bus)
      BY DEF SessionInv, Lined
  <2>2. tasks'[t].from = tasks[t].from
      BY <1>2 DEF Steady, Alike
  <2> QED
      BY <1>2, <2>1, <2>2, StillInLine
<1> QED
    BY <1>5, <1>6, <1>7, <1>8, <1>9 DEF SessionInv

\* The end of handle_socket: every task in the map is aborted, and the queue is
\* gone with all it held.
LEMMA CloseKeeps ==
    ASSUME SessionInv, NEW s \in SOCKET, Close(s)
    PROVE  SessionInv'
<1> DEFINE ts == {subs[s][i] : i \in SUBID}
<1>1. /\ tasks' = Aborted(ts) /\ subs' = [subs EXCEPT ![s] = [i \in SUBID |-> 0]]
      /\ phase' = [phase EXCEPT ![s] = "closed"] /\ queue' = [queue EXCEPT ![s] = << >>]
      /\ UNCHANGED <<storeVars, heard, logbook>>
    BY DEF Close
<1>2. \A i \in SUBID : subs[s][i] \in ts
    OBVIOUS
<1> HIDE DEF ts
<1>3. /\ Steady
      /\ \A t \in DOMAIN tasks :
            /\ tasks'[t].pos = tasks[t].pos /\ tasks'[t].hold = tasks[t].hold
            /\ tasks'[t].running <=> tasks[t].running /\ t \notin ts
    BY <1>1, AbortedAreSteady DEF SessionInv
<1>4. /\ subs \in [SOCKET -> [SUBID -> 0..Len(tasks)]] /\ Len(tasks) \in Nat
      /\ DOMAIN tasks = 1..Len(tasks) /\ queue \in [SOCKET -> Seq(MessageRecord)]
    BY DEF SessionInv, Shaped
<1>5. \A q \in SOCKET, j \in SUBID : subs'[q][j] = IF q = s THEN 0 ELSE subs[q][j]
    BY <1>1, <1>4
<1>6. \A q \in SOCKET : queue'[q] = IF q = s THEN << >> ELSE queue[q]
    BY <1>1, <1>4
<1>7. Shaped'
  <2>1. subs' \in [SOCKET -> [SUBID -> 0..Len(tasks')]]
      BY <1>1, <1>3, <1>4 DEF Steady
  <2>2. queue' \in [SOCKET -> Seq(MessageRecord)]
      BY <1>1, <1>4
  <2>3. phase' \in [SOCKET -> {"new", "auth", "active", "closed"}]
      BY <1>1 DEF SessionInv, Shaped
  <2> QED
      BY <1>1, <1>3, <2>1, <2>2, <2>3 DEF SessionInv, Shaped, Steady
<1>8. Named'
  <2> SUFFICES ASSUME NEW q \in SOCKET, NEW j \in SUBID, subs'[q][j] # 0
               PROVE  tasks'[subs'[q][j]].socket = q /\ tasks'[subs'[q][j]].id = j
      BY DEF Named
  <2>1. subs'[q][j] = subs[q][j] /\ subs[q][j] \in DOMAIN tasks
      BY <1>4, <1>5
  <2> QED
      BY <1>3, <2>1 DEF SessionInv, Named, Steady, Alike
<1>9. Placed'
  <2> SUFFICES ASSUME NEW q \in SOCKET
               PROVE  /\ Len(queue'[q]) <= QUEUE
                      /\ \A n \in DOMAIN queue'[q] : /\ queue'[q][n].task \in DOMAIN tasks
                                                     /\ tasks'[queue'[q][n].task].socket = q
      BY <1>3 DEF Placed, Steady
  <2>1. CASE q = s
    <3>1. queue'[q] = << >> /\ QUEUE \in Nat
        BY <1>6, <2>1, WsSessionsAssumption
    <3> QED
        BY <3>1
  <2>2. CASE q # s
    <3>1. queue'[q] = queue[q]
        BY <1>6, <2>2
    <3> QED
        BY <1>3, <3>1 DEF SessionInv, Placed, Steady, Alike
  <2> QED
      BY <2>1, <2>2
<1>10. OnlyReplacedTasksOutlive'
  <2> SUFFICES ASSUME NEW t \in DOMAIN tasks, tasks'[t].running
               PROVE  \/ subs'[tasks'[t].socket][tasks'[t].id] = t
                      \/ \E u \in DOMAIN tasks : /\ u > t
                                                 /\ tasks'[u].socket = tasks'[t].socket
                                                 /\ tasks'[u].id = tasks'[t].id
      BY <1>3 DEF OnlyReplacedTasksOutlive, Steady
  <2>1. tasks[t].running /\ t \notin ts /\ tasks[t].socket \in SOCKET /\ tasks[t].id \in SUBID
      BY <1>3, TaskAt DEF SessionInv
  <2>2. \/ subs[tasks[t].socket][tasks[t].id] = t
        \/ \E u \in DOMAIN tasks : /\ u > t
                                   /\ tasks[u].socket = tasks[t].socket
                                   /\ tasks[u].id = tasks[t].id
      BY <2>1 DEF SessionInv, OnlyReplacedTasksOutlive
  <2>3. subs[tasks[t].socket][tasks[t].id] = t => subs'[tasks[t].socket][tasks[t].id] = t
      BY <1>2, <1>5, <2>1
  <2> QED
      BY <1>3, <2>2, <2>3 DEF Steady, Alike
<1>11. Lined'
  <2> SUFFICES ASSUME NEW t \in DOMAIN tasks
               PROVE  /\ InLine(t, tasks'[t], heard[t].told, queue'[tasks[t].socket])
                      /\ tasks'[t].pos <= Len(bus)
      BY <1>1, <1>3 DEF Lined, Steady, Alike, storeVars
  <2>1. InLine(t, tasks[t], heard[t].told, queue[tasks[t].socket]) /\ tasks[t].pos <= Len(bus)
      BY DEF SessionInv, Lined
  <2>2. tasks'[t].from = tasks[t].from
      BY <1>3 DEF Steady, Alike
  <2>3. /\ InLine(t, tasks'[t], heard[t].told, queue[tasks[t].socket])
        /\ InLine(t, tasks'[t], heard[t].told, << >>)
      BY <1>3, <2>1, <2>2, StillInLine
  <2>4. queue'[tasks[t].socket] \in {queue[tasks[t].socket], << >>}
      BY <1>6, TaskAt DEF SessionInv
  <2> QED
      BY <1>3, <2>1, <2>3, <2>4
<1> QED
    BY <1>7, <1>8, <1>9, <1>10, <1>11 DEF SessionInv

\* A client's record with two fields replaced.
LEMMA TwoFields ==
    ASSUME NEW g \in HeardRecord, NEW a, NEW w
    PROVE  [[g EXCEPT !.told = a] EXCEPT !.mirror = w] = [told |-> a, mirror |-> w, lost |-> g.lost]
<1> DEFINE f == [g EXCEPT !.told = a]
<1>1. f = [told |-> a, mirror |-> g.mirror, lost |-> g.lost]
    BY DEF HeardRecord
<1> HIDE DEF f
<1>2. \A x, y, z : [[told |-> x, mirror |-> y, lost |-> z] EXCEPT !.mirror = w]
                     = [told |-> x, mirror |-> w, lost |-> z]
    OBVIOUS
<1>3. [f EXCEPT !.mirror = w] = [told |-> a, mirror |-> w, lost |-> g.lost]
    BY <1>1, <1>2
<1> QED
    BY <1>3 DEF f

\* The client is told the oldest message in its queue, and so no later one has
\* overtaken it.
LEMMA DeliverKeeps ==
    ASSUME SessionInv, NEW s \in SOCKET, Deliver(s)
    PROVE  SessionInv'
<1> DEFINE q == queue[s]
           m == Head(q)
           c == Tail(q)
<1>1. /\ q # << >> /\ queue' = [queue EXCEPT ![s] = c]
      /\ heard' = [heard EXCEPT ![m.task].told = m.at,
                                ![m.task].mirror = With(@, m.changes)]
      /\ UNCHANGED <<storeVars, phase, subs, tasks, logbook>>
    BY DEF Deliver
<1>2. q \in Seq(MessageRecord) /\ queue \in [SOCKET -> Seq(MessageRecord)]
    BY DEF SessionInv, Shaped
<1>3. /\ c \in Seq(MessageRecord) /\ Len(c) = Len(q) - 1 /\ Len(q) \in Nat \ {0}
      /\ 1 \in DOMAIN q /\ m = q[1]
      /\ DOMAIN c = 1..(Len(q) - 1) /\ \A n \in DOMAIN c : n + 1 \in DOMAIN q /\ c[n] = q[n + 1]
    BY <1>1, <1>2
<1>4. m \in MessageRecord /\ m.task \in DOMAIN tasks /\ tasks[m.task].socket = s
  <2>1. m \in MessageRecord
      BY <1>2, <1>3
  <2>2. q[1].task \in DOMAIN tasks /\ tasks[q[1].task].socket = s
      BY <1>3 DEF SessionInv, Placed
  <2> QED
      BY <1>3, <2>1, <2>2
<1>5. q = queue[s]
    OBVIOUS
<1> HIDE DEF c, m, q
<1>6. m.at \in Nat /\ m.changes \in Changes
    BY <1>4 DEF MessageRecord
<1> DEFINE g == heard[m.task]
           w == With(g.mirror, m.changes)
           h == [told |-> m.at, mirror |-> w, lost |-> g.lost]
<1>7. heard \in Seq(HeardRecord) /\ m.task \in DOMAIN heard /\ g \in HeardRecord
    BY <1>4, TaskAt DEF SessionInv, Shaped
<1>8. w \in Changes
  <2>1. PICK S \in SUBSET ENTITY : g.mirror \in [S -> StateRecord]
      BY <1>7 DEF HeardRecord, Changes
  <2>2. PICK R \in SUBSET ENTITY : m.changes \in [R -> StateRecord]
      BY <1>6 DEF Changes
  <2>3. With(g.mirror, m.changes) \in [S \cup R -> StateRecord]
      BY <2>1, <2>2 DEF With
  <2> QED
      BY <2>3 DEF Changes
<1>9. h \in HeardRecord /\ h.told = m.at
    BY <1>6, <1>7, <1>8 DEF HeardRecord
<1>10. heard' = [heard EXCEPT ![m.task] = h]
  <2> DEFINE k == m.task
             first == [heard EXCEPT ![k] = [g EXCEPT !.told = m.at]]
  <2>1. [[g EXCEPT !.told = m.at] EXCEPT !.mirror = w] = h
    <3> HIDE DEF w, g
    <3> QED
        BY <1>7, TwoFields
  <2>2. [g EXCEPT !.told = m.at].mirror = g.mirror
      BY <1>7 DEF HeardRecord
  <2>3. first[k] = [g EXCEPT !.told = m.at]
      BY <1>7
  <2>4. [heard EXCEPT ![k].told = m.at] = first
      OBVIOUS
  <2>5. heard' = [first EXCEPT ![k].mirror = With(@, m.changes)]
      BY <1>1, <2>4
  <2>6. heard' = [first EXCEPT ![k] = [first[k] EXCEPT !.mirror = With(first[k].mirror, m.changes)]]
    <3> HIDE DEF first
    <3> QED
        BY <2>5
  <2>7. heard' = [first EXCEPT ![k] = h]
      BY <2>1, <2>2, <2>3, <2>6
  <2> QED
    <3> HIDE DEF g, h
    <3> QED
        BY <2>7
<1> HIDE DEF g, h
<1>11. /\ heard' \in Seq(HeardRecord) /\ Len(heard') = Len(heard) /\ heard'[m.task] = h
       /\ \A t \in DOMAIN heard : t # m.task => heard'[t] = heard[t]
    BY <1>7, <1>9, <1>10
<1>12. Shaped'
  <2>1. queue' \in [SOCKET -> Seq(MessageRecord)]
      BY <1>1, <1>2, <1>3
  <2> QED
      BY <1>1, <1>11, <2>1 DEF SessionInv, Shaped
<1>13. \A p \in SOCKET : queue'[p] = IF p = s THEN c ELSE queue[p]
    BY <1>1, <1>2
<1>14. Placed'
  <2> SUFFICES ASSUME NEW p \in SOCKET
               PROVE  /\ Len(queue'[p]) <= QUEUE
                      /\ \A n \in DOMAIN queue'[p] : /\ queue'[p][n].task \in DOMAIN tasks
                                                     /\ tasks[queue'[p][n].task].socket = p
      BY <1>1 DEF Placed
  <2>1. CASE p = s
    <3>1. queue'[p] = c
        BY <1>13, <2>1
    <3>2. /\ Len(q) <= QUEUE
          /\ \A n \in DOMAIN q : q[n].task \in DOMAIN tasks /\ tasks[q[n].task].socket = s
        BY <1>5 DEF SessionInv, Placed
    <3>3. Len(c) <= QUEUE
      <4> DEFINE x == Len(c)
                 y == Len(q)
      <4>1. x = y - 1 /\ y \in Nat /\ y <= QUEUE /\ QUEUE \in Nat
          BY <1>3, <3>2, WsSessionsAssumption
      <4> HIDE DEF x, y
      <4>2. x <= QUEUE
          BY <4>1
      <4> QED
          BY <4>2 DEF x
    <3>4. \A n \in DOMAIN c : c[n].task \in DOMAIN tasks /\ tasks[c[n].task].socket = s
        BY <1>3, <3>2
    <3> QED
        BY <2>1, <3>1, <3>3, <3>4
  <2>2. CASE p # s
    <3>1. queue'[p] = queue[p]
        BY <1>13, <2>2
    <3> QED
        BY <3>1 DEF SessionInv, Placed
  <2> QED
      BY <2>1, <2>2
<1>15. Named' /\ OnlyReplacedTasksOutlive'
    BY <1>1 DEF SessionInv, Named, OnlyReplacedTasksOutlive
<1>16. Lined'
  <2> SUFFICES ASSUME NEW t \in DOMAIN tasks
               PROVE  InLine(t, tasks[t], heard'[t].told, queue'[tasks[t].socket])
      BY <1>1 DEF SessionInv, Lined, storeVars
  <2>1. /\ InLine(t, tasks[t], heard[t].told, queue[tasks[t].socket])
        /\ tasks[t] \in TaskRecord /\ tasks[t].socket \in SOCKET /\ t \in DOMAIN heard
      BY TaskAt DEF SessionInv, Lined
  <2>2. CASE tasks[t].socket # s
    <3>1. t # m.task
        BY <1>4, <2>2
    <3> QED
        BY <1>11, <1>13, <2>1, <2>2, <3>1
  <2>3. CASE tasks[t].socket = s
    <3>1. queue'[tasks[t].socket] = c /\ queue[tasks[t].socket] = q
        BY <1>5, <1>13, <2>3
    <3> DEFINE told == heard[t].told
    <3>2. InLine(t, tasks[t], told, q)
        BY <2>1, <3>1
    <3> HIDE DEF told
    <3>3. /\ Head(q).task # t => InLine(t, tasks[t], told, Tail(q))
          /\ Head(q).task = t => InLine(t, tasks[t], Head(q).at, Tail(q))
        BY <1>1, <1>2, <2>1, <3>2, HeadDelivered
    <3>4. /\ m.task # t => InLine(t, tasks[t], told, c)
          /\ m.task = t => InLine(t, tasks[t], m.at, c)
        BY <3>3 DEF m, c
    <3> QED
        BY <1>9, <1>11, <2>1, <3>1, <3>4 DEF told
  <2> QED
      BY <2>2, <2>3
<1> QED
    BY <1>12, <1>14, <1>15, <1>16 DEF SessionInv

\* One task moves: what it has on its way and the other tasks stay in line.
LEMMA OneTaskMoves ==
    ASSUME SessionInv, NEW t \in DOMAIN tasks, NEW d \in TaskRecord, Alike(tasks[t], d),
           tasks' = [tasks EXCEPT ![t] = d], d.pos <= Len(bus),
           heard' \in Seq(HeardRecord), Len(heard') = Len(heard),
           \A u \in DOMAIN tasks : heard'[u].told = heard[u].told,
           InLine(t, d, heard[t].told, queue[d.socket]),
           UNCHANGED <<phase, subs, queue, bus>>
    PROVE  SessionInv'
<1>1. /\ Steady /\ tasks'[t] = d
      /\ \A u \in DOMAIN tasks : u # t => tasks'[u] = tasks[u]
    BY OneTaskSteady DEF SessionInv
<1>2. /\ subs' \in [SOCKET -> [SUBID -> 0..Len(tasks')]]
      /\ Named' /\ OnlyReplacedTasksOutlive'
    BY <1>1, SteadyTasks
<1>3. Shaped'
    BY <1>1, <1>2 DEF SessionInv, Shaped, Steady
<1>4. Placed'
    BY <1>1 DEF SessionInv, Placed, Steady, Alike
<1>5. Lined'
  <2> SUFFICES ASSUME NEW u \in DOMAIN tasks
               PROVE  /\ InLine(u, tasks'[u], heard[u].told, queue[tasks'[u].socket])
                      /\ tasks'[u].pos <= Len(bus)
      BY <1>1 DEF Lined, Steady
  <2>1. CASE u = t
      BY <1>1, <2>1
  <2>2. CASE u # t
      BY <1>1, <2>2 DEF SessionInv, Lined
  <2> QED
      BY <2>1, <2>2
<1> QED
    BY <1>2, <1>3, <1>4, <1>5 DEF SessionInv

\* The task takes the next event of the channel, a newer one than those it has on
\* its way.
LEMMA ReceiveKeeps ==
    ASSUME SessionInv, StoreInv, NEW t \in DOMAIN tasks, Receive(t)
    PROVE  SessionInv'
<1> DEFINE r == tasks[t]
           n == r.pos + 1
           news == Message(t, n, Only(bus[n].entity, bus[n].new))
           h == IF r.kind = "other" THEN None ELSE news
           d == [r EXCEPT !.pos = n, !.hold = h]
<1>1. /\ r \in TaskRecord /\ heard[t] \in HeardRecord /\ t \in Nat
      /\ InLine(t, r, heard[t].told, queue[r.socket])
    BY TaskAt DEF SessionInv, Lined
<1>2. /\ r.hold = None /\ r.pos < Len(bus) /\ r.pos \in Nat
      /\ UNCHANGED <<storeVars, phase, subs, queue, heard, logbook>>
      /\ tasks' = [tasks EXCEPT ![t].pos = n, ![t].hold = h]
    BY <1>1 DEF Receive, Waiting, TaskRecord
<1>3. bus \in Seq(EventRecord)
    BY StoreTyped
<1>4. n \in Nat /\ n <= Len(bus) /\ r.pos < n /\ n \in DOMAIN bus
    BY <1>2, <1>3
<1>5. tasks' = [tasks EXCEPT ![t] = d]
    BY <1>2
<1>6. Only(bus[n].entity, bus[n].new) \in Changes
  <2> HIDE DEF n
  <2> QED
      BY <1>4, StoreTyped
<1>7. h \in MessageRecord \cup {None} /\ (h # None => h.task = t /\ h.at = n)
    BY <1>1, <1>4, <1>6 DEF Message, MessageRecord
<1> HIDE DEF n, h
<1>8. InLine(t, d, heard[t].told, queue[r.socket])
  <2> DEFINE told == heard[t].told
             q == queue[r.socket]
  <2>1. told \in Nat \cup {-1} /\ InLine(t, r, told, q)
      BY <1>1 DEF HeardRecord
  <2> HIDE DEF told, q, r
  <2>2. InLine(t, d, told, q)
      BY <1>1, <1>2, <1>4, <1>7, <2>1, MovesOn
  <2> QED
      BY <2>2 DEF told, q
<1>9. d \in TaskRecord /\ Alike(r, d) /\ d.pos = n
    BY <1>1, <1>4, <1>7 DEF TaskRecord, Alike
<1>10. d.socket = r.socket
    BY <1>9 DEF Alike
<1> HIDE DEF d
<1> QED
    BY <1>2, <1>4, <1>5, <1>8, <1>9, <1>10, OneTaskMoves DEF SessionInv, Shaped, storeVars

\* A receiver that lagged goes on at the oldest event the channel has.
LEMMA LagKeeps ==
    ASSUME SessionInv, StoreInv, NEW t \in DOMAIN tasks, Lag(t)
    PROVE  SessionInv'
<1> DEFINE r == tasks[t]
           d == [r EXCEPT !.pos = Oldest]
           g == heard[t]
           missed == (r.pos + 1)..Oldest
           h == [g EXCEPT !.lost = @ \cup missed]
<1>1. /\ r \in TaskRecord /\ g \in HeardRecord /\ t \in Nat /\ t \in DOMAIN heard
      /\ InLine(t, r, heard[t].told, queue[r.socket])
    BY TaskAt DEF SessionInv, Lined
<1>2. /\ r.hold = None /\ r.pos < Oldest /\ r.pos \in Nat
      /\ UNCHANGED <<storeVars, phase, subs, queue, logbook>>
      /\ tasks' = [tasks EXCEPT ![t].pos = Oldest]
      /\ heard' = [heard EXCEPT ![t].lost = @ \cup missed]
    BY <1>1 DEF Lag, Waiting, TaskRecord
<1>3. Len(bus) \in Nat
    BY StoreTyped
<1>4. Oldest \in Nat /\ Oldest <= Len(bus)
    BY <1>3, WsSessionsAssumption DEF Oldest
<1>5. missed \in SUBSET Nat
    BY <1>2, <1>4
<1> HIDE DEF missed
<1>6. h \in HeardRecord /\ h.told = g.told
    BY <1>1, <1>5 DEF HeardRecord
<1>7. heard' = [heard EXCEPT ![t] = h]
    BY <1>2
<1> HIDE DEF h
<1>8. /\ heard \in Seq(HeardRecord) /\ heard' \in Seq(HeardRecord) /\ Len(heard') = Len(heard)
      /\ \A u \in DOMAIN tasks : heard'[u].told = heard[u].told
  <2>1. heard \in Seq(HeardRecord) /\ Len(heard) = Len(tasks) /\ tasks \in Seq(TaskRecord)
      BY DEF SessionInv, Shaped
  <2>2. \A u \in DOMAIN heard : heard'[u] = IF u = t THEN h ELSE heard[u]
      BY <1>7, <2>1
  <2>3. DOMAIN tasks = DOMAIN heard
      BY <2>1
  <2>4. heard' \in Seq(HeardRecord) /\ Len(heard') = Len(heard)
      BY <1>1, <1>6, <1>7, <2>1
  <2> QED
      BY <1>6, <2>1, <2>2, <2>3, <2>4
<1>9. tasks' = [tasks EXCEPT ![t] = d]
    BY <1>2
<1>10. InLine(t, d, heard[t].told, queue[r.socket])
  <2> DEFINE told == heard[t].told
             q == queue[r.socket]
             n == Oldest
             e == [r EXCEPT !.pos = n, !.hold = None]
  <2>1. told \in Nat \cup {-1} /\ InLine(t, r, told, q)
      BY <1>1 DEF HeardRecord
  <2>2. d = e
      BY <1>1, <1>2 DEF TaskRecord
  <2>3. n \in Nat /\ r.pos < n
      BY <1>2, <1>4
  <2> HIDE DEF told, q, r, n
  <2>4. InLine(t, e, told, q)
      BY <1>1, <1>2, <2>1, <2>3, MovesOn
  <2> QED
      BY <2>2, <2>4 DEF told, q, n
<1>11. d \in TaskRecord /\ Alike(r, d) /\ d.pos = Oldest
    BY <1>1, <1>4 DEF TaskRecord, Alike
<1>12. d.socket = r.socket
    BY <1>11 DEF Alike
<1> HIDE DEF d
<1> QED
    BY <1>2, <1>4, <1>8, <1>9, <1>10, <1>11, <1>12, OneTaskMoves DEF storeVars

\* A task whose session is gone ends with what it held.
LEMMA PushFailsKeeps ==
    ASSUME SessionInv, StoreInv, NEW t \in DOMAIN tasks, PushFails(t)
    PROVE  SessionInv'
<1> DEFINE r == tasks[t]
           d == [r EXCEPT !.running = FALSE, !.hold = None]
<1>1. /\ r \in TaskRecord /\ t \in Nat /\ r.pos <= Len(bus)
      /\ InLine(t, r, heard[t].told, queue[r.socket])
    BY TaskAt DEF SessionInv, Lined
<1>2. /\ UNCHANGED <<storeVars, phase, subs, queue, heard, logbook>>
      /\ tasks' = [tasks EXCEPT ![t].running = FALSE, ![t].hold = None]
    BY DEF PushFails
<1>3. tasks' = [tasks EXCEPT ![t] = d]
    BY <1>2
<1>4. /\ d \in TaskRecord /\ Alike(r, d) /\ d.pos = r.pos /\ d.from = r.from /\ d.hold = None
    BY <1>1 DEF TaskRecord, Alike
<1>5. d.socket = r.socket
    BY <1>4 DEF Alike
<1> HIDE DEF d
<1>6. InLine(t, d, heard[t].told, queue[r.socket])
    BY <1>1, <1>4, StillInLine
<1> HIDE DEF r
<1>7. Alike(tasks[t], d) /\ d.pos <= Len(bus) /\ InLine(t, d, heard[t].told, queue[d.socket])
    BY <1>1, <1>4, <1>5, <1>6 DEF r
<1> QED
    BY <1>2, <1>3, <1>4, <1>7, OneTaskMoves DEF SessionInv, Shaped, storeVars

\* A task puts what it holds at the end of its session's queue, when there is room.
LEMMA PushKeeps ==
    ASSUME SessionInv, StoreInv, NEW t \in DOMAIN tasks, Push(t)
    PROVE  SessionInv'
<1> DEFINE r == tasks[t]
           s == r.socket
           q == queue[s]
           m == r.hold
           c == Append(q, m)
           d == [r EXCEPT !.hold = None]
<1>1. /\ r \in TaskRecord /\ s \in SOCKET /\ q \in Seq(MessageRecord)
      /\ t \in Nat /\ r.pos <= Len(bus) /\ InLine(t, r, heard[t].told, q)
    BY TaskAt DEF SessionInv, Lined
<1>2. /\ m # None /\ Len(q) < QUEUE
      /\ queue' = [queue EXCEPT ![s] = c]
      /\ tasks' = [tasks EXCEPT ![t] = d]
      /\ UNCHANGED <<storeVars, phase, subs, heard, logbook>>
    BY DEF Push
<1>3. m \in MessageRecord /\ m.task = t
  <2>1. m \in MessageRecord
      BY <1>1, <1>2 DEF TaskRecord
  <2>2. m \in OnWay(t, r, q)
      BY <1>2 DEF OnWay
  <2> QED
      BY <1>1, <2>1, <2>2 DEF InLine
<1>4. d \in TaskRecord /\ Alike(r, d) /\ d.pos = r.pos
    BY <1>1 DEF TaskRecord, Alike
<1>5. /\ InLine(t, d, heard[t].told, c)
      /\ \A u \in Nat : \A x, told :
            u # t /\ InLine(u, x, told, q) => InLine(u, x, told, c)
  <2> DEFINE told == heard[t].told
  <2>1. InLine(t, r, told, q)
      BY <1>1
  <2>2. ASSUME NEW u \in Nat, u # t, NEW x, NEW at, InLine(u, x, at, q)
        PROVE  InLine(u, x, at, c)
    <3> HIDE DEF m, q
    <3> QED
        BY <1>1, <1>3, <2>2, OthersPush
  <2> HIDE DEF told, r, q
  <2>3. InLine(t, d, told, c)
      BY <1>1, <1>2, <2>1, OwnPush
  <2> QED
      BY <2>2, <2>3 DEF told
<1>6. Grown(q, m, c)
    BY <1>1, <1>3, AppendGrows
<1> HIDE DEF d, c
<1>7. /\ Steady /\ tasks'[t] = d
      /\ \A u \in DOMAIN tasks : u # t => tasks'[u] = tasks[u]
    BY <1>2, <1>4, OneTaskSteady DEF SessionInv
<1>8. /\ subs' \in [SOCKET -> [SUBID -> 0..Len(tasks')]]
      /\ Named' /\ OnlyReplacedTasksOutlive'
    BY <1>2, <1>7, SteadyTasks
<1>9. queue \in [SOCKET -> Seq(MessageRecord)] /\ c \in Seq(MessageRecord)
    BY <1>6 DEF SessionInv, Shaped, Grown
<1>10. \A p \in SOCKET : queue'[p] = IF p = s THEN c ELSE queue[p]
    BY <1>2, <1>9
<1>11. Shaped'
  <2>1. queue' \in [SOCKET -> Seq(MessageRecord)]
      BY <1>2, <1>9
  <2> QED
      BY <1>2, <1>7, <1>8, <2>1 DEF SessionInv, Shaped, Steady
<1>12. Placed'
  <2> SUFFICES ASSUME NEW p \in SOCKET
               PROVE  /\ Len(queue'[p]) <= QUEUE
                      /\ \A n \in DOMAIN queue'[p] : /\ queue'[p][n].task \in DOMAIN tasks
                                                     /\ tasks'[queue'[p][n].task].socket = p
      BY <1>7 DEF Placed, Steady
  <2>1. \A u \in DOMAIN tasks : tasks'[u].socket = tasks[u].socket
      BY <1>7 DEF Steady, Alike
  <2>2. CASE p = s
    <3>1. queue'[p] = c
        BY <1>10, <2>2
    <3>2. Len(c) <= QUEUE
      <4> DEFINE x == Len(c)
                 y == Len(q)
      <4>1. x = y + 1 /\ y \in Nat /\ y < QUEUE /\ QUEUE \in Nat
          BY <1>2, <1>6, WsSessionsAssumption DEF Grown
      <4> HIDE DEF x, y
      <4>2. x <= QUEUE
          BY <4>1
      <4> QED
          BY <4>2 DEF x
    <3>3. ASSUME NEW n \in DOMAIN c
          PROVE  c[n].task \in DOMAIN tasks /\ tasks[c[n].task].socket = s
      <4>1. (n \in DOMAIN q /\ c[n] = q[n]) \/ c[n] = m
        <5> DEFINE y == Len(q)
        <5>1. /\ n \in 1..(y + 1) /\ DOMAIN q = 1..y /\ y \in Nat
              /\ c[y + 1] = m /\ \A k \in 1..y : c[k] = q[k]
            BY <1>6 DEF Grown
        <5> HIDE DEF y
        <5>2. n \in 1..y \/ n = y + 1
            BY <5>1
        <5> QED
            BY <5>1, <5>2
      <4>2. CASE n \in DOMAIN q /\ c[n] = q[n]
          BY <1>1, <4>2 DEF SessionInv, Placed
      <4>3. CASE c[n] = m
          BY <1>3, <4>3
      <4> QED
          BY <4>1, <4>2, <4>3
    <3> QED
        BY <2>1, <2>2, <3>1, <3>2, <3>3
  <2>3. CASE p # s
    <3>1. queue'[p] = queue[p]
        BY <1>10, <2>3
    <3> QED
        BY <2>1, <3>1 DEF SessionInv, Placed
  <2> QED
      BY <2>2, <2>3
<1>13. Lined'
  <2> SUFFICES ASSUME NEW u \in DOMAIN tasks
               PROVE  /\ InLine(u, tasks'[u], heard[u].told, queue'[tasks'[u].socket])
                      /\ tasks'[u].pos <= Len(bus)
      BY <1>2, <1>7 DEF Lined, Steady, storeVars
  <2>1. CASE u = t
    <3>1. d.socket = s
        BY <1>4 DEF Alike
    <3> QED
        BY <1>1, <1>4, <1>5, <1>7, <1>10, <2>1, <3>1
  <2>2. CASE u # t
    <3> DEFINE x == tasks[u]
               told == heard[u].told
               p == x.socket
    <3>1. /\ tasks'[u] = x /\ u \in Nat /\ p \in SOCKET
          /\ InLine(u, x, told, queue[p]) /\ x.pos <= Len(bus)
        BY <1>7, <2>2, TaskAt DEF SessionInv, Lined
    <3> HIDE DEF x, told, p
    <3>2. InLine(u, x, told, queue'[p])
      <4>1. CASE p = s
        <5>1. queue[p] = q /\ queue'[p] = c
            BY <1>10, <3>1, <4>1
        <5> QED
            BY <1>5, <2>2, <3>1, <5>1
      <4>2. CASE p # s
        <5>1. queue'[p] = queue[p]
            BY <1>10, <3>1, <4>2
        <5> QED
            BY <3>1, <5>1
      <4> QED
          BY <4>1, <4>2
    <3> QED
        BY <3>1, <3>2 DEF x, told, p
  <2> QED
      BY <2>1, <2>2
<1> QED
    BY <1>8, <1>11, <1>12, <1>13 DEF SessionInv

\* No step puts a session's tasks, queue or client out of order.
LEMMA SessionStep == StoreInv /\ SessionInv /\ [Next]_vars => SessionInv'
<1> SUFFICES ASSUME StoreInv, SessionInv, [Next]_vars PROVE SessionInv'
    OBVIOUS
<1>1. Extends(bus, bus')
    BY StoreStep
<1>2. phase \in [SOCKET -> {"new", "auth", "active", "closed"}]
    BY DEF SessionInv, Shaped
<1>3. CASE UNCHANGED sessionVars
    BY <1>1, <1>2, <1>3, SessionsStay DEF sessionVars
<1>4. ASSUME NEW s \in SOCKET, Connect(s) \/ Authenticate(s)
      PROVE  SessionInv'
  <2>1. phase' \in [SOCKET -> {"new", "auth", "active", "closed"}]
      BY <1>2, <1>4 DEF Connect, Authenticate
  <2> QED
      BY <1>1, <1>4, <2>1, SessionsStay DEF Connect, Authenticate
<1>5. ASSUME NEW s \in SOCKET, Deliver(s) \/ Close(s)
      PROVE  SessionInv'
    BY <1>5, DeliverKeeps, CloseKeeps
<1>6. ASSUME NEW s \in SOCKET, NEW i \in SUBID, Unsubscribe(s, i)
      PROVE  SessionInv'
    BY <1>6, UnsubscribeKeeps
<1>7. ASSUME NEW s \in SOCKET, NEW i \in SUBID, NEW k \in ASKED, Subscribe(s, i, k)
      PROVE  SessionInv'
    BY <1>7, SubscribeKeeps
<1>8. ASSUME NEW t \in DOMAIN tasks, Receive(t) \/ Lag(t) \/ Push(t) \/ PushFails(t)
      PROVE  SessionInv'
    BY <1>8, ReceiveKeeps, LagKeeps, PushKeeps, PushFailsKeeps
<1>9. \/ UNCHANGED sessionVars
      \/ \E s \in SOCKET :
            \/ Connect(s) \/ Authenticate(s) \/ Deliver(s) \/ Close(s)
            \/ \E i \in SUBID : Unsubscribe(s, i) \/ \E k \in ASKED : Subscribe(s, i, k)
      \/ \E t \in DOMAIN tasks : Receive(t) \/ Lag(t) \/ Push(t) \/ PushFails(t)
    BY DEF Next, vars, SetEntityState, DeleteEntity, Call, Record, RecorderLags, Report,
       RecordReport
<1> QED
    BY <1>3, <1>4, <1>5, <1>6, <1>7, <1>8, <1>9

\* Before anybody connects nothing is out of order.
LEMMA SessionInitially == Init => SessionInv
<1> SUFFICES ASSUME Init PROVE SessionInv
    OBVIOUS
<1>1. /\ phase = [s \in SOCKET |-> "new"] /\ subs = [s \in SOCKET |-> [i \in SUBID |-> 0]]
      /\ queue = [s \in SOCKET |-> << >>] /\ tasks = << >> /\ heard = << >>
    BY DEF Init
<1>2. Len(tasks) = 0 /\ DOMAIN tasks = {} /\ QUEUE \in Nat
    BY <1>1, WsSessionsAssumption
<1>3. Shaped
    BY <1>1, <1>2 DEF Shaped
<1>4. Named
    BY <1>1 DEF Named
<1>5. Placed
    BY <1>1, <1>2 DEF Placed
<1>6. OnlyReplacedTasksOutlive /\ Lined
    BY <1>2 DEF OnlyReplacedTasksOutlive, Lined
<1> QED
    BY <1>3, <1>4, <1>5, <1>6 DEF SessionInv

\* Unsubscribing and disconnecting stop every task but one whose id a later
\* subscription took, whatever is queued (ha_ws.rs, handle_socket).
THEOREM OnlyReplacedTasksEverOutlive == Spec => []OnlyReplacedTasksOutlive
<1>1. Init => StoreInv /\ SessionInv
    BY StoreInitially, SessionInitially
<1>2. StoreInv /\ SessionInv /\ [Next]_vars => StoreInv' /\ SessionInv'
    BY StoreStep, SessionStep
<1>3. SessionInv => OnlyReplacedTasksOutlive
    BY DEF SessionInv
<1> QED
    BY <1>1, <1>2, <1>3, PTL DEF Spec
-----------------------------------------------------------------------------
(* What the invariant says of the messages of a task, oldest first. *)

\* The messages that InFlight lines up are those on their way, older ones first.
LEMMA InFlightIsOnWay ==
    ASSUME Shaped, NEW t \in DOMAIN tasks,
           InLine(t, tasks[t], heard[t].told, queue[tasks[t].socket])
    PROVE  LET f == InFlight(t)
           IN  /\ f \in Seq(MessageRecord)
               /\ \A n \in DOMAIN f : f[n] \in OnWay(t, tasks[t], queue[tasks[t].socket])
               /\ \A i, j \in DOMAIN f : i < j => f[i].at < f[j].at
               /\ \A m \in OnWay(t, tasks[t], queue[tasks[t].socket]) : \E n \in DOMAIN f : f[n] = m
<1> DEFINE r == tasks[t]
           q == queue[r.socket]
           p == Pick(q, Mine(t, q))
<1>1. r \in TaskRecord /\ q \in Seq(MessageRecord) /\ InLine(t, r, heard[t].told, q)
    BY TaskAt
<1>2. InFlight(t) = IF r.hold = None THEN p ELSE Append(p, r.hold)
    BY DEF InFlight, Mine
<1>3. p \in Seq(MessageRecord) /\ Picked(p, q, Mine(t, q), Len(q))
    BY <1>1, PickIsPicked
<1> HIDE DEF p
<1>4. PICK f \in [1..Len(p) -> Mine(t, q) \cap 1..Len(q)] :
          /\ \A i, j \in 1..Len(p) : i < j => f[i] < f[j]
          /\ \A k \in Mine(t, q) \cap 1..Len(q) : \E i \in 1..Len(p) : f[i] = k
          /\ \A i \in 1..Len(p) : p[i] = q[f[i]]
    BY <1>3 DEF Picked
<1>5. Mine(t, q) \cap 1..Len(q) = Mine(t, q) /\ DOMAIN p = 1..Len(p) /\ Len(p) \in Nat
    BY <1>1, <1>3 DEF Mine
<1> HIDE DEF q, r
<1>6. \A n \in DOMAIN p : f[n] \in Mine(t, q) /\ p[n] = q[f[n]]
    BY <1>4, <1>5
<1>7. \A n \in DOMAIN p : p[n] \in OnWay(t, r, q)
    BY <1>6 DEF OnWay
<1>8. \A i, j \in DOMAIN p : i < j => p[i].at < p[j].at
  <2> SUFFICES ASSUME NEW i \in DOMAIN p, NEW j \in DOMAIN p, i < j PROVE p[i].at < p[j].at
      OBVIOUS
  <2>1. f[i] < f[j]
      BY <1>4, <1>5
  <2> QED
      BY <1>1, <1>6, <2>1 DEF InLine
<1>9. \A k \in Mine(t, q) : \E n \in DOMAIN p : p[n] = q[k]
    BY <1>4, <1>5, <1>6
<1>10. CASE r.hold = None
  <2>1. \A m \in OnWay(t, r, q) : \E n \in DOMAIN p : p[n] = m
      BY <1>9, <1>10 DEF OnWay
  <2> QED
      BY <1>2, <1>3, <1>7, <1>8, <1>10, <2>1 DEF r, q
<1>11. CASE r.hold # None
  <2> DEFINE m == r.hold
             c == Append(p, m)
             L == Len(p)
  <2>1. m \in MessageRecord /\ m \in OnWay(t, r, q)
      BY <1>1, <1>11 DEF TaskRecord, OnWay
  <2>2. Grown(p, m, c)
      BY <1>3, <2>1, AppendGrows
  <2>3. /\ c \in Seq(MessageRecord) /\ L \in Nat /\ DOMAIN c = 1..(L + 1) /\ DOMAIN p = 1..L
        /\ c[L + 1] = m /\ \A n \in 1..L : c[n] = p[n]
      BY <2>2 DEF Grown
  <2>4. \A i \in DOMAIN p : p[i].at < m.at
      BY <1>1, <1>6, <1>11 DEF InLine
  <2>5. InFlight(t) = c
      BY <1>2, <1>11
  <2> HIDE DEF L, c, m
  <2>6. \A n \in 1..(L + 1) : n \in 1..L \/ n = L + 1
      BY <2>3
  <2>7. \A n \in DOMAIN c : c[n] \in OnWay(t, r, q)
      BY <1>7, <2>1, <2>3, <2>6
  <2>8. \A i, j \in DOMAIN c : i < j => c[i].at < c[j].at
    <3> SUFFICES ASSUME NEW i \in DOMAIN c, NEW j \in DOMAIN c, i < j PROVE c[i].at < c[j].at
        OBVIOUS
    <3>1. i \in 1..L
        BY <2>3
    <3>2. CASE j \in 1..L
        BY <1>8, <2>3, <3>1, <3>2
    <3>3. CASE j = L + 1
        BY <2>3, <2>4, <3>1, <3>3
    <3> QED
        BY <2>3, <2>6, <3>2, <3>3
  <2>9. \A x \in OnWay(t, r, q) : \E n \in DOMAIN c : c[n] = x
    <3>1. \A n \in 1..L : n \in 1..(L + 1)
        BY <2>3
    <3>2. L + 1 \in 1..(L + 1)
        BY <2>3
    <3> TAKE x \in OnWay(t, r, q)
    <3>3. CASE \E k \in Mine(t, q) : x = q[k]
        BY <1>9, <2>3, <3>1, <3>3
    <3>4. CASE x = m
        BY <2>3, <3>2, <3>4
    <3> QED
        BY <3>3, <3>4 DEF OnWay, m
  <2> QED
      BY <2>3, <2>5, <2>7, <2>8, <2>9 DEF r, q
<1> QED
    BY <1>10, <1>11

\* Numbers that grow, behind a smaller one, grow as one line.
LEMMA LineGrows ==
    ASSUME NEW told \in Int, NEW pos \in Int, NEW f \in Seq(MessageRecord),
           told <= pos, \A n \in DOMAIN f : told < f[n].at /\ f[n].at <= pos,
           \A i, j \in DOMAIN f : i < j => f[i].at < f[j].at
    PROVE  LET line == <<told>> \o [n \in DOMAIN f |-> f[n].at]
           IN  /\ \A j \in 2..Len(line) : line[j - 1] < line[j]
               /\ line[Len(line)] <= pos
<1> DEFINE L == Len(f)
           g == [n \in DOMAIN f |-> f[n].at]
           line == <<told>> \o g
<1>1. L \in Nat /\ DOMAIN f = 1..L /\ \A n \in 1..L : f[n].at \in Nat
  <2>1. L \in Nat /\ DOMAIN f = 1..L /\ \A n \in 1..L : f[n] \in MessageRecord
      OBVIOUS
  <2> QED
      BY <2>1 DEF MessageRecord
<1>2. g \in Seq(Nat) /\ Len(g) = L /\ \A n \in 1..L : g[n] = f[n].at
    BY <1>1
<1> HIDE DEF g, L
<1>3. /\ Len(line) = L + 1 /\ line[1] = told
      /\ \A j \in 2..(L + 1) : line[j] = g[j - 1]
  <2>1. g \in Seq(Int) /\ <<told>> \in Seq(Int) /\ Len(<<told>>) = 1
      BY <1>2
  <2>2. Len(line) = L + 1
      BY <1>1, <1>2, <2>1
  <2>3. line[1] = told
      BY <1>1, <1>2, <2>1
  <2>4. ASSUME NEW j \in 2..(L + 1)
        PROVE  line[j] = g[j - 1]
      BY <1>1, <1>2, <2>1
  <2> QED
      BY <2>2, <2>3, <2>4
<1> HIDE DEF line
<1>4. \A j \in 2..(L + 1) : line[j - 1] < line[j] /\ line[j] <= pos
  <2> TAKE j \in 2..(L + 1)
  <2> DEFINE k == j - 1
             i == k - 1
  <2>1. k \in 1..L /\ line[j] = f[k].at /\ j - 1 = k
      BY <1>1, <1>2, <1>3
  <2>2. k # 1 => i \in 1..L /\ i < k /\ k \in 2..(L + 1) /\ line[k] = f[i].at
      BY <1>1, <1>2, <1>3
  <2> HIDE DEF k, i
  <2>3. CASE k = 1
      BY <1>1, <1>3, <2>1, <2>3
  <2>4. CASE k # 1
      BY <1>1, <2>1, <2>2, <2>4
  <2> QED
      BY <2>3, <2>4
<1>5. line[L + 1] <= pos
  <2>1. L = 0 \/ L + 1 \in 2..(L + 1)
      BY <1>1
  <2> QED
      BY <1>3, <1>4, <2>1
<1> QED
    BY <1>3, <1>4, <1>5 DEF line, g

\* Whatever is queued or held, a client is told its events one after the other.
LEMMA LinedIsInOrder == SessionInv => InOrder
<1> SUFFICES ASSUME SessionInv, NEW t \in DOMAIN tasks
             PROVE  LET line == <<heard[t].told>> \o [n \in DOMAIN InFlight(t) |-> InFlight(t)[n].at]
                    IN  /\ \A j \in 2..Len(line) : line[j - 1] < line[j]
                        /\ line[Len(line)] <= tasks[t].pos
    BY DEF InOrder
<1> DEFINE r == tasks[t]
           told == heard[t].told
           q == queue[r.socket]
           f == InFlight(t)
           pos == r.pos
<1>1. InLine(t, r, told, q) /\ Shaped
    BY DEF SessionInv, Lined
<1>2. told \in Int /\ pos \in Int /\ r.from \in Nat
    BY <1>1, TaskAt DEF HeardRecord, TaskRecord
<1>3. /\ f \in Seq(MessageRecord) /\ \A n \in DOMAIN f : f[n] \in OnWay(t, r, q)
      /\ \A i, j \in DOMAIN f : i < j => f[i].at < f[j].at
    BY <1>1, InFlightIsOnWay
<1> HIDE DEF f, q
<1>4. told <= pos /\ \A n \in DOMAIN f : told < f[n].at /\ f[n].at <= pos
  <2> HIDE DEF r, told
  <2> QED
      BY <1>1, <1>2, <1>3 DEF InLine
<1> HIDE DEF told, pos
<1>5. LET line == <<told>> \o [n \in DOMAIN f |-> f[n].at]
      IN  /\ \A j \in 2..Len(line) : line[j - 1] < line[j]
          /\ line[Len(line)] <= pos
    BY <1>2, <1>3, <1>4, LineGrows
<1> QED
    BY <1>5 DEF told, pos, f
-----------------------------------------------------------------------------
(* The logbook. *)

\* What the ring drops is the oldest entry.
LEMMA OldestDropped ==
    ASSUME NEW l, NEW pos, NEW lost, Kept(l, pos, lost), l # << >>
    PROVE  /\ Kept(Tail(l), pos, lost) /\ Len(Tail(l)) = Len(l) - 1
           /\ \A i \in DOMAIN Tail(l) : \E j \in DOMAIN l : Tail(l)[i] = l[j]
<1> DEFINE N == Len(l)
           c == Tail(l)
<1>1. /\ c \in Seq(EntryRecord) /\ Len(c) = N - 1 /\ N \in Nat \ {0} /\ DOMAIN c = 1..(N - 1)
      /\ DOMAIN l = 1..N /\ \A n \in 1..(N - 1) : c[n] = l[n + 1]
    BY DEF Kept
<1> HIDE DEF N, c
<1>2. /\ l \in Seq(EntryRecord)
      /\ \A j \in ByTask(l) : l[j].event \in 1..pos /\ l[j].upto = l[j].event
      /\ \A j, k \in 1..N : j < k /\ l[j].by = l[k].by => l[j].upto < l[k].event
      /\ \A j \in ByTask(l) : \A n \in l[j].event..pos :
            n \in lost \/ \E k \in ByTask(l) : l[k].event = n
    BY <1>1 DEF Kept
<1>3. \A n \in 1..(N - 1) : n + 1 \in 1..N /\ n \in Nat /\ c[n] = l[n + 1]
    BY <1>1
<1>4. \A n \in ByTask(c) : n \in 1..(N - 1) /\ n + 1 \in ByTask(l) /\ c[n] = l[n + 1]
    BY <1>1, <1>3 DEF ByTask
<1>5. \A j \in ByTask(c) : c[j].event \in 1..pos /\ c[j].upto = c[j].event
    BY <1>2, <1>4
<1>6. ASSUME NEW j \in DOMAIN c, NEW k \in DOMAIN c, j < k, c[j].by = c[k].by
      PROVE  c[j].upto < c[k].event
  <2> DEFINE a == j + 1
             b == k + 1
  <2>1. a \in 1..N /\ b \in 1..N /\ a < b /\ c[j] = l[a] /\ c[k] = l[b]
      BY <1>1, <1>6, SMTT(30)
  <2> HIDE DEF a, b
  <2> QED
      BY <1>2, <1>6, <2>1
<1>7. ASSUME NEW j \in ByTask(c), NEW n \in c[j].event..pos, n \notin lost
      PROVE  \E k \in ByTask(c) : c[k].event = n
  <2> DEFINE a == j + 1
  <2>1. a \in ByTask(l) /\ a \in 1..N /\ 1 < a /\ c[j] = l[a] /\ a \in Nat
    <3>1. j \in 1..(N - 1)
        BY <1>4
    <3> QED
        BY <1>1, <1>4, <3>1
  <2> HIDE DEF a
  <2>2. PICK k \in ByTask(l) : l[k].event = n
      BY <1>2, <1>7, <2>1
  <2>3. k \in 1..N /\ l[k].by = "listener" /\ l[a].by = "listener"
      BY <1>1, <2>1, <2>2 DEF ByTask
  <2>4. k # 1
    <3> SUFFICES ASSUME k = 1 PROVE FALSE
        OBVIOUS
    <3> DEFINE x == l[a].event
    <3>1. l[k].upto < x /\ l[k].upto = n
        BY <1>2, <2>1, <2>2, <2>3
    <3>2. n \in x..pos /\ x \in Int
      <4>1. x \in 1..pos
          BY <1>2, <2>1
      <4> QED
          BY <1>7, <2>1, <4>1
    <3> HIDE DEF x
    <3> QED
        BY <3>1, <3>2
  <2> DEFINE i == k - 1
  <2>5. i \in 1..(N - 1) /\ i + 1 = k
      BY <1>1, <2>3, <2>4
  <2> HIDE DEF i
  <2>6. c[i] = l[k] /\ i \in ByTask(c)
      BY <1>1, <2>3, <2>5 DEF ByTask
  <2> QED
      BY <2>2, <2>6
<1>8. Kept(c, pos, lost)
    BY <1>1, <1>5, <1>6, <1>7 DEF Kept
<1> QED
    BY <1>1, <1>3, <1>8 DEF N, c

\* An entry that follows those of its writer is the newest: the task's of its
\* next event, or one of the loop's.
LEMMA NewestAdded ==
    ASSUME NEW l, NEW pos \in Nat, NEW lost, Kept(l, pos, lost),
           NEW x \in EntryRecord, NEW end,
           \/ x.by = "listener" /\ end = pos + 1 /\ x.event = end /\ x.upto = end
           \/ x.by = "loop" /\ end = pos /\ LoopUpTo(l, x.event)
    PROVE  Kept(Append(l, x), end, lost) /\ Len(Append(l, x)) = Len(l) + 1
<1> DEFINE N == Len(l)
           c == Append(l, x)
<1>1. /\ c \in Seq(EntryRecord) /\ Len(c) = N + 1 /\ N \in Nat /\ DOMAIN c = 1..(N + 1)
      /\ DOMAIN l = 1..N /\ c[N + 1] = x /\ \A n \in 1..N : c[n] = l[n]
    BY DEF Kept
<1> HIDE DEF N, c
<1>2. /\ l \in Seq(EntryRecord)
      /\ \A j \in ByTask(l) : l[j].event \in 1..pos /\ l[j].upto = l[j].event
      /\ \A j, k \in 1..N : j < k /\ l[j].by = l[k].by => l[j].upto < l[k].event
      /\ \A j \in ByTask(l) : \A n \in l[j].event..pos :
            n \in lost \/ \E k \in ByTask(l) : l[k].event = n
    BY <1>1 DEF Kept
<1>3. (\A n \in 1..(N + 1) : n \in 1..N \/ n = N + 1) /\ N + 1 \in 1..(N + 1)
      /\ (\A n \in 1..N : n \in 1..(N + 1)) /\ (\A n \in 1..N : ~(N + 1 < n))
    BY <1>1
<1>4. /\ \A n \in ByTask(c) : (n \in ByTask(l) /\ n \in 1..N /\ c[n] = l[n])
                             \/ (n = N + 1 /\ x.by = "listener")
      /\ \A n \in ByTask(l) : n \in ByTask(c) /\ c[n] = l[n]
    BY <1>1, <1>3 DEF ByTask
<1>5. \A j \in ByTask(l) : l[j].event \in Nat /\ l[j].event \in 1..end
  <2> TAKE j \in ByTask(l)
  <2>1. l[j].event \in 1..pos
      BY <1>2
  <2> QED
      BY <2>1
<1>6. \A j \in ByTask(c) : c[j].event \in 1..end /\ c[j].upto = c[j].event
  <2> TAKE j \in ByTask(c)
  <2>1. CASE j \in ByTask(l) /\ c[j] = l[j]
      BY <1>2, <1>5, <2>1
  <2>2. CASE j = N + 1 /\ x.by = "listener"
      BY <1>1, <2>2
  <2> QED
      BY <1>4, <2>1, <2>2
<1>7. ASSUME NEW j \in DOMAIN c, NEW k \in DOMAIN c, j < k, c[j].by = c[k].by
      PROVE  c[j].upto < c[k].event
  <2>1. j \in 1..N /\ c[j] = l[j]
      BY <1>1, <1>3, <1>7
  <2>2. CASE k \in 1..N
      BY <1>1, <1>2, <1>7, <2>1, <2>2
  <2>3. CASE k = N + 1 /\ x.by = "listener"
    <3>1. j \in ByTask(l)
        BY <1>1, <1>7, <2>1, <2>3 DEF ByTask
    <3> DEFINE y == l[j].event
    <3>2. y \in 1..pos /\ l[j].upto = y
        BY <1>2, <3>1
    <3> HIDE DEF y
    <3>3. x.event = pos + 1
        BY <2>3
    <3> QED
        BY <1>1, <2>1, <2>3, <3>2, <3>3
  <2>4. CASE k = N + 1 /\ x.by = "loop"
      BY <1>1, <1>7, <2>1, <2>4 DEF LoopUpTo
  <2> QED
      BY <1>1, <1>3, <2>2, <2>3, <2>4
<1>8. ASSUME NEW j \in ByTask(c), NEW n \in c[j].event..end, n \notin lost
      PROVE  \E k \in ByTask(c) : c[k].event = n
  <2>1. CASE x.by = "listener" /\ n = end
    <3>1. N + 1 \in ByTask(c)
        BY <1>1, <1>3, <2>1 DEF ByTask
    <3> QED
        BY <1>1, <2>1, <3>1
  <2>2. CASE ~(x.by = "listener" /\ n = end)
    <3>1. c[j].event \in 1..end
        BY <1>6
    <3> DEFINE y == c[j].event
    <3>2. y \in Nat /\ n \in y..end
        BY <1>8, <3>1
    <3> HIDE DEF y
    <3>3. n \in y..pos
        BY <2>2, <3>2
    <3>4. j \in ByTask(l) /\ c[j] = l[j]
      <4>1. ~(j = N + 1 /\ x.by = "listener")
        <5> SUFFICES ASSUME j = N + 1, x.by = "listener" PROVE FALSE
            OBVIOUS
        <5>1. y = pos + 1
            BY <1>1 DEF y
        <5> QED
            BY <3>3, <5>1
      <4> QED
          BY <1>4, <4>1
    <3>5. PICK k \in ByTask(l) : l[k].event = n
        BY <1>2, <1>8, <3>3, <3>4 DEF y
    <3> QED
        BY <1>4, <3>5
  <2> QED
      BY <2>1, <2>2
<1>9. Kept(c, end, lost)
    BY <1>1, <1>6, <1>7, <1>8 DEF Kept
<1> QED
    BY <1>1, <1>9 DEF N, c

\* So LogbookStore::record keeps the entries in order and its capacity, and adds
\* nothing but the new one.
LEMMA RecordedKeeps ==
    ASSUME NEW l, NEW pos \in Nat, NEW lost, Kept(l, pos, lost), Len(l) <= LOGBOOK,
           NEW x \in EntryRecord, NEW end,
           \/ x.by = "listener" /\ end = pos + 1 /\ x.event = end /\ x.upto = end
           \/ x.by = "loop" /\ end = pos /\ LoopUpTo(l, x.event)
    PROVE  LET next == Recorded(l, x)
           IN  /\ Kept(next, end, lost) /\ Len(next) <= LOGBOOK
               /\ \A i \in DOMAIN next : next[i] = x \/ \E j \in DOMAIN l : next[i] = l[j]
<1> DEFINE kept == IF Len(l) >= LOGBOOK THEN Tail(l) ELSE l
           next == Recorded(l, x)
<1>1. l \in Seq(EntryRecord) /\ Len(l) \in Nat /\ LOGBOOK \in Nat
    BY WsSessionsAssumption DEF Kept
<1>2. CASE LOGBOOK = 0
  <2>1. next = l /\ l = << >> /\ DOMAIN l = {} /\ Len(l) = 0
      BY <1>1, <1>2 DEF Recorded
  <2> HIDE DEF next
  <2> QED
      BY <1>1, <1>2, <2>1 DEF Kept, ByTask, next
<1>3. CASE LOGBOOK # 0
  <2>1. next = Append(kept, x)
      BY <1>3 DEF Recorded
  <2>2. /\ Kept(kept, pos, lost) /\ Len(kept) \in Nat /\ Len(kept) + 1 <= LOGBOOK
        /\ \A i \in DOMAIN kept : \E j \in DOMAIN l : kept[i] = l[j]
    <3>1. CASE Len(l) >= LOGBOOK
      <4>1. l # << >>
          BY <1>1, <1>3, <3>1
      <4>2. /\ Kept(Tail(l), pos, lost) /\ Len(Tail(l)) = Len(l) - 1
            /\ \A i \in DOMAIN Tail(l) : \E j \in DOMAIN l : Tail(l)[i] = l[j]
          BY <4>1, OldestDropped
      <4>3. kept = Tail(l)
          BY <3>1
      <4> DEFINE a == Len(l)
                 b == Len(Tail(l))
      <4>4. b = a - 1 /\ a <= LOGBOOK /\ a >= LOGBOOK /\ a \in Nat
          BY <1>1, <3>1, <4>2
      <4> HIDE DEF a, b
      <4>5. b \in Nat /\ b + 1 <= LOGBOOK
          BY <1>1, <1>3, <4>4
      <4> HIDE DEF kept
      <4> QED
          BY <4>2, <4>3, <4>5 DEF b
    <3>2. CASE ~(Len(l) >= LOGBOOK)
      <4>1. kept = l
          BY <3>2
      <4> HIDE DEF kept
      <4> QED
          BY <1>1, <3>2, <4>1
    <3> QED
        BY <3>1, <3>2
  <2> HIDE DEF kept, next
  <2>3. LoopUpTo(l, x.event) => LoopUpTo(kept, x.event)
      BY <2>2 DEF LoopUpTo
  <2>4. Kept(next, end, lost) /\ Len(next) = Len(kept) + 1
      BY <2>1, <2>2, <2>3, NewestAdded
  <2>5. \A i \in DOMAIN next : next[i] = x \/ \E j \in DOMAIN kept : next[i] = kept[j]
    <3>1. kept \in Seq(EntryRecord)
        BY <2>2 DEF Kept
    <3> QED
        BY <2>1, <3>1
  <2> QED
      BY <2>2, <2>4, <2>5 DEF next
<1> QED
    BY <1>2, <1>3

\* What the listener lagged past is lost.
LEMMA MissedIsLost ==
    ASSUME NEW l, NEW pos \in Nat, NEW lost, Kept(l, pos, lost), NEW n \in Nat, pos < n
    PROVE  Kept(l, n, lost \cup (pos + 1)..n)
<1>1. \A y \in 1..pos : y \in 1..n
    OBVIOUS
<1>2. \A y \in Nat : \A x \in y..n : x \in y..pos \/ x \in (pos + 1)..n
    OBVIOUS
<1>3. l \in Seq(EntryRecord) /\ \A j \in ByTask(l) : l[j].event \in 1..pos /\ l[j].event \in Nat
    BY DEF Kept
<1> DEFINE missed == (pos + 1)..n
<1> HIDE DEF missed
<1>4. Kept(l, n, lost \cup missed)
    BY <1>1, <1>2, <1>3 DEF Kept, missed
<1> QED
    BY <1>4 DEF missed

\* An entry that was true stays so, whatever happens then.
LEMMA TrueStaysTrue ==
    ASSUME NEW b, NEW c, Extends(b, c), NEW x \in EntryRecord, TrueOf(x, b)
    PROVE  TrueOf(x, c)
<1>1. /\ Len(b) \in Nat /\ Len(c) \in Nat /\ Len(b) <= Len(c)
      /\ DOMAIN b = 1..Len(b) /\ DOMAIN c = 1..Len(c)
      /\ \A n \in 1..Len(b) : c[n] = b[n]
    BY DEF Extends
<1> DEFINE told(d) == {n \in EventsIn(d, x.entity) : n <= x.upto}
<1>2. x.event <= x.upto /\ x.upto <= Len(b) /\ x.event \in 1..Len(b) /\ x.upto \in Nat
  <2>1. x.event \in Nat \ {0} /\ x.upto \in Nat /\ x.event <= x.upto /\ x.upto <= Len(b)
      BY DEF TrueOf, EntryRecord
  <2> QED
      BY <1>1, <2>1
<1>3. told(c) = told(b)
  <2>1. \A n \in Nat : n <= x.upto => n <= Len(b)
      BY <1>1, <1>2
  <2> QED
      BY <1>1, <2>1 DEF EventsIn
<1>4. Latest(told(b)) \in 1..Len(b)
  <2> DEFINE S == told(b)
  <2>1. S \in SUBSET 1..Len(b) /\ x.event \in S
      BY <1>1, <1>2 DEF EventsIn, TrueOf
  <2> HIDE DEF S
  <2>2. IsLast(S, Latest(S))
      BY <1>1, <2>1, LastExists
  <2> QED
      BY <2>1, <2>2 DEF IsLast, S
<1>5. x.upto <= Len(c)
    BY <1>1, <1>2
<1>6. x.new = b[Latest(told(b))].new.value
    BY DEF TrueOf
<1> DEFINE last == Latest(told(b))
<1>7. c[x.event] = b[x.event] /\ c[last] = b[last]
    BY <1>1, <1>2, <1>4
<1>8. x.new = c[Latest(told(c))].new.value
    BY <1>3, <1>6, <1>7
<1> HIDE DEF told, last
<1> QED
    BY <1>2, <1>5, <1>7, <1>8 DEF TrueOf, told

\* What the channel's latest event of an entity says is what its state is.
LEMMA LatestIsFound ==
    ASSUME NEW b \in Seq(EventRecord), NEW gone, NEW e, NEW v, v # None,
           Says(b, gone, e, Len(b) + 1, v)
    PROVE  b[Latest({n \in EventsIn(b, e) : n <= Len(b)})].new = v
<1>1. PICK k \in EventsIn(b, e) :
          /\ v = b[k].new
          /\ \A j \in EventsIn(b, e) : j < Len(b) + 1 => j <= k
    BY DEF Says
<1> DEFINE S == {n \in EventsIn(b, e) : n <= Len(b)}
<1>2. Len(b) \in Nat /\ EventsIn(b, e) \subseteq 1..Len(b)
    BY DEF EventsIn
<1>3. IsLast(S, k) /\ S \in SUBSET Nat
    BY <1>1, <1>2 DEF IsLast
<1> HIDE DEF S
<1>4. Latest(S) = k
    BY <1>3, LatestIsLast
<1> QED
    BY <1>1, <1>4 DEF S

\* What the task notes of event n is true.
LEMMA ListenerIsTrue ==
    ASSUME bus \in Seq(EventRecord), NEW n \in 1..Len(bus)
    PROVE  ListenerEntry(n) \in EntryRecord /\ TrueOf(ListenerEntry(n), bus)
<1> DEFINE x == ListenerEntry(n)
           e == bus[n].entity
           S == {k \in EventsIn(bus, e) : k <= n}
<1>1. Len(bus) \in Nat /\ DOMAIN bus = 1..Len(bus) /\ bus[n] \in EventRecord /\ n \in Nat
    OBVIOUS
<1>2. /\ e \in ENTITY /\ bus[n].new.value \in Texts
      /\ bus[n].old = None \/ bus[n].old.value \in Texts
    BY <1>1 DEF EventRecord, StateRecord
<1>3. /\ x.by = "listener" /\ x.entity = e /\ x.event = n /\ x.upto = n
      /\ x.old = IF bus[n].old = None THEN None ELSE bus[n].old.value
      /\ x.new = bus[n].new.value
    BY DEF ListenerEntry, Entry
<1>4. x \in EntryRecord
    BY <1>1, <1>2 DEF ListenerEntry, Entry, EntryRecord
<1>5. IsLast(S, n) /\ S \in SUBSET Nat
    BY <1>1 DEF IsLast, EventsIn
<1>6. Latest(S) = n
  <2> HIDE DEF S
  <2> QED
      BY <1>5, LatestIsLast
<1> HIDE DEF x
<1>7. x.new = bus[Latest({k \in EventsIn(bus, x.entity) : k <= x.upto})].new.value
    BY <1>3, <1>6
<1>8. bus[x.event].entity = x.entity /\ x.event <= x.upto /\ x.upto <= Len(bus)
    BY <1>1, <1>3
<1>9. TrueOf(x, bus)
    BY <1>3, <1>7, <1>8 DEF TrueOf
<1> QED
    BY <1>4, <1>9 DEF x

\* What the loop notes of a report in hand is true, if it notes anything.
LEMMA LoopIsTrue ==
    ASSUME StoreInv, NEW r \in ReportRecord, InHand(r, bus), NEW found,
           found = states[r.entity], found # None, found.value # r.old
    PROVE  LET x == Entry("loop", r.entity, r.old, found.value, r.event, Len(bus))
           IN  x \in EntryRecord /\ TrueOf(x, bus)
<1> DEFINE x == Entry("loop", r.entity, r.old, found.value, r.event, Len(bus))
<1>1. /\ bus \in Seq(EventRecord) /\ Len(bus) \in Nat /\ DOMAIN bus = 1..Len(bus)
      /\ states \in [ENTITY -> StateRecord \cup {None}]
      /\ Says(bus, removed, r.entity, Len(bus) + 1, found)
    BY StoreTyped DEF StoreInv, SoundStore, ReportRecord
<1>2. /\ r.entity \in ENTITY /\ r.old \in Texts /\ r.event \in 1..Len(bus)
      /\ found \in StateRecord
    BY <1>1 DEF ReportRecord, InHand
<1>3. r.event \in Nat \ {0} /\ r.event <= Len(bus) /\ found.value \in Texts /\ r.old # None
    BY <1>1, <1>2, NoneAssumption DEF StateRecord
<1>4. x.by = "loop" /\ x.entity = r.entity /\ x.old = r.old /\ x.new = found.value
      /\ x.event = r.event /\ x.upto = Len(bus)
    BY DEF Entry
<1>5. x \in EntryRecord
    BY <1>1, <1>2, <1>3 DEF Entry, EntryRecord
<1>6. bus[Latest({n \in EventsIn(bus, r.entity) : n <= Len(bus)})].new = found
    BY <1>1, LatestIsFound
<1> HIDE DEF x
<1>7. x.new = bus[Latest({n \in EventsIn(bus, x.entity) : n <= x.upto})].new.value
    BY <1>4, <1>6
<1>8. TrueOf(x, bus)
    BY <1>3, <1>4, <1>7 DEF TrueOf, InHand
<1> QED
    BY <1>5, <1>8 DEF x

\* No step puts the logbook out of order or makes an entry untrue.
LEMMA LogStep == StoreInv /\ LogInv /\ [Next]_vars => LogInv'
<1> SUFFICES ASSUME StoreInv, LogInv, [Next]_vars PROVE LogInv'
    OBVIOUS
<1> DEFINE l == logbook.entries
           pos == logbook.pos
           lost == logbook.lost
           r == logbook.report
<1>1. /\ Len(bus) \in Nat /\ Len(bus') \in Nat /\ Len(bus) <= Len(bus') /\ Extends(bus, bus')
      /\ DOMAIN bus = 1..Len(bus) /\ DOMAIN bus' = 1..Len(bus')
      /\ \A n \in 1..Len(bus) : bus'[n] = bus[n]
    BY StoreStep DEF Extends
<1>2. /\ logbook \in LogbookRecord /\ pos \in Nat /\ pos <= Len(bus) /\ Len(l) <= LOGBOOK
      /\ l \in Seq(EntryRecord) /\ lost \in SUBSET Nat /\ Kept(l, pos, lost)
      /\ r \in ReportRecord \cup {None}
    BY DEF LogInv, LogbookRecord
<1>3. Oldest \in Nat /\ Oldest <= Len(bus)
    BY <1>1, WsSessionsAssumption DEF Oldest
<1>4. \A j \in DOMAIN l : TrueOf(l[j], bus')
  <2> TAKE j \in DOMAIN l
  <2>1. l[j] \in EntryRecord /\ TrueOf(l[j], bus)
      BY <1>2 DEF LogInv
  <2> QED
      BY <1>1, <2>1, TrueStaysTrue
<1>5. r # None => InHand(r, bus') /\ LoopUpTo(l, r.event)
    BY <1>1 DEF LogInv, InHand
<1>6. CASE UNCHANGED logbook
    BY <1>1, <1>2, <1>4, <1>5, <1>6 DEF LogInv
<1>7. CASE RecorderLags
  <2> DEFINE missed == (pos + 1)..Oldest
  <2>1. /\ pos < Oldest /\ bus' = bus
        /\ logbook' = [logbook EXCEPT !.pos = Oldest, !.lost = lost \cup missed]
      BY <1>7 DEF RecorderLags, storeVars
  <2>2. Kept(l, Oldest, lost \cup missed)
      BY <1>2, <1>3, <2>1, MissedIsLost
  <2>3. missed \in SUBSET Nat
      BY <1>2, <1>3
  <2> HIDE DEF missed
  <2>4. /\ logbook' \in LogbookRecord /\ logbook'.pos = Oldest /\ logbook'.entries = l
        /\ logbook'.lost = lost \cup missed /\ logbook'.report = r
      BY <1>2, <1>3, <2>1, <2>3 DEF LogbookRecord
  <2> HIDE DEF l, r
  <2> QED
      BY <1>2, <1>3, <1>4, <1>5, <2>1, <2>2, <2>4 DEF LogInv
<1>8. CASE Record
  <2> DEFINE n == pos + 1
             x == ListenerEntry(n)
             next == Recorded(l, x)
  <2>1. pos < Len(bus) /\ bus' = bus /\ logbook' = [logbook EXCEPT !.pos = n, !.entries = next]
      BY <1>8 DEF Record, storeVars
  <2>2. n \in Nat /\ n <= Len(bus) /\ n \in 1..Len(bus) /\ bus \in Seq(EventRecord)
      BY <1>1, <1>2, <2>1, StoreTyped
  <2>3. x \in EntryRecord /\ TrueOf(x, bus')
      BY <2>1, <2>2, ListenerIsTrue
  <2>4. x.by = "listener" /\ x.event = n /\ x.upto = n
      BY DEF ListenerEntry, Entry
  <2> HIDE DEF x
  <2>5. /\ Kept(next, n, lost) /\ Len(next) <= LOGBOOK
        /\ \A i \in DOMAIN next : next[i] = x \/ \E j \in DOMAIN l : next[i] = l[j]
    <3> HIDE DEF l, lost, pos
    <3> QED
        BY <1>2, <2>3, <2>4, RecordedKeeps DEF n
  <2>6. next \in Seq(EntryRecord)
      BY <2>5 DEF Kept
  <2> HIDE DEF n, next
  <2>7. /\ logbook' \in LogbookRecord /\ logbook'.pos = n /\ logbook'.entries = next
        /\ logbook'.lost = lost /\ logbook'.report = r
      BY <1>2, <2>1, <2>2, <2>6 DEF LogbookRecord
  <2> HIDE DEF l, r
  <2>8. \A i \in DOMAIN next : TrueOf(next[i], bus')
      BY <1>4, <2>3, <2>5
  <2>9. r # None => LoopUpTo(next, r.event)
      BY <1>5, <2>4, <2>5 DEF LoopUpTo
  <2> QED
      BY <1>5, <2>1, <2>2, <2>5, <2>7, <2>8, <2>9 DEF LogInv
<1>9. ASSUME NEW e \in ZIGBEE, NEW v \in REPORTED, Report(e, v)
      PROVE  LogInv'
  <2> DEFINE hand == IF states[e] = None THEN None
                     ELSE [entity |-> e, old |-> states[e].value, event |-> Now(Store)]
             n == Len(bus) + 1
  <2>1. /\ logbook' = [logbook EXCEPT !.report = hand] /\ Becomes(Set(Store, e, v, NoAttributes, Now(Store)))
      BY <1>9 DEF Report
  <2>2. /\ Store.states = states /\ Store.bus = bus /\ Now(Store) = n /\ bus \in Seq(EventRecord)
        /\ states \in [ENTITY -> StateRecord \cup {None}] /\ e \in ENTITY
      BY StoreTyped, WsSessionsAssumption DEF Now
  <2>3. \E y : bus' = Append(bus, y) /\ y.entity = e /\ y.old = states[e]
      BY <2>1, <2>2 DEF Becomes, Set
  <2>4. n \in DOMAIN bus' /\ bus'[n].entity = e /\ bus'[n].old = states[e]
      BY <1>1, <2>2, <2>3
  <2>5. hand \in ReportRecord \cup {None} /\ (hand # None => InHand(hand, bus') /\ hand.event = n)
    <3>1. CASE states[e] = None
        BY <3>1
    <3>2. CASE states[e] # None
      <4>1. states[e] \in StateRecord /\ states[e].value \in Texts /\ n \in Nat
          BY <1>1, <2>2, <3>2 DEF StateRecord
      <4>2. hand = [entity |-> e, old |-> states[e].value, event |-> n]
          BY <2>2, <3>2
      <4> HIDE DEF hand, n
      <4> QED
          BY <2>2, <2>4, <3>2, <4>1, <4>2 DEF ReportRecord, InHand
    <3> QED
        BY <3>1, <3>2
  <2>6. LoopUpTo(l, n)
    <3> SUFFICES ASSUME NEW j \in DOMAIN l PROVE l[j].upto < n
        BY DEF LoopUpTo
    <3>1. l[j] \in EntryRecord /\ TrueOf(l[j], bus)
        BY <1>2 DEF LogInv
    <3>2. l[j].upto <= Len(bus) /\ l[j].upto \in Nat
        BY <3>1 DEF TrueOf, EntryRecord
    <3> QED
        BY <1>1, <3>2
  <2> HIDE DEF hand, n
  <2>7. /\ logbook' \in LogbookRecord /\ logbook'.pos = pos /\ logbook'.entries = l
        /\ logbook'.lost = lost /\ logbook'.report = hand
    <3>1. logbook' = [logbook EXCEPT !.report = hand]
        BY <2>1
    <3>2. logbook \in LogbookRecord
        BY <1>2 DEF LogInv
    <3> QED
        BY <1>2, <2>5, <3>1, <3>2 DEF LogbookRecord
  <2> HIDE DEF l
  <2> QED
      BY <1>1, <1>2, <1>4, <2>5, <2>6, <2>7 DEF LogInv
<1>10. CASE RecordReport
  <2> DEFINE found == states[r.entity]
             x == Entry("loop", r.entity, r.old, found.value, r.event, Len(bus))
             next == IF found = None \/ found.value = r.old THEN l ELSE Recorded(l, x)
  <2>1. /\ r # None /\ bus' = bus
        /\ logbook' = [logbook EXCEPT !.report = None, !.entries = next]
      BY <1>10 DEF RecordReport, storeVars
  <2>2. r \in ReportRecord /\ InHand(r, bus) /\ LoopUpTo(l, r.event)
      BY <1>2, <2>1 DEF LogInv
  <2>3. /\ Kept(next, pos, lost) /\ Len(next) <= LOGBOOK
        /\ \A i \in DOMAIN next : TrueOf(next[i], bus')
    <3>1. CASE found = None \/ found.value = r.old
      <4>1. next = l
          BY <3>1
      <4> HIDE DEF next
      <4> QED
          BY <1>2, <1>4, <4>1
    <3>2. CASE ~(found = None \/ found.value = r.old)
      <4>1. next = Recorded(l, x)
          BY <3>2
      <4>2. x \in EntryRecord /\ TrueOf(x, bus')
        <5> HIDE DEF r
        <5> QED
            BY <2>1, <2>2, <3>2, LoopIsTrue
      <4>3. x.by = "loop" /\ x.event = r.event
          BY DEF Entry
      <4> HIDE DEF x, next
      <4>4. /\ Kept(next, pos, lost) /\ Len(next) <= LOGBOOK
            /\ \A i \in DOMAIN next : next[i] = x \/ \E j \in DOMAIN l : next[i] = l[j]
        <5>1. LoopUpTo(l, x.event)
            BY <2>2, <4>3
        <5> HIDE DEF l, pos, lost
        <5> QED
            BY <1>2, <4>1, <4>2, <4>3, <5>1, RecordedKeeps
      <4> QED
          BY <1>4, <4>2, <4>4
    <3> QED
        BY <3>1, <3>2
  <2> HIDE DEF next
  <2>4. next \in Seq(EntryRecord)
      BY <2>3 DEF Kept
  <2>5. /\ logbook' \in LogbookRecord /\ logbook'.pos = pos /\ logbook'.entries = next
        /\ logbook'.lost = lost /\ logbook'.report = None
      BY <1>2, <2>1, <2>4 DEF LogbookRecord
  <2> QED
      BY <1>2, <2>1, <2>3, <2>5 DEF LogInv
<1>11. \/ UNCHANGED logbook \/ Record \/ RecorderLags \/ RecordReport
       \/ \E e \in ZIGBEE, v \in REPORTED : Report(e, v)
    BY DEF Next, vars, SetEntityState, DeleteEntity, Call, Connect, Authenticate, Deliver, Close,
       Unsubscribe, Subscribe, Receive, Lag, Push, PushFails
<1> QED
    BY <1>6, <1>7, <1>8, <1>9, <1>10, <1>11

\* Two neighbouring entries of the task about an entity are of neighbouring
\* events of it, and so the later one found the state that the earlier one left.
LEMMA KeptFits == StoreInv /\ LogInv => LogbookFits
<1> DEFINE l == logbook.entries
           pos == logbook.pos
           lost == logbook.lost
<1> SUFFICES ASSUME StoreInv, LogInv PROVE LogbookFits
    OBVIOUS
<1>1. /\ bus \in Seq(EventRecord) /\ Len(bus) \in Nat /\ DOMAIN bus = 1..Len(bus)
      /\ \A i \in DOMAIN bus : Says(bus, removed, bus[i].entity, i, bus[i].old)
    BY StoreTyped DEF StoreInv, SoundStore
<1>2. /\ l \in Seq(EntryRecord) /\ pos \in Nat /\ pos <= Len(bus)
      /\ \A a \in ByTask(l) : l[a].event \in 1..pos /\ l[a].upto = l[a].event
      /\ \A a, b \in DOMAIN l : a < b /\ l[a].by = l[b].by => l[a].upto < l[b].event
      /\ \A a \in ByTask(l) : \A x \in l[a].event..pos :
            x \in lost \/ \E b \in ByTask(l) : l[b].event = x
      /\ \A a \in DOMAIN l : TrueOf(l[a], bus)
    BY DEF LogInv, LogbookRecord, Kept
<1>3. DOMAIN l = 1..Len(l) /\ Len(l) \in Nat
    BY <1>2
<1>4. \A a \in DOMAIN l : EntryIsTrue(l[a])
    BY <1>2 DEF EntryIsTrue, TrueOf, EventsOf, EventsIn
<1>5. ASSUME NEW j \in DOMAIN l, NEW k \in DOMAIN l, j < k
      PROVE  NeighboursFit(j, k)
  <2> DEFINE m == l[j].event
             n == l[k].event
             e == l[j].entity
  <2> SUFFICES ASSUME l[j].by = "listener", l[k].by = "listener", l[j].entity = l[k].entity,
                      \A i \in (j + 1)..(k - 1) : l[i].by = "loop" \/ l[i].entity # e,
                      (m..n) \cap lost = {},
                      \A i \in m..(n - 1) : <<e, i>> \notin removed
               PROVE  l[k].old = l[j].new
      BY DEF NeighboursFit
  <2>1. j \in ByTask(l) /\ k \in ByTask(l)
      BY DEF ByTask
  <2> HIDE DEF l, pos, lost
  <2>2. /\ m \in 1..pos /\ n \in 1..pos /\ m < n /\ m \in DOMAIN bus /\ n \in DOMAIN bus
        /\ l[j].upto = m
    <3>1. m \in 1..pos /\ n \in 1..pos /\ l[j].upto = m /\ l[j].upto < n
        BY <1>2, <1>5, <2>1
    <3> HIDE DEF m, n
    <3> QED
        BY <1>1, <1>2, <3>1
  <2>3. bus[m].entity = e /\ bus[n].entity = e /\ e \in ENTITY /\ bus[m].new \in StateRecord
    <3>1. bus[m] \in EventRecord /\ TrueOf(l[j], bus) /\ TrueOf(l[k], bus)
        BY <1>1, <1>2, <2>2
    <3> QED
        BY <3>1 DEF EventRecord, TrueOf
  <2>4. ASSUME NEW x \in DOMAIN bus, m < x, x < n
        PROVE  bus[x].entity # e
    <3>1. x \in m..pos /\ x \in m..n
        BY <1>1, <1>2, <2>2, <2>4
    <3>2. PICK b \in ByTask(l) : l[b].event = x
        BY <1>2, <2>1, <3>1
    <3>3. b \in DOMAIN l /\ l[b].by = "listener" /\ l[b].upto = x /\ l[k].upto = n
        BY <1>2, <2>1, <3>2 DEF ByTask
    <3>4. j < b /\ b < k
      <4>1. j \in Nat /\ b \in Nat /\ k \in Nat /\ x \in Nat /\ m \in Nat /\ n \in Nat
          BY <1>1, <1>3, <2>2, <3>3
      <4>2. b < j => x < m
          BY <1>2, <3>2, <3>3
      <4>3. k < b => n < x
          BY <1>2, <3>2, <3>3
      <4>4. b # j /\ b # k
          BY <2>4, <3>2, <4>1
      <4> HIDE DEF m, n
      <4> QED
          BY <2>4, <4>1, <4>2, <4>3, <4>4
    <3>5. b \in (j + 1)..(k - 1)
        BY <1>3, <3>3, <3>4
    <3>6. l[b].entity # e
        BY <3>3, <3>5
    <3>7. TrueOf(l[b], bus)
        BY <1>2, <3>3
    <3> QED
        BY <3>2, <3>6, <3>7 DEF TrueOf
  <2>5. l[j].new = bus[m].new.value
    <3> DEFINE S == {i \in EventsIn(bus, e) : i <= m}
    <3>1. IsLast(S, m) /\ S \in SUBSET Nat
        BY <1>1, <2>2, <2>3 DEF IsLast, EventsIn
    <3>2. Latest(S) = m
      <4> HIDE DEF S
      <4> QED
          BY <3>1, LatestIsLast
    <3>3. TrueOf(l[j], bus)
        BY <1>2
    <3> QED
        BY <2>2, <3>2, <3>3 DEF TrueOf
  <2>6. l[k].old = IF bus[n].old = None THEN None ELSE bus[n].old.value
    <3>1. TrueOf(l[k], bus)
        BY <1>2
    <3> QED
        BY <3>1 DEF TrueOf
  <2>7. \A i \in m..(n - 1) : <<e, i>> \notin removed
      OBVIOUS
  <2> HIDE DEF m, n, e
  <2>8. m \in EventsIn(bus, e) /\ \A x \in EventsIn(bus, e) : x < n => x <= m
    <3>1. m \in Nat /\ \A x \in DOMAIN bus : x \in Nat
        BY <1>1, <2>2
    <3> QED
        BY <2>2, <2>3, <2>4, <3>1 DEF EventsIn
  <2>9. Says(bus, removed, e, n, bus[n].old)
      BY <1>1, <2>2, <2>3
  <2>10. bus[n].old = bus[m].new
    <3>1. ~ \A x \in EventsIn(bus, e) : x < n => \E i \in x..(n - 1) : <<e, i>> \in removed
        BY <2>2, <2>7, <2>8
    <3>2. PICK x \in EventsIn(bus, e) :
              /\ x < n /\ bus[n].old = bus[x].new
              /\ \A i \in EventsIn(bus, e) : i < n => i <= x
        BY <2>9, <3>1 DEF Says
    <3>3. x <= m /\ m <= x /\ x \in Nat /\ m \in Nat
        BY <1>1, <2>2, <2>8, <3>2 DEF EventsIn
    <3>4. x = m
        BY <3>3
    <3> QED
        BY <3>2, <3>4
  <2>11. bus[n].old # None
      BY <2>3, <2>10, NoneAssumption
  <2> QED
      BY <2>5, <2>6, <2>10, <2>11
<1> QED
    BY <1>2, <1>4, <1>5 DEF LogbookFits

\* What the invariants say of types.
LEMMA InvariantsAreTyped == StoreInv /\ SessionInv /\ LogInv => TypeOK
<1> SUFFICES ASSUME StoreInv, SessionInv, LogInv PROVE TypeOK
    OBVIOUS
<1>1. Store.states = states /\ Store.bus = bus /\ bus \in Seq(EventRecord)
    BY StoreTyped
<1>2. \A e \in ENTITY : states[e] = None \/ states[e].changed \in 1..Len(bus)
  <2> SUFFICES ASSUME NEW e \in ENTITY, states[e] # None
               PROVE  states[e].changed \in 1..Len(bus)
      OBVIOUS
  <2>1. IsLast(Turns(bus, e), states[e].changed)
      BY <1>1 DEF StoreInv, SoundStore
  <2>2. Turns(bus, e) \subseteq 1..Len(bus)
      BY <1>1 DEF Turns, EventsIn
  <2> QED
      BY <2>1, <2>2 DEF IsLast
<1>3. \A t \in DOMAIN tasks : tasks[t].pos \in tasks[t].from..Len(bus)
  <2> TAKE t \in DOMAIN tasks
  <2>1. tasks[t].pos \in Nat /\ tasks[t].from \in Nat /\ Len(bus) \in Nat
      BY <1>1, TaskAt DEF SessionInv, TaskRecord
  <2>2. tasks[t].from <= tasks[t].pos /\ tasks[t].pos <= Len(bus)
      BY DEF SessionInv, Lined, InLine
  <2> QED
      BY <2>1, <2>2
<1>4. logbook.pos \in 0..Len(bus) /\ Len(logbook.entries) <= LOGBOOK
  <2>1. logbook.pos \in Nat /\ logbook.pos <= Len(bus) /\ Len(bus) \in Nat
      BY <1>1 DEF LogInv, LogbookRecord
  <2> QED
      BY <2>1 DEF LogInv
<1> QED
    BY <1>2, <1>3, <1>4 DEF SessionInv, Shaped, Placed, TypeOK

\* The logbook starts empty.
LEMMA LogInitially == Init => LogInv
<1> SUFFICES ASSUME Init PROVE LogInv
    OBVIOUS
<1>1. /\ logbook = [pos |-> 0, entries |-> << >>, lost |-> {}, report |-> None] /\ bus = << >>
      /\ LOGBOOK \in Nat
    BY WsSessionsAssumption DEF Init, StateInit
<1>2. /\ logbook \in LogbookRecord /\ logbook.pos = 0 /\ logbook.entries = << >>
      /\ Len(bus) = 0 /\ Len(logbook.entries) = 0 /\ DOMAIN logbook.entries = {}
      /\ logbook.report = None
    BY <1>1 DEF LogbookRecord
<1> QED
    BY <1>1, <1>2 DEF LogInv, Kept, ByTask

\* No listener overtakes, repeats or misplaces an event, and each of the
\* logbook's two writers notes what was, in order, for any capacities of the
\* channel, the queues and the logbook (ha_ws.rs, app.rs, zigbee_integration.rs).
THEOREM ListenersEverKeepOrder == Spec => []ListenersKeepOrder
<1>1. Init => StoreInv /\ SessionInv /\ LogInv
    BY StoreInitially, SessionInitially, LogInitially
<1>2. StoreInv /\ SessionInv /\ LogInv /\ [Next]_vars => StoreInv' /\ SessionInv' /\ LogInv'
    BY StoreStep, SessionStep, LogStep
<1>3. StoreInv /\ SessionInv /\ LogInv => ListenersKeepOrder
    BY InvariantsAreTyped, LinedIsInOrder, KeptFits DEF ListenersKeepOrder
<1> QED
    BY <1>1, <1>2, <1>3, PTL DEF Spec
-----------------------------------------------------------------------------
(* What a client of an entities subscription believes. *)

\* What a map says of the events there were it says of them later, too.
LEMMA MirrorsOn ==
    ASSUME NEW b, NEW c, Extends(b, c), NEW gone, NEW more, gone \subseteq more,
           NEW f, NEW n \in Int, n <= Len(b), NEW lost, NEW missed, lost \subseteq missed,
           Mirrors(f, n, lost, b, gone)
    PROVE  Mirrors(f, n, missed, c, more)
<1>1. /\ Len(b) \in Nat /\ Len(c) \in Nat /\ Len(b) <= Len(c)
      /\ DOMAIN b = 1..Len(b) /\ DOMAIN c = 1..Len(c)
      /\ \A k \in 1..Len(b) : c[k] = b[k]
    BY DEF Extends
<1>2. \A e : \A k \in EventsIn(c, e) : k <= n => k \in EventsIn(b, e)
    BY <1>1 DEF EventsIn
<1>3. \A e : \A k \in EventsIn(b, e) : k \in EventsIn(c, e) /\ c[k] = b[k] /\ k \in Nat
    BY <1>1 DEF EventsIn
<1>4. \A k \in Nat : \A i \in k..Len(b) : i \in k..Len(c)
    BY <1>1
<1> SUFFICES ASSUME NEW e \in ENTITY
             PROVE  IF e \in DOMAIN f
                    THEN \E k \in EventsIn(c, e) :
                            /\ k <= n /\ f[e] = c[k].new
                            /\ \A j \in EventsIn(c, e) : k < j /\ j <= n => j \in missed
                    ELSE \A j \in EventsIn(c, e) :
                            j <= n => j \in missed \/ \E i \in j..Len(c) : <<e, i>> \in more
    BY DEF Mirrors
<1>5. CASE e \in DOMAIN f
  <2>1. PICK k \in EventsIn(b, e) :
            /\ k <= n /\ f[e] = b[k].new
            /\ \A j \in EventsIn(b, e) : k < j /\ j <= n => j \in lost
      BY <1>5 DEF Mirrors
  <2> QED
      BY <1>2, <1>3, <1>5, <2>1
<1>6. CASE e \notin DOMAIN f
  <2>1. ASSUME NEW j \in EventsIn(c, e), j <= n
        PROVE  j \in missed \/ \E i \in j..Len(c) : <<e, i>> \in more
    <3>1. j \in EventsIn(b, e) /\ j \in Nat
        BY <1>2, <1>3, <2>1
    <3>2. j \in lost \/ \E i \in j..Len(b) : <<e, i>> \in gone
        BY <1>6, <2>1, <3>1 DEF Mirrors
    <3> QED
        BY <1>4, <3>1, <3>2
  <2> QED
      BY <1>6, <2>1
<1> QED
    BY <1>5, <1>6

\* A task that goes on, has more on its way, or loses more, still follows.
LEMMA FollowsOn ==
    ASSUME NEW b, NEW c, Extends(b, c), NEW gone, NEW more, gone \subseteq more,
           NEW r, NEW d, d.from = r.from, r.from \in Nat, r.from <= Len(b),
           NEW h, NEW g, g.told = h.told, g.mirror = h.mirror, h.lost \subseteq g.lost,
           h.told \in Nat \cup {-1}, h.told <= Len(b),
           NEW W, NEW V, W \subseteq V, \A m \in W : m.at \in r.from..Len(b),
           \A n \in (r.from + 1)..d.pos :
               n \in (r.from + 1)..r.pos \/ n \in g.lost \/ \E m \in V : m.at = n,
           \A m \in V : m \in W \/ (m.at # r.from /\ m.changes = Only(c[m.at].entity, c[m.at].new)),
           Follows(r, h, W, b, gone)
    PROVE  Follows(d, g, V, c, more)
<1>1. Len(b) \in Nat /\ \A k \in 1..Len(b) : c[k] = b[k]
    BY DEF Extends
<1>2. g.told = -1 => DOMAIN g.mirror = {} /\ \E m \in V : m.at = d.from
    BY DEF Follows
<1>3. ASSUME g.told # -1
      PROVE  d.from <= g.told /\ Mirrors(g.mirror, g.told, g.lost, c, more)
  <2>1. h.told \in Int /\ Mirrors(h.mirror, h.told, h.lost, b, gone) /\ r.from <= h.told
      BY <1>3 DEF Follows
  <2> DEFINE f == h.mirror
             told == h.told
             lost == h.lost
             missed == g.lost
  <2>2. told \in Int /\ told <= Len(b) /\ lost \subseteq missed /\ Mirrors(f, told, lost, b, gone)
      BY <2>1
  <2> HIDE DEF f, told, lost, missed
  <2>3. Mirrors(f, told, missed, c, more)
      BY <2>2, MirrorsOn
  <2> QED
      BY <2>1, <2>3 DEF f, told, lost, missed
<1>4. \A n \in (d.from + 1)..d.pos : n <= g.told \/ n \in g.lost \/ \E m \in V : m.at = n
    BY DEF Follows
<1>5. ASSUME NEW m \in V
      PROVE  IF m.at = d.from THEN Mirrors(m.changes, d.from, {}, c, more)
             ELSE m.changes = Only(c[m.at].entity, c[m.at].new)
  <2>1. CASE m \in W /\ m.at = r.from
    <3>1. Mirrors(m.changes, r.from, {}, b, gone) /\ r.from \in Int
        BY <2>1 DEF Follows
    <3> DEFINE f == m.changes
               n == r.from
    <3>2. n \in Int /\ n <= Len(b) /\ Mirrors(f, n, {}, b, gone)
        BY <3>1
    <3> HIDE DEF f, n
    <3>3. Mirrors(f, n, {}, c, more)
        BY <3>2, MirrorsOn
    <3> QED
        BY <2>1, <3>3 DEF f, n
  <2>2. CASE m \in W /\ m.at # r.from
    <3>1. m.changes = Only(b[m.at].entity, b[m.at].new)
        BY <2>2 DEF Follows
    <3>2. m.at \in 1..Len(b)
        BY <1>1, <2>2
    <3> QED
        BY <1>1, <2>2, <3>1, <3>2
  <2> QED
      BY <2>1, <2>2
<1> QED
    BY <1>2, <1>3, <1>4, <1>5 DEF Follows

\* What a task has on its way, and where it is, in the invariant's words.
LEMMA TaskFacts ==
    ASSUME StoreInv, SessionInv, NEW t \in DOMAIN tasks
    PROVE  /\ bus \in Seq(EventRecord) /\ Len(bus) \in Nat
           /\ tasks[t].from \in Nat /\ tasks[t].pos \in Nat
           /\ tasks[t].from <= tasks[t].pos /\ tasks[t].pos <= Len(bus)
           /\ heard[t].told \in Nat \cup {-1} /\ heard[t].told <= Len(bus)
           /\ \A m \in WayOf(t) :
                 /\ m \in MessageRecord /\ m.task = t /\ heard[t].told < m.at
                 /\ m.at \in tasks[t].from..Len(bus) /\ m.at <= tasks[t].pos
<1>1. bus \in Seq(EventRecord)
    BY StoreTyped
<1> DEFINE r == tasks[t]
           told == heard[t].told
           q == queue[r.socket]
           N == Len(bus)
<1>2. r.from \in Nat /\ r.pos \in Nat /\ told \in Nat \cup {-1} /\ N \in Nat
    BY <1>1, TaskAt DEF SessionInv, TaskRecord, HeardRecord
<1>3. InLine(t, r, told, q) /\ r.pos <= N
    BY DEF SessionInv, Lined
<1> HIDE DEF r, told, q, N
<1>4. r.from <= r.pos /\ told <= N
    BY <1>2, <1>3 DEF InLine
<1>5. ASSUME NEW m \in OnWay(t, r, q)
      PROVE  /\ m \in MessageRecord /\ m.task = t /\ told < m.at
             /\ m.at \in r.from..N /\ m.at <= r.pos
  <2>1. m \in MessageRecord /\ m.task = t /\ told < m.at /\ m.at \in r.from..r.pos
      BY <1>3 DEF InLine
  <2> QED
      BY <1>2, <1>3, <2>1
<1> QED
    BY <1>1, <1>2, <1>3, <1>4, <1>5 DEF WayOf, r, told, q, N

\* A task of an entities subscription goes on following the store when nothing on
\* its way was dropped, and what it took of the channel is on its way or lost.
LEMMA StillFollows ==
    ASSUME StoreInv, SessionInv, Followed, NEW t \in DOMAIN tasks, Listens(t),
           Extends(bus, bus'), removed \subseteq removed',
           tasks'[t].from = tasks[t].from, heard'[t].told = heard[t].told,
           heard'[t].mirror = heard[t].mirror, heard[t].lost \subseteq heard'[t].lost,
           WayOf(t) \subseteq WayOf(t)',
           \A n \in (tasks[t].from + 1)..tasks'[t].pos :
               \/ n \in (tasks[t].from + 1)..tasks[t].pos \/ n \in heard'[t].lost
               \/ \E m \in WayOf(t)' : m.at = n,
           \A m \in WayOf(t)' :
               \/ m \in WayOf(t)
               \/ m.at # tasks[t].from /\ m.changes = Only(bus'[m.at].entity, bus'[m.at].new)
    PROVE  Follows(tasks'[t], heard'[t], WayOf(t)', bus', removed')
<1> DEFINE r == tasks[t]
           d == tasks'[t]
           h == heard[t]
           g == heard'[t]
           W == WayOf(t)
           V == WayOf(t)'
           b == bus
           c == bus'
           gone == removed
           more == removed'
<1>1. Follows(r, h, W, b, gone)
    BY DEF Followed
<1>2. /\ r.from \in Nat /\ r.from <= Len(b) /\ h.told \in Nat \cup {-1} /\ h.told <= Len(b)
      /\ \A m \in W : m.at \in r.from..Len(b)
    BY TaskFacts
<1>3. /\ Extends(b, c) /\ gone \subseteq more /\ d.from = r.from /\ g.told = h.told
      /\ g.mirror = h.mirror /\ h.lost \subseteq g.lost /\ W \subseteq V
    OBVIOUS
<1>4. \A n \in (r.from + 1)..d.pos :
          n \in (r.from + 1)..r.pos \/ n \in g.lost \/ \E m \in V : m.at = n
    OBVIOUS
<1>5. \A m \in V : m \in W \/ (m.at # r.from /\ m.changes = Only(c[m.at].entity, c[m.at].new))
    OBVIOUS
<1> HIDE DEF r, d, h, g, W, V, b, c, gone, more
<1>6. Follows(d, g, V, c, more)
    BY <1>1, <1>2, <1>3, <1>4, <1>5, FollowsOn, SMTT(30)
<1> QED
    BY <1>6 DEF d, g, V, c, more

\* A task that nothing happened to still follows, whatever became of the states.
LEMMA FollowsAsBefore ==
    ASSUME StoreInv, SessionInv, Followed, NEW t \in DOMAIN tasks, Listens(t),
           Extends(bus, bus'), removed \subseteq removed',
           tasks'[t].from = tasks[t].from, tasks'[t].pos = tasks[t].pos,
           heard'[t] = heard[t], WayOf(t)' = WayOf(t)
    PROVE  Follows(tasks'[t], heard'[t], WayOf(t)', bus', removed')
<1>1. \A n \in (tasks[t].from + 1)..tasks'[t].pos : n \in (tasks[t].from + 1)..tasks[t].pos
    OBVIOUS
<1>2. WayOf(t) \subseteq WayOf(t)' /\ \A m \in WayOf(t)' : m \in WayOf(t)
    OBVIOUS
<1> QED
    BY <1>1, <1>2, StillFollows

\* The snapshot says what the events up to now say of every entity.
LEMMA DumpMirrors ==
    ASSUME StoreInv
    PROVE  Mirrors(Dump, Len(bus), {}, bus, removed)
<1>1. /\ Store.states = states /\ Store.bus = bus /\ bus \in Seq(EventRecord)
      /\ states \in [ENTITY -> StateRecord \cup {None}] /\ Len(bus) \in Nat
    BY StoreTyped
<1>2. /\ DOMAIN Dump = {d \in ENTITY : states[d] # None}
      /\ \A e \in DOMAIN Dump : Dump[e] = states[e]
    BY DEF Dump, GetStates
<1> DEFINE N == Len(bus)
<1>3. \A e : EventsIn(bus, e) \subseteq 1..N /\ \A k \in EventsIn(bus, e) : bus[k].new \in StateRecord
  <2> TAKE e
  <2>1. EventsIn(bus, e) \subseteq 1..N
      BY <1>1 DEF EventsIn
  <2>2. \A k \in 1..N : bus[k] \in EventRecord
      BY <1>1
  <2> QED
      BY <2>1, <2>2 DEF EventRecord
<1> HIDE DEF N
<1>4. \A k \in 1..N : k < N + 1 /\ k <= N
    BY <1>1 DEF N
<1> SUFFICES ASSUME NEW e \in ENTITY
             PROVE  IF e \in DOMAIN Dump
                    THEN \E k \in EventsIn(bus, e) :
                            /\ k <= N /\ Dump[e] = bus[k].new
                            /\ \A j \in EventsIn(bus, e) : k < j /\ j <= N => j \in {}
                    ELSE \A j \in EventsIn(bus, e) :
                            j <= N => j \in {} \/ \E i \in j..Len(bus) : <<e, i>> \in removed
    BY DEF Mirrors, N
<1>5. Says(bus, removed, e, N + 1, states[e])
    BY <1>1 DEF StoreInv, SoundStore, N
<1>6. CASE e \in DOMAIN Dump
  <2>1. PICK k \in EventsIn(bus, e) :
            /\ k < N + 1 /\ states[e] = bus[k].new
            /\ \A j \in EventsIn(bus, e) : j < N + 1 => j <= k
      BY <1>2, <1>5, <1>6 DEF Says
  <2>2. \A j \in EventsIn(bus, e) : ~(k < j)
    <3> TAKE j \in EventsIn(bus, e)
    <3>1. j \in 1..N /\ k \in 1..N
        BY <1>3
    <3>2. j <= k
        BY <1>4, <2>1, <3>1
    <3> QED
        BY <1>1, <3>1, <3>2 DEF N
  <2> QED
      BY <1>2, <1>3, <1>4, <1>6, <2>1, <2>2
<1>7. CASE e \notin DOMAIN Dump
  <2>1. states[e] = None
      BY <1>2, <1>7
  <2>2. \A k \in EventsIn(bus, e) : k < N + 1 => \E j \in k..((N + 1) - 1) : <<e, j>> \in removed
    <3>1. None \notin StateRecord
        BY NoneAssumption
    <3>2. ASSUME NEW k \in EventsIn(bus, e) PROVE bus[k].new # None
      <4>1. bus[k].new \in StateRecord
          BY <1>3
      <4> QED
          BY <3>1, <4>1
    <3> QED
        BY <1>5, <2>1, <3>2 DEF Says
  <2>3. (N + 1) - 1 = Len(bus)
      BY <1>1 DEF N
  <2> QED
      BY <1>3, <1>4, <1>7, <2>2, <2>3
<1> QED
    BY <1>6, <1>7

\* subscribe_entities: nothing happened yet that the snapshot does not say.
LEMMA SubscribeFollows ==
    ASSUME StoreInv, SessionInv, Followed, NEW s \in SOCKET, NEW i \in SUBID, NEW k \in ASKED,
           Subscribe(s, i, k)
    PROVE  Followed'
<1> PICK t : t = Len(tasks) + 1
    OBVIOUS
<1> DEFINE first == IF k = "entities" THEN Message(t, Len(bus), Dump) ELSE None
           r == [socket |-> s, id |-> i, kind |-> k, running |-> TRUE,
                 from |-> Len(bus), pos |-> Len(bus), hold |-> first]
           h == [told |-> -1, mirror |-> << >>, lost |-> {}]
<1>1. /\ phase[s] = "active" /\ tasks' = Append(tasks, r)
      /\ heard' = Append(heard, h) /\ UNCHANGED <<storeVars, phase, queue, logbook>>
    BY DEF Subscribe
<1>2. /\ tasks \in Seq(TaskRecord) /\ heard \in Seq(HeardRecord) /\ Len(heard) = Len(tasks)
      /\ Len(tasks) \in Nat /\ t \notin DOMAIN tasks
    BY DEF SessionInv, Shaped
<1>3. /\ tasks'[t] = r /\ heard'[t] = h /\ DOMAIN tasks' = DOMAIN tasks \cup {t}
      /\ \A u \in DOMAIN tasks : tasks'[u] = tasks[u] /\ heard'[u] = heard[u]
  <2>1. tasks'[t] = r /\ DOMAIN tasks' = DOMAIN tasks \cup {t}
      BY <1>1, <1>2
  <2>2. heard'[t] = h
      BY <1>1, <1>2
  <2>3. \A u \in DOMAIN tasks : tasks'[u] = tasks[u] /\ heard'[u] = heard[u]
      BY <1>1, <1>2
  <2> QED
      BY <2>1, <2>2, <2>3
<1>4. bus' = bus /\ removed' = removed /\ phase' = phase /\ queue' = queue
    BY <1>1 DEF storeVars
<1>5. bus \in Seq(EventRecord) /\ Len(bus) \in Nat
    BY StoreTyped
<1>6. /\ r.socket = s /\ r.kind = k /\ r.from = Len(bus) /\ r.pos = Len(bus) /\ r.hold = first
      /\ h.told = -1 /\ DOMAIN h.mirror = {}
    OBVIOUS
<1>7. k = "entities" => first.task = t /\ first.at = Len(bus) /\ first.changes = Dump
    BY DEF Message
<1>8. k = "entities" => first \in MessageRecord
  <2>1. Dump \in Changes
      BY StoreTyped
  <2> QED
      BY <1>2, <1>5, <2>1 DEF Message, MessageRecord
<1> HIDE DEF r, h, first
<1>9. ASSUME NEW u \in DOMAIN tasks
      PROVE  /\ phase'[tasks'[u].socket] \in {"active", "closed"}
             /\ Listens(u)' => Follows(tasks'[u], heard'[u], WayOf(u)', bus', removed')
  <2>1. tasks'[u] = tasks[u] /\ heard'[u] = heard[u]
      BY <1>3
  <2>2. WayOf(u)' = WayOf(u) /\ (Listens(u)' <=> Listens(u))
      BY <1>4, <2>1 DEF WayOf, Listens
  <2> QED
      BY <1>4, <2>1, <2>2 DEF Followed
<1>10. phase'[tasks'[t].socket] \in {"active", "closed"}
    BY <1>1, <1>3, <1>4, <1>6
<1>11. ASSUME Listens(t)'
       PROVE  Follows(tasks'[t], heard'[t], WayOf(t)', bus', removed')
  <2>1. k = "entities"
      BY <1>3, <1>6, <1>11 DEF Listens
  <2>2. Mine(t, queue[s]) = {}
      BY <1>2 DEF SessionInv, Placed, Mine
  <2>3. WayOf(t)' = {first}
    <3>1. first # None
        BY <1>8, <2>1, NoneAssumption
    <3>2. WayOf(t)' = OnWay(t, r, queue[s])
        BY <1>3, <1>4, <1>6 DEF WayOf
    <3> QED
        BY <1>6, <2>2, <3>1, <3>2 DEF OnWay
  <2>4. Mirrors(first.changes, r.from, {}, bus, removed) /\ first.at = r.from
      BY <1>6, <1>7, <2>1, DumpMirrors
  <2>5. (r.from + 1)..r.pos = {}
      BY <1>5, <1>6
  <2>6. Follows(r, h, {first}, bus, removed)
      BY <1>6, <2>4, <2>5 DEF Follows
  <2> QED
      BY <1>3, <1>4, <2>3, <2>6
<1> QED
    BY <1>3, <1>9, <1>10, <1>11 DEF Followed

\* unsubscribe_events and the end of a session: tasks stop, and those that go on
\* have on their way what they had.
LEMMA AbortedFollow ==
    ASSUME StoreInv, SessionInv, Followed, NEW ts, tasks' = Aborted(ts),
           UNCHANGED <<storeVars, heard>>,
           \A p \in SOCKET : \/ phase'[p] = "closed"
                             \/ phase'[p] = phase[p] /\ queue'[p] = queue[p]
    PROVE  Followed'
<1>1. /\ Steady
      /\ \A t \in DOMAIN tasks :
            /\ tasks'[t].pos = tasks[t].pos /\ tasks'[t].hold = tasks[t].hold
            /\ tasks'[t].running <=> tasks[t].running /\ t \notin ts
    BY AbortedAreSteady DEF SessionInv
<1>2. bus' = bus /\ removed' = removed /\ heard' = heard
    BY DEF storeVars
<1> SUFFICES ASSUME NEW t \in DOMAIN tasks
             PROVE  /\ phase'[tasks'[t].socket] \in {"active", "closed"}
                    /\ Listens(t)' => Follows(tasks'[t], heard'[t], WayOf(t)', bus', removed')
    BY <1>1 DEF Followed, Steady
<1>3. /\ tasks'[t].socket = tasks[t].socket /\ tasks'[t].kind = tasks[t].kind
      /\ tasks'[t].from = tasks[t].from /\ tasks[t].socket \in SOCKET
    BY <1>1, TaskAt DEF SessionInv, Steady, Alike
<1>4. phase'[tasks'[t].socket] \in {"active", "closed"}
    BY <1>3 DEF Followed
<1>5. ASSUME Listens(t)'
      PROVE  Follows(tasks'[t], heard'[t], WayOf(t)', bus', removed')
  <2>1. phase'[tasks[t].socket] = phase[tasks[t].socket] /\ queue'[tasks[t].socket] = queue[tasks[t].socket]
      BY <1>3, <1>5 DEF Listens
  <2>2. Listens(t)
      BY <1>1, <1>3, <1>5, <2>1 DEF Listens
  <2>3. WayOf(t)' = WayOf(t)
      BY <1>1, <1>3, <2>1 DEF WayOf, OnWay
  <2>4. Extends(bus, bus')
      BY <1>2, TaskFacts, ExtendsItself
  <2> QED
      BY <1>1, <1>2, <1>3, <2>2, <2>3, <2>4, FollowsAsBefore
<1> QED
    BY <1>4, <1>5

\* The client is told the oldest message it has not heard: a snapshot before any
\* event, and each event before the next.
LEMMA ToldNext ==
    ASSUME NEW b \in Seq(EventRecord), NEW gone, NEW r, NEW h, NEW g, NEW W, NEW V, NEW m,
           W = V \cup {m}, \A x \in V : m.at < x.at,
           \A x \in W : x.at \in r.from..r.pos, r.from \in Nat, r.pos \in Nat, r.pos <= Len(b),
           h.told \in Nat \cup {-1}, h.told < m.at,
           g.told = m.at, g.mirror = With(h.mirror, m.changes), g.lost = h.lost,
           Follows(r, h, W, b, gone)
    PROVE  Follows(r, g, V, b, gone)
<1> DEFINE f == h.mirror
           told == h.told
           lost == h.lost
           at == m.at
           from == r.from
           pos == r.pos
           N == Len(b)
<1>1. /\ N \in Nat /\ DOMAIN b = 1..N /\ from \in Nat /\ pos \in Nat /\ pos <= N
      /\ at \in from..pos /\ at \in Nat /\ told \in Nat \cup {-1} /\ told < at
    OBVIOUS
<1>2. /\ DOMAIN g.mirror = DOMAIN f \cup DOMAIN m.changes
      /\ \A e \in DOMAIN g.mirror :
            g.mirror[e] = IF e \in DOMAIN m.changes THEN m.changes[e] ELSE f[e]
    BY DEF With
<1>3. /\ told = -1 => DOMAIN f = {} /\ \E x \in W : x.at = from
      /\ told # -1 => from <= told /\ Mirrors(f, told, lost, b, gone)
      /\ \A n \in (from + 1)..pos : n <= told \/ n \in lost \/ \E x \in W : x.at = n
      /\ IF at = from THEN Mirrors(m.changes, from, {}, b, gone)
         ELSE m.changes = Only(b[at].entity, b[at].new)
    BY DEF Follows
<1>4. \A x \in V : at < x.at /\ x.at \in Nat
  <2> TAKE x \in V
  <2>1. x.at \in from..pos
      OBVIOUS
  <2> QED
      BY <1>1, <2>1
<1>5. \A x \in W : x \in V \/ x = m
    OBVIOUS
<1> HIDE DEF f, told, lost, at, from, pos, N
<1>6. Mirrors(g.mirror, at, lost, b, gone)
  <2>1. CASE at = from
    <3>1. told = -1
        BY <1>1, <1>3, <2>1
    <3>2. DOMAIN g.mirror = DOMAIN m.changes /\ \A e \in DOMAIN m.changes : g.mirror[e] = m.changes[e]
        BY <1>2, <1>3, <3>1
    <3>3. Mirrors(m.changes, at, {}, b, gone)
        BY <1>3, <2>1
    <3> DEFINE c == m.changes
               d == g.mirror
    <3> HIDE DEF c, d
    <3>4. DOMAIN d = DOMAIN c /\ (\A e \in DOMAIN c : d[e] = c[e]) /\ Mirrors(c, at, {}, b, gone)
        BY <3>2, <3>3 DEF c, d
    <3>5. Mirrors(d, at, lost, b, gone)
        BY <3>4 DEF Mirrors
    <3> QED
        BY <3>5 DEF d
  <2>2. CASE at # from
    <3>1. told # -1
      <4> SUFFICES ASSUME told = -1 PROVE FALSE
          OBVIOUS
      <4>1. PICK x \in W : x.at = from
          BY <1>3
      <4>2. x # m /\ ~(at < from)
          BY <1>1, <2>2, <4>1 DEF at
      <4> QED
          BY <1>4, <1>5, <4>1, <4>2
    <3>2. from <= told /\ Mirrors(f, told, lost, b, gone) /\ told \in Nat
        BY <1>1, <1>3, <3>1
    <3> DEFINE y == b[at].entity
    <3>3. at \in 1..N /\ at \in EventsIn(b, y)
        BY <1>1, <2>2 DEF EventsIn
    <3>4. m.changes = Only(y, b[at].new)
        BY <1>3, <2>2
    <3>5. DOMAIN m.changes = {y} /\ m.changes[y] = b[at].new
        BY <3>4 DEF Only
    <3>6. \A j \in 1..N : j < at => j <= told \/ j \in lost
      <4> SUFFICES ASSUME NEW j \in 1..N, j < at, ~(j <= told) PROVE j \in lost
          OBVIOUS
      <4>1. j \in (from + 1)..pos
          BY <1>1, <3>2
      <4>2. ~ \E x \in W : x.at = j
        <5> SUFFICES ASSUME NEW x \in W, x.at = j PROVE FALSE
            OBVIOUS
        <5>1. x # m
            BY <1>1 DEF at
        <5>2. at < j
            BY <1>4, <1>5, <5>1
        <5> QED
            BY <1>1, <5>2
      <4> QED
          BY <1>3, <4>1, <4>2
    <3>7. \A e : \A j \in EventsIn(b, e) : j \in 1..N /\ (e # y => j # at)
        BY <1>1 DEF EventsIn
    <3>8. \A j \in 1..N : j <= at => j < at \/ j = at
        BY <1>1
    <3>9. \A j \in 1..N : ~(at < j /\ j <= at)
        BY <1>1
    <3> HIDE DEF y
    <3> SUFFICES ASSUME NEW e \in ENTITY
                 PROVE  IF e \in DOMAIN g.mirror
                        THEN \E k \in EventsIn(b, e) :
                                /\ k <= at /\ g.mirror[e] = b[k].new
                                /\ \A j \in EventsIn(b, e) : k < j /\ j <= at => j \in lost
                        ELSE \A j \in EventsIn(b, e) :
                                j <= at => j \in lost \/ \E i \in j..Len(b) : <<e, i>> \in gone
        BY DEF Mirrors
    <3>10. CASE e = y
      <4>1. e \in DOMAIN g.mirror /\ g.mirror[e] = b[at].new /\ at <= at
          BY <1>1, <1>2, <3>5, <3>10
      <4> QED
          BY <3>3, <3>7, <3>9, <3>10, <4>1
    <3>11. CASE e # y /\ e \in DOMAIN f
      <4>1. e \in DOMAIN g.mirror /\ g.mirror[e] = f[e]
          BY <1>2, <3>5, <3>11
      <4>2. PICK k \in EventsIn(b, e) :
                /\ k <= told /\ f[e] = b[k].new
                /\ \A j \in EventsIn(b, e) : k < j /\ j <= told => j \in lost
          BY <3>2, <3>11 DEF Mirrors
      <4>3. k <= at
          BY <1>1, <3>2, <3>7, <4>2
      <4>4. \A j \in EventsIn(b, e) : k < j /\ j <= at => j \in lost
          BY <3>6, <3>7, <3>8, <3>11, <4>2
      <4> QED
          BY <4>1, <4>2, <4>3, <4>4
    <3>12. CASE e # y /\ e \notin DOMAIN f
      <4>1. e \notin DOMAIN g.mirror
          BY <1>2, <3>5, <3>12
      <4>2. \A j \in EventsIn(b, e) : j <= told => j \in lost \/ \E i \in j..Len(b) : <<e, i>> \in gone
          BY <3>2, <3>12 DEF Mirrors
      <4> QED
          BY <3>6, <3>7, <3>8, <3>12, <4>1, <4>2
    <3> QED
        BY <3>10, <3>11, <3>12
  <2> QED
      BY <2>1, <2>2
<1>7. g.told = at /\ g.told # -1 /\ from <= at
    BY <1>1 DEF at
<1>8. ASSUME NEW n \in (from + 1)..pos
      PROVE  n <= at \/ n \in lost \/ \E x \in V : x.at = n
  <2>1. n \in Nat
      BY <1>1
  <2>2. n <= told => n <= at
      BY <1>1, <2>1
  <2>3. m.at = n => n <= at
      BY <1>1, <2>1 DEF at
  <2> QED
      BY <1>3, <1>5, <2>2, <2>3
<1>9. \A x \in V : IF x.at = from THEN Mirrors(x.changes, from, {}, b, gone)
                   ELSE x.changes = Only(b[x.at].entity, b[x.at].new)
    BY DEF Follows, from
<1> QED
    BY <1>6, <1>7, <1>8, <1>9 DEF Follows, lost, at, from, pos

\* A delivery tells one task's client the next message, and the others nothing.
LEMMA DeliverFollows ==
    ASSUME StoreInv, SessionInv, Followed, NEW s \in SOCKET, Deliver(s)
    PROVE  Followed'
<1> DEFINE q == queue[s]
           m == Head(q)
           c == Tail(q)
<1>1. /\ q # << >> /\ queue' = [queue EXCEPT ![s] = c]
      /\ heard' = [heard EXCEPT ![m.task].told = m.at,
                                ![m.task].mirror = With(@, m.changes)]
      /\ UNCHANGED <<storeVars, phase, subs, tasks, logbook>>
    BY DEF Deliver
<1>2. q \in Seq(MessageRecord) /\ queue \in [SOCKET -> Seq(MessageRecord)]
    BY DEF SessionInv, Shaped
<1>3. m \in MessageRecord /\ m.task \in DOMAIN tasks /\ tasks[m.task].socket = s
  <2>1. 1 \in DOMAIN q /\ m = q[1]
      BY <1>1, <1>2
  <2> HIDE DEF m, q
  <2>2. m \in MessageRecord
      BY <1>2, <2>1
  <2>3. q[1].task \in DOMAIN tasks /\ tasks[q[1].task].socket = s
      BY <2>1 DEF SessionInv, Placed, q
  <2> QED
      BY <2>1, <2>2, <2>3
<1>4. \A p \in SOCKET : queue'[p] = IF p = s THEN c ELSE queue[p]
    BY <1>1, <1>2
<1>5. bus' = bus /\ removed' = removed /\ tasks' = tasks /\ phase' = phase
    BY <1>1 DEF storeVars
<1>6. \A t \in DOMAIN heard : t # m.task => heard'[t] = heard[t]
  <2> HIDE DEF m
  <2> QED
      BY <1>1
<1> SUFFICES ASSUME NEW t \in DOMAIN tasks, Listens(t)'
             PROVE  Follows(tasks'[t], heard'[t], WayOf(t)', bus', removed')
    BY <1>5 DEF Followed
<1> DEFINE r == tasks[t]
           h == heard[t]
           W == WayOf(t)
<1>7. /\ r \in TaskRecord /\ r.socket \in SOCKET /\ t \in DOMAIN heard /\ h \in HeardRecord
      /\ InLine(t, r, h.told, queue[r.socket])
    BY TaskAt DEF SessionInv, Lined
<1>8. Listens(t) /\ Follows(r, h, W, bus, removed)
    BY <1>5 DEF Followed, Listens
<1>9. CASE r.socket # s
  <2>1. t # m.task
      BY <1>3, <1>9
  <2>2. queue'[r.socket] = queue[r.socket] /\ heard'[t] = h
      BY <1>4, <1>6, <1>7, <1>9, <2>1
  <2>3. WayOf(t)' = W
      BY <1>5, <2>2 DEF WayOf
  <2> QED
      BY <1>5, <1>8, <2>2, <2>3
<1>10. CASE r.socket = s
  <2> DEFINE told == h.told
             V == WayOf(t)'
  <2>1. V = OnWay(t, r, c)
      BY <1>4, <1>5, <1>7, <1>10 DEF WayOf
  <2>2. W = OnWay(t, r, q) /\ InLine(t, r, told, q)
      BY <1>7, <1>10 DEF WayOf
  <2> HIDE DEF told, r
  <2>3. /\ Head(q).task # t => OnWay(t, r, Tail(q)) = OnWay(t, r, q)
        /\ Head(q).task = t => /\ OnWay(t, r, q) = OnWay(t, r, Tail(q)) \cup {Head(q)}
                               /\ InLine(t, r, Head(q).at, Tail(q))
    <3> HIDE DEF q
    <3> QED
        BY <1>1, <1>2, <1>7, <2>2, HeadDelivered
  <2>4. /\ m.task # t => V = W
        /\ m.task = t => W = V \cup {m} /\ InLine(t, r, m.at, c)
      BY <2>1, <2>2, <2>3
  <2>5. CASE m.task # t
    <3>1. V = W /\ heard'[t] = h
        BY <1>6, <1>7, <2>4, <2>5
    <3> QED
        BY <1>5, <1>8, <3>1 DEF r
  <2>6. CASE m.task = t
    <3> DEFINE g == heard'[t]
    <3>1. W = V \cup {m} /\ \A x \in V : m.at < x.at
      <4>1. InLine(t, r, m.at, c) /\ W = V \cup {m}
          BY <2>4, <2>6
      <4>2. \A x \in OnWay(t, r, c) : m.at < x.at
          BY <4>1 DEF InLine
      <4> QED
          BY <2>1, <4>1, <4>2
    <3>2. g.told = m.at /\ g.mirror = With(h.mirror, m.changes) /\ g.lost = h.lost
      <4> DEFINE a == m.at
                 ch == m.changes
                 first == [heard EXCEPT ![t].told = a]
      <4>1. heard' = [first EXCEPT ![t].mirror = With(@, ch)]
          BY <1>1, <2>6
      <4>2. first[t] = [h EXCEPT !.told = a] /\ DOMAIN first = DOMAIN heard
          BY <1>7
      <4> HIDE DEF a, ch, first
      <4>3. heard'[t] = [first[t] EXCEPT !.mirror = With(first[t].mirror, ch)]
          BY <1>7, <4>1, <4>2
      <4>4. /\ first[t].told = a /\ first[t].mirror = h.mirror /\ first[t].lost = h.lost
            /\ first[t] \in [told : {a}, mirror : {h.mirror}, lost : {h.lost}]
        <5> HIDE DEF h
        <5> QED
            BY <1>7, <4>2 DEF HeardRecord
      <4>5. g.told = a /\ g.mirror = With(h.mirror, ch) /\ g.lost = h.lost
        <5> DEFINE f == first[t]
                   x == h.mirror
                   l == h.lost
        <5>1. f \in [told : {a}, mirror : {x}, lost : {l}] /\ f.mirror = x
              /\ heard'[t] = [f EXCEPT !.mirror = With(f.mirror, ch)]
            BY <4>3, <4>4
        <5> HIDE DEF f, x, l
        <5>2. g.told = a /\ g.mirror = With(x, ch) /\ g.lost = l
            BY <5>1
        <5> QED
            BY <5>2 DEF x, l
      <4> QED
          BY <4>5 DEF a, ch
    <3>3. /\ bus \in Seq(EventRecord) /\ r.from \in Nat /\ r.pos \in Nat /\ r.pos <= Len(bus)
          /\ h.told \in Nat \cup {-1}
          /\ \A x \in W : x.at \in Nat /\ h.told < x.at /\ x.at \in r.from..Len(bus) /\ x.at <= r.pos
      <4>1. \A x \in WayOf(t) : x.at \in r.from..Len(bus) => x.at \in Nat
          BY TaskFacts DEF r
      <4> QED
          BY <4>1, TaskFacts DEF r
    <3>4. \A x \in W : x.at \in r.from..r.pos
        BY <3>3
    <3>5. h.told < m.at
        BY <3>1, <3>3
    <3> HIDE DEF g, h, m, V, W
    <3>6. Follows(r, g, V, bus, removed)
        BY <1>8, <3>1, <3>2, <3>3, <3>4, <3>5, ToldNext DEF r
    <3> QED
        BY <1>5, <3>6 DEF g, V, r
  <2> QED
      BY <2>5, <2>6
<1> QED
    BY <1>9, <1>10

\* Where one task's record becomes another, and the queues stay, the others follow
\* as before.
LEMMA OneTaskFollows ==
    ASSUME StoreInv, SessionInv, Followed, NEW t \in DOMAIN tasks, NEW d \in TaskRecord,
           Alike(tasks[t], d), tasks' = [tasks EXCEPT ![t] = d],
           UNCHANGED <<bus, removed, phase>>,
           \A u \in DOMAIN tasks : u # t => heard'[u] = heard[u],
           \A u \in DOMAIN tasks : u # t => WayOf(u)' = WayOf(u),
           Listens(t)' => Follows(tasks'[t], heard'[t], WayOf(t)', bus', removed')
    PROVE  Followed'
<1>1. /\ Steady /\ tasks'[t] = d
      /\ \A u \in DOMAIN tasks : u # t => tasks'[u] = tasks[u]
    BY OneTaskSteady DEF SessionInv
<1> SUFFICES ASSUME NEW u \in DOMAIN tasks
             PROVE  /\ phase[tasks'[u].socket] \in {"active", "closed"}
                    /\ Listens(u)' => Follows(tasks'[u], heard'[u], WayOf(u)', bus', removed')
    BY <1>1 DEF Followed, Steady
<1>2. phase[tasks'[u].socket] \in {"active", "closed"}
    BY <1>1 DEF Followed, Steady, Alike
<1>3. CASE u = t
    BY <1>2, <1>3
<1>4. CASE u # t
  <2>1. tasks'[u] = tasks[u] /\ heard'[u] = heard[u] /\ WayOf(u)' = WayOf(u)
      BY <1>1, <1>4
  <2>2. Listens(u)' => Listens(u)
      BY <2>1 DEF Listens
  <2> QED
      BY <1>2, <2>1, <2>2 DEF Followed
<1> QED
    BY <1>3, <1>4

\* The event a task takes from the channel is on its way.
LEMMA ReceiveFollows ==
    ASSUME StoreInv, SessionInv, Followed, NEW t \in DOMAIN tasks, Receive(t)
    PROVE  Followed'
<1> DEFINE r == tasks[t]
           n == r.pos + 1
           news == Message(t, n, Only(bus[n].entity, bus[n].new))
           h == IF r.kind = "other" THEN None ELSE news
           d == [r EXCEPT !.pos = n, !.hold = h]
<1>1. /\ r \in TaskRecord /\ r.hold = None /\ r.pos \in Nat /\ r.from \in Nat
      /\ r.from <= r.pos /\ n \in DOMAIN bus /\ n \in Nat /\ t \in Nat
      /\ UNCHANGED <<storeVars, phase, subs, queue, heard, logbook>>
      /\ tasks' = [tasks EXCEPT ![t].pos = n, ![t].hold = h]
  <2>1. r \in TaskRecord /\ t \in Nat
      BY TaskAt DEF SessionInv
  <2>2. /\ r.pos \in Nat /\ r.from \in Nat /\ r.from <= r.pos /\ bus \in Seq(EventRecord)
        /\ Len(bus) \in Nat
      BY TaskFacts
  <2> QED
      BY <2>1, <2>2 DEF Receive, Waiting
<1>2. tasks' = [tasks EXCEPT ![t] = d] /\ bus' = bus /\ removed' = removed
    BY <1>1 DEF storeVars
<1>3. Only(bus[n].entity, bus[n].new) \in Changes
  <2> HIDE DEF n
  <2> QED
      BY <1>1, StoreTyped
<1>4. news \in MessageRecord /\ news.at = n /\ news.changes = Only(bus[n].entity, bus[n].new)
    BY <1>1, <1>3 DEF Message, MessageRecord
<1>5. n # r.from /\ \A k \in (r.from + 1)..n : k \in (r.from + 1)..r.pos \/ k = n
    BY <1>1
<1>6. h \in MessageRecord \cup {None} /\ (r.kind = "entities" => h = news)
    BY <1>4
<1> HIDE DEF n, news, h
<1>7. /\ d \in TaskRecord /\ Alike(r, d) /\ d.pos = n /\ d.hold = h
    BY <1>1, <1>6 DEF TaskRecord, Alike
<1>8. \A u \in DOMAIN tasks : u # t => WayOf(u)' = WayOf(u)
    BY <1>1, <1>2 DEF WayOf
<1> HIDE DEF d
<1>9. tasks'[t] = d
    BY <1>2, <1>7, OneTaskSteady DEF SessionInv
<1>10. ASSUME Listens(t)'
       PROVE  Follows(tasks'[t], heard'[t], WayOf(t)', bus', removed')
  <2>1. Listens(t) /\ r.kind = "entities"
      BY <1>1, <1>7, <1>9, <1>10 DEF Listens, Alike
  <2>2. news # None
      BY <1>4, NoneAssumption
  <2>3. WayOf(t)' = WayOf(t) \cup {news}
    <3>1. d.socket = r.socket
        BY <1>7 DEF Alike
    <3> HIDE DEF r
    <3>2. WayOf(t)' = OnWay(t, d, queue[r.socket]) /\ WayOf(t) = OnWay(t, r, queue[r.socket])
        BY <1>1, <1>9, <3>1 DEF WayOf, r
    <3>3. d.hold = news /\ r.hold = None
        BY <1>1, <1>6, <1>7, <2>1
    <3> QED
        BY <2>2, <3>2, <3>3 DEF OnWay
  <2>4. \A k \in (r.from + 1)..tasks'[t].pos :
            k \in (r.from + 1)..r.pos \/ k \in heard'[t].lost \/ \E m \in WayOf(t)' : m.at = k
      BY <1>4, <1>5, <1>7, <1>9, <2>3
  <2>5. \A m \in WayOf(t)' :
            \/ m \in WayOf(t)
            \/ m.at # r.from /\ m.changes = Only(bus'[m.at].entity, bus'[m.at].new)
    <3> DEFINE W == WayOf(t)
               V == WayOf(t)'
    <3>1. V = W \cup {news}
        BY <2>3
    <3>2. news.at # r.from /\ news.changes = Only(bus'[news.at].entity, bus'[news.at].new)
        BY <1>2, <1>4, <1>5
    <3> HIDE DEF V, W
    <3>3. \A m \in V :
              \/ m \in W
              \/ m.at # r.from /\ m.changes = Only(bus'[m.at].entity, bus'[m.at].new)
        BY <3>1, <3>2
    <3> QED
        BY <3>3 DEF V, W
  <2>6. Extends(bus, bus')
      BY <1>2, TaskFacts, ExtendsItself
  <2>7. tasks'[t].from = r.from
      BY <1>7, <1>9 DEF Alike
  <2> QED
      BY <1>1, <1>2, <2>1, <2>3, <2>4, <2>5, <2>6, <2>7, StillFollows
<1> QED
    BY <1>1, <1>2, <1>7, <1>8, <1>10, OneTaskFollows

\* What the channel overwrote before the task came to it is lost.
LEMMA LagFollows ==
    ASSUME StoreInv, SessionInv, Followed, NEW t \in DOMAIN tasks, Lag(t)
    PROVE  Followed'
<1> DEFINE r == tasks[t]
           d == [r EXCEPT !.pos = Oldest]
           g == heard[t]
           missed == (r.pos + 1)..Oldest
           h == [g EXCEPT !.lost = @ \cup missed]
<1>1. /\ r \in TaskRecord /\ r.hold = None /\ r.pos \in Nat /\ r.from \in Nat /\ Len(bus) \in Nat
      /\ r.pos < Oldest /\ t \in DOMAIN heard /\ g \in HeardRecord
      /\ UNCHANGED <<storeVars, phase, subs, queue, logbook>>
      /\ tasks' = [tasks EXCEPT ![t].pos = Oldest]
      /\ heard' = [heard EXCEPT ![t].lost = @ \cup missed]
    BY TaskAt, TaskFacts DEF SessionInv, Lag, Waiting
<1>2. tasks' = [tasks EXCEPT ![t] = d] /\ bus' = bus /\ removed' = removed
    BY <1>1 DEF storeVars
<1>3. Oldest \in Nat
    BY <1>1, WsSessionsAssumption DEF Oldest
<1>4. \A k \in (r.from + 1)..Oldest : k \in (r.from + 1)..r.pos \/ k \in missed
    BY <1>1, <1>3
<1> HIDE DEF missed
<1>5. h.told = g.told /\ h.mirror = g.mirror /\ h.lost = g.lost \cup missed
    BY <1>1 DEF HeardRecord
<1>6. heard'[t] = h /\ \A u \in DOMAIN tasks : u # t => heard'[u] = heard[u]
  <2>1. DOMAIN tasks = DOMAIN heard
      BY DEF SessionInv, Shaped
  <2> QED
      BY <1>1, <2>1
<1> HIDE DEF h, g
<1>7. /\ d \in TaskRecord /\ Alike(r, d) /\ d.pos = Oldest /\ d.hold = r.hold
    BY <1>1, <1>3 DEF TaskRecord, Alike
<1>8. \A u \in DOMAIN tasks : u # t => WayOf(u)' = WayOf(u)
    BY <1>1, <1>2 DEF WayOf
<1> HIDE DEF d
<1>9. tasks'[t] = d
    BY <1>2, <1>7, OneTaskSteady DEF SessionInv
<1>10. ASSUME Listens(t)'
       PROVE  Follows(tasks'[t], heard'[t], WayOf(t)', bus', removed')
  <2>1. Listens(t)
      BY <1>1, <1>7, <1>9, <1>10 DEF Listens, Alike
  <2>2. WayOf(t)' = WayOf(t)
      BY <1>1, <1>7, <1>9 DEF WayOf, OnWay, Alike
  <2>3. /\ heard'[t].told = heard[t].told /\ heard'[t].mirror = heard[t].mirror
        /\ heard[t].lost \subseteq heard'[t].lost /\ missed \subseteq heard'[t].lost
      BY <1>5, <1>6 DEF g
  <2>4. \A k \in (r.from + 1)..tasks'[t].pos :
            k \in (r.from + 1)..r.pos \/ k \in heard'[t].lost \/ \E m \in WayOf(t)' : m.at = k
      BY <1>4, <1>7, <1>9, <2>3
  <2>5. Extends(bus, bus')
      BY <1>2, TaskFacts, ExtendsItself
  <2>6. tasks'[t].from = r.from
      BY <1>7, <1>9 DEF Alike
  <2> QED
      BY <1>2, <2>1, <2>2, <2>3, <2>4, <2>5, <2>6, StillFollows
<1> QED
    BY <1>1, <1>2, <1>6, <1>7, <1>8, <1>10, OneTaskFollows

\* What a task held is on its way in the queue, too.
LEMMA PushFollows ==
    ASSUME StoreInv, SessionInv, Followed, NEW t \in DOMAIN tasks, Push(t)
    PROVE  Followed'
<1> DEFINE r == tasks[t]
           s == r.socket
           q == queue[s]
           m == r.hold
           c == Append(q, m)
           d == [r EXCEPT !.hold = None]
<1>1. /\ r \in TaskRecord /\ s \in SOCKET /\ q \in Seq(MessageRecord) /\ t \in Nat
      /\ InLine(t, r, heard[t].told, q)
    BY TaskAt DEF SessionInv, Lined
<1>2. /\ m # None /\ queue' = [queue EXCEPT ![s] = c]
      /\ tasks' = [tasks EXCEPT ![t] = d]
      /\ UNCHANGED <<storeVars, phase, subs, heard, logbook>>
    BY DEF Push
<1>3. bus' = bus /\ removed' = removed /\ heard' = heard /\ phase' = phase
    BY <1>2 DEF storeVars
<1>4. m \in MessageRecord /\ m.task = t
  <2>1. m \in MessageRecord
      BY <1>1, <1>2 DEF TaskRecord
  <2>2. m \in OnWay(t, r, q)
      BY <1>2 DEF OnWay
  <2> QED
      BY <1>1, <2>1, <2>2 DEF InLine
<1>5. d \in TaskRecord /\ Alike(r, d) /\ d.pos = r.pos
    BY <1>1 DEF TaskRecord, Alike
<1>6. \A p \in SOCKET : queue'[p] = IF p = s THEN c ELSE queue[p]
    BY <1>2 DEF SessionInv, Shaped
<1>7. OnWay(t, d, c) = OnWay(t, r, q)
  <2> DEFINE told == heard[t].told
  <2>1. InLine(t, r, told, q)
      BY <1>1
  <2> HIDE DEF told, r, q
  <2> QED
      BY <1>1, <1>2, <2>1, OwnPush
<1>8. ASSUME NEW u \in DOMAIN tasks, u # t
      PROVE  WayOf(u)' = WayOf(u)
  <2> DEFINE x == tasks[u]
  <2>1. tasks'[u] = x /\ x.socket \in SOCKET
      BY <1>2, <1>8, TaskAt DEF SessionInv
  <2>2. OnWay(u, x, c) = OnWay(u, x, q)
    <3> HIDE DEF m, q, x
    <3> QED
        BY <1>1, <1>4, <1>8, OthersPush
  <2> HIDE DEF x, c, q, s
  <2>3. WayOf(u)' = OnWay(u, x, queue'[x.socket]) /\ WayOf(u) = OnWay(u, x, queue[x.socket])
      BY <2>1 DEF WayOf, x
  <2> QED
      BY <1>6, <2>1, <2>2, <2>3 DEF q
<1> HIDE DEF d, c
<1>9. tasks'[t] = d
    BY <1>2, <1>5, OneTaskSteady DEF SessionInv
<1>10. WayOf(t)' = WayOf(t)
  <2>1. d.socket = s
      BY <1>5 DEF Alike
  <2> QED
      BY <1>1, <1>6, <1>7, <1>9, <2>1 DEF WayOf
<1>11. ASSUME Listens(t)'
       PROVE  Follows(tasks'[t], heard'[t], WayOf(t)', bus', removed')
  <2>1. Listens(t)
      BY <1>3, <1>5, <1>9, <1>11 DEF Listens, Alike
  <2>2. Extends(bus, bus')
      BY <1>3, TaskFacts, ExtendsItself
  <2>3. tasks'[t].from = tasks[t].from /\ tasks'[t].pos = tasks[t].pos
      BY <1>5, <1>9 DEF Alike
  <2> QED
      BY <1>3, <1>10, <2>1, <2>2, <2>3, FollowsAsBefore
<1> QED
    BY <1>2, <1>3, <1>5, <1>8, <1>11, OneTaskFollows

\* A task that ends no longer follows.
LEMMA PushFailsFollows ==
    ASSUME StoreInv, SessionInv, Followed, NEW t \in DOMAIN tasks, PushFails(t)
    PROVE  Followed'
<1> DEFINE r == tasks[t]
           d == [r EXCEPT !.running = FALSE, !.hold = None]
<1>1. r \in TaskRecord
    BY TaskAt DEF SessionInv
<1>2. /\ UNCHANGED <<storeVars, phase, subs, queue, heard, logbook>>
      /\ tasks' = [tasks EXCEPT ![t].running = FALSE, ![t].hold = None]
    BY DEF PushFails
<1>3. tasks' = [tasks EXCEPT ![t] = d]
    BY <1>2
<1>4. d \in TaskRecord /\ Alike(r, d) /\ d.running = FALSE
    BY <1>1 DEF TaskRecord, Alike
<1> HIDE DEF d
<1>5. \A u \in DOMAIN tasks : u # t => WayOf(u)' = WayOf(u)
    BY <1>2, <1>3 DEF WayOf
<1>6. tasks'[t] = d
    BY <1>3, <1>4, OneTaskSteady DEF SessionInv
<1>7. ~Listens(t)'
    BY <1>4, <1>6 DEF Listens
<1> QED
    BY <1>2, <1>3, <1>4, <1>5, <1>7, OneTaskFollows DEF storeVars

\* What was removed stays noted.
LEMMA RemovedGrows == [Next]_vars => removed \subseteq removed'
BY DEF Next, vars, storeVars, SetEntityState, DeleteEntity, Call, Becomes, RemoveState,
   Connect, Authenticate, Deliver, Close, Unsubscribe, Subscribe, Receive, Lag, Push,
   PushFails, Record, RecorderLags, Report, RecordReport

\* No step opens a gap between a snapshot and the events that follow it.
LEMMA FollowedStep == StoreInv /\ SessionInv /\ Followed /\ [Next]_vars => Followed'
<1> SUFFICES ASSUME StoreInv, SessionInv, Followed, [Next]_vars PROVE Followed'
    OBVIOUS
<1>1. Extends(bus, bus') /\ removed \subseteq removed'
    BY StoreStep, RemovedGrows
<1>2. ASSUME UNCHANGED <<queue, tasks, heard>>,
             \A t \in DOMAIN tasks : phase'[tasks[t].socket] = phase[tasks[t].socket]
      PROVE  Followed'
  <2> SUFFICES ASSUME NEW t \in DOMAIN tasks
               PROVE  /\ phase'[tasks'[t].socket] \in {"active", "closed"}
                      /\ Listens(t)' => Follows(tasks'[t], heard'[t], WayOf(t)', bus', removed')
      BY <1>2 DEF Followed
  <2>1. phase'[tasks'[t].socket] \in {"active", "closed"} /\ (Listens(t)' <=> Listens(t))
      BY <1>2 DEF Followed, Listens
  <2>2. WayOf(t)' = WayOf(t)
      BY <1>2 DEF WayOf
  <2> QED
      BY <1>1, <1>2, <2>1, <2>2, FollowsAsBefore
<1>3. CASE UNCHANGED sessionVars
    BY <1>2, <1>3 DEF sessionVars
<1>4. ASSUME NEW s \in SOCKET, Connect(s) \/ Authenticate(s)
      PROVE  Followed'
  <2>1. \A t \in DOMAIN tasks : tasks[t].socket # s
      BY <1>4 DEF Followed, Connect, Authenticate
  <2>2. \A t \in DOMAIN tasks : phase'[tasks[t].socket] = phase[tasks[t].socket]
    <3> TAKE t \in DOMAIN tasks
    <3>1. tasks[t].socket \in SOCKET /\ tasks[t].socket # s
        BY <2>1, TaskAt DEF SessionInv
    <3> QED
        BY <1>4, <3>1 DEF SessionInv, Shaped, Connect, Authenticate
  <2> QED
      BY <1>2, <1>4, <2>2 DEF Connect, Authenticate
<1>5. ASSUME NEW s \in SOCKET, Deliver(s)
      PROVE  Followed'
    BY <1>5, DeliverFollows
<1>6. ASSUME NEW s \in SOCKET, Close(s)
      PROVE  Followed'
  <2>1. \A p \in SOCKET : \/ phase'[p] = "closed"
                          \/ phase'[p] = phase[p] /\ queue'[p] = queue[p]
      BY <1>6 DEF Close, SessionInv, Shaped
  <2> DEFINE ts == {subs[s][i] : i \in SUBID}
  <2>2. tasks' = Aborted(ts) /\ UNCHANGED <<storeVars, heard>>
      BY <1>6 DEF Close
  <2> HIDE DEF ts
  <2> QED
      BY <2>1, <2>2, AbortedFollow
<1>7. ASSUME NEW s \in SOCKET, NEW i \in SUBID, Unsubscribe(s, i)
      PROVE  Followed'
  <2> DEFINE ts == {subs[s][i]}
  <2>1. tasks' = Aborted(ts) /\ UNCHANGED <<storeVars, heard, phase, queue>>
      BY <1>7 DEF Unsubscribe
  <2> HIDE DEF ts
  <2> QED
      BY <2>1, AbortedFollow
<1>8. ASSUME NEW s \in SOCKET, NEW i \in SUBID, NEW k \in ASKED, Subscribe(s, i, k)
      PROVE  Followed'
    BY <1>8, SubscribeFollows
<1>9. ASSUME NEW t \in DOMAIN tasks, Receive(t) \/ Lag(t) \/ Push(t) \/ PushFails(t)
      PROVE  Followed'
    BY <1>9, ReceiveFollows, LagFollows, PushFollows, PushFailsFollows
<1>10. \/ UNCHANGED sessionVars
       \/ \E s \in SOCKET :
             \/ Connect(s) \/ Authenticate(s) \/ Deliver(s) \/ Close(s)
             \/ \E i \in SUBID : Unsubscribe(s, i) \/ \E k \in ASKED : Subscribe(s, i, k)
       \/ \E t \in DOMAIN tasks : Receive(t) \/ Lag(t) \/ Push(t) \/ PushFails(t)
    BY DEF Next, vars, SetEntityState, DeleteEntity, Call, Record, RecorderLags, Report,
       RecordReport
<1> QED
    BY <1>3, <1>4, <1>5, <1>6, <1>7, <1>8, <1>9, <1>10

\* A client that has heard all there is, and whose task has read all there is,
\* believes what get_states would tell it.
LEMMA HeardAllIsCurrent == StoreInv /\ SessionInv /\ Followed => MirrorIsCurrent
<1> SUFFICES ASSUME StoreInv, SessionInv, Followed, NEW t \in DOMAIN tasks, Listens(t),
                    tasks[t].pos = Len(bus), InFlight(t) = << >>, heard[t].told >= 0,
                    NEW e \in ENTITY
             PROVE  \/ \E n \in 0..Len(bus) : <<e, n>> \in removed /\ EventsOf(e) \subseteq 1..n
                    \/ e \notin DOMAIN GetStates \cup DOMAIN heard[t].mirror
                    \/ /\ e \in DOMAIN GetStates \cap DOMAIN heard[t].mirror
                       /\ heard[t].mirror[e] = GetStates[e]
                    \/ Latest(EventsOf(e)) \in heard[t].lost
    BY DEF MirrorIsCurrent, Listens
<1> DEFINE r == tasks[t]
           f == heard[t].mirror
           told == heard[t].told
           lost == heard[t].lost
           S == EventsIn(bus, e)
           N == Len(bus)
<1>1. /\ bus \in Seq(EventRecord) /\ N \in Nat /\ r.from \in Nat /\ r.from <= N
      /\ told \in Nat /\ told <= N
    BY TaskFacts
<1>2. S \in SUBSET 1..N /\ EventsOf(e) = S /\ \A k \in S : bus[k].new \in StateRecord
  <2>1. S \in SUBSET 1..N /\ EventsOf(e) = S
      BY <1>1 DEF EventsIn, EventsOf
  <2>2. \A k \in 1..N : bus[k] \in EventRecord
      BY <1>1
  <2> QED
      BY <2>1, <2>2 DEF EventRecord
<1>3. \A m \in WayOf(t) : FALSE
  <2>1. /\ InLine(t, tasks[t], heard[t].told, queue[tasks[t].socket]) /\ Shaped
      BY DEF SessionInv, Lined
  <2> DEFINE l == InFlight(t)
  <2>2. \A m \in OnWay(t, tasks[t], queue[tasks[t].socket]) : \E n \in DOMAIN l : l[n] = m
      BY <2>1, InFlightIsOnWay
  <2>3. DOMAIN l = {}
      OBVIOUS
  <2> QED
      BY <2>2, <2>3 DEF WayOf
<1>4. /\ r.from <= told /\ Mirrors(f, told, lost, bus, removed)
      /\ \A n \in (r.from + 1)..N : n <= told \/ n \in lost
  <2>1. Follows(r, heard[t], WayOf(t), bus, removed) /\ told # -1 /\ r.pos = N
      BY <1>1 DEF Followed
  <2> QED
      BY <1>3, <2>1 DEF Follows
<1>5. \A n \in 1..N : n <= told \/ n \in lost
  <2> HIDE DEF told, lost, N, r
  <2> TAKE n \in 1..N
  <2>1. n <= r.from \/ n \in (r.from + 1)..N
      BY <1>1
  <2> QED
      BY <1>1, <1>4, <2>1
<1>6. Says(bus, removed, e, N + 1, states[e])
    BY StoreTyped DEF StoreInv, SoundStore
<1>7. DOMAIN GetStates = {d \in ENTITY : states[d] # None} /\ \A d \in DOMAIN GetStates : GetStates[d] = states[d]
    BY DEF GetStates
<1>8. IF e \in DOMAIN f
      THEN \E k \in S : /\ k <= told /\ f[e] = bus[k].new
                        /\ \A j \in S : k < j /\ j <= told => j \in lost
      ELSE \A j \in S : j <= told => j \in lost \/ \E i \in j..N : <<e, i>> \in removed
    BY <1>4 DEF Mirrors
<1>9. CASE S = {}
  <2>1. e \notin DOMAIN f
      BY <1>8, <1>9
  <2>2. states[e] = None
      BY <1>6, <1>9 DEF Says
  <2> QED
      BY <1>7, <2>1, <2>2
<1>10. CASE S # {}
  <2> DEFINE k == Latest(S)
  <2>1. k \in S /\ (\A j \in S : j <= k) /\ k \in 1..N
    <3> HIDE DEF S, N
    <3> QED
        BY <1>1, <1>2, <1>10, LastExists DEF IsLast
  <2> HIDE DEF k
  <2> SUFFICES ASSUME k \notin lost
               PROVE  \/ \E n \in 0..N : <<e, n>> \in removed /\ S \subseteq 1..n
                      \/ /\ e \in DOMAIN GetStates \cap DOMAIN f
                         /\ f[e] = GetStates[e]
      BY <1>2 DEF k
  <2>2. k <= told /\ k \in Nat /\ k < N + 1
      BY <1>1, <1>5, <2>1
  <2>3. CASE \E j \in k..N : <<e, j>> \in removed
    <3>1. PICK j \in k..N : <<e, j>> \in removed
        BY <2>3
    <3>2. j \in 0..N /\ k <= j
        BY <1>1, <2>2
    <3>3. S \subseteq 1..j
      <4> SUFFICES ASSUME NEW i \in S PROVE i \in 1..j
          OBVIOUS
      <4>1. i \in 1..N /\ i <= k
          BY <1>2, <2>1
      <4> HIDE DEF N, S
      <4> QED
          BY <1>1, <2>2, <3>2, <4>1
    <3> QED
        BY <3>1, <3>2, <3>3
  <2>4. CASE ~ \E j \in k..N : <<e, j>> \in removed
    <3>1. states[e] = bus[k].new
      <4>1. ~ \A x \in S : x < N + 1 => \E j \in x..((N + 1) - 1) : <<e, j>> \in removed
        <5>1. (N + 1) - 1 = N
            BY <1>1
        <5> QED
            BY <2>1, <2>2, <2>4, <5>1
      <4>2. PICK x \in S : /\ x < N + 1 /\ states[e] = bus[x].new
                           /\ \A j \in S : j < N + 1 => j <= x
          BY <1>6, <4>1 DEF Says
      <4>3. x <= k /\ k <= x /\ x \in Nat
          BY <1>2, <2>1, <2>2, <4>2
      <4>4. x = k
          BY <2>2, <4>3
      <4> QED
          BY <4>2, <4>4
    <3>2. bus[k].new # None
      <4>1. None \notin StateRecord
          BY NoneAssumption
      <4> QED
          BY <1>2, <2>1, <4>1
    <3>3. e \in DOMAIN GetStates /\ GetStates[e] = bus[k].new
        BY <1>7, <3>1, <3>2
    <3>4. e \in DOMAIN f
        BY <1>8, <2>1, <2>2, <2>4
    <3>5. PICK x \in S : /\ x <= told /\ f[e] = bus[x].new
                         /\ \A j \in S : x < j /\ j <= told => j \in lost
        BY <1>8, <3>4
    <3>6. ~(x < k) /\ x <= k /\ x \in Nat
        BY <1>2, <2>1, <2>2, <3>5
    <3>7. x = k
        BY <2>2, <3>6
    <3> QED
        BY <3>3, <3>4, <3>5, <3>7
  <2> QED
      BY <2>3, <2>4
<1> QED
    BY <1>9, <1>10

\* Nobody listens to begin with.
LEMMA FollowedInitially == Init => Followed
<1> SUFFICES ASSUME Init PROVE Followed
    OBVIOUS
<1>1. DOMAIN tasks = {}
    BY DEF Init
<1> QED
    BY <1>1 DEF Followed

\* Snapshot and receiver leave no gap: a client that heard all that was sent to it
\* believes what get_states would tell it, but for what the channel overwrote and
\* for removed entities (ha_ws.rs, subscribe_entities).
THEOREM MirrorIsEverCurrent == Spec => []MirrorIsCurrent
<1>1. Init => StoreInv /\ SessionInv /\ Followed
    BY StoreInitially, SessionInitially, FollowedInitially
<1>2. StoreInv /\ SessionInv /\ Followed /\ [Next]_vars => StoreInv' /\ SessionInv' /\ Followed'
    BY StoreStep, SessionStep, FollowedStep
<1>3. StoreInv /\ SessionInv /\ Followed => MirrorIsCurrent
    BY HeardAllIsCurrent
<1> QED
    BY <1>1, <1>2, <1>3, PTL DEF Spec
===============================================================================
